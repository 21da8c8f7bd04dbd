-------------------------- MODULE Authoring_proofs ---------------------------
(***************************************************************************)
(* For every project and every command line: what validation says of the   *)
(* output: block and of the tag expressions is what a run does with them,  *)
(* a dry run changes nothing that is not declared harmless, what           *)
(* validation lets pass is bound when a step reads it, and what it blames  *)
(* is not.                                                                 *)
(***************************************************************************)
EXTENDS Authoring_lemmas

(* The steps of the run itself: what was settled before it stays.          *)
RunStep ==
  \/ OpenSection \/ NextSection
  \/ GuardSkips \/ DrySkip \/ Unevaluated
  \/ OpenBlock \/ NextBranch \/ JoinBranches \/ EndRepeat
  \/ CallFails \/ CallVerb \/ CallComposed \/ ReturnComposed

LEMMA RunFrame ==
  ASSUME RunStep
  PROVE  phase = "run" /\ phase' \in {"run", "end"} /\ UNCHANGED <<case, set, findings, chosen, specs>>
  <1>1. CASE OpenSection
    BY <1>1 DEF OpenSection
  <1>2. CASE NextSection
    <2>1. phase = "run" /\ UNCHANGED <<case, set, findings, chosen, specs>>
      BY <1>2 DEF NextSection
    <2>2. phase' = "end" \/ phase' = phase
      BY <1>2 DEF NextSection
    <2>3. QED
      BY <2>1, <2>2
  <1>3. CASE GuardSkips
    BY <1>3 DEF GuardSkips, At, EndStep
  <1>4. CASE DrySkip
    BY <1>4 DEF DrySkip, At, EndStep
  <1>5. CASE Unevaluated
    BY <1>5 DEF Unevaluated, At, EndStep
  <1>6. CASE OpenBlock
    BY <1>6 DEF OpenBlock, At, EndStep
  <1>7. CASE NextBranch
    BY <1>7 DEF NextBranch, Ends
  <1>8. CASE JoinBranches
    BY <1>8 DEF JoinBranches, Ends, CloseBlock
  <1>9. CASE EndRepeat
    BY <1>9 DEF EndRepeat, Ends, CloseBlock
  <1>10. CASE CallFails
    BY <1>10 DEF CallFails, At, EndStep
  <1>11. CASE CallVerb
    BY <1>11 DEF CallVerb, At, EndStep
  <1>12. CASE CallComposed
    BY <1>12 DEF CallComposed, At
  <1>13. CASE ReturnComposed
    BY <1>13 DEF ReturnComposed, Ends, EndStep
  <1>14. QED
    BY <1>1, <1>2, <1>3, <1>4, <1>5, <1>6, <1>7, <1>8, <1>9, <1>10, <1>11, <1>12, <1>13 DEF RunStep

LEMMA StepKinds ==
  [Next]_vars => LoadProject \/ ValidateProject \/ Settle \/ RunStep \/ UNCHANGED vars
  BY DEF Next, RunStep

-----------------------------------------------------------------------------
(* The output: block.                                                      *)
OutputInv ==
  /\ Validated => findings.project = CheckOutput(Project.output) \cup CheckDefs(set.providers, Project)
  /\ phase = "output" => OutputRefused(Project.output, case.flags)
  /\ phase \in {"run", "end", "tags", "target"} => ~OutputRefused(Project.output, case.flags)

LEMMA OutputInit == Init => OutputInv
  BY DEF Init, OutputInv, Validated

LEMMA OutputStep == OutputInv /\ [Next]_vars => OutputInv'
  <1> SUFFICES ASSUME OutputInv, [Next]_vars PROVE OutputInv'
    OBVIOUS
  <1>1. CASE LoadProject
    <2>1. phase' \in {"validate", "refused"}
      BY <1>1 DEF LoadProject
    <2>2. QED
      BY <2>1 DEF OutputInv, Validated
  <1>2. CASE ValidateProject
    <2>1. /\ phase' = "settle" /\ UNCHANGED set
          /\ findings'.project = CheckOutput(Project.output) \cup CheckDefs(set.providers, Project)
      BY <1>2 DEF ValidateProject, OneReportEach
    <2>2. Project' = Project
      BY <2>1 DEF Project
    <2>3. QED
      BY <2>1, <2>2 DEF OutputInv
  <1>3. CASE Settle
    <2> DEFINE refused == OutputRefused(Project.output, case.flags)
    <2>1. phase = "settle" /\ UNCHANGED <<case, set, findings>>
      BY <1>3 DEF Settle, Launch
    <2>2. Project' = Project /\ refused' = refused
      BY <2>1 DEF Project
    <2> HIDE DEF refused
    <2>3. Refusal = "none" => phase' \in {"run", "end"}
      BY <1>3 DEF Settle, Launch
    <2>4. Refusal # "none" => phase' = Refusal
      BY <1>3 DEF Settle, Launch
    <2>5. /\ Refusal = "output" => refused
          /\ Refusal \in {"none", "tags", "target"} => ~refused
          /\ Refusal \in {"none", "tags", "target", "output", "env"}
      BY DEF Refusal, refused
    <2>6. phase' = "output" => refused
      BY <2>3, <2>4, <2>5
    <2>7. phase' \in {"run", "end", "tags", "target"} => ~refused
      BY <2>3, <2>4, <2>5
    <2>8. Validated /\ findings' = findings /\ set' = set
      BY <2>1 DEF Validated
    <2>9. QED
      BY <2>2, <2>6, <2>7, <2>8 DEF OutputInv, refused
  <1>4. CASE RunStep
    <2>1. phase = "run" /\ phase' \in {"run", "end"} /\ UNCHANGED <<case, set, findings>>
      BY <1>4, RunFrame
    <2>2. Project' = Project
      BY <2>1 DEF Project
    <2>3. QED
      BY <2>1, <2>2 DEF OutputInv, Validated
  <1>5. CASE UNCHANGED vars
    <2>1. Project' = Project
      BY <1>5 DEF Project, vars
    <2>2. QED
      BY <2>1, <1>5 DEF OutputInv, Validated, vars
  <1>6. QED
    BY <1>1, <1>2, <1>3, <1>4, <1>5, StepKinds

LEMMA OutputSafe == OutputInv => OutputAsValidated
  <1> SUFFICES ASSUME OutputInv PROVE OutputAsValidated
    OBVIOUS
  <1> DEFINE rules == {f.rule : f \in findings.project}
             own == {f.rule : f \in CheckOutput(Project.output)}
  <1>1. Validated => rules = own \cup {f.rule : f \in CheckDefs(set.providers, Project)}
    BY DEF OutputInv
  <1>2. Validated => own \subseteq rules /\ (17 \in rules => 17 \in own)
    BY <1>1, DefsRules
  <1>3. /\ OutputRefused(Project.output, case.flags) => 17 \in own \/ 18 \in own
        /\ 17 \in own /\ case.flags.otlp = "" => OutputRefused(Project.output, case.flags)
    BY OutputRules DEF RulesOf
  <1>4. phase \in {"output", "run", "end", "tags", "target"} => Validated
    BY DEF Validated
  <1> HIDE DEF own
  <1>5. QED
    BY <1>2, <1>3, <1>4 DEF OutputInv, OutputAsValidated

(* The output: block of a project without errors never stops a run.        *)
THEOREM OutputRight == Spec => []OutputAsValidated
  <1>1. Spec => []OutputInv
    BY OutputInit, OutputStep, PTL DEF Spec
  <1>2. QED
    BY <1>1, OutputSafe, PTL

-----------------------------------------------------------------------------
(* The run set.                                                            *)
CaseRight ==
  /\ case.docs \in Seq(Range(case.docs)) /\ case.flags.targets \in Seq(Range(case.flags.targets))
  /\ {case.flags.include, case.flags.exclude} \subseteq Seq(Tags \cup Operators)
  /\ \A d \in Range(case.docs) :
       /\ d.class \in Classes
       /\ d.class = "Scenario" => {d.setup, d.steady, d.method, d.verify, d.teardown} \subseteq Seq(Steps)
       /\ d.class = "Provider" =>
            \A cv \in Range(d.verbs) : cv.body \in Seq(Steps) /\ cv.params \in Seq(STRING)

Refused == Malformed(case.flags.include) \/ Malformed(case.flags.exclude)

LoadInv == CaseRight /\ set \in Sets(case.docs)

SelectionInv ==
  /\ LoadInv
  /\ phase = "tags" => Refused
  /\ phase \in {"run", "end"} => ~Refused /\ chosen = Selected

LEMMA SelectionInit == Init => SelectionInv
  <1> SUFFICES ASSUME Init PROVE SelectionInv
    OBVIOUS
  <1>1. PICK family \in Families : case \in family
    BY DEF Init
  <1>2. CaseRight
    <2>1. \A d \in Range(case.docs) : \E i \in DOMAIN case.docs : case.docs[i] = d
      BY DEF Range
    <2>2. QED
      BY <1>1, <2>1, FamiliesAssumption DEF CaseRight, Classes
  <1>3. EmptySet \in Sets(case.docs)
    <2>1. \A S : <<>> \in Seq(S)
      OBVIOUS
    <2>2. QED
      BY <2>1 DEF EmptySet, Sets
  <1>4. QED
    BY <1>2, <1>3 DEF Init, SelectionInv, LoadInv

LEMMA LoadStep ==
  ASSUME LoadInv, [Next]_vars
  PROVE  LoadInv'
  <1>1. CASE LoadProject
    <2>1. case' = case /\ set' = Load(case.docs).set
      BY <1>1 DEF LoadProject
    <2>2. Load(case.docs).set \in Sets(case.docs)
      BY LoadSets DEF LoadInv, CaseRight
    <2>3. QED
      BY <2>1, <2>2 DEF LoadInv, CaseRight
  <1>2. ASSUME UNCHANGED <<case, set>> PROVE LoadInv'
    BY <1>2 DEF LoadInv, CaseRight
  <1>3. ValidateProject \/ Settle \/ RunStep \/ UNCHANGED vars => UNCHANGED <<case, set>>
    BY RunFrame DEF ValidateProject, OneReportEach, Settle, Launch, vars
  <1>4. QED
    BY <1>1, <1>2, <1>3, StepKinds

LEMMA SelectionStep == SelectionInv /\ [Next]_vars => SelectionInv'
  <1> SUFFICES ASSUME SelectionInv, [Next]_vars PROVE SelectionInv'
    OBVIOUS
  <1>1. LoadInv'
    BY LoadStep DEF SelectionInv
  <1>2. ASSUME UNCHANGED <<case, set>> PROVE Refused' = Refused /\ Selected' = Selected
    BY <1>2 DEF Refused, Selected, Malformed, Matches
  <1>3. CASE LoadProject
    <2>1. phase' \in {"validate", "refused"}
      BY <1>3 DEF LoadProject
    <2>2. QED
      BY <1>1, <2>1 DEF SelectionInv
  <1>4. CASE ValidateProject
    <2>1. phase' = "settle"
      BY <1>4 DEF ValidateProject, OneReportEach
    <2>2. QED
      BY <1>1, <2>1 DEF SelectionInv
  <1>5. CASE Settle
    <2>1. UNCHANGED <<case, set>>
      BY <1>5 DEF Settle, Launch
    <2>2. Refusal # "none" => phase' = Refusal
      BY <1>5 DEF Settle, Launch
    <2>3. Refusal = "none" => chosen' = Selected /\ phase' \in {"run", "end"}
      BY <1>5 DEF Settle, Launch
    <2>4. /\ Refusal \in {"env", "output", "target", "tags", "none"}
          /\ Refusal = "tags" => Refused
          /\ Refusal = "none" => ~Refused
      BY DEF Refusal, Refused
    <2>5. phase' = "tags" => Refused
      BY <2>2, <2>3, <2>4
    <2>6. phase' \in {"run", "end"} => ~Refused /\ chosen' = Selected
      BY <2>2, <2>3, <2>4
    <2>7. QED
      BY <1>1, <1>2, <2>1, <2>5, <2>6 DEF SelectionInv
  <1>6. CASE RunStep
    <2>1. phase = "run" /\ phase' \in {"run", "end"} /\ UNCHANGED <<case, set, chosen>>
      BY <1>6, RunFrame
    <2>2. QED
      BY <1>1, <1>2, <2>1 DEF SelectionInv
  <1>7. CASE UNCHANGED vars
    <2>1. UNCHANGED <<case, set, chosen, phase>>
      BY <1>7 DEF vars
    <2>2. QED
      BY <1>1, <1>2, <2>1 DEF SelectionInv
  <1>8. QED
    BY <1>3, <1>4, <1>5, <1>6, <1>7, StepKinds

LEMMA MatchesMeans ==
  ASSUME NEW expr \in Seq(Tags \cup Operators)
  PROVE  /\ Malformed(expr) <=> Given(expr) /\ Meaning(expr) = {}
         /\ Given(expr) /\ ~Malformed(expr) => \A sc : Matches(expr, sc) <=> MeansTags(expr, sc)
  <1>1. /\ Compile(expr).ok <=> Meaning(expr) # {}
        /\ Compile(expr).ok => Meaning(expr) = {Compile(expr).sat}
    BY ParserIsRight
  <1>2. \A S : UNION {S} = S
    OBVIOUS
  <1>3. QED
    BY <1>1, <1>2 DEF Malformed, Matches, MeansTags

LEMMA SelectionSafe == SelectionInv => SelectionAgrees
  <1> SUFFICES ASSUME SelectionInv PROVE SelectionAgrees
    OBVIOUS
  <1> DEFINE flags == case.flags
             scs == set.scenarios
             some == SelectScenarios(scs, flags.targets)
             wanted(sc) == /\ Given(flags.include) => MeansTags(flags.include, sc)
                           /\ Given(flags.exclude) => ~MeansTags(flags.exclude, sc)
  <1>1. flags.include \in Seq(Tags \cup Operators) /\ flags.exclude \in Seq(Tags \cup Operators)
    BY DEF SelectionInv, LoadInv, CaseRight
  <1>2. scs \in Seq(Range(scs)) /\ flags.targets \in Seq(Range(flags.targets))
    <2>1. scs \in Seq(Listed(case.docs))
      BY DEF SelectionInv, LoadInv, Sets
    <2>2. scs \in Seq(Range(scs))
      BY <2>1 DEF Range
    <2>3. QED
      BY <2>2 DEF SelectionInv, LoadInv, CaseRight
  <1>3. some \in Seq(Range(scs))
    BY <1>2, SelectedAreSome
  <1>4. Range(some) \subseteq Range(scs)
    BY <1>3 DEF Range
  <1>5. /\ \A e \in {flags.include, flags.exclude} : Malformed(e) <=> Given(e) /\ Meaning(e) = {}
        /\ \A e \in {flags.include, flags.exclude} :
             Given(e) /\ ~Malformed(e) => \A sc : Matches(e, sc) <=> MeansTags(e, sc)
    BY <1>1, MatchesMeans
  <1>6. Refused <=> Malformed(flags.include) \/ Malformed(flags.exclude)
    BY DEF Refused
  <1> DEFINE inc == {sc \in Range(scs) : Given(flags.include) => Matches(flags.include, sc)}
             exc == {sc \in Range(scs) : Given(flags.exclude) /\ Matches(flags.exclude, sc)}
  <1>7. Range(Selected) = Range(some) \cap (inc \ exc)
    <2>1. Selected = Those(some, inc \ exc)
      BY DEF Selected, Filter
    <2> HIDE DEF inc, exc, some
    <2>2. QED
      BY <1>3, <2>1, ThoseAre
  <1>8. ASSUME ~Refused PROVE Range(Selected) = {sc \in Range(some) : wanted(sc)}
    <2> HIDE DEF some, scs, flags
    <2>1. \A sc \in Range(scs) : sc \in inc \ exc <=> wanted(sc)
      BY <1>5, <1>6, <1>8
    <2> HIDE DEF inc, exc, wanted
    <2>2. QED
      BY <1>4, <1>7, <2>1
  <1>9. phase = "tags" => \E e \in {flags.include, flags.exclude} : Given(e) /\ Meaning(e) = {}
    BY <1>5, <1>6 DEF SelectionInv
  <1>10. ~Refused => \A e \in {flags.include, flags.exclude} : Given(e) => Meaning(e) # {}
    BY <1>5, <1>6
  <1> HIDE DEF inc, exc
  <1>11. QED
    BY <1>8, <1>9, <1>10 DEF SelectionInv, SelectionAgrees, MeansTags

(* What is run is exactly what the targets and the tag expressions, read   *)
(* by their outermost operators, select; an expression is refused exactly  *)
(* when it means nothing.                                                  *)
THEOREM SelectionRight == Spec => []SelectionAgrees
  <1>1. Spec => []SelectionInv
    BY SelectionInit, SelectionStep, PTL DEF Spec
  <1>2. QED
    BY <1>1, SelectionSafe, PTL

StackOk ==
  /\ sections \in Seq(Headings) /\ (stack # <<>> => sections # <<>>)
  /\ stack \in Seq(Frames) /\ Shape(stack)

Unstarted ==
  stack = <<>> /\ sections = <<>> /\ missed = {} /\ lost = {} /\ unbound = {} /\ did = {}

RunInv ==
  /\ SelectionInv
  /\ phase \notin {"run", "end"} => Unstarted
  /\ phase = "run" =>
       /\ chosen # <<>> /\ Scenario \in Of(case.docs, "Scenario")
       /\ specs = Specs(Insts) /\ NewErrors(set.providers, Merged(Scenario)) = {}
       /\ StackOk

LEMMA BodyIs ==
  ASSUME NEW f \in Frames, NEW st \in Steps, Times(st) \in Nat
  PROVE  /\ Body(f, st) \in Frames /\ Body(f, st).kind = "body"
         /\ Body(f, st).todo = Copies(st.do, Times(st)) /\ Body(f, st).rest = <<>>
         /\ Body(f, st).outputs = f.outputs /\ Body(f, st).writes = f.writes
         /\ Body(f, st).via = f.via /\ Body(f, st).params = f.params
         /\ Body(f, st).stop = st.stopOnFail /\ Body(f, st).failed = FALSE
  <1> DEFINE todo == Copies(st.do, Times(st))
             stop == st.stopOnFail
             b == Frame("body", todo, f.outputs, f.params, stop, f.via)
             g == Body(f, st)
  <1>1. todo \in Seq(Steps) /\ stop \in BOOLEAN
    <2>1. st.do \in Seq(Steps) /\ stop \in BOOLEAN
      BY StepsAssumption
    <2> DEFINE n == Times(st)  do == st.do
    <2>2. do \in Seq(Steps) /\ n \in Nat /\ todo = Copies(do, n)
      BY <2>1
    <2> HIDE DEF n, do, todo
    <2>3. \E copies \in [0..n -> Seq(Steps)] :
            (\A k \in 0..n : copies[k] = Copied(do, k, copies[k - 1])) /\ Copies(do, n) = copies[n]
      BY ONLY <2>2, CopiesAre
    <2>4. PICK copies \in [0..n -> Seq(Steps)] : Copies(do, n) = copies[n]
      BY <2>3
    <2>5. todo \in Seq(Steps)
      BY <2>2, <2>4
    <2>6. QED
      BY <2>1, <2>5
  <1>f. f.outputs \in SUBSET STRING /\ f.params \in SUBSET STRING /\ f.via \in {"plain", "declared"}
        /\ f.writes \in SUBSET STRING
    BY DEF Frames
  <1>b. b = [kind |-> "body", todo |-> todo, outputs |-> f.outputs, writes |-> {}, params |-> f.params,
             stop |-> stop, via |-> f.via, failed |-> FALSE, rest |-> <<>>, wrote |-> {}]
    BY DEF Frame
  <1>g. g = [b EXCEPT !.writes = f.writes]
    BY DEF Body
  <1>r. <<>> \in Seq(Seq(Steps))
    OBVIOUS
  <1> HIDE DEF b, g, todo, stop
  <1>2. /\ DOMAIN g = DOMAIN b /\ g = [x \in DOMAIN g |-> g[x]]
        /\ g.kind = "body" /\ g.todo = todo /\ g.outputs = f.outputs /\ g.writes = f.writes
        /\ g.params = f.params /\ g.stop = stop /\ g.via = f.via /\ g.failed = FALSE
        /\ g.rest = <<>> /\ g.wrote = {}
    BY <1>b, <1>g
  <1>d. DOMAIN b = {"kind", "todo", "outputs", "writes", "params", "stop", "via", "failed", "rest", "wrote"}
    BY <1>b
  <1>3. g \in Frames
    BY <1>1, <1>2, <1>f, <1>d, <1>r DEF Frames, FrameKinds
  <1>4. QED
    BY <1>2, <1>3 DEF g, todo, stop

LEMMA ComposedIs ==
  ASSUME CaseRight, NEW defs \in Seq(Of(case.docs, "Provider")), NEW providers, NEW run,
         IsComposed(Instances(defs, providers), run), Exists(Instances(defs, providers), run)
  PROVE  /\ VerbOf(Instances(defs, providers), run).body \in Seq(Steps)
         /\ VerbOf(Instances(defs, providers), run).params \in Seq(STRING)
         /\ VerbOf(Instances(defs, providers), run).body \in Bodies(Instances(defs, providers))
  <1> DEFINE insts == Instances(defs, providers)
             d == insts[run[1]].def[1]
             cv == VerbOf(insts, run)
  <1>1. run[1] \in DOMAIN insts /\ insts[run[1]].def # <<>> /\ run[2] \in DOMAIN Verbs(insts[run[1]])
    BY DEF IsComposed, Exists
  <1>2. d \in Of(case.docs, "Provider")
    <2> DEFINE docs == case.docs  n == run[1]
    <2>1. n \in DOMAIN Instances(defs, providers) /\ defs \in Seq(Of(docs, "Provider"))
      BY <1>1
    <2>2. Instances(defs, providers)[n].def # <<>>
      BY <1>1
    <2> HIDE DEF docs, n
    <2>3. Instances(defs, providers)[n].def[1] \in Of(docs, "Provider")
      BY <2>1, <2>2, InstanceIs
    <2>4. QED
      BY <2>3 DEF docs, n
  <1>3. Verbs(insts[run[1]]) = d.verbs
    BY <1>1 DEF Verbs
  <1>4. cv \in Range(d.verbs)
    <2>1. cv = d.verbs[run[2]] /\ run[2] \in DOMAIN d.verbs
      BY <1>1, <1>3 DEF VerbOf
    <2> HIDE DEF cv, d
    <2>2. QED
      BY <2>1 DEF Range
  <1> HIDE DEF insts, d, cv
  <1>5. d \in Range(case.docs) /\ d.class = "Provider"
    BY <1>2 DEF Of
  <1>6. cv.body \in Seq(Steps) /\ cv.params \in Seq(STRING)
    <2>1. \A e \in Range(case.docs) : e.class = "Provider" =>
            \A c \in Range(e.verbs) : c.body \in Seq(Steps) /\ c.params \in Seq(STRING)
      BY DEF CaseRight
    <2>2. QED
      BY <1>4, <1>5, <2>1
  <1>7. cv.body \in Bodies(insts)
    <2>1. cv \in UNION {Range(Verbs(insts[n])) : n \in {m \in DOMAIN insts : insts[m].def # <<>>}}
      BY <1>1, <1>3, <1>4
    <2>2. QED
      BY <2>1 DEF Bodies
  <1>8. QED
    BY <1>6, <1>7 DEF insts, cv

-----------------------------------------------------------------------------
(* What a step does to the stack.                                          *)
LEMMA TopIs ==
  ASSUME StackOk, stack # <<>>
  PROVE  Top \in Frames /\ Top = stack[Len(stack)] /\ Len(stack) \in Nat \ {0}
  <1>1. stack \in Seq(Frames)
    BY DEF StackOk
  <1>2. Top = stack[Len(stack)]
    BY DEF Top, Last
  <1>3. \A S : \A s \in Seq(S) : s # <<>> => s[Len(s)] \in S /\ Len(s) \in Nat \ {0}
    OBVIOUS
  <1>4. QED
    BY <1>1, <1>2, <1>3

LEMMA StepIs ==
  ASSUME StackOk, At
  PROVE  Step0 \in Steps /\ Step0 \in Range(Top.todo) /\ Top.todo \in Seq(Steps) /\ Step0.binds \in SUBSET STRING
  <1>1. Top \in Frames /\ Top.todo # <<>>
    BY TopIs DEF At
  <1>2. Top.todo \in Seq(Steps)
    BY <1>1 DEF Frames
  <1>3. \A S : \A s \in Seq(S) : s # <<>> => Head(s) \in S /\ Head(s) \in Range(s)
    BY DEF Range
  <1>4. Step0 \in Steps /\ Step0 \in Range(Top.todo)
    BY <1>1, <1>2, <1>3 DEF Step0
  <1>5. QED
    BY <1>2, <1>4, StepsAssumption

(* The step at the head of the top frame ends.                             *)
Turn(ok, bad, binds) ==
  /\ At /\ ok \in BOOLEAN /\ bad \in BOOLEAN /\ binds \in SUBSET STRING
  /\ EndStep(Front(stack), Top, ok, bad, binds)

SomeTurn == \E ok, bad \in BOOLEAN : \E binds \in SUBSET STRING : Turn(ok, bad, binds)

LEMMA TurnStack ==
  ASSUME StackOk, NEW ok, NEW bad, NEW binds, Turn(ok, bad, binds)
  PROVE  /\ stack' = Swap(stack, After(Top, ok, bad, binds)) /\ After(Top, ok, bad, binds) \in Frames
         /\ UNCHANGED sections /\ StackOk'
  <1> DEFINE g == After(Top, ok, bad, binds)
  <1>1. stack # <<>> /\ Top \in Frames /\ Top.todo # <<>> /\ Top = stack[Len(stack)]
    BY TopIs DEF Turn, At
  <1>2. g \in Frames /\ g.kind = Top.kind
    BY <1>1, AfterIs DEF Turn
  <1>3. stack' = Swap(stack, g) /\ sections' = sections
    BY DEF Turn, EndStep, Swap
  <1> HIDE DEF g
  <1>4. stack \in Seq(Frames) /\ Shape(stack) /\ g.kind = stack[Len(stack)].kind
    BY <1>1, <1>2 DEF StackOk
  <1>5. Shape(Swap(stack, g))
    BY <1>1, <1>2, <1>4, SwapShape
  <1>6. Swap(stack, g) \in Seq(Frames)
    BY <1>1, <1>2, <1>4, SwapIs
  <1>7. StackOk'
    BY <1>1, <1>3, <1>5, <1>6 DEF StackOk
  <1>8. QED
    BY <1>2, <1>3, <1>7 DEF g

LEMMA TurnSteps ==
  ASSUME StackOk
  PROVE  /\ GuardSkips => Turn(FALSE, FALSE, {})
         /\ DrySkip => Turn(FALSE, FALSE, {})
         /\ Unevaluated => \E bad \in BOOLEAN : Turn(FALSE, bad, {})
         /\ OpenBlock /\ (Top.kind = "macro" \/ ~WellFormed(Step0)) => Turn(FALSE, TRUE, {})
         /\ CallFails => \E bad \in BOOLEAN : Turn(FALSE, bad, {})
         /\ CallVerb => \E ok, bad \in BOOLEAN : Turn(ok, bad, Step0.binds)
  <1>1. GuardSkips => Turn(FALSE, FALSE, {})
    BY DEF GuardSkips, Turn
  <1>2. DrySkip => Turn(FALSE, FALSE, {})
    BY DEF DrySkip, Turn
  <1>3. ASSUME Unevaluated PROVE \E bad \in BOOLEAN : Turn(FALSE, bad, {})
    <2> DEFINE bad == ~(Step0.absent /\ Top.kind # "macro")
    <2>1. At /\ EndStep(Front(stack), Top, FALSE, bad, {})
      BY <1>3 DEF Unevaluated
    <2>2. bad \in BOOLEAN
      OBVIOUS
    <2> HIDE DEF bad
    <2>3. Turn(FALSE, bad, {})
      BY <2>1, <2>2 DEF Turn
    <2>4. QED
      BY <2>2, <2>3
  <1>4. OpenBlock /\ (Top.kind = "macro" \/ ~WellFormed(Step0)) => Turn(FALSE, TRUE, {})
    BY DEF OpenBlock, Turn
  <1>5. ASSUME CallFails PROVE \E bad \in BOOLEAN : Turn(FALSE, bad, {})
    <2> DEFINE bad == Judged(Top, FALSE)
    <2>1. At /\ EndStep(Front(stack), Top, FALSE, bad, {})
      BY <1>5 DEF CallFails
    <2>2. bad \in BOOLEAN
      BY DEF Judged
    <2> HIDE DEF bad
    <2>3. Turn(FALSE, bad, {})
      BY <2>1, <2>2 DEF Turn
    <2>4. QED
      BY <2>2, <2>3
  <1>6. ASSUME CallVerb PROVE \E ok, bad \in BOOLEAN : Turn(ok, bad, Step0.binds)
    <2>1. PICK ok \in BOOLEAN : EndStep(Front(stack), Top, ok, Judged(Top, ok), Step0.binds)
      BY <1>6 DEF CallVerb
    <2> DEFINE bad == Judged(Top, ok)
    <2>2. bad \in BOOLEAN
      BY DEF Judged
    <2>3. At /\ EndStep(Front(stack), Top, ok, bad, Step0.binds)
      BY <1>6, <2>1 DEF CallVerb
    <2> HIDE DEF bad
    <2>4. Turn(ok, bad, Step0.binds)
      BY <2>2, <2>3, StepIs DEF Turn
    <2>5. QED
      BY <2>2, <2>4
  <1>7. QED
    BY <1>1, <1>2, <1>3, <1>4, <1>5, <1>6

(* A frame is put on top, for the step at the head of the one below.       *)
Opens(g) == At /\ g \in Frames /\ g.kind # "section" /\ stack' = Append(stack, g) /\ UNCHANGED sections

LEMMA OpensStack ==
  ASSUME StackOk, NEW g, Opens(g)
  PROVE  StackOk'
  <1>1. stack # <<>> /\ Top.todo # <<>> /\ Top = stack[Len(stack)]
    BY TopIs DEF Opens, At
  <1>2. stack \in Seq(Frames) /\ Shape(stack) /\ stack[Len(stack)].todo # <<>>
    BY <1>1 DEF StackOk
  <1>3. stack' = Append(stack, g) /\ g \in Frames /\ g.kind # "section" /\ sections' = sections
    BY DEF Opens
  <1>4. Shape(Append(stack, g))
    BY <1>1, <1>2, <1>3, PushShape
  <1>5. Append(stack, g) \in Seq(Frames)
    BY <1>2, <1>3
  <1>6. QED
    BY <1>1, <1>3, <1>4, <1>5 DEF StackOk

(* The top frame is dropped and the one below becomes f.                   *)
Drops(f) == Len(stack) >= 2 /\ f \in Frames /\ f.kind = Below.kind /\ stack' = Shrink(stack, f) /\ UNCHANGED sections

LEMMA BelowIs ==
  ASSUME StackOk, stack # <<>>, Top.kind # "section"
  PROVE  /\ Len(stack) >= 2 /\ Len(stack) \in Nat
         /\ Below \in Frames /\ Below = stack[Len(stack) - 1] /\ Below.todo # <<>> /\ Below.todo \in Seq(Steps)
         /\ Head(Below.todo) \in Steps /\ Head(Below.todo) \in Range(Below.todo)
         /\ Head(Below.todo).binds \in SUBSET STRING
  <1> DEFINE n == Len(stack)
  <1>1. n \in Nat \ {0} /\ Top = stack[n] /\ stack \in Seq(Frames)
    BY TopIs DEF StackOk
  <1>2. DOMAIN stack = 1..n /\ \A i \in 1..n : stack[i] \in Frames
    BY <1>1
  <1>b. Below = stack[n - 1]
    BY DEF Below
  <1> HIDE DEF n
  <1>3. n # 1
    <2>1. n \in DOMAIN stack
      BY <1>1, <1>2
    <2>2. stack[n].kind = "section" <=> n = 1
      BY <2>1 DEF StackOk, Shape
    <2>3. QED
      BY <1>1, <2>2
  <1>4. n - 1 \in 1..n /\ n - 1 < n /\ n >= 2
    BY <1>1, <1>3
  <1>5. Below \in Frames /\ Below.todo # <<>>
    <2>1. n - 1 \in DOMAIN stack
      BY <1>2, <1>4
    <2>2. n - 1 < Len(stack) => stack[n - 1].todo # <<>>
      BY <2>1 DEF StackOk, Shape
    <2>3. stack[n - 1].todo # <<>>
      BY <2>2, <1>4 DEF n
    <2>4. QED
      BY <1>2, <1>4, <1>b, <2>3
  <1>6. Below.todo \in Seq(Steps)
    BY <1>5 DEF Frames
  <1>7. \A S : \A s \in Seq(S) : s # <<>> => Head(s) \in S /\ Head(s) \in Range(s)
    BY DEF Range
  <1> HIDE DEF Below
  <1>8. Head(Below.todo) \in Steps /\ Head(Below.todo) \in Range(Below.todo)
    BY <1>5, <1>6, <1>7
  <1>9. Head(Below.todo).binds \in SUBSET STRING
    BY <1>8, StepsAssumption
  <1>10. QED
    BY <1>1, <1>4, <1>5, <1>6, <1>8, <1>9, <1>b DEF n

LEMMA DropsStack ==
  ASSUME StackOk, NEW f, Drops(f)
  PROVE  StackOk'
  <1>1. stack \in Seq(Frames) /\ Shape(stack) /\ Len(stack) >= 2 /\ f.kind = stack[Len(stack) - 1].kind /\ f \in Frames
    BY DEF StackOk, Drops, Below
  <1>2. Shape(Shrink(stack, f)) /\ Shrink(stack, f) \in Seq(Frames)
    BY <1>1, ShrinkShape, ShrinkIs
  <1>3. stack # <<>>
    BY <1>1
  <1>4. QED
    BY <1>2, <1>3 DEF StackOk, Drops

-----------------------------------------------------------------------------
(* The actions that open and close frames.                                 *)
Joined == [Below EXCEPT !.outputs = @ \cup Handed]

Repeated == [Below EXCEPT !.outputs = Top.outputs, !.writes = Top.writes]

NextOne == [Branch(Below, Top.rest) EXCEPT !.wrote = Handed, !.failed = Top.failed]

MacroOf(cv) == Frame("macro", cv.body, {}, Range(cv.params), TRUE, Via(Step0))

LEMMA EndsIs ==
  ASSUME StackOk, NEW kind \in {"branch", "body", "macro"}, Ends(kind)
  PROVE  /\ stack # <<>> /\ Top.kind = kind /\ Top.kind # "section" /\ Top.todo = <<>>
         /\ Top \in Frames /\ Handed \in SUBSET STRING /\ Top.failed \in BOOLEAN
         /\ Top.outputs \in SUBSET STRING /\ Top.writes \in SUBSET STRING /\ Top.rest \in Seq(Seq(Steps))
         /\ Below.outputs \in SUBSET STRING
  <1>1. stack # <<>> /\ Top.kind = kind /\ Top.kind # "section" /\ Top.todo = <<>>
    BY DEF Ends
  <1>2. Top \in Frames
    BY <1>1, TopIs
  <1>3. /\ Top.failed \in BOOLEAN /\ Top.outputs \in SUBSET STRING /\ Top.writes \in SUBSET STRING
        /\ Top.wrote \in SUBSET STRING /\ Top.rest \in Seq(Seq(Steps))
    BY <1>2 DEF Frames
  <1>4. Below \in Frames
    BY <1>1, BelowIs
  <1>5. Below.outputs \in SUBSET STRING
    BY <1>4 DEF Frames
  <1>6. Handed \in SUBSET STRING
    BY <1>3 DEF Handed
  <1>7. QED
    BY <1>1, <1>2, <1>3, <1>5, <1>6

LEMMA BlockOpens ==
  ASSUME StackOk, OpenBlock, Top.kind # "macro", WellFormed(Step0)
  PROVE  IF Step0.run = <<"parallel">> THEN Opens(Branch(Top, Step0.branches)) ELSE Opens(Body(Top, Step0))
  <1>1. At /\ Top \in Frames /\ Step0 \in Steps /\ UNCHANGED sections
    BY TopIs, StepIs DEF OpenBlock, At
  <1>2. CASE Step0.run = <<"parallel">>
    <2> DEFINE branches == Step0.branches
    <2>1. branches \in Seq(Seq(Steps)) /\ branches # <<>>
      BY <1>1, <1>2, StepsAssumption DEF WellFormed
    <2>2. Branch(Top, branches) \in Frames /\ Branch(Top, branches).kind = "branch"
      BY <1>1, <2>1, BranchIs
    <2>3. stack' = Append(stack, Branch(Top, branches))
      BY <1>2 DEF OpenBlock, Push
    <2>4. Opens(Branch(Top, branches))
      BY <1>1, <2>2, <2>3 DEF Opens
    <2>5. QED
      BY <1>2, <2>4
  <1>3. CASE Step0.run # <<"parallel">>
    <2>1. Step0.times >= 1 /\ Step0.times \in Int
      BY <1>1, <1>3, StepsAssumption DEF WellFormed
    <2>2. Times(Step0) \in Nat
      BY <2>1 DEF Times
    <2>3. Body(Top, Step0) \in Frames /\ Body(Top, Step0).kind = "body"
      BY <1>1, <2>2, BodyIs
    <2>4. stack' = Append(stack, Body(Top, Step0))
      BY <1>3 DEF OpenBlock, Push
    <2>5. Opens(Body(Top, Step0))
      BY <1>1, <2>3, <2>4 DEF Opens
    <2>6. QED
      BY <1>3, <2>5
  <1>4. QED
    BY <1>2, <1>3

LEMMA MacroOpens ==
  ASSUME RunInv, CallComposed
  PROVE  /\ Opens(MacroOf(VerbOf(Insts, Step0.run)))
         /\ VerbOf(Insts, Step0.run).body \in Seq(Steps) /\ Exists(Insts, Step0.run)
         /\ VerbOf(Insts, Step0.run).body \in Bodies(Insts)
  <1> DEFINE cv == VerbOf(Insts, Step0.run)
  <1>1. At /\ Step0.run \in DOMAIN specs /\ IsComposed(Insts, Step0.run) /\ UNCHANGED sections
    BY DEF CallComposed, Runs
  <1>2. StackOk /\ specs = Specs(Insts) /\ LoadInv
    BY <1>1 DEF RunInv, At, SelectionInv
  <1>3. Exists(Insts, Step0.run)
    <2>1. Dotted(Step0.run)
      BY <1>1 DEF IsComposed
    <2>2. QED
      BY <1>1, <1>2, <2>1, ResolvedIs DEF Exists
  <1>4. CaseRight /\ set.providers \in Seq(Of(case.docs, "Provider"))
    BY <1>2 DEF LoadInv, Sets
  <1>5. cv.body \in Seq(Steps) /\ cv.params \in Seq(STRING) /\ cv.body \in Bodies(Insts)
    <2> DEFINE providers == Merged(Scenario)  defs == set.providers  run == Step0.run
    <2>1. IsComposed(Instances(defs, providers), run) /\ Exists(Instances(defs, providers), run)
      BY <1>1, <1>3 DEF Insts
    <2>2. defs \in Seq(Of(case.docs, "Provider"))
      BY <1>4
    <2> HIDE DEF providers, defs, run
    <2>3. /\ VerbOf(Instances(defs, providers), run).body \in Seq(Steps)
          /\ VerbOf(Instances(defs, providers), run).params \in Seq(STRING)
          /\ VerbOf(Instances(defs, providers), run).body \in Bodies(Instances(defs, providers))
      BY <1>4, <2>1, <2>2, ComposedIs
    <2>4. QED
      BY <2>3 DEF providers, defs, run, Insts
  <1>6. stack' = Append(stack, MacroOf(cv))
    BY DEF CallComposed, MacroOf, VerbOf, Push
  <1>7. Via(Step0) \in {"plain", "declared"}
    <2>1. Top.via \in {"plain", "declared"}
      BY <1>1, <1>2, TopIs DEF At, Frames
    <2>2. QED
      BY <2>1 DEF Via
  <1>8. Range(cv.params) \in SUBSET STRING
    <2>1. \A s \in Seq(STRING) : Range(s) \subseteq STRING
      BY DEF Range
    <2>2. QED
      BY <1>5, <2>1
  <1> HIDE DEF cv
  <1>9. MacroOf(cv) \in Frames /\ MacroOf(cv).kind = "macro"
    <2>1. MacroOf(cv) \in Frames
      BY <1>5, <1>7, <1>8, FrameIs DEF MacroOf, FrameKinds
    <2>2. QED
      BY <2>1 DEF MacroOf, Frame
  <1>10. Opens(MacroOf(cv))
    BY <1>1, <1>6, <1>9 DEF Opens
  <1>11. QED
    BY <1>3, <1>5, <1>10 DEF cv

LEMMA BranchNext ==
  ASSUME StackOk, NextBranch
  PROVE  /\ NextOne \in Frames /\ NextOne.kind = "branch" /\ stack' = Swap(stack, NextOne)
         /\ UNCHANGED sections /\ StackOk'
  <1>1. /\ stack # <<>> /\ Top.kind = "branch" /\ Top.rest \in Seq(Seq(Steps)) /\ Top.rest # <<>>
        /\ Handed \in SUBSET STRING /\ Top.failed \in BOOLEAN
    BY EndsIs DEF NextBranch
  <1>2. Below \in Frames
    BY <1>1, BelowIs
  <1> DEFINE b == Branch(Below, Top.rest)
  <1>3. b \in Frames /\ b.kind = "branch"
    BY <1>1, <1>2, BranchIs
  <1> HIDE DEF b
  <1>4. NextOne = NextOf(b, Handed, Top.failed)
    BY DEF NextOne, NextOf, b
  <1>5. NextOne \in Frames /\ NextOne.kind = "branch"
    BY <1>1, <1>3, <1>4, NextIs
  <1>6. stack' = [stack EXCEPT ![Len(stack)] = NextOne] /\ sections' = sections
    BY DEF NextBranch, Replace, NextOne
  <1>7. stack \in Seq(Frames) /\ Shape(stack) /\ Top = stack[Len(stack)]
    BY <1>1, TopIs DEF StackOk
  <1> DEFINE g == NextOne  s == stack
  <1>8. g \in Frames /\ s \in Seq(Frames) /\ s # <<>> /\ Shape(s) /\ g.kind = s[Len(s)].kind
    BY <1>1, <1>5, <1>7
  <1> HIDE DEF g, s
  <1>9. [s EXCEPT ![Len(s)] = g] = Swap(s, g) /\ Swap(s, g) \in Seq(Frames)
    BY <1>8, SwapIs
  <1>10. Shape(Swap(s, g))
    BY <1>8, SwapShape
  <1>11. stack' = Swap(stack, NextOne)
    BY <1>6, <1>9 DEF g, s
  <1>12. StackOk'
    BY <1>1, <1>6, <1>9, <1>10, <1>11 DEF StackOk, g, s
  <1>13. QED
    BY <1>5, <1>6, <1>11, <1>12

LEMMA BlockCloses ==
  ASSUME StackOk
  PROVE  /\ JoinBranches => Joined \in Frames /\ FieldsOf(Joined, Below) /\ Drops(After(Joined, TRUE, Top.failed, {}))
         /\ EndRepeat => Repeated \in Frames /\ FieldsOf(Repeated, Below) /\ Drops(After(Repeated, TRUE, Top.failed, {}))
  <1>1. ASSUME stack # <<>>, Top.kind # "section", Top.failed \in BOOLEAN, UNCHANGED sections,
               NEW f \in Frames, FieldsOf(f, Below), stack' = Shrink(stack, After(f, TRUE, Top.failed, {}))
        PROVE  Drops(After(f, TRUE, Top.failed, {}))
    <2>1. Len(stack) >= 2 /\ f.todo # <<>> /\ f.kind = Below.kind
      BY <1>1, BelowIs DEF FieldsOf
    <2> DEFINE bad == Top.failed  none == {}  ok == TRUE
    <2>2. bad \in BOOLEAN /\ none \in SUBSET STRING /\ ok \in BOOLEAN
      BY <1>1
    <2> HIDE DEF bad, none, ok
    <2>3. After(f, ok, bad, none) \in Frames /\ After(f, ok, bad, none).kind = f.kind
      BY <1>1, <2>1, <2>2, AfterIs
    <2>4. QED
      BY <1>1, <2>1, <2>3 DEF Drops, bad, none, ok
  <1>2. ASSUME JoinBranches
        PROVE  Joined \in Frames /\ FieldsOf(Joined, Below) /\ Drops(After(Joined, TRUE, Top.failed, {}))
    <2>1. /\ stack # <<>> /\ Top.kind # "section" /\ Handed \in SUBSET STRING /\ Top.failed \in BOOLEAN
          /\ Below.outputs \in SUBSET STRING
      BY <1>2, EndsIs DEF JoinBranches
    <2>2. Below \in Frames
      BY <2>1, BelowIs
    <2>3. Joined = [Below EXCEPT !.outputs = Below.outputs \cup Handed]
      BY DEF Joined
    <2>4. Joined \in Frames /\ FieldsOf(Joined, Below)
      BY <2>1, <2>2, <2>3, BoundIs
    <2>5. stack' = Shrink(stack, After(Joined, TRUE, Top.failed, {})) /\ sections' = sections
      BY <1>2 DEF JoinBranches, CloseBlock, Joined, Shrink
    <2>6. QED
      BY <1>1, <2>1, <2>4, <2>5
  <1>3. ASSUME EndRepeat
        PROVE  Repeated \in Frames /\ FieldsOf(Repeated, Below) /\ Drops(After(Repeated, TRUE, Top.failed, {}))
    <2>1. /\ stack # <<>> /\ Top.kind # "section" /\ Top.failed \in BOOLEAN
          /\ Top.outputs \in SUBSET STRING /\ Top.writes \in SUBSET STRING
      BY <1>3, EndsIs DEF EndRepeat
    <2>2. Below \in Frames
      BY <2>1, BelowIs
    <2>4. Repeated \in Frames /\ FieldsOf(Repeated, Below)
      BY <2>1, <2>2, BoundIs DEF Repeated
    <2>5. stack' = Shrink(stack, After(Repeated, TRUE, Top.failed, {})) /\ sections' = sections
      BY <1>3 DEF EndRepeat, CloseBlock, Repeated, Shrink
    <2>6. QED
      BY <1>1, <2>1, <2>4, <2>5
  <1>4. QED
    BY <1>2, <1>3

LEMMA MacroReturns ==
  ASSUME StackOk, ReturnComposed
  PROVE  \E ok, bad \in BOOLEAN :
           /\ Drops(After(Below, ok, bad, Head(Below.todo).binds))
           /\ missed' = missed \cup MissedBy(Below, ok, bad)
  <1>1. stack # <<>> /\ Top.kind # "section" /\ Top.failed \in BOOLEAN
    BY EndsIs DEF ReturnComposed
  <1>2. /\ Below \in Frames /\ Len(stack) >= 2 /\ Below.todo # <<>>
        /\ Head(Below.todo).binds \in SUBSET STRING
    BY <1>1, BelowIs
  <1>3. PICK ok \in {FALSE, ~Top.failed} :
          EndStep(SubSeq(stack, 1, Len(stack) - 2), Below, ok, Judged(Below, ok), Head(Below.todo).binds)
    BY DEF ReturnComposed
  <1> DEFINE bad == Judged(Below, ok)  binds == Head(Below.todo).binds
  <1>4. ok \in BOOLEAN /\ bad \in BOOLEAN
    BY <1>1 DEF Judged
  <1> HIDE DEF bad
  <1>5. After(Below, ok, bad, binds) \in Frames /\ After(Below, ok, bad, binds).kind = Below.kind
    BY <1>2, <1>4, AfterIs
  <1>6. /\ stack' = Shrink(stack, After(Below, ok, bad, binds)) /\ sections' = sections
        /\ missed' = missed \cup MissedBy(Below, ok, bad)
    BY <1>3 DEF EndStep, Shrink, bad
  <1>7. Drops(After(Below, ok, bad, binds))
    BY <1>2, <1>5, <1>6 DEF Drops
  <1>8. QED
    BY <1>4, <1>6, <1>7

LEMMA SectionOpens ==
  ASSUME StackOk, OpenSection
  PROVE  /\ stack' = <<SectionFrame(Head(sections), {})>> /\ Head(sections) \in Headings
         /\ UNCHANGED sections /\ StackOk'
  <1>1. sections \in Seq(Headings) /\ sections # <<>>
    BY DEF StackOk, OpenSection
  <1>2. Head(sections) \in Headings
    BY <1>1
  <1>3. stack' = <<SectionFrame(Head(sections), {})>> /\ sections' = sections
    BY DEF OpenSection, SectionFrame
  <1>4. QED
    BY <1>1, <1>2, <1>3, SectionIs DEF StackOk

LEMMA SectionNext ==
  ASSUME StackOk, NextSection, phase' = "run"
  PROVE  /\ sections' # <<>> /\ sections'[1] \in Headings /\ Top \in Frames /\ Len(stack) = 1
         /\ stack' = <<SectionFrame(sections'[1], Top.outputs)>> /\ StackOk'
         /\ sections' = IF Top.failed /\ Top.stop THEN <<Last(sections)>> ELSE Tail(sections)
  <1> DEFINE left == IF Top.failed /\ Top.stop THEN <<Last(sections)>> ELSE Tail(sections)
  <1>1. stack # <<>> /\ Len(stack) = 1
    <2>1. Len(stack) = 1
      BY DEF NextSection
    <2>2. QED
      BY <2>1
  <1>2. sections \in Seq(Headings) /\ sections # <<>> /\ Top \in Frames
    BY <1>1, TopIs DEF StackOk
  <1>3. left \in Seq(Headings)
    <2>1. \A s \in Seq(Headings) : s # <<>> => <<s[Len(s)]>> \in Seq(Headings) /\ Tail(s) \in Seq(Headings)
      OBVIOUS
    <2>2. QED
      BY <1>2, <2>1 DEF Last
  <1>4. /\ left # <<>> /\ sections' = left
        /\ stack' = <<SectionFrame(left[1], Top.outputs)>>
    <2>1. left # <<>>
      BY DEF NextSection
    <2>2. QED
      BY <2>1 DEF NextSection, SectionFrame
  <1> HIDE DEF left
  <1>5. left[1] \in Headings
    BY <1>3, <1>4
  <1>6. Top.outputs \in SUBSET STRING
    BY <1>2 DEF Frames
  <1>7. StackOk'
    BY <1>3, <1>4, <1>5, <1>6, SectionIs DEF StackOk
  <1>8. QED
    BY <1>1, <1>2, <1>4, <1>5, <1>7 DEF left

LEMMA StackStep ==
  ASSUME RunInv, RunStep, phase' = "run"
  PROVE  StackOk'
  <1>1. phase = "run"
    BY RunFrame
  <1>2. StackOk
    BY <1>1 DEF RunInv
  <1>3. CASE SomeTurn
    <2>1. PICK ok \in BOOLEAN, bad \in BOOLEAN : \E binds \in SUBSET STRING : Turn(ok, bad, binds)
      BY <1>3 DEF SomeTurn
    <2>2. PICK binds \in SUBSET STRING : Turn(ok, bad, binds)
      BY <2>1
    <2>3. QED
      BY <1>2, <2>2, TurnStack
  <1>4. GuardSkips \/ DrySkip \/ Unevaluated \/ CallFails \/ CallVerb => SomeTurn
    <2>1. {} \in SUBSET STRING
      OBVIOUS
    <2>2. GuardSkips \/ DrySkip \/ Unevaluated \/ CallFails => SomeTurn
      BY <1>2, <2>1, TurnSteps DEF SomeTurn
    <2>3. CallVerb => SomeTurn
      BY <1>2, TurnSteps, StepIs DEF SomeTurn, CallVerb
    <2>4. QED
      BY <2>2, <2>3
  <1>5. CASE OpenBlock
    <2>1. CASE Top.kind = "macro" \/ ~WellFormed(Step0)
      <3>1. Turn(FALSE, TRUE, {})
        BY <1>2, <1>5, <2>1, TurnSteps
      <3>2. QED
        BY <1>2, <3>1, TurnStack
    <2>2. CASE Top.kind # "macro" /\ WellFormed(Step0)
      BY <1>2, <1>5, <2>2, BlockOpens, OpensStack
    <2>3. QED
      BY <2>1, <2>2
  <1>6. CASE NextBranch
    BY <1>2, <1>6, BranchNext
  <1>7. CASE JoinBranches
    BY <1>2, <1>7, BlockCloses, DropsStack
  <1>8. CASE EndRepeat
    BY <1>2, <1>8, BlockCloses, DropsStack
  <1>9. CASE CallComposed
    BY <1>2, <1>9, MacroOpens, OpensStack
  <1>10. CASE ReturnComposed
    BY <1>2, <1>10, MacroReturns, DropsStack
  <1>11. CASE OpenSection
    BY <1>2, <1>11, SectionOpens
  <1>12. CASE NextSection
    BY <1>2, <1>12, SectionNext
  <1>13. QED
    BY <1>3, <1>4, <1>5, <1>6, <1>7, <1>8, <1>9, <1>10, <1>11, <1>12 DEF RunStep

-----------------------------------------------------------------------------
LEMMA RunInit == Init => RunInv
  BY SelectionInit DEF Init, RunInv, Unstarted

LEMMA SettledIs ==
  ASSUME SelectionInv, Settle, phase' = "run"
  PROVE  /\ chosen' = Selected /\ chosen' # <<>> /\ chosen'[1].file \in Of(case.docs, "Scenario")
         /\ NewErrors(set.providers, Merged(chosen'[1].file)) = {}
         /\ specs' = Specs(Instances(set.providers, Merged(chosen'[1].file)))
         /\ sections' = SectionsOf(chosen'[1].file) /\ sections' \in Seq(Headings)
  <1>1. Refusal = "none"
    <2>1. Refusal # "none" => phase' = Refusal
      BY DEF Settle, Launch
    <2>2. Refusal # "run"
      BY DEF Refusal
    <2>3. QED
      BY <2>1, <2>2
  <1> DEFINE sc == Selected[1].file
  <1>2. /\ chosen' = Selected /\ Selected # <<>> /\ NewErrors(set.providers, Merged(sc)) = {}
        /\ specs' = Specs(Instances(set.providers, Merged(sc))) /\ sections' = SectionsOf(sc)
    BY <1>1 DEF Settle, Launch, SectionsOf
  <1>3. set.scenarios \in Seq(Listed(case.docs)) /\ case.flags.targets \in Seq(Range(case.flags.targets))
    BY DEF SelectionInv, LoadInv, CaseRight, Sets
  <1>4. Selected \in Seq(Listed(case.docs))
    <2> DEFINE some == SelectScenarios(set.scenarios, case.flags.targets)
    <2>1. some \in Seq(Listed(case.docs))
      BY <1>3, SelectedAreSome
    <2> HIDE DEF some
    <2>2. \A S : Those(some, S) \in Seq(Listed(case.docs))
      BY <2>1, ThoseAre
    <2>3. QED
      BY <2>2 DEF Selected, Filter, some
  <1>5. sc \in Of(case.docs, "Scenario")
    <2>1. Selected[1] \in Listed(case.docs)
      <3>1. \A S : \A s \in Seq(S) : s # <<>> => s[1] \in S
        OBVIOUS
      <3>2. QED
        BY <1>2, <1>4, <3>1
    <2> DEFINE one == Selected[1]
    <2>2. one \in Listed(case.docs)
      BY <2>1
    <2> HIDE DEF one
    <2>3. PICK d \in Of(case.docs, "Scenario") : one = [name |-> d.name, suite |-> SuiteOf(d), file |-> d]
      BY <2>2 DEF Listed
    <2>4. one.file = d
      BY <2>3
    <2>5. QED
      BY <2>4 DEF one
  <1> HIDE DEF sc
  <1>6. {sc.setup, sc.steady, sc.method, sc.verify, sc.teardown} \subseteq Seq(Steps)
    <2>1. \A d \in Range(case.docs) : d.class = "Scenario" =>
            {d.setup, d.steady, d.method, d.verify, d.teardown} \subseteq Seq(Steps)
      BY DEF SelectionInv, LoadInv, CaseRight
    <2>2. QED
      BY <1>5, <2>1 DEF Of
  <1>7. SectionsOf(sc) \in Seq(Headings)
    BY <1>6, SectionsAre
  <1>8. QED
    BY <1>2, <1>5, <1>7 DEF sc

LEMMA RunSteps == RunInv /\ [Next]_vars => RunInv'
  <1> SUFFICES ASSUME RunInv, [Next]_vars PROVE RunInv'
    OBVIOUS
  <1>1. SelectionInv'
    BY SelectionStep DEF RunInv
  <1>2. SelectionInv
    BY DEF RunInv
  <1>3. CASE LoadProject \/ ValidateProject
    <2>1. phase \notin {"run", "end"} /\ phase' \notin {"run", "end"}
          /\ UNCHANGED <<stack, sections, missed, lost, unbound, did>>
      BY <1>3 DEF LoadProject, ValidateProject, OneReportEach
    <2>2. QED
      BY <1>1, <2>1 DEF RunInv, Unstarted
  <1>4. CASE Settle
    <2>1. phase = "settle" /\ UNCHANGED <<case, set, stack, missed, lost, unbound, did>>
      BY <1>4 DEF Settle, Launch
    <2>2. Unstarted
      BY <2>1 DEF RunInv
    <2>3. phase' \notin {"run", "end"} => sections' = sections
      <3>1. Refusal = "none" => phase' \in {"run", "end"}
        BY <1>4 DEF Settle, Launch
      <3>2. Refusal # "none" => sections' = sections
        BY <1>4 DEF Settle, Launch
      <3>3. QED
        BY <3>1, <3>2
    <2>4. phase' \notin {"run", "end"} => Unstarted'
      BY <2>1, <2>2, <2>3 DEF Unstarted
    <2>5. ASSUME phase' = "run"
          PROVE  /\ chosen' # <<>> /\ Scenario' \in Of(case'.docs, "Scenario")
                 /\ specs' = Specs(Insts') /\ NewErrors(set'.providers, (Merged(Scenario))') = {}
                 /\ StackOk'
      <3> DEFINE sc == chosen'[1].file
      <3>1. /\ chosen' # <<>> /\ sc \in Of(case.docs, "Scenario")
            /\ NewErrors(set.providers, Merged(sc)) = {}
            /\ specs' = Specs(Instances(set.providers, Merged(sc)))
            /\ sections' \in Seq(Headings)
        BY <1>2, <1>4, <2>5, SettledIs
      <3>2. Scenario' = sc /\ Project' = Project
        BY <2>1 DEF Scenario, Project
      <3>3. (Merged(Scenario))' = Merged(sc)
        BY <3>2, <2>1 DEF Merged
      <3>4. Insts' = Instances(set.providers, Merged(sc))
        BY <3>3, <2>1 DEF Insts
      <3> HIDE DEF sc
      <3>5. stack' = <<>> /\ <<>> \in Seq(Frames) /\ DOMAIN <<>> = {}
        BY <2>1, <2>2 DEF Unstarted
      <3>6. StackOk'
        BY <3>1, <3>5 DEF StackOk, Shape
      <3>7. QED
        BY <3>1, <3>2, <3>3, <3>4, <3>6, <2>1
    <2>6. QED
      BY <1>1, <2>4, <2>5 DEF RunInv
  <1>5. CASE RunStep
    <2>1. phase = "run" /\ phase' \in {"run", "end"} /\ UNCHANGED <<case, set, chosen, specs>>
      BY <1>5, RunFrame
    <2>2. Scenario' = Scenario /\ (Merged(Scenario))' = Merged(Scenario) /\ Insts' = Insts
      BY <2>1 DEF Scenario, Merged, Project, Insts
    <2>3. phase' = "run" => StackOk'
      BY <1>5, StackStep
    <2>4. QED
      BY <1>1, <2>1, <2>2, <2>3 DEF RunInv
  <1>6. CASE UNCHANGED vars
    <2>1. UNCHANGED <<case, phase, set, chosen, specs, sections, stack, missed, lost, unbound, did>>
      BY <1>6 DEF vars
    <2>2. Scenario' = Scenario /\ (Merged(Scenario))' = Merged(Scenario) /\ Insts' = Insts
      BY <2>1 DEF Scenario, Merged, Project, Insts
    <2>3. StackOk => StackOk'
      BY <2>1 DEF StackOk, Shape
    <2>4. QED
      BY <1>1, <2>1, <2>2, <2>3 DEF RunInv, Unstarted
  <1>7. QED
    BY <1>3, <1>4, <1>5, <1>6, StepKinds

-----------------------------------------------------------------------------
(* What a step changes, unfolded once.                                     *)
ChangingAt(calls, q, st) ==
  /\ st.run \in DOMAIN specs
  /\ IF IsComposed(Insts, st.run) THEN \E s \in Range(Nested(Insts, st)) : calls[s]
     ELSE IF Dotted(st.run) THEN specs[st.run].sideEffects
     ELSE \E s \in Range(st.nested) : q[s]

LEMMA ChangingIs ==
  ASSUME NEW calls, NEW st \in Steps
  PROVE  Changing(calls)[st] = ChangingAt(calls, Changing(calls), st)
  <1> DEFINE S == Steps
             h == StepHeight
             V == [x \in S |-> BOOLEAN]
             T == Tables(S, V)
             F == [p \in T \X S |-> ChangingAt(calls, p[1], p[2])]
             is(f) == f = [x \in S |-> ChangingAt(calls, f, x)]
  <1>1. \A f \in T, x \in S : F[<<f, x>>] = ChangingAt(calls, f, x)
    OBVIOUS
  <1>2. \A x \in S : h[x] \in Nat /\ V[x] = BOOLEAN
    BY StepsAssumption
  <1>3. \A f, x : ChangingAt(calls, f, x) \in BOOLEAN
    BY DEF ChangingAt
  <1>4. ASSUME NEW f \in T, NEW g \in T, NEW x \in S, \A y \in S : h[y] < h[x] => f[y] = g[y]
        PROVE  ChangingAt(calls, f, x) = ChangingAt(calls, g, x)
    <2>1. \A s \in Range(x.nested) : f[s] = g[s]
      BY <1>4, NestedBelow
    <2>2. QED
      BY <2>1 DEF ChangingAt
  <1> HIDE DEF F, V, h
  <1>5. Lowering(S, V, h, F)
    <2>1. \A f \in Tables(S, V), x \in S : F[<<f, x>>] \in V[x]
      BY <1>1, <1>2, <1>3
    <2>2. \A f, g \in Tables(S, V), x \in S :
            (\A y \in S : h[y] < h[x] => f[y] = g[y]) => F[<<f, x>>] = F[<<g, x>>]
      BY <1>1, <1>4
    <2>3. QED
      BY <1>2, <2>1, <2>2 DEF Lowering
  <1>6. PICK f \in T : \A x \in S : f[x] = F[<<f, x>>]
    <2> HIDE DEF T
    <2>1. \E f \in Tables(S, V) : \A x \in S : f[x] = F[<<f, x>>]
      BY ONLY <1>5, Recursion
    <2>2. QED
      BY <2>1 DEF T
  <1>7. is(f)
    <2>1. f = [x \in S |-> f[x]]
      BY DEF Tables
    <2>2. \A x \in S : f[x] = ChangingAt(calls, f, x)
      BY <1>1, <1>6
    <2>3. QED
      BY <2>1, <2>2
  <1>8. Changing(calls) = CHOOSE q : is(q)
    BY DEF Changing, ChangingAt
  <1>9. is(Changing(calls))
    BY <1>7, <1>8
  <1>10. QED
    BY <1>9

-----------------------------------------------------------------------------
(* A dry run.                                                              *)
Harmless(st) == ~Leaf(Insts, st, <<>>).sideEffects

Quiet(st) ==
  st.kind = "" =>
    IF IsComposed(Insts, st.run)
    THEN Exists(Insts, st.run) =>
           \A s \in Range(Nested(Insts, st)) : s.kind = "" => ~IsComposed(Insts, s.run) /\ Harmless(s)
    ELSE Harmless(st)

QuietFrame(f) == f.kind = "macro" /\ f.via = "plain" => \A s \in Range(f.todo) : Quiet(s)

DryInv ==
  case.flags.dryRun =>
    /\ "plain" \notin did
    /\ phase = "run" => \A i \in DOMAIN stack : QuietFrame(stack[i])

(* A verb that is no composed one: its spec is the builtin's or the        *)
(* provider's.                                                             *)
LEMMA LeafIs ==
  ASSUME RunInv, phase = "run", NEW st, st.run \in DOMAIN specs, ~IsComposed(Insts, st.run)
  PROVE  /\ specs[st.run] = Leaf(Insts, st, <<>>)
         /\ Dotted(st.run) /\ specs[st.run].sideEffects => specs[st.run].kind = "action"
  <1> DEFINE run == st.run  insts == Insts  defs == set.providers  providers == Merged(Scenario)
  <1>1. specs = Specs(insts) /\ insts = Instances(defs, providers) /\ defs \in Seq(Of(case.docs, "Provider"))
    BY DEF RunInv, Insts, SelectionInv, LoadInv, Sets
  <1>2. specs[run] = IF ~Dotted(run) THEN Builtins[run[1]]
                     ELSE IF IsComposed(insts, run) THEN InferredSpec(insts, Verbs(insts[run[1]])[run[2]])
                     ELSE insts[run[1]].specs[run[2]]
    BY <1>1 DEF Specs
  <1>3. \/ ~Dotted(run) /\ \E b \in DOMAIN Builtins : run = <<b>> /\ run[1] = b
        \/ Dotted(run) /\ run[1] \in DOMAIN insts /\ run[2] \in DOMAIN Verbs(insts[run[1]])
    BY <1>1, ResolvedIs
  <1>4. ~IsComposed(insts, run)
    OBVIOUS
  <1> HIDE DEF run, insts, defs, providers
  <1>5. CASE ~Dotted(run)
    <2>1. Leaf(insts, st, <<>>) = Builtins[run[1]]
      BY <1>3, <1>5 DEF Leaf, run
    <2>2. QED
      BY <1>2, <1>5, <2>1 DEF run, insts
  <1>6. CASE Dotted(run)
    <2>1. specs[run] = insts[run[1]].specs[run[2]] /\ Leaf(insts, st, <<>>) = insts[run[1]].specs[run[2]]
      BY <1>2, <1>4, <1>6 DEF Leaf, run
    <2>2. run[1] \in DOMAIN insts /\ insts[run[1]].def = <<>>
      BY <1>3, <1>4, <1>6 DEF IsComposed
    <2>3. run[2] \in DOMAIN insts[run[1]].specs
      BY <1>3, <1>6, <2>2 DEF Verbs
    <2>4. PICK type \in DOMAIN Factories : insts[run[1]].specs = Factories[type]
      <3> DEFINE docs == case.docs  n == run[1]
      <3>1. n \in DOMAIN Instances(defs, providers) /\ defs \in Seq(Of(docs, "Provider"))
        BY <1>1, <2>2
      <3>2. Instances(defs, providers)[n].def = <<>>
        BY <1>1, <2>2
      <3> HIDE DEF docs, n
      <3>3. \E type \in DOMAIN Factories : Instances(defs, providers)[n].specs = Factories[type]
        BY <3>1, <3>2, InstanceIs
      <3>4. QED
        BY <3>3, <1>1 DEF n
    <2>5. specs[run].sideEffects => specs[run].kind = "action"
      BY <2>1, <2>3, <2>4, FactoriesAssumption
    <2>6. QED
      BY <2>1, <2>5 DEF run, insts
  <1>7. QED
    BY <1>5, <1>6

(* Why a verb that a dry run executes plainly changes nothing.             *)
LEMMA PlainIs ==
  ASSUME Via(Step0) = "plain"
  PROVE  Step0.kind = "" /\ Top.via = "plain"
  BY DEF Via

LEMMA NotSkipped ==
  ASSUME case.flags.dryRun, Runs(Step0), Step0.kind = "", Top.kind # "macro"
  PROVE  specs[Step0.run].kind # "action"
  BY DEF Runs, DrySkips, Kind

LEMMA VerbHarmless ==
  ASSUME RunInv, case.flags.dryRun, At, Runs(Step0), ~IsComposed(Insts, Step0.run),
         QuietFrame(Top), Via(Step0) = "plain"
  PROVE  specs[Step0.run].kind # "action" \/ ~specs[Step0.run].sideEffects
  <1>1. phase = "run" /\ StackOk /\ Step0.run \in DOMAIN specs
    BY DEF At, RunInv, Runs
  <1>2. Step0.kind = "" /\ Top.via = "plain"
    BY PlainIs
  <1>3. CASE Top.kind # "macro"
    BY <1>2, <1>3, NotSkipped
  <1>4. CASE Top.kind = "macro"
    <2>1. Step0 \in Range(Top.todo)
      BY <1>1, StepIs
    <2>2. Quiet(Step0)
      BY <1>2, <1>4, <2>1 DEF QuietFrame
    <2>3. ~Leaf(Insts, Step0, <<>>).sideEffects
      BY <1>2, <2>2 DEF Quiet, Harmless
    <2>4. specs[Step0.run] = Leaf(Insts, Step0, <<>>)
      <3> DEFINE st == Step0
      <3>1. st.run \in DOMAIN specs /\ ~IsComposed(Insts, st.run)
        BY <1>1
      <3> HIDE DEF st
      <3>2. specs[st.run] = Leaf(Insts, st, <<>>)
        BY <1>1, <3>1, LeafIs
      <3>3. QED
        BY <3>2 DEF st
    <2>5. QED
      BY <2>3, <2>4
  <1>5. QED
    BY <1>3, <1>4

LEMMA VerbQuiet ==
  ASSUME RunInv, case.flags.dryRun, At, Runs(Step0), ~IsComposed(Insts, Step0.run),
         QuietFrame(Top), Changes(Step0)
  PROVE  Why(Step0) # "plain"
  <1> DEFINE st == Step0
             calls == Changing(Changing([s \in Steps |-> FALSE]))
  <1>1. phase = "run" /\ StackOk /\ st.run \in DOMAIN specs /\ st \in Steps
    BY StepIs DEF At, RunInv, Runs
  <1>2. SUFFICES ASSUME Via(st) = "plain", st.run \notin {<<"wait_until">>, <<"sample">>} PROVE FALSE
    BY DEF Why
  <1>3. specs[st.run].kind # "action" \/ ~specs[st.run].sideEffects
    BY <1>2, VerbHarmless
  <1>4. Changing(calls)[st]
    BY DEF Changes
  <1>5. ~IsComposed(Insts, st.run)
    OBVIOUS
  <1> HIDE DEF st, calls
  <1>6. ChangingAt(calls, Changing(calls), st)
    BY <1>1, <1>4, ChangingIs
  <1>7. /\ specs[st.run] = Leaf(Insts, st, <<>>)
        /\ Dotted(st.run) /\ specs[st.run].sideEffects => specs[st.run].kind = "action"
    BY <1>1, <1>5, LeafIs
  <1>8. CASE Dotted(st.run)
    <2>1. specs[st.run].sideEffects
      BY <1>5, <1>6, <1>8 DEF ChangingAt
    <2>2. QED
      BY <1>3, <1>7, <1>8, <2>1
  <1>9. CASE ~Dotted(st.run)
    <2>1. PICK s \in Range(st.nested) : TRUE
      BY <1>5, <1>6, <1>9 DEF ChangingAt
    <2>2. st.nested # <<>>
      BY <2>1 DEF Range
    <2>3. st.run = <<"background">>
      BY <1>1, <1>2, <2>2, StepsAssumption
    <2>4. Leaf(Insts, st, <<>>) = Builtins["background"]
      <3>1. "background" \in DOMAIN Builtins
        BY DEF Builtins
      <3>2. st.run[1] = "background" /\ ~Dotted(st.run)
        BY <2>3, <1>9
      <3>3. QED
        BY <3>1, <3>2 DEF Leaf
    <2>5. QED
      BY <1>3, <1>7, <2>4, BackgroundIs
  <1>10. QED
    BY <1>8, <1>9

LEMMA CalledQuiet ==
  ASSUME RunInv, case.flags.dryRun, QuietFrame(Top), CallComposed
  PROVE  QuietFrame(MacroOf(VerbOf(Insts, Step0.run)))
  <1> DEFINE cv == VerbOf(Insts, Step0.run)
             defs == set.providers
             providers == Merged(Scenario)
             insts == Instances(defs, providers)
  <1>1. At /\ phase = "run" /\ Step0.run \in DOMAIN specs /\ IsComposed(Insts, Step0.run) /\ Runs(Step0)
    BY DEF CallComposed, Runs, At
  <1>2. StackOk /\ specs = Specs(Insts) /\ NewErrors(defs, providers) = {} /\ Insts = insts
    BY <1>1 DEF RunInv, Insts
  <1>3. Exists(Insts, Step0.run) /\ cv.body \in Bodies(Insts)
    BY MacroOpens
  <1>4. Nested(Insts, Step0) = cv.body
    BY DEF Nested, VerbOf
  <1>5. MacroOf(cv).kind = "macro" /\ MacroOf(cv).via = Via(Step0) /\ MacroOf(cv).todo = cv.body
    BY DEF MacroOf, Frame
  <1> SUFFICES ASSUME Via(Step0) = "plain", NEW s \in Range(cv.body) PROVE Quiet(s)
    BY <1>5 DEF QuietFrame
  <1>6. Step0.kind = "" /\ Top.via = "plain"
    BY PlainIs
  <1>7. CASE Top.kind = "macro"
    <2>1. Step0 \in Range(Top.todo)
      BY <1>1, <1>2, StepIs
    <2>2. Quiet(Step0)
      BY <1>6, <1>7, <2>1 DEF QuietFrame
    <2> HIDE DEF cv
    <2>3. s.kind = "" => ~IsComposed(Insts, s.run) /\ Harmless(s)
      BY <1>1, <1>3, <1>4, <1>6, <2>2 DEF Quiet
    <2>4. QED
      BY <2>3 DEF Quiet
  <1>8. CASE Top.kind # "macro"
    <2>1. specs[Step0.run].kind # "action"
      BY <1>1, <1>6, <1>8, NotSkipped
    <2>2. specs[Step0.run] = InferredSpec(Insts, cv)
      <3>1. Dotted(Step0.run)
        BY <1>1 DEF IsComposed
      <3>2. specs[Step0.run] = IF ~Dotted(Step0.run) THEN Builtins[Step0.run[1]]
                     ELSE IF IsComposed(Insts, Step0.run) THEN InferredSpec(Insts, Verbs(Insts[Step0.run[1]])[Step0.run[2]])
                     ELSE Insts[Step0.run[1]].specs[Step0.run[2]]
        BY <1>1, <1>2 DEF Specs
      <3>3. QED
        BY <1>1, <3>1, <3>2 DEF VerbOf
    <2> HIDE DEF cv, defs, providers
    <2>3. ~TooDeep(Insts, cv.body)
      BY <1>2, <1>3, NoErrors
    <2>4. InferredSpec(Insts, cv).kind # "action"
      BY <2>1, <2>2
    <2>5. s.kind = "" =>
            IF IsComposed(Insts, s.run)
            THEN Exists(Insts, s.run) =>
                   \A t \in Range(Nested(Insts, s)) :
                     t.kind = "" => ~IsComposed(Insts, t.run) /\ ~Leaf(Insts, t, <<>>).sideEffects
            ELSE ~Leaf(Insts, s, <<>>).sideEffects
      BY <2>3, <2>4, ProbeBody
    <2>6. QED
      BY <2>5 DEF Quiet, Harmless
  <1>9. QED
    BY <1>7, <1>8

-----------------------------------------------------------------------------
AllQuiet(s) == \A i \in DOMAIN s : QuietFrame(s[i])

LEMMA QuietSwap ==
  ASSUME NEW s \in Seq(Frames), s # <<>>, AllQuiet(s), NEW g \in Frames, QuietFrame(g)
  PROVE  AllQuiet(Swap(s, g))
  <1> DEFINE t == Swap(s, g)  n == Len(s)
  <1>1. t \in Seq(Frames) /\ Len(t) = n /\ n \in Nat \ {0} /\ t[n] = g /\ \A i \in 1..(n - 1) : t[i] = s[i]
    BY SwapIs
  <1>2. DOMAIN t = 1..n /\ DOMAIN s = 1..n
    BY <1>1
  <1> HIDE DEF t, n
  <1>3. \A i \in 1..n : i = n \/ i \in 1..(n - 1)
    BY <1>1
  <1>4. \A i \in DOMAIN t : QuietFrame(t[i])
    BY <1>1, <1>2, <1>3 DEF AllQuiet
  <1>5. QED
    BY <1>4 DEF AllQuiet, t

LEMMA QuietShrink ==
  ASSUME NEW s \in Seq(Frames), Len(s) >= 2, AllQuiet(s), NEW g \in Frames, QuietFrame(g)
  PROVE  AllQuiet(Shrink(s, g))
  <1> DEFINE t == Shrink(s, g)  n == Len(s)
  <1>1. /\ t \in Seq(Frames) /\ Len(t) = n - 1 /\ n \in Nat
        /\ t[n - 1] = g /\ \A i \in 1..(n - 2) : t[i] = s[i]
    BY ShrinkIs
  <1>2. DOMAIN t = 1..(n - 1) /\ DOMAIN s = 1..n /\ n >= 2
    BY <1>1
  <1> HIDE DEF t, n
  <1>3. \A i \in 1..(n - 1) : i = n - 1 \/ (i \in 1..(n - 2) /\ i \in 1..n)
    BY <1>1, <1>2
  <1>4. \A i \in DOMAIN t : QuietFrame(t[i])
    BY <1>1, <1>2, <1>3 DEF AllQuiet
  <1>5. QED
    BY <1>4 DEF AllQuiet, t

LEMMA QuietPush ==
  ASSUME NEW s \in Seq(Frames), s # <<>>, AllQuiet(s), NEW g \in Frames, QuietFrame(g)
  PROVE  AllQuiet(Append(s, g))
  <1> DEFINE t == Append(s, g)  n == Len(s)
  <1>1. /\ t \in Seq(Frames) /\ Len(t) = n + 1 /\ n \in Nat
        /\ t[n + 1] = g /\ \A i \in 1..n : t[i] = s[i]
    BY PushIs
  <1>2. DOMAIN t = 1..(n + 1) /\ DOMAIN s = 1..n
    BY <1>1
  <1> HIDE DEF t, n
  <1>3. \A i \in 1..(n + 1) : i = n + 1 \/ i \in 1..n
    BY <1>1
  <1>4. \A i \in DOMAIN t : QuietFrame(t[i])
    BY <1>1, <1>2, <1>3 DEF AllQuiet
  <1>5. QED
    BY <1>4 DEF AllQuiet, t

LEMMA QuietAfter ==
  ASSUME NEW f \in Frames, QuietFrame(f), f.todo # <<>>,
         NEW ok \in BOOLEAN, NEW bad \in BOOLEAN, NEW binds \in SUBSET STRING
  PROVE  QuietFrame(After(f, ok, bad, binds))
  <1> DEFINE g == After(f, ok, bad, binds)
  <1>1. g.kind = f.kind /\ g.via = f.via /\ Range(g.todo) \subseteq Range(f.todo)
    BY AfterIs
  <1> HIDE DEF g
  <1>2. QuietFrame(g)
    BY <1>1 DEF QuietFrame
  <1>3. QED
    BY <1>2 DEF g

LEMMA QuietBelow ==
  ASSUME StackOk, stack # <<>>, AllQuiet(stack)
  PROVE  QuietFrame(Top) /\ (Top.kind # "section" => QuietFrame(Below))
  <1>1. Top = stack[Len(stack)] /\ Len(stack) \in Nat \ {0}
    BY TopIs
  <1>2. DOMAIN stack = 1..Len(stack)
    BY DEF StackOk
  <1>3. QuietFrame(Top)
    BY <1>1, <1>2 DEF AllQuiet
  <1>4. ASSUME Top.kind # "section" PROVE QuietFrame(Below)
    <2>1. Len(stack) >= 2 /\ Below = stack[Len(stack) - 1]
      BY <1>4, BelowIs
    <2> HIDE DEF Below
    <2>2. Len(stack) - 1 \in DOMAIN stack
      BY <1>1, <1>2, <2>1
    <2>3. QED
      BY <2>1, <2>2 DEF AllQuiet
  <1>5. QED
    BY <1>3, <1>4

LEMMA QuietFields ==
  ASSUME NEW f, NEW g, FieldsOf(g, f), QuietFrame(f)
  PROVE  QuietFrame(g)
  BY DEF FieldsOf, QuietFrame

LEMMA QuietStep ==
  ASSUME RunInv, case.flags.dryRun, RunStep, phase' = "run", AllQuiet(stack)
  PROVE  AllQuiet(stack')
  <1>1. phase = "run" /\ StackOk
    BY RunFrame DEF RunInv
  <1>s. stack \in Seq(Frames)
    BY <1>1 DEF StackOk
  <1>t. ASSUME NEW ok \in BOOLEAN, NEW bad \in BOOLEAN, NEW binds \in SUBSET STRING, Turn(ok, bad, binds)
        PROVE  AllQuiet(stack')
    <2>1. /\ stack' = Swap(stack, After(Top, ok, bad, binds)) /\ After(Top, ok, bad, binds) \in Frames
      BY <1>1, <1>t, TurnStack
    <2>2. stack # <<>> /\ Top \in Frames /\ Top.todo # <<>>
      BY <1>1, <1>t, TopIs DEF Turn, At
    <2>3. QuietFrame(Top)
      BY <1>1, <2>2, QuietBelow
    <2>4. QuietFrame(After(Top, ok, bad, binds))
      BY <1>t, <2>2, <2>3, QuietAfter
    <2>5. QED
      BY <1>s, <2>1, <2>2, <2>4, QuietSwap
  <1>2. CASE SomeTurn
    <2>1. PICK ok \in BOOLEAN, bad \in BOOLEAN : \E binds \in SUBSET STRING : Turn(ok, bad, binds)
      BY <1>2 DEF SomeTurn
    <2>2. PICK binds \in SUBSET STRING : Turn(ok, bad, binds)
      BY <2>1
    <2>3. QED
      BY <2>2, <1>t
  <1>3. GuardSkips \/ DrySkip \/ Unevaluated \/ CallFails \/ CallVerb => SomeTurn
    <2>1. {} \in SUBSET STRING
      OBVIOUS
    <2>2. GuardSkips \/ DrySkip \/ Unevaluated \/ CallFails => SomeTurn
      BY <1>1, <2>1, TurnSteps DEF SomeTurn
    <2>3. CallVerb => SomeTurn
      BY <1>1, TurnSteps, StepIs DEF SomeTurn, CallVerb
    <2>4. QED
      BY <2>2, <2>3
  <1>o. ASSUME NEW g, Opens(g), QuietFrame(g) PROVE AllQuiet(stack')
    <2>1. stack # <<>> /\ g \in Frames /\ stack' = Append(stack, g)
      BY <1>o DEF Opens, At
    <2>2. QED
      BY <1>s, <1>o, <2>1, QuietPush
  <1>4. CASE OpenBlock
    <2>1. CASE Top.kind = "macro" \/ ~WellFormed(Step0)
      <3>1. Turn(FALSE, TRUE, {})
        BY <1>1, <1>4, <2>1, TurnSteps
      <3>2. {} \in SUBSET STRING
        OBVIOUS
      <3>3. QED
        BY <1>t, <3>1, <3>2
    <2>2. CASE Top.kind # "macro" /\ WellFormed(Step0)
      <3>1. IF Step0.run = <<"parallel">> THEN Opens(Branch(Top, Step0.branches)) ELSE Opens(Body(Top, Step0))
        BY <1>1, <1>4, <2>2, BlockOpens
      <3>2. Branch(Top, Step0.branches).kind = "branch" /\ Body(Top, Step0).kind = "body"
        BY DEF Branch, Body, Frame
      <3>3. QuietFrame(Branch(Top, Step0.branches)) /\ QuietFrame(Body(Top, Step0))
        BY <3>2 DEF QuietFrame
      <3>4. QED
        BY <1>o, <3>1, <3>3
    <2>3. QED
      BY <2>1, <2>2
  <1>5. CASE NextBranch
    <2>1. NextOne \in Frames /\ NextOne.kind = "branch" /\ stack' = Swap(stack, NextOne)
      BY <1>1, <1>5, BranchNext
    <2>2. QuietFrame(NextOne)
      BY <2>1 DEF QuietFrame
    <2>3. stack # <<>>
      BY <1>5 DEF NextBranch, Ends
    <2>4. QED
      BY <1>s, <2>1, <2>2, <2>3, QuietSwap
  <1>d. ASSUME NEW f, Drops(f), QuietFrame(f) PROVE AllQuiet(stack')
    <2>1. Len(stack) >= 2 /\ f \in Frames /\ stack' = Shrink(stack, f)
      BY <1>d DEF Drops
    <2>2. QED
      BY <1>s, <1>d, <2>1, QuietShrink
  <1>c. ASSUME stack # <<>>, Top.kind # "section", Top.failed \in BOOLEAN, NEW f \in Frames, FieldsOf(f, Below)
        PROVE  QuietFrame(After(f, TRUE, Top.failed, {}))
    <2>1. Below.todo # <<>> /\ QuietFrame(Below)
      BY <1>1, <1>c, BelowIs, QuietBelow
    <2>2. QuietFrame(f)
      BY <1>c, <2>1, QuietFields
    <2>3. f.todo # <<>>
      BY <1>c, <2>1 DEF FieldsOf
    <2> DEFINE bad == Top.failed  none == {}  ok == TRUE
    <2>4. bad \in BOOLEAN /\ none \in SUBSET STRING /\ ok \in BOOLEAN
      BY <1>c
    <2> HIDE DEF bad, none, ok
    <2>5. QuietFrame(After(f, ok, bad, none))
      BY <1>c, <2>2, <2>3, <2>4, QuietAfter
    <2>6. QED
      BY <2>5 DEF bad, none, ok
  <1>6. CASE JoinBranches
    <2>1. Joined \in Frames /\ FieldsOf(Joined, Below) /\ Drops(After(Joined, TRUE, Top.failed, {}))
      BY <1>1, <1>6, BlockCloses
    <2>2. stack # <<>> /\ Top.kind # "section" /\ Top.failed \in BOOLEAN
      BY <1>1, <1>6, EndsIs DEF JoinBranches
    <2>3. QuietFrame(After(Joined, TRUE, Top.failed, {}))
      BY <1>c, <2>1, <2>2
    <2>4. QED
      BY <1>d, <2>1, <2>3
  <1>7. CASE EndRepeat
    <2>1. Repeated \in Frames /\ FieldsOf(Repeated, Below) /\ Drops(After(Repeated, TRUE, Top.failed, {}))
      BY <1>1, <1>7, BlockCloses
    <2>2. stack # <<>> /\ Top.kind # "section" /\ Top.failed \in BOOLEAN
      BY <1>1, <1>7, EndsIs DEF EndRepeat
    <2>3. QuietFrame(After(Repeated, TRUE, Top.failed, {}))
      BY <1>c, <2>1, <2>2
    <2>4. QED
      BY <1>d, <2>1, <2>3
  <1>8. CASE CallComposed
    <2>1. Opens(MacroOf(VerbOf(Insts, Step0.run)))
      BY <1>8, MacroOpens
    <2>2. QuietFrame(Top)
      BY <1>1, <1>8, QuietBelow DEF CallComposed, At
    <2>3. QuietFrame(MacroOf(VerbOf(Insts, Step0.run)))
      BY <1>8, <2>2, CalledQuiet
    <2>4. QED
      BY <1>o, <2>1, <2>3
  <1>9. CASE ReturnComposed
    <2>1. stack # <<>> /\ Top.kind # "section"
      BY <1>1, <1>9, EndsIs DEF ReturnComposed
    <2>2. /\ Below \in Frames /\ Below.todo # <<>> /\ QuietFrame(Below) /\ Head(Below.todo).binds \in SUBSET STRING
      BY <1>1, <2>1, BelowIs, QuietBelow
    <2>3. PICK ok \in BOOLEAN, bad \in BOOLEAN : Drops(After(Below, ok, bad, Head(Below.todo).binds))
      BY <1>1, <1>9, MacroReturns
    <2>4. QuietFrame(After(Below, ok, bad, Head(Below.todo).binds))
      BY <2>2, <2>3, QuietAfter
    <2>5. QED
      BY <1>d, <2>3, <2>4
  <1>q. \A sec, outputs : AllQuiet(<<SectionFrame(sec, outputs)>>)
    <2> TAKE sec, outputs
    <2> DEFINE g == SectionFrame(sec, outputs)
    <2>1. g.kind = "section"
      BY DEF SectionFrame, Frame
    <2> HIDE DEF g
    <2>2. QuietFrame(g) /\ DOMAIN <<g>> = {1} /\ <<g>>[1] = g
      BY <2>1 DEF QuietFrame
    <2>3. AllQuiet(<<g>>)
      BY <2>2 DEF AllQuiet
    <2>4. QED
      BY <2>3 DEF g
  <1>10. CASE OpenSection
    BY <1>1, <1>10, <1>q, SectionOpens
  <1>11. CASE NextSection
    BY <1>1, <1>11, <1>q, SectionNext
  <1>12. QED
    BY <1>2, <1>3, <1>4, <1>5, <1>6, <1>7, <1>8, <1>9, <1>10, <1>11 DEF RunStep

LEMMA DidStep ==
  ASSUME RunInv, case.flags.dryRun, RunStep, "plain" \notin did, AllQuiet(stack)
  PROVE  "plain" \notin did'
  <1>1. phase = "run" /\ StackOk
    BY RunFrame DEF RunInv
  <1>2. CASE CallVerb
    <2>1. At /\ Runs(Step0) /\ ~IsComposed(Insts, Step0.run)
          /\ did' = did \cup (IF Changes(Step0) THEN {Why(Step0)} ELSE {})
      BY <1>2 DEF CallVerb
    <2>2. QuietFrame(Top)
      BY <1>1, <2>1, QuietBelow DEF At
    <2>3. Changes(Step0) => Why(Step0) # "plain"
      BY <2>1, <2>2, VerbQuiet
    <2> HIDE DEF Why
    <2>4. QED
      BY <2>1, <2>3
  <1>3. CASE ~CallVerb
    <2>1. did' = did
      BY <1>3 DEF RunStep, OpenSection, NextSection, GuardSkips, DrySkip, Unevaluated, OpenBlock, NextBranch,
                  JoinBranches, CloseBlock, EndRepeat, CallFails, CallComposed, ReturnComposed
    <2>2. QED
      BY <2>1
  <1>4. QED
    BY <1>2, <1>3

LEMMA QuietStays ==
  ASSUME Insts' = Insts, AllQuiet(stack')
  PROVE  (AllQuiet(stack))'
  <1>1. \A st : (Quiet(st))' <=> Quiet(st)
    BY DEF Quiet, Harmless
  <1>2. \A i \in DOMAIN stack' : QuietFrame(stack'[i])
    BY DEF AllQuiet
  <1>3. \A i \in DOMAIN stack' : (QuietFrame(stack[i]))'
    BY <1>1, <1>2 DEF QuietFrame
  <1>4. QED
    BY <1>3 DEF AllQuiet

LEMMA DryStep == RunInv /\ DryInv /\ [Next]_vars => DryInv'
  <1> SUFFICES ASSUME RunInv, DryInv, [Next]_vars PROVE DryInv'
    OBVIOUS
  <1>d. /\ DryInv <=> (case.flags.dryRun => "plain" \notin did /\ (phase = "run" => AllQuiet(stack)))
        /\ DryInv' <=> (case'.flags.dryRun => "plain" \notin did' /\ (phase' = "run" => (AllQuiet(stack))'))
    BY DEF DryInv, AllQuiet
  <1>1. CASE LoadProject \/ ValidateProject
    <2>1. phase' # "run" /\ UNCHANGED <<case, did>>
      BY <1>1 DEF LoadProject, ValidateProject, OneReportEach
    <2>2. QED
      BY <1>d, <2>1
  <1>2. CASE Settle
    <2>1. phase = "settle" /\ UNCHANGED <<case, stack, did>>
      BY <1>2 DEF Settle, Launch
    <2>2. stack' = <<>> /\ DOMAIN <<>> = {}
      BY <2>1 DEF RunInv, Unstarted
    <2>3. (AllQuiet(stack))'
      BY <2>2 DEF AllQuiet
    <2>4. QED
      BY <1>d, <2>1, <2>3
  <1>3. CASE RunStep
    <2>1. phase = "run" /\ UNCHANGED <<case, set, chosen>>
      BY <1>3, RunFrame
    <2>2. Insts' = Insts
      BY <2>1 DEF Scenario, Merged, Project, Insts
    <2>3. ASSUME case'.flags.dryRun
          PROVE  "plain" \notin did' /\ (phase' = "run" => (AllQuiet(stack))')
      <3>1. case.flags.dryRun /\ "plain" \notin did /\ AllQuiet(stack)
        BY <1>d, <2>1, <2>3
      <3>2. "plain" \notin did'
        BY <1>3, <3>1, DidStep
      <3>3. phase' = "run" => AllQuiet(stack')
        BY <1>3, <3>1, QuietStep
      <3>4. QED
        BY <2>2, <3>2, <3>3, QuietStays
    <2>4. QED
      BY <1>d, <2>3
  <1>4. CASE UNCHANGED vars
    <2>1. UNCHANGED <<case, phase, set, chosen, stack, did>>
      BY <1>4 DEF vars
    <2>2. Insts' = Insts
      BY <2>1 DEF Scenario, Merged, Project, Insts
    <2>3. AllQuiet(stack) => (AllQuiet(stack))'
      BY <2>1, <2>2, QuietStays
    <2>4. QED
      BY <1>d, <2>1, <2>3
  <1>5. QED
    BY <1>1, <1>2, <1>3, <1>4, StepKinds

(* A dry run executes nothing plainly that changes the system: an action   *)
(* is skipped, a verb whose body mutates is inferred an action however     *)
(* deep it calls, and a frame of a composed verb holds nothing else.       *)
THEOREM DryRunIsQuiet == Spec => []DryRunMutatesNothing
  <1>1. Init => RunInv /\ DryInv
    BY RunInit DEF Init, DryInv
  <1>2. RunInv /\ DryInv /\ [Next]_vars => (RunInv /\ DryInv)'
    BY RunSteps, DryStep
  <1>3. RunInv /\ DryInv => DryRunMutatesNothing
    BY DEF DryInv, DryRunMutatesNothing
  <1>4. QED
    BY <1>1, <1>2, <1>3, PTL DEF Spec

LEMMA TurnMoves ==
  ASSUME NEW k, NEW f \in Frames, f.todo # <<>>, NEW ok \in BOOLEAN, NEW bad \in BOOLEAN, NEW binds, NEW G, NEW H,
         FrameFine(k, f, G), G \cup MissedBy(f, ok, bad) \subseteq H,
         ok => Bound(Head(f.todo)) \subseteq f.outputs \cup binds \cup H
  PROVE  Moves(k, f, After(f, ok, bad, binds), G, H)
  <1> DEFINE g == After(f, ok, bad, binds)  todo == f.todo  head == Head(f.todo)
             D == f.outputs \cup G  E == g.outputs \cup H
  <1>1. /\ g.kind = f.kind /\ g.rest = f.rest /\ g.wrote = f.wrote /\ g.params = f.params /\ g.stop = f.stop
        /\ g.todo = (IF bad /\ f.stop THEN <<>> ELSE Tail(todo))
        /\ g.outputs = (IF ok THEN f.outputs \cup binds ELSE f.outputs)
    <2>1. Ended(After(f, ok, bad, binds), f, ok, bad, binds)
      BY AfterHas
    <2> HIDE DEF D, E, head, g
    <2>2. Ended(g, f, ok, bad, binds)
      BY <2>1 DEF g
    <2>3. QED
      BY <2>2 DEF Ended
  <1>2. todo \in Seq(Steps) /\ todo # <<>>
    BY DEF Frames
  <1>3. /\ AllBinds(todo) = Bound(head) \cup AllBinds(Tail(todo)) /\ AllBinds(<<>>) = {}
        /\ AllBinds(<<head>>) = Bound(head)
    BY <1>2, BindsOfTail
  <1>4. /\ (ok \/ Bound(head) \subseteq H) /\ (bad /\ f.stop => AllBinds(Tail(todo)) \subseteq H) /\ G \subseteq H
    BY <1>3 DEF MissedBy
  <1>5. SeqFine(f.kind, f.params, k, todo, D)
    BY DEF FrameFine
  <1>o. ok => Bound(head) \subseteq f.outputs \cup binds \cup H
    OBVIOUS
  <1> HIDE DEF g, todo, head
  <1>6. f.outputs \subseteq g.outputs /\ Bound(head) \subseteq E
    BY <1>1, <1>4, <1>o
  <1>7. D \subseteq E /\ D \cup Bound(head) \subseteq E
    BY <1>4, <1>6
  <1>8. Cover(f, G) \subseteq Cover(g, H)
    <2>1. AllBinds(Tail(todo)) \subseteq H \cup AllBinds(g.todo)
      BY <1>1, <1>4
    <2>2. QED
      BY <1>3, <1>4, <1>6, <2>1 DEF Cover, todo
  <1> HIDE DEF D, E
  <1>9. SeqFine(f.kind, f.params, k, g.todo, E)
    <2>1. CASE bad /\ f.stop
      BY <1>1, <2>1, FineEmpty
    <2>2. CASE ~(bad /\ f.stop)
      <3>1. head = Head(todo)
        BY DEF head, todo
      <3>2. SeqFine(f.kind, f.params, k, Tail(todo), E)
        BY <1>2, <1>5, <1>7, <3>1, FineTail
      <3>3. QED
        BY <1>1, <2>2, <3>2
    <2>3. QED
      BY <2>1, <2>2
  <1>10. FrameFine(k, g, H)
    BY <1>1, <1>9 DEF FrameFine, E
  <1>11. Moves(k, f, g, G, H)
    BY <1>1, <1>4, <1>7, <1>8, <1>10 DEF Moves, D, E
  <1>12. QED
    BY <1>11 DEF g

-----------------------------------------------------------------------------
(* What a run reads of a fine frame.                                       *)
Known == KnownOf(Scenario, Project, Insts)

LEMMA EnvIs == DOMAIN ResolveEnv(Project.env, case.process, OverlayOf(case.dotenv)) = DOMAIN Project.env
  BY DEF ResolveEnv

LEMMA KnownIs ==
  Known.specs = Specs(Insts) /\ Known.vars = Project.vars \cup Scenario.vars /\ Known.env = DOMAIN Project.env
  BY DEF Known, KnownOf

LEMMA SeenRefs ==
  ASSUME NEW exprs, NEW f, NEW r \in Dangling(exprs, f)
  PROVE  r \in UNION {NSRefs(e) : e \in exprs} /\ r \notin Scope(f) /\ (f.kind = "macro" => r[1] # "vars")
  BY DEF Dangling, Unseen

LEMMA NotInScope ==
  ASSUME NEW f, NEW r \in Pairs, r \notin Scope(f)
  PROVE  /\ r[1] = "outputs" => r[2] \notin f.outputs
         /\ r[1] = "params" => r[2] \notin f.params
         /\ r[1] = "vars" => r[2] \notin Project.vars \cup Scenario.vars
         /\ r[1] = "env" => r[2] \notin DOMAIN Project.env
  <1> DEFINE a == r[1]  b == r[2]
  <1>1. <<a, b>> \notin Scope(f)
    BY PairParts
  <1> HIDE DEF a, b
  <1>2. /\ \A n \in f.outputs : <<"outputs", n>> \in Scope(f)
        /\ \A n \in f.params : <<"params", n>> \in Scope(f)
        /\ \A n \in Project.vars \cup Scenario.vars : <<"vars", n>> \in Scope(f)
        /\ \A n \in DOMAIN Project.env : <<"env", n>> \in Scope(f)
    BY EnvIs DEF Scope
  <1>3. /\ a = "outputs" => b \notin f.outputs
        /\ a = "params" => b \notin f.params
        /\ a = "vars" => b \notin Project.vars \cup Scenario.vars
        /\ a = "env" => b \notin DOMAIN Project.env
    BY <1>1, <1>2
  <1>4. QED
    BY <1>3 DEF a, b

LEMMA ReadExcused ==
  ASSUME RunInv, At, NEW G, FrameFine(Known, Top, G), NEW exprs \in SUBSET ExprsOf(Step0),
         Top.kind = "macro" \/ (Step0.run \in DOMAIN specs /\ ~Block(Step0)),
         NEW r \in Dangling(exprs, Top)
  PROVE  Excused(r, G)
  <1> DEFINE st == Step0  f == Top  D == Top.outputs \cup G
  <1>1. StackOk /\ specs = Known.specs /\ st \in Steps /\ f \in Frames /\ f.todo # <<>>
    BY KnownIs, StepIs, TopIs DEF RunInv, At
  <1>2. StepFine(f.kind, f.params, Known, st, D)
    BY <1>1, HeadFine DEF Step0
  <1>3. r \in RefsOf(st) /\ r \notin Scope(f) /\ (f.kind = "macro" => r[1] # "vars")
    BY SeenRefs DEF RefsOf
  <1>4. r \in Pairs
    BY <1>1, <1>3, RefsArePairs
  <1>c. f.kind = "macro" \/ (st.run \in DOMAIN specs /\ ~Block(st))
    OBVIOUS
  <1> HIDE DEF st, f
  <1>5. /\ r[1] = "outputs" => r[2] \notin f.outputs
        /\ r[1] = "params" => r[2] \notin f.params
        /\ r[1] = "vars" => r[2] \notin Known.vars
        /\ r[1] = "env" => r[2] \notin Known.env
    BY <1>3, <1>4, NotInScope, KnownIs
  <1>6. CASE f.kind = "macro"
    <2>1. MacroClean(Known, f.params, st, D)
      BY <1>2, <1>6 DEF StepFine
    <2>2. /\ r[1] \in {"params", "outputs", "env", "vars"}
          /\ (r[1] = "params" => r[2] \in f.params) /\ (r[1] = "env" => r[2] \in Known.env)
          /\ (r[1] = "outputs" => r[2] \in D)
      BY <1>3, <2>1 DEF MacroClean
    <2>3. r[1] = "outputs" /\ r[2] \in D
      BY <1>3, <1>5, <1>6, <2>2
    <2>4. QED
      BY <1>5, <2>3 DEF Excused, f
  <1>7. CASE f.kind # "macro"
    <2>1. StepClean(Known, st, D) /\ st.run \in DOMAIN Known.specs /\ ~Block(st)
      BY <1>1, <1>2, <1>7, <1>c DEF StepFine
    <2> HIDE DEF D
    <2>2. RefClean(Known, r, D)
      BY <1>1, <1>3, <2>1, CleanStep
    <2>3. r[1] = "outputs" /\ r[2] \in D
      BY <1>5, <2>2 DEF RefClean
    <2>4. QED
      BY <1>5, <2>3 DEF Excused, D, f
  <1>8. QED
    BY <1>6, <1>7

LEMMA ReadStep ==
  ASSUME RunInv, RunStep, NEW G, At => FrameFine(Known, Top, G), NEW r \in unbound'
  PROVE  r \in unbound \/ Excused(r, G)
  <1>1. \/ unbound' = unbound
        \/ At /\ ReadGuard
        \/ At /\ ReadAll /\ Runs(Step0)
    BY DEF RunStep, OpenSection, NextSection, GuardSkips, DrySkip, Unevaluated, OpenBlock, NextBranch,
           JoinBranches, CloseBlock, EndRepeat, CallFails, CallVerb, CallComposed, ReturnComposed
  <1>2. CASE At /\ ReadGuard
    <2>1. r \in unbound \/ (Looked(Step0) /\ r \in Dangling(Step0.guard, Top))
      BY <1>2 DEF ReadGuard
    <2>2. Step0.guard \in SUBSET ExprsOf(Step0)
      BY DEF ExprsOf
    <2>3. QED
      BY <1>2, <2>1, <2>2, ReadExcused DEF Looked
  <1>3. CASE At /\ ReadAll /\ Runs(Step0)
    <2>1. r \in unbound \/ r \in Dangling(ExprsOf(Step0), Top)
      BY <1>3 DEF ReadAll
    <2>2. Step0.run \in DOMAIN specs /\ ~Block(Step0) /\ ExprsOf(Step0) \in SUBSET ExprsOf(Step0)
      BY <1>3 DEF Runs
    <2>3. QED
      BY <1>3, <2>1, <2>2, ReadExcused
  <1>4. QED
    BY <1>1, <1>2, <1>3

LEMMA RepeatFine ==
  ASSUME NEW k, BlocksKnown(k), NEW f \in Frames, f.todo # <<>>, f.kind # "macro", NEW G, FrameFine(k, f, G),
         NEW st, st = Head(f.todo), st.run = <<"repeat">>, Times(st) \in Nat \ {0}
  PROVE  FrameFine(k, Body(f, st), G) /\ Link(k, f, Body(f, st), G)
  <1> DEFINE D == f.outputs \cup G  g == Body(f, st)  do == st.do  n == Times(st)
  <1>1. st \in Steps
    <2>1. f.todo \in Seq(Steps)
      BY DEF Frames
    <2>2. QED
      BY <2>1, TailIs
  <1>2. StepClean(k, st, D)
    BY HeadFine DEF StepFine
  <1>3. st.binds = {} /\ SeqClean(k, do, D)
    <2> HIDE DEF D
    <2>1. QED
      BY <1>1, <1>2, CleanStep DEF BlocksKnown, Block
  <1>4. Bound(st) = AllBinds(do)
    BY <1>1, <1>3, BlockBinds
  <1>5. do \in Seq(Steps) /\ n \in Nat /\ n # 0
    BY <1>1, StepsAssumption
  <1>6. g.kind = "body" /\ g.todo = Copies(do, n) /\ g.outputs = f.outputs
    BY <1>1, <1>5, BodyIs
  <1>h. Head(f.todo) = st
    OBVIOUS
  <1> HIDE DEF g, do, n
  <1>7. SeqFine("body", g.params, k, do, D)
    BY <1>3, FineIsClean
  <1>8. SeqFine("body", g.params, k, Copies(do, n), D) /\ AllBinds(do) \subseteq AllBinds(Copies(do, n))
    <2> HIDE DEF D
    <2>1. QED
      BY <1>5, <1>7, FineCopies
  <1>9. FrameFine(k, g, G)
    BY <1>6, <1>8 DEF FrameFine
  <1>10. Link(k, f, g, G)
    BY <1>4, <1>6, <1>8, <1>h DEF Link, Cover
  <1>11. QED
    BY <1>9, <1>10 DEF g

-----------------------------------------------------------------------------
(* The stack stays fine, step by step.                                     *)
Excuses == missed \cup lost

Keeps(k) == StackFine(k, stack', Excuses') /\ Bottom(stack, stack', Excuses, Excuses')

LEMMA TopFine ==
  ASSUME StackOk, stack # <<>>, NEW k, NEW G, StackFine(k, stack, G)
  PROVE  FrameFine(k, Top, G) /\ (Top.kind # "section" => FrameFine(k, Below, G) /\ Link(k, Below, Top, G))
  <1> DEFINE n == Len(stack)
  <1>1. stack \in Seq(Frames) /\ Top = stack[n] /\ n \in Nat \ {0}
    BY TopIs DEF StackOk
  <1>2. n \in 1..n
    BY <1>1
  <1>3. FrameFine(k, stack[n], G) /\ (n # 1 => Link(k, stack[n - 1], stack[n], G))
    BY <1>1, <1>2, FineAt
  <1>4. ASSUME Top.kind # "section" PROVE FrameFine(k, Below, G) /\ Link(k, Below, Top, G)
    <2>1. n >= 2 /\ Below = stack[n - 1]
      BY <1>4, BelowIs
    <2> HIDE DEF Below, Top
    <2>2. n # 1 /\ n - 1 \in 1..n
      BY <1>1, <2>1
    <2>3. FrameFine(k, stack[n - 1], G)
      BY <1>1, <2>2, FineAt
    <2>4. QED
      BY <1>1, <1>3, <2>1, <2>2, <2>3
  <1>5. QED
    BY <1>1, <1>3, <1>4

LEMMA TurnKeeps ==
  ASSUME StackOk, NEW k, StackFine(k, stack, Excuses), NEW ok, NEW bad, NEW binds, Turn(ok, bad, binds),
         ok => Bound(Step0) \subseteq binds
  PROVE  Keeps(k)
  <1> DEFINE f == Top  g == After(Top, ok, bad, binds)  s == stack  G == Excuses  H == Excuses'
  <1>1. stack # <<>> /\ f.todo # <<>> /\ ok \in BOOLEAN /\ bad \in BOOLEAN
    BY DEF Turn, At
  <1>2. f \in Frames /\ f = s[Len(s)] /\ s \in Seq(Frames) /\ s # <<>>
    BY <1>1, TopIs DEF StackOk
  <1>3. stack' = Swap(s, g) /\ g \in Frames
    BY TurnStack
  <1>4. G \cup MissedBy(f, ok, bad) \subseteq H
    BY DEF Turn, EndStep, Excuses
  <1>5. FrameFine(k, f, G)
    BY <1>1, TopFine
  <1>6. ok => Bound(Head(f.todo)) \subseteq f.outputs \cup binds \cup H
    BY DEF Step0
  <1>s. StackFine(k, s, G)
    OBVIOUS
  <1> HIDE DEF f, s, G, H
  <1>7. Moves(k, f, After(f, ok, bad, binds), G, H)
    BY <1>1, <1>2, <1>4, <1>5, <1>6, TurnMoves
  <1>8. Moves(k, f, g, G, H)
    BY <1>7 DEF f
  <1> HIDE DEF g
  <1>9. StackFine(k, Swap(s, g), H) /\ Bottom(s, Swap(s, g), G, H)
    BY <1>2, <1>3, <1>8, <1>s, FineSwap
  <1>10. QED
    BY <1>3, <1>9 DEF Keeps, s, G, H

LEMMA OpenKeeps ==
  ASSUME StackOk, NEW k, StackFine(k, stack, Excuses), NEW g, Opens(g), UNCHANGED <<missed, lost>>,
         FrameFine(k, g, Excuses), Link(k, Top, g, Excuses)
  PROVE  Keeps(k)
  <1> DEFINE s == stack  G == Excuses
  <1>1. s # <<>> /\ s \in Seq(Frames) /\ g \in Frames /\ stack' = Append(s, g)
    BY DEF Opens, At, StackOk
  <1>2. Top = s[Len(s)]
    BY <1>1, TopIs
  <1>3. Excuses' = G
    BY DEF Excuses
  <1>4. StackFine(k, s, G) /\ FrameFine(k, g, G) /\ Link(k, s[Len(s)], g, G)
    BY <1>2
  <1> HIDE DEF s, G
  <1>5. StackFine(k, Append(s, g), G) /\ Bottom(s, Append(s, g), G, G)
    BY <1>1, <1>4, FinePush
  <1>6. QED
    BY <1>1, <1>3, <1>5 DEF Keeps, s, G

LEMMA DropKeeps ==
  ASSUME StackOk, NEW k, StackFine(k, stack, Excuses), NEW f, Drops(f), Moves(k, Below, f, Excuses, Excuses')
  PROVE  Keeps(k)
  <1> DEFINE s == stack  G == Excuses  H == Excuses'
  <1>1. s \in Seq(Frames) /\ Len(s) >= 2 /\ f \in Frames /\ stack' = Shrink(s, f)
    BY DEF Drops, StackOk
  <1>2. StackFine(k, s, G) /\ Moves(k, s[Len(s) - 1], f, G, H)
    BY DEF Below
  <1> HIDE DEF s, G, H
  <1>3. StackFine(k, Shrink(s, f), H) /\ Bottom(s, Shrink(s, f), G, H)
    BY <1>1, <1>2, FineShrink
  <1>4. QED
    BY <1>1, <1>3 DEF Keeps, s, G, H

-----------------------------------------------------------------------------
LEMMA BlockKeeps ==
  ASSUME RunInv, NEW k, BlocksKnown(k), StackFine(k, stack, Excuses), OpenBlock
  PROVE  Keeps(k)
  <1>1. StackOk /\ At /\ Block(Step0) /\ stack # <<>> /\ Top \in Frames /\ Top.todo # <<>> /\ Step0 \in Steps
    BY StepIs, TopIs DEF OpenBlock, At, RunInv
  <1>2. CASE Top.kind = "macro" \/ ~WellFormed(Step0)
    <2>1. Turn(FALSE, TRUE, {})
      BY <1>1, <1>2, TurnSteps
    <2>2. QED
      BY <1>1, <2>1, TurnKeeps
  <1>3. CASE Top.kind # "macro" /\ WellFormed(Step0)
    <2> DEFINE f == Top  st == Step0  G == Excuses
    <2>1. UNCHANGED <<missed, lost>>
      BY <1>3 DEF OpenBlock
    <2>2. IF st.run = <<"parallel">> THEN Opens(Branch(f, st.branches)) ELSE Opens(Body(f, st))
      BY <1>1, <1>3, BlockOpens
    <2>3. FrameFine(k, f, G) /\ st = Head(f.todo)
      BY <1>1, TopFine DEF Step0
    <2>w. WellFormed(st) /\ Block(st) /\ f.kind # "macro" /\ f \in Frames /\ f.todo # <<>> /\ st \in Steps
      BY <1>1, <1>3
    <2>4. CASE st.run = <<"parallel">>
      <3>1. st.branches # <<>>
        BY <2>4, <2>w DEF WellFormed
      <3> HIDE DEF f, st, G
      <3>2. FrameFine(k, Branch(f, st.branches), G) /\ Link(k, f, Branch(f, st.branches), G)
        BY <2>3, <2>4, <2>w, <3>1, ParallelFine
      <3> DEFINE g == Branch(f, st.branches)
      <3>3. Opens(g) /\ FrameFine(k, g, G) /\ Link(k, f, g, G)
        BY <2>2, <2>4, <3>2
      <3> HIDE DEF g
      <3>4. QED
        BY <1>1, <2>1, <3>3, OpenKeeps DEF f, G
    <2>5. CASE st.run # <<"parallel">>
      <3>1. st.run = <<"repeat">> /\ Times(st) \in Nat \ {0}
        <4>1. st.times >= 1 /\ st.times \in Int
          BY <2>5, <2>w, StepsAssumption DEF WellFormed
        <4>2. st.run = <<"repeat">>
          BY <2>5, <2>w DEF Block
        <4>3. QED
          BY <4>1, <4>2 DEF Times
      <3> HIDE DEF f, st, G
      <3>2. FrameFine(k, Body(f, st), G) /\ Link(k, f, Body(f, st), G)
        BY <2>3, <2>w, <3>1, RepeatFine
      <3> DEFINE g == Body(f, st)
      <3>3. Opens(g) /\ FrameFine(k, g, G) /\ Link(k, f, g, G)
        BY <2>2, <2>5, <3>2
      <3> HIDE DEF g
      <3>4. QED
        BY <1>1, <2>1, <3>3, OpenKeeps DEF f, G
    <2>6. QED
      BY <2>4, <2>5
  <1>4. QED
    BY <1>2, <1>3

(* What the next branch, or the step after the join, finds bound.          *)
LEMMA BranchBinds ==
  ASSUME StackOk, NEW k, NEW G, Ends("branch"), StackFine(k, stack, G), NEW H, G \subseteq H,
         Top.outputs \ (Below.outputs \cup Handed) \subseteq H
  PROVE  /\ Bound(Head(Below.todo)) \subseteq Below.outputs \cup Handed \cup H \cup RestBinds(Top.rest)
         /\ \A i \in 1..Len(Top.rest) : SeqClean(k, Top.rest[i], Below.outputs \cup H)
  <1> DEFINE b == Below  t == Top
  <1>1. stack # <<>> /\ t.kind = "branch" /\ t.todo = <<>>
    BY DEF Ends
  <1>2. Link(k, b, t, G)
    BY <1>1, TopFine
  <1>3. AllBinds(<<>>) = {}
    <2>1. Range(<<>>) = {}
      BY DEF Range
    <2>2. QED
      BY <2>1, AllBindsAre
  <1>4. t.wrote \subseteq Handed
    BY DEF Handed
  <1> HIDE DEF b, t
  <1>5. /\ Bound(Head(b.todo)) \subseteq b.outputs \cup t.wrote \cup Cover(t, G) \cup RestBinds(t.rest)
        /\ \A i \in 1..Len(t.rest) : SeqClean(k, t.rest[i], b.outputs \cup G)
    BY <1>1, <1>2 DEF Link
  <1>6. Cover(t, G) \subseteq b.outputs \cup Handed \cup H
    BY <1>1, <1>3 DEF Cover, b, t
  <1>7. Bound(Head(b.todo)) \subseteq b.outputs \cup Handed \cup H \cup RestBinds(t.rest)
    BY <1>4, <1>5, <1>6
  <1> DEFINE D == b.outputs \cup G  E == b.outputs \cup H
  <1>8. D \subseteq E /\ \A i \in 1..Len(t.rest) : SeqClean(k, t.rest[i], D)
    BY <1>5
  <1> HIDE DEF D, E
  <1>9. \A i \in 1..Len(t.rest) : SeqClean(k, t.rest[i], E)
    BY <1>8, CleanMore
  <1>10. QED
    BY <1>7, <1>9 DEF b, t, E

LEMMA NextOneIs ==
  ASSUME StackOk, NextBranch
  PROVE  /\ NextOne.kind = "branch" /\ NextOne.todo = Top.rest[1] /\ NextOne.rest = Tail(Top.rest)
         /\ NextOne.outputs = Below.outputs /\ NextOne.wrote = Handed
  <1> DEFINE b == Branch(Below, Top.rest)
  <1>1. /\ stack # <<>> /\ Top.kind = "branch" /\ Top.rest \in Seq(Seq(Steps)) /\ Top.rest # <<>>
        /\ Handed \in SUBSET STRING /\ Top.failed \in BOOLEAN
    BY EndsIs DEF NextBranch
  <1>2. Below \in Frames
    BY <1>1, BelowIs
  <1>3. /\ b \in Frames /\ b.kind = "branch" /\ b.todo = Top.rest[1] /\ b.rest = Tail(Top.rest)
        /\ b.outputs = Below.outputs
    BY <1>1, <1>2, BranchIs
  <1> HIDE DEF b
  <1>4. NextOne = NextOf(b, Handed, Top.failed)
    BY DEF NextOne, NextOf, b
  <1> DEFINE g == NextOne  wrote == Handed  failed == Top.failed
  <1>5. g = NextOf(b, wrote, failed) /\ wrote \in SUBSET STRING /\ failed \in BOOLEAN
    BY <1>1, <1>4
  <1> HIDE DEF g, wrote, failed
  <1>6. g.kind = b.kind /\ g.todo = b.todo /\ g.rest = b.rest /\ g.outputs = b.outputs /\ g.wrote = wrote
    BY <1>3, <1>5, NextIs
  <1>7. QED
    BY <1>3, <1>6 DEF g, wrote

LEMMA BranchKeeps ==
  ASSUME StackOk, NEW k, StackFine(k, stack, Excuses), NextBranch
  PROVE  Keeps(k)
  <1> DEFINE s == stack  n == Len(s)  b == Below  rest == Top.rest  g == NextOne  G == Excuses  H == Excuses'
             t == Swap(s, g)
  <1>1. /\ s # <<>> /\ Top.kind # "section" /\ rest \in Seq(Seq(Steps)) /\ rest # <<>> /\ Ends("branch")
        /\ s \in Seq(Frames)
    BY EndsIs DEF NextBranch, StackOk
  <1>2. n >= 2 /\ n \in Nat /\ b \in Frames /\ b = s[n - 1]
    BY <1>1, BelowIs
  <1>3. g \in Frames /\ stack' = t
    BY BranchNext
  <1>4. /\ g.kind = "branch" /\ g.todo = rest[1] /\ g.rest = Tail(rest)
        /\ g.outputs = b.outputs /\ g.wrote = Handed
    BY NextOneIs
  <1>5. G \subseteq H /\ Top.outputs \ (Below.outputs \cup Handed) \subseteq H
    BY DEF NextBranch, Loses, Excuses
  <1>6. StackFine(k, s, G)
    OBVIOUS
  <1> HIDE DEF G, H
  <1>7. /\ Bound(Head(b.todo)) \subseteq b.outputs \cup Handed \cup H \cup RestBinds(rest)
        /\ \A i \in 1..Len(rest) : SeqClean(k, rest[i], b.outputs \cup H)
    BY <1>1, <1>5, <1>6, BranchBinds
  <1>8. Bound(Head(b.todo)) \subseteq b.outputs \cup g.wrote \cup H \cup RestBinds(rest)
    BY <1>4, <1>7
  <1> HIDE DEF b, rest, g
  <1>9. FrameFine(k, g, H) /\ Link(k, b, g, H)
    BY <1>1, <1>2, <1>4, <1>7, <1>8, BranchFine
  <1>10. Recut(s, t, n, g) /\ n \in Nat \ {0} /\ n <= Len(s) + 1
    <2>s. s \in Seq(Frames) /\ s # <<>> /\ g \in Frames
      BY <1>1, <1>3
    <2> HIDE DEF s
    <2>1. Len(t) = n /\ n \in Nat \ {0} /\ t[n] = g /\ \A i \in 1..(n - 1) : t[i] = s[i]
      BY <2>s, SwapIs
    <2>2. n <= Len(s) + 1
      BY <2>1
    <2> HIDE DEF n, t
    <2>3. QED
      BY <2>1, <2>2 DEF Recut
  <1> HIDE DEF s, n, t
  <1>11. StackFine(k, t, H)
    BY <1>1, <1>2, <1>5, <1>6, <1>9, <1>10, FineRecut
  <1>12. n # 1
    BY <1>2
  <1>13. Bottom(s, t, G, H)
    BY <1>5, <1>10, <1>12, BottomIs
  <1>14. QED
    BY <1>3, <1>11, <1>13 DEF Keeps, s, G, H

(* The step of a block is over: its frame first gets what the block bound. *)
LEMMA CloseKeeps ==
  ASSUME StackOk, NEW k, StackFine(k, stack, Excuses), stack # <<>>, Top.kind # "section", Top.failed \in BOOLEAN,
         NEW f \in Frames, FieldsOf(f, Below), Drops(After(f, TRUE, Top.failed, {})),
         missed' = missed \cup MissedBy(f, TRUE, Top.failed), lost \subseteq lost',
         Below.outputs \subseteq f.outputs \cup Excuses',
         Bound(Head(Below.todo)) \subseteq f.outputs \cup Excuses'
  PROVE  Keeps(k)
  <1> DEFINE b == Below  G == Excuses  H == Excuses'  bad == Top.failed  ok == TRUE  none == {}
             g == After(f, ok, bad, none)
  <1>1. FrameFine(k, b, G)
    BY TopFine
  <1>2. G \subseteq H /\ H \cup MissedBy(f, ok, bad) \subseteq H
    BY DEF Excuses
  <1>3. /\ f.kind = b.kind /\ f.todo = b.todo /\ f.params = b.params /\ f.stop = b.stop
        /\ f.rest = b.rest /\ f.wrote = b.wrote
    BY DEF FieldsOf
  <1>4. f.todo # <<>>
    BY <1>3, BelowIs
  <1>5. ok \in BOOLEAN /\ bad \in BOOLEAN /\ Drops(g)
    OBVIOUS
  <1>6. b.outputs \subseteq f.outputs \cup H /\ Bound(Head(b.todo)) \subseteq f.outputs \cup H
    OBVIOUS
  <1> HIDE DEF b, G, H, bad, ok, none
  <1> DEFINE D == b.outputs \cup G  E == f.outputs \cup H
  <1>7. D \subseteq E /\ SeqFine(b.kind, b.params, k, b.todo, D)
    BY <1>1, <1>2, <1>6 DEF FrameFine
  <1> HIDE DEF D, E
  <1>8. SeqFine(b.kind, b.params, k, b.todo, E)
    BY <1>7, FineMore
  <1>9. FrameFine(k, f, H)
    BY <1>3, <1>8 DEF FrameFine, E
  <1>10. Moves(k, b, f, G, H)
    BY <1>2, <1>3, <1>6, <1>9 DEF Moves, Cover
  <1>11. ok => Bound(Head(f.todo)) \subseteq f.outputs \cup none \cup H
    BY <1>3, <1>6
  <1>12. Moves(k, f, After(f, ok, bad, none), H, H)
    BY <1>2, <1>4, <1>5, <1>9, <1>11, TurnMoves
  <1>13. Moves(k, f, g, H, H)
    BY <1>12
  <1> HIDE DEF g
  <1>14. Moves(k, b, g, G, H)
    BY <1>10, <1>13, MovesOn
  <1>15. QED
    BY <1>5, <1>14, DropKeeps DEF b, G, H

LEMMA JoinKeeps ==
  ASSUME StackOk, NEW k, StackFine(k, stack, Excuses), JoinBranches
  PROVE  Keeps(k)
  <1>1. /\ stack # <<>> /\ Top.kind # "section" /\ Handed \in SUBSET STRING /\ Top.failed \in BOOLEAN
        /\ Below.outputs \in SUBSET STRING /\ Ends("branch") /\ Top.rest = <<>>
    BY EndsIs DEF JoinBranches
  <1>2. Joined \in Frames /\ FieldsOf(Joined, Below) /\ Drops(After(Joined, TRUE, Top.failed, {}))
    BY BlockCloses
  <1>3. missed' = missed \cup MissedBy(Joined, TRUE, Top.failed) /\ lost \subseteq lost'
        /\ Top.outputs \ (Below.outputs \cup Handed) \subseteq Excuses'
    BY DEF JoinBranches, CloseBlock, Joined, Loses, Excuses
  <1>4. Joined.outputs = Below.outputs \cup Handed
    <2>1. Below \in Frames
      BY <1>1, BelowIs
    <2>2. Joined = [Below EXCEPT !.outputs = Below.outputs \cup Handed]
      BY DEF Joined
    <2>3. QED
      BY <1>1, <2>1, <2>2, BoundIs
  <1>5. Excuses \subseteq Excuses'
    BY <1>3 DEF Excuses
  <1> DEFINE G == Excuses  H == Excuses'
  <1>6. G \subseteq H /\ Top.outputs \ (Below.outputs \cup Handed) \subseteq H /\ StackFine(k, stack, G)
    BY <1>3, <1>5
  <1> HIDE DEF G, H
  <1>7. Bound(Head(Below.todo)) \subseteq Below.outputs \cup Handed \cup H \cup RestBinds(Top.rest)
    BY <1>1, <1>6, BranchBinds
  <1>8. Bound(Head(Below.todo)) \subseteq Joined.outputs \cup H /\ Below.outputs \subseteq Joined.outputs \cup H
    BY <1>1, <1>4, <1>7, RestEmpty
  <1>9. QED
    BY <1>1, <1>2, <1>3, <1>8, CloseKeeps DEF H

LEMMA RepeatKeeps ==
  ASSUME StackOk, NEW k, StackFine(k, stack, Excuses), EndRepeat
  PROVE  Keeps(k)
  <1>1. /\ stack # <<>> /\ Top.kind = "body" /\ Top.todo = <<>> /\ Top.failed \in BOOLEAN
        /\ Top.outputs \in SUBSET STRING /\ Top.writes \in SUBSET STRING
    BY EndsIs DEF EndRepeat
  <1>2. Repeated \in Frames /\ FieldsOf(Repeated, Below) /\ Drops(After(Repeated, TRUE, Top.failed, {}))
    BY BlockCloses
  <1>3. missed' = missed \cup MissedBy(Repeated, TRUE, Top.failed) /\ lost' = lost
    BY DEF EndRepeat, CloseBlock, Repeated
  <1>4. Repeated.outputs = Top.outputs
    <2> DEFINE b == Below  outputs == Top.outputs  writes == Top.writes
    <2>1. b \in Frames /\ outputs \in SUBSET STRING /\ writes \in SUBSET STRING
      BY <1>1, BelowIs
    <2>2. Repeated = [b EXCEPT !.outputs = outputs, !.writes = writes]
      BY DEF Repeated
    <2> HIDE DEF b, outputs, writes
    <2>3. [b EXCEPT !.outputs = outputs, !.writes = writes].outputs = outputs
      BY <2>1 DEF Frames
    <2>4. QED
      BY <2>2, <2>3 DEF outputs
  <1>5. Excuses \subseteq Excuses'
    BY <1>3 DEF Excuses
  <1>6. Link(k, Below, Top, Excuses)
    BY <1>1, TopFine
  <1>7. AllBinds(<<>>) = {}
    <2>1. Range(<<>>) = {}
      BY DEF Range
    <2>2. QED
      BY <2>1, AllBindsAre
  <1>8. Below.outputs \subseteq Top.outputs \cup Excuses /\ Bound(Head(Below.todo)) \subseteq Top.outputs \cup Excuses
    BY <1>1, <1>6, <1>7 DEF Link, Cover
  <1>9. Below.outputs \subseteq Repeated.outputs \cup Excuses'
        /\ Bound(Head(Below.todo)) \subseteq Repeated.outputs \cup Excuses'
    BY <1>4, <1>5, <1>8
  <1>10. QED
    BY <1>1, <1>2, <1>3, <1>9, CloseKeeps

LEMMA CallKeeps ==
  ASSUME RunInv, StackFine(Known, stack, Excuses), CallComposed,
         Errors(CheckDefs(set.providers, Project)) = {}
  PROVE  Keeps(Known)
  <1> DEFINE cv == VerbOf(Insts, Step0.run)  g == MacroOf(cv)  k == Known  G == Excuses
  <1>1. /\ Opens(g) /\ cv.body \in Seq(Steps) /\ Exists(Insts, Step0.run)
    BY MacroOpens
  <1>2. /\ At /\ IsComposed(Insts, Step0.run) /\ ~Block(Step0) /\ phase = "run" /\ UNCHANGED <<missed, lost>>
    BY DEF CallComposed, Runs, At
  <1>3. StackOk /\ Step0 \in Steps
    BY <1>2, StepIs DEF RunInv
  <1>4. cv \in UNION {Range(d.verbs) : d \in Range(set.providers)}
    <2> DEFINE defs == set.providers  providers == Merged(Scenario)  docs == case.docs  run == Step0.run
    <2>1. defs \in Seq(Of(docs, "Provider"))
      BY DEF RunInv, SelectionInv, LoadInv, Sets
    <2>2. IsComposed(Instances(defs, providers), run) /\ Exists(Instances(defs, providers), run)
      BY <1>1, <1>2 DEF Insts
    <2> HIDE DEF defs, providers, docs, run
    <2>3. VerbOf(Instances(defs, providers), run) \in UNION {Range(d.verbs) : d \in Range(defs)}
      BY <2>1, <2>2, VerbListed
    <2>4. QED
      BY <2>3 DEF defs, providers, run, Insts
  <1>5. CheckVerb(cv, k.env) \subseteq CheckDefs(set.providers, Project)
    <2> HIDE DEF cv
    <2>1. k.env = DOMAIN Project.env
      BY KnownIs
    <2>2. QED
      BY <1>4, <2>1 DEF CheckDefs
  <1>6. \A f \in CheckVerb(cv, k.env) : f.severity # "error"
    BY <1>5 DEF Errors
  <1>7. g.kind = "macro" /\ g.todo = cv.body /\ g.outputs = {} /\ g.params = Range(cv.params)
    BY DEF MacroOf, Frame
  <1>8. Bound(Step0) = Step0.binds
    BY <1>2, <1>3, PlainBinds
  <1> HIDE DEF cv, g, k, G
  <1>9. SeqFine("macro", Range(cv.params), k, cv.body, {})
    BY <1>1, <1>6, VerbClean
  <1> DEFINE params == Range(cv.params)  body == cv.body  E == {} \cup G
  <1>10. SeqFine("macro", params, k, body, {}) /\ {} \subseteq E
    BY <1>9
  <1> HIDE DEF params, body, E
  <1>11. SeqFine("macro", params, k, body, E)
    BY <1>10, FineMore
  <1>12. FrameFine(k, g, G)
    BY <1>7, <1>11 DEF FrameFine, params, body, E
  <1>13. Link(k, Top, g, G)
    BY <1>7, <1>8 DEF Link, Step0
  <1>14. QED
    BY <1>1, <1>2, <1>3, <1>12, <1>13, OpenKeeps DEF k, G

LEMMA ReturnKeeps ==
  ASSUME StackOk, NEW k, StackFine(k, stack, Excuses), ReturnComposed
  PROVE  Keeps(k)
  <1>1. stack # <<>> /\ Top.kind = "macro" /\ lost' = lost
    BY EndsIs DEF ReturnComposed, EndStep
  <1>2. PICK ok \in BOOLEAN, bad \in BOOLEAN :
          /\ Drops(After(Below, ok, bad, Head(Below.todo).binds))
          /\ missed' = missed \cup MissedBy(Below, ok, bad)
    BY MacroReturns
  <1> DEFINE b == Below  binds == Head(Below.todo).binds  g == After(b, ok, bad, binds)
             G == Excuses  H == Excuses'
  <1>3. b \in Frames /\ b.todo # <<>> /\ Drops(g)
    BY <1>1, <1>2, BelowIs
  <1>4. FrameFine(k, b, G) /\ Link(k, b, Top, G)
    BY <1>1, TopFine
  <1>5. G \cup MissedBy(b, ok, bad) \subseteq H
    BY <1>1, <1>2 DEF Excuses
  <1>6. Bound(Head(b.todo)) = binds
    BY <1>1, <1>4 DEF Link
  <1> HIDE DEF b, binds, G, H
  <1>7. ok => Bound(Head(b.todo)) \subseteq b.outputs \cup binds \cup H
    BY <1>6
  <1>8. Moves(k, b, After(b, ok, bad, binds), G, H)
    BY <1>3, <1>4, <1>5, <1>7, TurnMoves
  <1> HIDE DEF g
  <1>9. QED
    BY <1>3, <1>8, DropKeeps DEF b, G, H, g

-----------------------------------------------------------------------------
(* Every step inside a section keeps the stack fine.                       *)
LEMMA InsideFrame ==
  ASSUME RunStep
  PROVE  /\ Excuses \subseteq Excuses'
         /\ ~OpenSection /\ ~NextSection => UNCHANGED <<phase, sections>>
  <1>1. ASSUME ~OpenSection, ~NextSection
        PROVE  missed \subseteq missed' /\ lost \subseteq lost' /\ UNCHANGED <<phase, sections>>
    BY <1>1 DEF RunStep, GuardSkips, DrySkip, Unevaluated, EndStep, OpenBlock, NextBranch, Loses,
           JoinBranches, CloseBlock, EndRepeat, CallFails, CallVerb, CallComposed, ReturnComposed
  <1>2. OpenSection => missed \subseteq missed' /\ lost \subseteq lost'
    BY DEF OpenSection
  <1>3. NextSection => missed \subseteq missed' /\ lost \subseteq lost'
    BY DEF NextSection
  <1>4. QED
    BY <1>1, <1>2, <1>3 DEF Excuses

LEMMA StepKeeps ==
  ASSUME RunInv, RunStep, ~OpenSection, ~NextSection, StackFine(Known, stack, Excuses),
         Errors(CheckDefs(set.providers, Project)) = {}
  PROVE  Keeps(Known)
  <1>1. phase = "run" /\ StackOk
    BY RunFrame DEF RunInv
  <1>2. BlocksKnown(Known)
    BY BlocksResolve, KnownIs DEF BlocksKnown
  <1> DEFINE k == Known
  <1>3. StackFine(k, stack, Excuses) /\ BlocksKnown(k)
    BY <1>2
  <1>4. ASSUME NEW bad, Turn(FALSE, bad, {}) PROVE Keeps(Known)
    <2> DEFINE no == FALSE  none == {}
    <2>1. Turn(no, bad, none) /\ (no => Bound(Step0) \subseteq none)
      BY <1>4
    <2> HIDE DEF no, none, k
    <2>2. Keeps(k)
      BY <1>1, <1>3, <2>1, TurnKeeps
    <2>3. QED
      BY <2>2 DEF k
  <1>5. CASE GuardSkips \/ DrySkip \/ Unevaluated \/ CallFails
    <2>1. \E bad : Turn(FALSE, bad, {})
      BY <1>1, <1>5, TurnSteps
    <2>2. QED
      BY <1>4, <2>1
  <1>6. CASE CallVerb
    <2>1. PICK ok, bad \in BOOLEAN : Turn(ok, bad, Step0.binds)
      BY <1>1, <1>6, TurnSteps
    <2>2. At /\ ~Block(Step0)
      BY <1>6 DEF CallVerb, Runs
    <2>3. Bound(Step0) = Step0.binds
      BY <1>1, <2>2, StepIs, PlainBinds
    <2> HIDE DEF k
    <2>4. Keeps(k)
      BY <1>1, <1>3, <2>1, <2>3, TurnKeeps
    <2>5. QED
      BY <2>4 DEF k
  <1>7. CASE OpenBlock \/ NextBranch \/ JoinBranches \/ EndRepeat \/ ReturnComposed
    <2> HIDE DEF k
    <2>1. Keeps(k)
      BY <1>1, <1>3, <1>7, BlockKeeps, BranchKeeps, JoinKeeps, RepeatKeeps, ReturnKeeps
    <2>2. QED
      BY <2>1 DEF k
  <1>8. CASE CallComposed
    BY <1>8, CallKeeps
  <1>9. QED
    BY <1>5, <1>6, <1>7, <1>8 DEF RunStep

LEMMA AheadKeeps ==
  ASSUME NEW k, stack # <<>>, ToCome(k, stack, sections, Excuses), UNCHANGED sections, Keeps(k)
  PROVE  ToCome(k, stack', sections', Excuses')
  <1> DEFINE s == stack  t == stack'  G == Excuses  H == Excuses'  secs == sections
             D == Cover(s[1], G)  E == Cover(t[1], H)  left == Tail(secs)
  <1>1. t # <<>> /\ t[1].stop = s[1].stop /\ D \subseteq E
    BY DEF Keeps, Bottom
  <1>2. s[1].stop = Stops(secs[1].name) /\ SectionsFine(k, left, D) /\ (secs # <<>> => ~Stops(Last(secs).name))
    BY DEF ToCome
  <1> HIDE DEF D, E, left
  <1>3. SectionsFine(k, left, E)
    BY <1>1, <1>2, SectionsMore
  <1>4. sections' = secs
    OBVIOUS
  <1> HIDE DEF s, t, secs, G, H
  <1>5. ToCome(k, t, secs, H)
    BY <1>1, <1>2, <1>3 DEF ToCome, E, left
  <1>6. QED
    BY <1>4, <1>5 DEF t, H

LEMMA OpenAhead ==
  ASSUME StackOk, NEW k, OpenSection, ToCome(k, stack, sections, Excuses)
  PROVE  StackFine(k, stack', Excuses') /\ ToCome(k, stack', sections', Excuses')
  <1> DEFINE secs == sections  sec == Head(sections)  G == Excuses  t == <<SectionFrame(sec, {})>>  none == {}
             D == none \cup G
  <1>1. /\ stack' = t /\ sec \in Headings /\ sections' = secs /\ Excuses' = G
        /\ stack = <<>> /\ secs # <<>> /\ secs \in Seq(Headings)
    BY SectionOpens DEF OpenSection, Excuses, StackOk
  <1>2. SectionsFine(k, secs, D) /\ ~Stops(Last(secs).name)
    BY <1>1 DEF ToCome
  <1>3. sec = secs[1]
    BY <1>1
  <1> HIDE DEF secs, sec, G, none
  <1> DEFINE E == D \cup AllBinds(sec.steps)
  <1>4. SeqClean(k, sec.steps, D)
    <2> HIDE DEF D
    <2>1. QED
      BY <1>1, <1>2, <1>3, SectionsFirst
  <1>5. SectionsFine(k, Tail(secs), E)
    <2>1. D \cup AllBinds(secs[1].steps) \subseteq E
      BY <1>3
    <2> HIDE DEF D, E
    <2>2. QED
      BY <1>1, <1>2, <2>1, SectionsTail
  <1>6. none \in SUBSET STRING
    BY DEF none
  <1> DEFINE g == SectionFrame(sec, none)
  <1>7. /\ StackFine(k, <<g>>, G) /\ <<g>> # <<>> /\ <<g>>[1].stop = Stops(sec.name)
        /\ SectionsFine(k, Tail(secs), Cover(<<g>>[1], G))
    BY <1>1, <1>4, <1>5, <1>6, EntersFine
  <1>8. t = <<g>>
    BY DEF none
  <1> HIDE DEF g, t
  <1>9. ToCome(k, <<g>>, secs, G)
    BY <1>2, <1>3, <1>7 DEF ToCome
  <1>10. QED
    BY <1>1, <1>7, <1>8, <1>9

LEMMA NextAhead ==
  ASSUME StackOk, NEW k, NextSection, phase' = "run", StackFine(k, stack, Excuses), ToCome(k, stack, sections, Excuses)
  PROVE  StackFine(k, stack', Excuses') /\ ToCome(k, stack', sections', Excuses')
  <1> DEFINE secs == sections  left == sections'  outputs == Top.outputs  G == Excuses  H == Excuses'
             rest == Tail(secs)  D == outputs \cup G
  <1>1. /\ left # <<>> /\ left[1] \in Headings /\ Top \in Frames /\ Len(stack) = 1 /\ Top.todo = <<>>
        /\ stack' = <<SectionFrame(left[1], outputs)>>
        /\ left = IF Top.failed /\ Top.stop THEN <<Last(secs)>> ELSE rest
    BY SectionNext DEF NextSection
  <1>2. stack # <<>> /\ Top = stack[1] /\ secs \in Seq(Headings) /\ secs # <<>> /\ outputs \in SUBSET STRING
    <2>1. Len(stack) = 1
      BY <1>1
    <2>2. stack # <<>>
      BY <2>1
    <2>3. Top = stack[1]
      BY <2>1, <2>2, TopIs
    <2>4. outputs \in SUBSET STRING
      BY <1>1 DEF Frames
    <2>5. secs \in Seq(Headings) /\ secs # <<>>
      BY <2>2 DEF StackOk
    <2>6. QED
      BY <2>2, <2>3, <2>4, <2>5
  <1>3. Top.stop = Stops(secs[1].name) /\ SectionsFine(k, rest, Cover(Top, G)) /\ ~Stops(Last(secs).name)
    BY <1>2 DEF ToCome
  <1>4. Cover(Top, G) = D
    <2>1. AllBinds(<<>>) = {}
      <3>1. Range(<<>>) = {}
        BY DEF Range
      <3>2. QED
        BY <3>1, AllBindsAre
    <2>2. QED
      BY <1>1, <2>1 DEF Cover
  <1>5. SectionsFine(k, rest, D)
    BY <1>3, <1>4
  <1>6. /\ lost' = lost /\ missed \subseteq missed'
        /\ (Top.failed /\ Top.stop => missed' = missed \cup SkippedBinds(rest))
    BY <1>1 DEF NextSection, SkippedBinds
  <1>7. G \subseteq H /\ (Top.failed /\ Top.stop => SkippedBinds(rest) \subseteq H)
    BY <1>6 DEF Excuses
  <1>8. rest \in Seq(Headings) /\ (rest # <<>> => Last(rest) = Last(secs))
        /\ (rest = <<>> => Last(secs) = secs[1])
    <2> DEFINE n == Len(secs)
    <2>1. rest \in Seq(Headings) /\ n \in Nat \ {0} /\ Len(rest) = n - 1
          /\ \A i \in 1..(n - 1) : rest[i] = secs[i + 1]
      BY <1>2, TailIs
    <2>2. Last(secs) = secs[n] /\ Last(rest) = rest[Len(rest)]
      BY DEF Last
    <2> HIDE DEF rest, n
    <2>3. ASSUME rest # <<>> PROVE Last(rest) = Last(secs)
      <3>1. Len(rest) # 0
        BY <2>1, <2>3
      <3>2. n - 1 \in 1..(n - 1) /\ (n - 1) + 1 = n
        BY <2>1, <3>1
      <3>3. rest[n - 1] = secs[n]
        BY <2>1, <3>2
      <3>4. QED
        BY <2>1, <2>2, <3>3
    <2>4. ASSUME rest = <<>> PROVE Last(secs) = secs[1]
      <3>1. Len(rest) = 0
        BY <2>4
      <3>2. n = 1
        BY <2>1, <3>1
      <3>3. QED
        BY <2>2, <3>2
    <2>5. QED
      BY <2>1, <2>3, <2>4
  <1> DEFINE E == outputs \cup H  sec == left[1]  later == Tail(left)  F == E \cup AllBinds(sec.steps)
  <1>9. SeqClean(k, sec.steps, E) /\ SectionsFine(k, later, F) /\ ~Stops(Last(left).name)
    <2>1. CASE Top.failed /\ Top.stop
      <3>1. rest # <<>>
        BY <1>3, <1>8, <2>1
      <3>2. D \cup SkippedBinds(rest) \subseteq E
        BY <1>7, <2>1
      <3> DEFINE z == Last(secs)
      <3>3. left = <<z>>
        BY <1>1, <2>1
      <3>z. Last(rest) = z /\ ~Stops(z.name)
        BY <1>3, <1>8, <3>1
      <3> HIDE DEF rest, D, E, left, z
      <3>4. SeqClean(k, z.steps, E)
        <4>1. SeqClean(k, Last(rest).steps, E)
          BY <1>5, <1>8, <3>1, <3>2, SectionsLast
        <4>2. QED
          BY <3>z, <4>1
      <3>5. left[1] = z /\ Last(left) = z /\ Tail(left) = <<>> /\ Len(<<>>) = 0 /\ 1..0 = {}
        BY <3>3 DEF Last
      <3>6. SectionsFine(k, <<>>, F)
        BY <3>5 DEF SectionsFine
      <3>7. QED
        BY <3>z, <3>4, <3>5, <3>6
    <2>2. CASE ~(Top.failed /\ Top.stop)
      <3>1. left = rest
        BY <1>1, <2>2
      <3>2. D \subseteq E
        BY <1>7
      <3>3. rest # <<>> /\ ~Stops(Last(rest).name)
        BY <1>1, <1>3, <1>8, <3>1
      <3>4. sec = rest[1] /\ later = Tail(rest)
        BY <3>1
      <3> HIDE DEF rest, D, E, left, sec, later
      <3>5. SectionsFine(k, rest, E)
        BY <1>5, <3>2, SectionsMore
      <3>6. SeqClean(k, rest[1].steps, E)
        BY <1>8, <3>3, <3>5, SectionsFirst
      <3>7. E \cup AllBinds(rest[1].steps) \subseteq F
        BY <3>4
      <3>8. SectionsFine(k, Tail(rest), F)
        <4> HIDE DEF F
        <4>1. QED
          BY <1>8, <3>3, <3>5, <3>7, SectionsTail
      <3>9. QED
        BY <3>1, <3>3, <3>4, <3>6, <3>8
    <2>3. QED
      BY <2>1, <2>2
  <1> DEFINE g == SectionFrame(sec, outputs)
  <1>10. stack' = <<g>> /\ sec \in Headings /\ outputs \in SUBSET STRING
    BY <1>1, <1>2
  <1> HIDE DEF sec, outputs, H, later, left, secs, rest
  <1>11. /\ StackFine(k, <<g>>, H) /\ <<g>> # <<>> /\ <<g>>[1].stop = Stops(sec.name)
         /\ SectionsFine(k, later, Cover(<<g>>[1], H))
    BY <1>9, <1>10, EntersFine
  <1> HIDE DEF g
  <1>12. ToCome(k, <<g>>, left, H)
    BY <1>9, <1>11 DEF ToCome, sec, later
  <1>13. QED
    BY <1>10, <1>11, <1>12 DEF left, H

FilesClean ==
  /\ Errors(CheckDefs(set.providers, Project)) = {}
  /\ \A sc \in Range(set.scenarios) : FileClean(set.providers, Project, sc.file)

Spotless == Validated /\ Errors(findings.project \cup findings.scenarios) = {}

ReadInv ==
  Spotless =>
    /\ FilesClean
    /\ \A r \in unbound : Excused(r, Excuses)
    /\ phase = "run" => StackFine(Known, stack, Excuses) /\ ToCome(Known, stack, sections, Excuses)

LEMMA ValidatedClean ==
  ASSUME ValidateProject, Errors(findings'.project \cup findings'.scenarios) = {}
  PROVE  FilesClean
  <1> DEFINE scs == set.scenarios  reports == [i \in DOMAIN scs |-> Reports(scs[i])]
  <1>1. PICK found \in OneReportEach(reports) :
          findings' = [project |-> CheckOutput(Project.output) \cup CheckDefs(set.providers, Project),
                       scenarios |-> UNION Range(found)]
    BY DEF ValidateProject
  <1>2. Errors(CheckDefs(set.providers, Project)) = {} /\ Errors(UNION Range(found)) = {}
    BY <1>1 DEF Errors
  <1>3. found \in [DOMAIN scs -> UNION Range(reports)] /\ \A i \in DOMAIN scs : found[i] \in Reports(scs[i])
    BY <1>1 DEF OneReportEach
  <1>4. ASSUME NEW i \in DOMAIN scs PROVE FileClean(set.providers, Project, scs[i].file)
    <2> DEFINE one == found[i]  sc == scs[i].file
    <2>1. one \in ScenarioFindings(set.providers, Project, sc)
      BY <1>3 DEF Reports
    <2>2. one \in Range(found)
      BY <1>3 DEF Range
    <2>3. Errors(one) = {}
      BY <1>2, <2>2 DEF Errors
    <2> HIDE DEF one, sc
    <2>4. FileClean(set.providers, Project, sc)
      BY <2>1, <2>3, ReportClean DEF FileClean
    <2>5. QED
      BY <2>4 DEF sc
  <1>5. QED
    BY <1>2, <1>4 DEF FilesClean, Range

LEMMA FirstIsListed ==
  ASSUME SelectionInv, Selected # <<>>
  PROVE  Selected[1] \in Range(set.scenarios)
  <1> DEFINE X == Range(set.scenarios)  some == SelectScenarios(set.scenarios, case.flags.targets)
  <1>1. set.scenarios \in Seq(Listed(case.docs)) /\ case.flags.targets \in Seq(Range(case.flags.targets))
    BY DEF SelectionInv, LoadInv, CaseRight, Sets
  <1>2. set.scenarios \in Seq(X)
    <2>1. \A S : \A s \in Seq(S) : s \in Seq(Range(s))
      BY DEF Range
    <2>2. QED
      BY <1>1, <2>1
  <1> HIDE DEF X
  <1>3. some \in Seq(X)
    BY <1>1, <1>2, SelectedAreSome
  <1> HIDE DEF some
  <1>4. \A S : Those(some, S) \in Seq(X)
    BY <1>3, ThoseAre
  <1>5. Selected \in Seq(X)
    BY <1>4 DEF Selected, Filter, some
  <1>6. \A S : \A s \in Seq(S) : s # <<>> => s[1] \in S
    OBVIOUS
  <1>7. QED
    BY <1>5, <1>6 DEF X

LEMMA StartClean ==
  ASSUME SelectionInv, Settle, phase' = "run", FilesClean
  PROVE  SectionsFine(Known', sections', {}) /\ ~Stops(Last(sections').name)
  <1> DEFINE sc == chosen'[1].file  insts == Instances(set.providers, Merged(sc))  k == KnownOf(sc, Project, insts)
  <1>1. /\ chosen' = Selected /\ chosen' # <<>> /\ sc \in Of(case.docs, "Scenario") /\ sections' = SectionsOf(sc)
    BY SettledIs
  <1>2. UNCHANGED <<case, set>>
    BY DEF Settle, Launch
  <1>3. Scenario' = sc /\ Project' = Project
    BY <1>2 DEF Scenario, Project
  <1>4. (Merged(Scenario))' = Merged(sc)
    BY <1>3, <1>2 DEF Merged
  <1>5. Insts' = insts
    BY <1>4, <1>2 DEF Insts
  <1>6. Known' = k
    BY <1>3, <1>5 DEF Known, KnownOf
  <1>7. FileClean(set.providers, Project, sc)
    BY <1>1, FirstIsListed DEF FilesClean
  <1>8. \A f \in CheckScenario(sc, Project, insts) : f.severity # "error"
    BY <1>7 DEF FileClean, Merged
  <1>9. {sc.setup, sc.steady, sc.method, sc.verify, sc.teardown} \subseteq Seq(Steps)
    <2>1. \A d \in Range(case.docs) : d.class = "Scenario" =>
            {d.setup, d.steady, d.method, d.verify, d.teardown} \subseteq Seq(Steps)
      BY DEF SelectionInv, LoadInv, CaseRight
    <2>2. QED
      BY <1>1, <2>1 DEF Of
  <1> HIDE DEF insts, sc
  <1>10. \A i \in 1..5 : SeqClean(k, Sections(sc)[i].steps, Over(Sections(sc), i))
    BY <1>8, <1>9, ScenarioClean
  <1> HIDE DEF k
  <1>11. SectionsFine(k, SectionsOf(sc), {}) /\ ~Stops(Last(SectionsOf(sc)).name)
    BY <1>9, <1>10, StartFine
  <1>12. QED
    BY <1>1, <1>6, <1>11 DEF sc

-----------------------------------------------------------------------------
(* A step of the run keeps what makes its reads resolve.                   *)
LEMMA RunKeeps ==
  ASSUME RunInv, RunStep, phase' = "run", FilesClean,
         StackFine(Known, stack, Excuses), ToCome(Known, stack, sections, Excuses)
  PROVE  StackFine(Known, stack', Excuses') /\ ToCome(Known, stack', sections', Excuses')
  <1>1. phase = "run" /\ StackOk /\ Errors(CheckDefs(set.providers, Project)) = {}
    BY RunFrame DEF RunInv, FilesClean
  <1> DEFINE k == Known
  <1>2. StackFine(k, stack, Excuses) /\ ToCome(k, stack, sections, Excuses)
    OBVIOUS
  <1>3. CASE OpenSection \/ NextSection
    <2> HIDE DEF k
    <2>1. StackFine(k, stack', Excuses') /\ ToCome(k, stack', sections', Excuses')
      BY <1>1, <1>2, <1>3, OpenAhead, NextAhead
    <2>2. QED
      BY <2>1 DEF k
  <1>4. CASE ~OpenSection /\ ~NextSection
    <2>1. Keeps(k)
      BY <1>1, <1>4, StepKeeps
    <2>2. UNCHANGED sections
      BY <1>4, InsideFrame
    <2>3. stack # <<>>
      BY <1>4 DEF RunStep, GuardSkips, DrySkip, Unevaluated, OpenBlock, NextBranch, JoinBranches,
                  EndRepeat, CallFails, CallVerb, CallComposed, ReturnComposed, At, Ends
    <2> HIDE DEF k
    <2>4. ToCome(k, stack', sections', Excuses')
      BY <1>2, <2>1, <2>2, <2>3, AheadKeeps
    <2>5. QED
      BY <2>1, <2>4 DEF k, Keeps
  <1>5. QED
    BY <1>3, <1>4

LEMMA RunReads ==
  ASSUME RunInv, RunStep, StackFine(Known, stack, Excuses), \A r \in unbound : Excused(r, Excuses)
  PROVE  \A r \in unbound' : Excused(r, Excuses')
  <1> TAKE r \in unbound'
  <1> DEFINE k == Known  G == Excuses  H == Excuses'
  <1>1. phase = "run" /\ StackOk /\ G \subseteq H
    BY RunFrame, InsideFrame DEF RunInv
  <1>2. StackFine(k, stack, G)
    OBVIOUS
  <1>3. At => FrameFine(Known, Top, G)
    <2> HIDE DEF k, G
    <2>1. At => FrameFine(k, Top, G)
      BY <1>1, <1>2, TopFine DEF At
    <2>2. QED
      BY <2>1 DEF k
  <1>4. r \in unbound \/ Excused(r, G)
    <2> HIDE DEF G
    <2>1. QED
      BY <1>3, ReadStep
  <1>5. QED
    BY <1>1, <1>4 DEF Excused

LEMMA ReadParts ==
  /\ ReadInv <=> (Spotless =>
       /\ FilesClean
       /\ \A r \in unbound : Excused(r, Excuses)
       /\ phase = "run" => StackFine(Known, stack, Excuses) /\ ToCome(Known, stack, sections, Excuses))
  /\ ReadInv' <=> (Spotless' =>
       /\ FilesClean'
       /\ \A r \in unbound' : Excused(r, Excuses')
       /\ phase' = "run" => StackFine(Known', stack', Excuses') /\ ToCome(Known', stack', sections', Excuses'))
  BY DEF ReadInv, Excused

LEMMA FilesStay ==
  ASSUME UNCHANGED set, FilesClean
  PROVE  FilesClean'
  BY DEF FilesClean, Project

LEMMA KnownStays ==
  ASSUME UNCHANGED <<set, chosen>>
  PROVE  Known' = Known
  <1>1. Scenario' = Scenario /\ Project' = Project
    BY DEF Scenario, Project
  <1>2. (Merged(Scenario))' = Merged(Scenario)
    BY <1>1 DEF Merged
  <1>3. Insts' = Insts
    BY <1>2 DEF Insts
  <1>4. QED
    BY <1>1, <1>3 DEF Known, KnownOf

LEMMA ReadSteps == RunInv /\ ReadInv /\ [Next]_vars => ReadInv'
  <1> SUFFICES ASSUME RunInv, ReadInv, [Next]_vars, Spotless'
               PROVE  /\ FilesClean'
                      /\ \A r \in unbound' : Excused(r, Excuses')
                      /\ phase' = "run" => StackFine(Known', stack', Excuses')
                                           /\ ToCome(Known', stack', sections', Excuses')
    BY ReadParts
  <1>1. SelectionInv
    BY DEF RunInv
  <1>2. CASE LoadProject
    <2>1. phase' \in {"validate", "refused"}
      BY <1>2 DEF LoadProject
    <2>2. QED
      BY <2>1 DEF Spotless, Validated
  <1>3. CASE ValidateProject
    <2>1. phase = "validate" /\ phase' = "settle" /\ UNCHANGED <<set, unbound>>
      BY <1>3 DEF ValidateProject, OneReportEach
    <2>2. unbound' = {}
      BY <2>1 DEF RunInv, Unstarted
    <2>3. Errors(findings'.project \cup findings'.scenarios) = {}
      BY DEF Spotless, Errors
    <2>4. FilesClean
      BY <1>3, <2>3, ValidatedClean
    <2>5. FilesClean'
      BY <2>1, <2>4, FilesStay
    <2>6. QED
      BY <2>1, <2>2, <2>5
  <1>4. CASE Settle
    <2>1. phase = "settle" /\ UNCHANGED <<set, findings, stack, missed, lost, unbound>>
      BY <1>4 DEF Settle, Launch
    <2>2. stack' = <<>> /\ unbound' = {} /\ Excuses' = {}
      BY <2>1 DEF RunInv, Unstarted, Excuses
    <2>3. Spotless
      BY <2>1 DEF Spotless, Validated, Errors
    <2>4. FilesClean /\ FilesClean'
      BY <2>1, <2>3, ReadParts, FilesStay
    <2>5. ASSUME phase' = "run"
          PROVE  StackFine(Known', stack', Excuses') /\ ToCome(Known', stack', sections', Excuses')
      <3> DEFINE k == Known'  secs == sections'
      <3>1. SectionsFine(k, secs, {}) /\ ~Stops(Last(secs).name)
        BY <1>1, <1>4, <2>4, <2>5, StartClean
      <3>2. Len(<<>>) = 0 /\ 1..0 = {}
        OBVIOUS
      <3> HIDE DEF k, secs
      <3>3. StackFine(k, <<>>, {}) /\ ToCome(k, <<>>, secs, {})
        BY <3>1, <3>2 DEF StackFine, ToCome
      <3>4. QED
        BY <2>2, <3>3 DEF k, secs
    <2>6. QED
      BY <2>2, <2>4, <2>5
  <1>5. CASE RunStep
    <2>1. phase = "run" /\ UNCHANGED <<set, findings, chosen>>
      BY <1>5, RunFrame
    <2>2. Spotless
      BY <2>1 DEF Spotless, Validated, Errors
    <2>3. /\ FilesClean /\ \A r \in unbound : Excused(r, Excuses)
          /\ StackFine(Known, stack, Excuses) /\ ToCome(Known, stack, sections, Excuses)
      BY <2>1, <2>2, ReadParts
    <2>4. FilesClean' /\ Known' = Known
      BY <2>1, <2>3, FilesStay, KnownStays
    <2>5. \A r \in unbound' : Excused(r, Excuses')
      BY <1>5, <2>3, RunReads
    <2>6. phase' = "run" => StackFine(Known, stack', Excuses') /\ ToCome(Known, stack', sections', Excuses')
      BY <1>5, <2>3, RunKeeps
    <2>7. QED
      BY <2>4, <2>5, <2>6
  <1>6. CASE UNCHANGED vars
    <2>1. UNCHANGED <<phase, set, findings, chosen, stack, sections, missed, lost, unbound>>
      BY <1>6 DEF vars
    <2>2. Spotless /\ Excuses' = Excuses
      BY <2>1 DEF Spotless, Validated, Errors, Excuses
    <2>3. FilesClean' /\ Known' = Known
      BY <2>1, <2>2, ReadParts, FilesStay, KnownStays
    <2>4. QED
      BY <2>1, <2>2, <2>3, ReadParts
  <1>7. QED
    BY <1>2, <1>3, <1>4, <1>5, <1>6, StepKinds

(* When validation reports no error, a reference it looked at that is read *)
(* at run time and not bound is to a capture whose step was skipped,       *)
(* failed or was not reached, or which a branch did not hand on.  The      *)
(* steps of every open frame are clean of the names bound there or         *)
(* excused, a frame binds in the end what its block is taken to bind for   *)
(* the steps after it, and so do the sections for the ones to come.        *)
THEOREM ReadsResolve == Spec => []ValidatedReadsResolve
  <1>1. Init => RunInv /\ ReadInv
    BY RunInit DEF Init, ReadInv, Spotless, Validated
  <1>2. RunInv /\ ReadInv /\ [Next]_vars => (RunInv /\ ReadInv)'
    BY RunSteps, ReadSteps
  <1>3. RunInv /\ ReadInv => ValidatedReadsResolve
    BY ReadParts DEF ValidatedReadsResolve, Spotless, Excused, Excuses
  <1>4. QED
    BY <1>1, <1>2, <1>3, PTL DEF Spec

LEMMA AwaitsRead ==
  ASSUME NEW st \in Steps, NEW f \in Frames, NEW n \in Awaits(st), n \notin f.outputs
  PROVE  <<"outputs", n>> \in Dangling(ExprsOf(st), f)
  <1>1. PICK r \in RefsOf(st) : r[1] = "outputs" /\ r[2] = n /\ n # ""
    BY DEF Awaits
  <1>2. r = <<"outputs", n>>
    BY <1>1, PairParts, RefsArePairs
  <1>3. r \in Names(ExprsOf(st)) \ Unseen(ExprsOf(st))
    BY <1>1, SeenAreRead
  <1>4. <<"outputs", n>> \notin Scope(f)
    <2> DEFINE p == <<"outputs", n>>
    <2>1. \A a, b, c, d : <<a, b>> = <<c, d>> => a = c /\ b = d
      OBVIOUS
    <2>2. p \notin {<<"outputs", m>> : m \in f.outputs}
      BY <2>1
    <2>3. \A X : p \notin {<<"params", m>> : m \in X} /\ p \notin {<<"vars", m>> : m \in X} /\ p \notin {<<"env", m>> : m \in X}
      BY <2>1
    <2> HIDE DEF p
    <2>4. p \notin Scope(f)
      BY <2>2, <2>3 DEF Scope
    <2>5. QED
      BY <2>4 DEF p
  <1>5. <<"outputs", n>>[1] # "vars"
    OBVIOUS
  <1>6. QED
    BY <1>2, <1>3, <1>4, <1>5 DEF Dangling

Settles(k) ==
  /\ Neat(k, stack, stack') /\ unbound \subseteq unbound'
  /\ \A m \in Owes(k, stack) : Told(m) \in unbound' \/ m \in Owes(k, stack')

LEMMA SwapSettles ==
  ASSUME StackOk, stack # <<>>, NEW k, StackTidy(k, stack), NEW g \in Frames, stack' = Swap(stack, g),
         Top.todo # <<>>, Passed(k, Top, g), unbound \subseteq unbound',
         \A m \in Need(k, Head(Top.todo)) \ Top.outputs : Top.kind # "macro" => Told(m) \in unbound'
  PROVE  Settles(k)
  <1> DEFINE s == stack  n == Len(s)  f == Top
  <1>1. s \in Seq(Frames) /\ s # <<>> /\ f \in Frames /\ f = s[n] /\ n \in Nat \ {0} /\ f.todo # <<>>
    BY TopIs DEF StackOk
  <1>2. n \in 1..n
    BY <1>1
  <1>3. Tidy(f) /\ (n # 1 => Tied(k, s[n - 1], f))
    BY <1>1, <1>2, TidyAt
  <1>4. Passed(k, f, g) /\ StackTidy(k, s)
    OBVIOUS
  <1>5. \A m \in Need(k, Head(f.todo)) \ f.outputs : f.kind # "macro" => Told(m) \in unbound'
    OBVIOUS
  <1>6. stack' = Swap(s, g)
    OBVIOUS
  <1> HIDE DEF s, f
  <1>7. /\ Tidy(g) /\ Limit(k, g) \subseteq Limit(k, f) /\ OwingAfter(k, f) \subseteq Owing(k, g)
        /\ \A b : Tied(k, b, f) => Tied(k, b, g)
        /\ \A b : OwingRest(k, b, g) = OwingRest(k, b, f)
        /\ Owing(k, f) \subseteq (Need(k, Head(f.todo)) \ f.outputs) \cup OwingAfter(k, f)
    BY <1>1, <1>3, <1>4, PassedIs
  <1>8. Neat(k, s, Swap(s, g))
    <2>1. Len(s) # 1 => Tied(k, s[Len(s) - 1], g)
      BY <1>3, <1>7
    <2>2. Len(s) = 1 => Limit(k, g) \subseteq Limit(k, s[1])
      BY <1>1, <1>7
    <2>3. QED
      BY <1>1, <1>4, <1>7, <2>1, <2>2, NeatSwap
  <1>9. ASSUME NEW m \in Owes(k, s), Told(m) \notin unbound' PROVE m \in Owes(k, Swap(s, g))
    <2>1. m \in Owing(k, s[Len(s)]) => m \in Owing(k, g)
      <3>1. f.kind = "macro" => Owing(k, f) = {}
        BY DEF Owing
      <3>2. QED
        BY <1>1, <1>5, <1>7, <1>9, <3>1
    <2>2. Len(s) # 1 /\ m \in OwingRest(k, s[Len(s) - 1], s[Len(s)]) =>
            m \in Owing(k, g) \cup OwingRest(k, s[Len(s) - 1], g)
      BY <1>1, <1>7
    <2>3. QED
      BY <1>1, <2>1, <2>2, OwesSwap
  <1>10. QED
    BY <1>6, <1>8, <1>9 DEF Settles, s

LEMMA ShrinkSettles ==
  ASSUME StackOk, stack # <<>>, Top.kind # "section", Top.todo = <<>>, NEW k, StackTidy(k, stack), NEW g \in Frames,
         stack' = Shrink(stack, g), Passed(k, Below, g), unbound' = unbound,
         Top.kind = "branch" => Top.rest = <<>>
  PROVE  Settles(k)
  <1> DEFINE s == stack  n == Len(s) - 1  b == Below  t == Top
  <1>1. /\ s \in Seq(Frames) /\ Len(s) >= 2 /\ Len(s) \in Nat /\ b \in Frames /\ b = s[n] /\ b.todo # <<>>
        /\ t = s[Len(s)]
    BY TopIs, BelowIs DEF StackOk
  <1>2. n \in 1..Len(s) /\ n \in Nat /\ (n # 1 <=> Len(s) # 2) /\ n - 1 = Len(s) - 2
    BY <1>1
  <1>3. Tidy(b) /\ (n # 1 => Tied(k, s[n - 1], b))
    <2>1. StackTidy(k, s)
      OBVIOUS
    <2> HIDE DEF n, s, b
    <2>2. QED
      BY <1>1, <1>2, <2>1, TidyAt
  <1>4. Passed(k, b, g) /\ StackTidy(k, s)
    OBVIOUS
  <1>5. t.todo = <<>> /\ (t.kind = "branch" => t.rest = <<>>) /\ stack' = Shrink(s, g) /\ unbound' = unbound
    OBVIOUS
  <1> HIDE DEF s, b, t, n
  <1>6. /\ Tidy(g) /\ Limit(k, g) \subseteq Limit(k, b) /\ OwingAfter(k, b) \subseteq Owing(k, g)
        /\ \A d : Tied(k, d, b) => Tied(k, d, g)
        /\ \A d : OwingRest(k, d, g) = OwingRest(k, d, b)
        /\ Owing(k, b) \subseteq (Need(k, Head(b.todo)) \ b.outputs) \cup OwingAfter(k, b)
    BY <1>1, <1>3, <1>4, PassedIs
  <1>7. Neat(k, s, Shrink(s, g))
    <2>1. Len(s) # 2 => Tied(k, s[Len(s) - 2], g)
      BY <1>2, <1>3, <1>6
    <2>2. Len(s) = 2 => Limit(k, g) \subseteq Limit(k, s[1])
      BY <1>1, <1>2, <1>6
    <2>3. QED
      BY <1>1, <1>4, <1>6, <2>1, <2>2, NeatShrink
  <1>8. NeedAll(k, <<>>) = {}
    <2>1. <<>> \in Seq(Steps)
      OBVIOUS
    <2>2. QED
      BY <2>1, GainAllIs
  <1>9. Owing(k, t) = {} /\ OwingRest(k, b, t) = {}
    <2>1. Range(<<>>) = {}
      BY DEF Range
    <2>2. QED
      BY <1>5, <1>8, <2>1 DEF Owing, OwingRest
  <1>10. ASSUME NEW m \in Owes(k, s) PROVE m \in Owes(k, Shrink(s, g))
    <2>1. m \in OwingAfter(k, s[Len(s) - 1]) => m \in Owing(k, g)
      BY <1>1, <1>6 DEF n
    <2>2. g.kind = s[Len(s) - 1].kind /\ g.rest = s[Len(s) - 1].rest
      BY <1>1, <1>4 DEF n, Passed
    <2>3. m \notin Owing(k, s[Len(s)]) /\ m \notin OwingRest(k, s[Len(s) - 1], s[Len(s)])
      BY <1>1, <1>9 DEF n
    <2>4. QED
      BY <1>1, <2>1, <2>2, <2>3, OwesShrink
  <1>11. QED
    BY <1>5, <1>7, <1>10 DEF Settles, s

LEMMA PushSettles ==
  ASSUME StackOk, At, NEW k, StackTidy(k, stack), NEW g \in Frames, stack' = Append(stack, g), Tidy(g), Tied(k, Top, g),
         unbound \subseteq unbound',
         \A m \in Need(k, Step0) \ Top.outputs :
           Top.kind # "macro" => Told(m) \in unbound' \/ m \in Owing(k, g) \cup OwingRest(k, Top, g)
  PROVE  Settles(k)
  <1> DEFINE s == stack  n == Len(s)  f == Top
  <1>1. s \in Seq(Frames) /\ s # <<>> /\ f \in Frames /\ f = s[n] /\ n \in Nat \ {0} /\ f.todo # <<>>
    BY TopIs DEF StackOk, At
  <1>2. StackTidy(k, s) /\ Tidy(g) /\ Tied(k, f, g) /\ stack' = Append(s, g)
    OBVIOUS
  <1>3. \A m \in Need(k, Head(f.todo)) \ f.outputs :
           f.kind # "macro" => Told(m) \in unbound' \/ m \in Owing(k, g) \cup OwingRest(k, f, g)
    BY DEF Step0
  <1> HIDE DEF s, f
  <1>4. Neat(k, s, Append(s, g))
    BY <1>1, <1>2, NeatPush
  <1>5. f.todo \in Seq(Steps)
    BY <1>1 DEF Frames
  <1>6. Owing(k, f) \subseteq (Need(k, Head(f.todo)) \ f.outputs) \cup OwingAfter(k, f)
    <2>1. NeedAll(k, f.todo) \subseteq Need(k, Head(f.todo)) \cup (NeedAll(k, Tail(f.todo)) \ Gain(k, Head(f.todo)))
      BY <1>1, <1>5, NeedOfTail
    <2>2. QED
      BY <2>1 DEF Owing, OwingAfter
  <1>7. ASSUME NEW m \in Owes(k, s), Told(m) \notin unbound' PROVE m \in Owes(k, Append(s, g))
    <2>1. f.kind = "macro" => Owing(k, f) = {}
      BY DEF Owing
    <2>2. m \in Owing(k, s[Len(s)]) => m \in OwingAfter(k, s[Len(s)]) \cup Owing(k, g) \cup OwingRest(k, s[Len(s)], g)
      BY <1>1, <1>3, <1>6, <1>7, <2>1
    <2>3. QED
      BY <1>1, <2>2, OwesPush
  <1>8. QED
    BY <1>2, <1>4, <1>7 DEF Settles, s

LEMMA RepeatStarts ==
  ASSUME NEW k, BlocksKnown(k), NEW f \in Frames, Tidy(f), f.todo # <<>>, f.kind # "macro",
         NEW st, st = Head(f.todo), st.run = <<"repeat">>, NEW n \in Nat, n # 0, Times(st) = n
  PROVE  LET g == Body(f, st)
         IN /\ Tidy(g) /\ Tied(k, f, g)
            /\ Need(k, st) \ f.outputs \subseteq Owing(k, g)
  <1> DEFINE g == Body(f, st)  do == st.do
  <1>1. st \in Steps /\ f.kind # "branch" /\ \A t \in Range(do) : ~Tangled(t)
    BY HeadTidy
  <1>2. do \in Seq(Steps)
    BY <1>1, StepParts
  <1>3. st.run \in DOMAIN k.specs
    BY DEF BlocksKnown
  <1>4. Gain(k, st) = GainAll(k, do) /\ Need(k, st) = NeedAll(k, do)
    BY <1>1, <1>3, GainEq
  <1>5. g.kind = "body" /\ g.todo = Copies(do, n) /\ g.outputs = f.outputs /\ g.failed = FALSE
    BY <1>1, BodyIs
  <1> HIDE DEF do, g
  <1>6. /\ NeedAll(k, do) \subseteq NeedAll(k, Copies(do, n)) /\ Range(Copies(do, n)) \subseteq Range(do)
        /\ GainAll(k, Copies(do, n)) \subseteq GainAll(k, do)
    BY <1>2, NeedOfCopies
  <1>7. Tidy(g)
    BY <1>1, <1>5, <1>6 DEF Tidy
  <1>8. Limit(k, g) \subseteq f.outputs \cup Gain(k, st)
    BY <1>4, <1>5, <1>6 DEF Limit
  <1>9. Tied(k, f, g)
    BY <1>1, <1>5, <1>8 DEF Tied
  <1>10. Need(k, st) \ f.outputs \subseteq Owing(k, g)
    BY <1>4, <1>5, <1>6 DEF Owing
  <1>11. QED
    BY <1>7, <1>9, <1>10 DEF g

-----------------------------------------------------------------------------
(* A step of a run without a failure and without a skip.                   *)
LEMMA CleanTurn ==
  ASSUME NEW ok \in BOOLEAN, NEW bad \in BOOLEAN, NEW binds, Turn(ok, bad, binds), clean'
  PROVE  ok = TRUE /\ bad = FALSE
  BY DEF Turn, EndStep

LEMMA ReadTold ==
  ASSUME StackOk, NEW k, k.specs = specs, At, Runs(Step0), ReadAll
  PROVE  /\ unbound \subseteq unbound'
         /\ Gain(k, Step0) = Step0.binds
         /\ \A m \in Need(k, Step0) \ Top.outputs : Told(m) \in unbound'
  <1> DEFINE st == Step0  f == Top
  <1>1. st \in Steps /\ f \in Frames /\ stack # <<>>
    BY StepIs, TopIs DEF At
  <1>2. st.run \in DOMAIN k.specs /\ ~Block(st)
    BY DEF Runs
  <1>3. unbound' = unbound \cup Dangling(ExprsOf(st), f)
    BY DEF ReadAll
  <1> HIDE DEF st, f
  <1>4. Gain(k, st) = st.binds /\ Need(k, st) = Awaits(st)
    BY <1>1, <1>2, GainEq
  <1>5. ASSUME NEW m \in Awaits(st), m \notin f.outputs PROVE Told(m) \in unbound'
    BY <1>1, <1>3, <1>5, AwaitsRead DEF Told
  <1>6. QED
    BY <1>3, <1>4, <1>5 DEF st, f

LEMMA CallSettles ==
  ASSUME StackOk, NEW k, k.specs = specs, StackTidy(k, stack), CallVerb, clean'
  PROVE  Settles(k)
  <1>1. At /\ Runs(Step0) /\ ReadAll
    BY DEF CallVerb
  <1>2. PICK ok, bad \in BOOLEAN : Turn(ok, bad, Step0.binds)
    BY TurnSteps
  <1>3. ok = TRUE /\ bad = FALSE
    BY <1>2, CleanTurn
  <1> DEFINE g == After(Top, TRUE, FALSE, Step0.binds)
  <1>4. stack' = Swap(stack, g) /\ g \in Frames
    BY <1>2, <1>3, TurnStack
  <1>5. stack # <<>> /\ Top \in Frames /\ Top.todo # <<>> /\ Step0 \in Steps /\ Step0 = Head(Top.todo)
        /\ Top = stack[Len(stack)] /\ Len(stack) \in 1..Len(stack)
    BY <1>1, StepIs, TopIs DEF At, Step0
  <1>6. ~Top.failed
    BY <1>5, TidyAt DEF Tidy
  <1>7. /\ unbound \subseteq unbound' /\ Gain(k, Step0) = Step0.binds
        /\ \A m \in Need(k, Step0) \ Top.outputs : Told(m) \in unbound'
    BY <1>1, ReadTold
  <1>8. /\ g.kind = Top.kind /\ g.rest = Top.rest /\ g.wrote = Top.wrote /\ g.failed = FALSE /\ g.todo = Tail(Top.todo)
        /\ g.outputs = Top.outputs \cup Step0.binds /\ g.writes = Top.writes \cup Step0.binds
    BY <1>5, <1>6, AfterPassed
  <1> HIDE DEF g
  <1>9. Passed(k, Top, g)
    BY <1>5, <1>7, <1>8, OwnSeen DEF Passed
  <1>10. QED
    BY <1>4, <1>5, <1>7, <1>9, SwapSettles

LEMMA BlockSettles ==
  ASSUME StackOk, NEW k, BlocksKnown(k), StackTidy(k, stack), OpenBlock, clean'
  PROVE  Settles(k)
  <1>1. At /\ Block(Step0) /\ unbound \subseteq unbound'
    BY DEF OpenBlock, ReadGuard
  <1>2. Top.kind # "macro" /\ WellFormed(Step0)
    <2> SUFFICES ASSUME Top.kind = "macro" \/ ~WellFormed(Step0) PROVE FALSE
      OBVIOUS
    <2>1. ~clean'
      BY DEF OpenBlock, EndStep
    <2>2. QED
      BY <2>1
  <1>3. stack # <<>> /\ Top \in Frames /\ Top.todo # <<>> /\ Step0 \in Steps /\ Step0 = Head(Top.todo)
        /\ Top = stack[Len(stack)] /\ Len(stack) \in 1..Len(stack)
    BY <1>1, StepIs, TopIs DEF At, Step0
  <1>4. Tidy(Top)
    BY <1>3, TidyAt
  <1>5. IF Step0.run = <<"parallel">> THEN Opens(Branch(Top, Step0.branches)) ELSE Opens(Body(Top, Step0))
    BY <1>2, BlockOpens
  <1>6. CASE Step0.run = <<"parallel">>
    <2> DEFINE g == Branch(Top, Step0.branches)
    <2>1. g \in Frames /\ stack' = Append(stack, g)
      BY <1>5, <1>6 DEF Opens
    <2>2. Step0.branches # <<>>
      BY <1>2, <1>6 DEF WellFormed
    <2>3. Tidy(g) /\ Tied(k, Top, g) /\ Need(k, Step0) \ Top.outputs \subseteq Owing(k, g) \cup OwingRest(k, Top, g)
      BY <1>2, <1>3, <1>4, <1>6, <2>2, ParallelStarts
    <2> HIDE DEF g
    <2>4. QED
      BY <1>1, <2>1, <2>3, PushSettles
  <1>7. CASE Step0.run # <<"parallel">>
    <2> DEFINE g == Body(Top, Step0)
    <2>1. g \in Frames /\ stack' = Append(stack, g)
      BY <1>5, <1>7 DEF Opens
    <2>2. Step0.run = <<"repeat">> /\ Times(Step0) \in Nat /\ Times(Step0) # 0
      <3>1. Step0.times >= 1 /\ Step0.times \in Int
        BY <1>2, <1>3, <1>7, StepsAssumption DEF WellFormed
      <3>2. Step0.run = <<"repeat">>
        BY <1>1, <1>7 DEF Block
      <3>3. QED
        BY <3>1, <3>2 DEF Times
    <2>3. Tidy(g) /\ Tied(k, Top, g) /\ Need(k, Step0) \ Top.outputs \subseteq Owing(k, g)
      BY <1>2, <1>3, <1>4, <2>2, RepeatStarts
    <2> HIDE DEF g
    <2>4. QED
      BY <1>1, <2>1, <2>3, PushSettles
  <1>8. QED
    BY <1>6, <1>7

LEMMA MacroSettles ==
  ASSUME RunInv, NEW k, k.specs = specs, StackTidy(k, stack), CallComposed
  PROVE  Settles(k)
  <1>1. At /\ Runs(Step0) /\ ReadAll /\ StackOk
    BY DEF CallComposed, RunInv, At
  <1>2. Step0 = Head(Top.todo)
    BY DEF Step0
  <1> DEFINE g == MacroOf(VerbOf(Insts, Step0.run))
  <1>3. g \in Frames /\ stack' = Append(stack, g)
    BY MacroOpens DEF Opens
  <1>4. /\ unbound \subseteq unbound' /\ Gain(k, Step0) = Step0.binds
        /\ \A m \in Need(k, Step0) \ Top.outputs : Told(m) \in unbound'
    BY <1>1, ReadTold
  <1>5. g.kind = "macro" /\ g.failed = FALSE
    BY DEF MacroOf, Frame
  <1> HIDE DEF g
  <1>6. Tidy(g) /\ Tied(k, Top, g)
    BY <1>2, <1>4, <1>5 DEF Tidy, Tied
  <1>7. QED
    BY <1>1, <1>3, <1>4, <1>6, PushSettles

-----------------------------------------------------------------------------
(* A block or a composed verb is over, or the next branch of one begins.   *)
LEMMA ClosingIs ==
  ASSUME StackOk, stack # <<>>, Top.kind # "section", NEW k, StackTidy(k, stack)
  PROVE  /\ Top \in Frames /\ Below \in Frames /\ Tidy(Top) /\ Tidy(Below) /\ Tied(k, Below, Top)
         /\ Below.todo # <<>> /\ Head(Below.todo) \in Steps
  <1> DEFINE n == Len(stack)
  <1>1. Top \in Frames /\ Top = stack[n] /\ n \in 1..n /\ n \in Nat
    BY TopIs
  <1>2. /\ n >= 2 /\ Below \in Frames /\ Below = stack[n - 1] /\ Below.todo # <<>> /\ Head(Below.todo) \in Steps
    BY BelowIs
  <1>3. n # 1 /\ n - 1 \in 1..n
    BY <1>1, <1>2
  <1>4. Tidy(stack[n]) /\ Tied(k, stack[n - 1], stack[n])
    BY <1>1, <1>3, TidyAt
  <1>5. Tidy(stack[n - 1])
    <2> DEFINE i == n - 1
    <2>1. i \in 1..Len(stack)
      BY <1>3
    <2> HIDE DEF i, n
    <2>2. Tidy(stack[i])
      BY <2>1, TidyAt
    <2>3. QED
      BY <2>2 DEF i
  <1>6. QED
    BY <1>1, <1>2, <1>4, <1>5

LEMMA NextSettles ==
  ASSUME StackOk, NEW k, StackTidy(k, stack), NextBranch
  PROVE  Settles(k)
  <1> DEFINE s == stack  n == Len(s)  b == Below  t == Top  g == NextOne  rest == Top.rest
  <1>1. /\ s # <<>> /\ t.kind = "branch" /\ t.todo = <<>> /\ t.kind # "section" /\ rest \in Seq(Seq(Steps)) /\ rest # <<>>
        /\ Handed \in SUBSET STRING /\ t.failed \in BOOLEAN /\ s \in Seq(Frames)
    BY EndsIs DEF NextBranch, StackOk
  <1>2. t \in Frames /\ b \in Frames /\ Tidy(t) /\ Tied(k, b, t)
    BY <1>1, ClosingIs
  <1>3. n >= 2 /\ n \in Nat /\ b = s[n - 1] /\ t = s[n]
    BY <1>1, TopIs, BelowIs
  <1>4. g \in Frames /\ stack' = Swap(s, g)
    BY BranchNext
  <1>5. /\ g.kind = "branch" /\ g.todo = rest[1] /\ g.rest = Tail(rest) /\ g.outputs = b.outputs /\ g.wrote = Handed
    BY NextOneIs
  <1>6. ~g.failed /\ g.writes = {}
    <2> DEFINE h == Branch(b, rest)
    <2>1. h \in Frames /\ h.writes = {}
      BY <1>1, <1>2, BranchIs
    <2>2. g = NextOf(h, Handed, t.failed) /\ t.failed = FALSE
      BY <1>2 DEF NextOne, NextOf, Tidy
    <2> DEFINE wrote == Handed  failed == t.failed
    <2>3. wrote \in SUBSET STRING /\ failed = FALSE /\ g = NextOf(h, wrote, failed)
      BY <1>1, <2>2
    <2> HIDE DEF h, g, wrote, failed
    <2>4. g.failed = failed /\ g.writes = h.writes
      BY <2>1, <2>3, NextIs
    <2>5. QED
      BY <2>1, <2>3, <2>4
  <1>7. \A x \in Range(rest) : \A st \in Range(x) : ~Repeating(st)
    BY <1>1, <1>2 DEF Tidy
  <1>8. Hands(t) \subseteq Gain(k, Head(b.todo))
    BY <1>1, <1>2 DEF Tied
  <1>9. g.wrote \subseteq Gain(k, Head(b.todo)) /\ \A x \in Range(rest) : Bindings(x) \subseteq Gain(k, Head(b.todo))
    <2>1. Handed \subseteq Hands(t) /\ \A x \in Range(rest) : Bindings(x) \subseteq Hands(t)
      BY DEF Handed, Hands
    <2>2. QED
      BY <1>5, <1>8, <2>1
  <1>10. StackTidy(k, s) /\ unbound' = unbound
    BY DEF NextBranch
  <1>r. OwingRest(k, b, t) = (UNION {NeedAll(k, x) : x \in Range(rest)}) \ b.outputs
    BY <1>1 DEF OwingRest
  <1> HIDE DEF s, b, t, g, rest
  <1>11. /\ Tidy(g) /\ Tied(k, b, g)
         /\ \A x \in Range(rest) : NeedAll(k, x) \ b.outputs \subseteq Owing(k, g) \cup OwingRest(k, b, g)
    BY <1>1, <1>5, <1>6, <1>7, <1>9, BranchStarts
  <1>12. Neat(k, s, Swap(s, g))
    <2>1. Len(s) # 1 /\ Tied(k, s[Len(s) - 1], g)
      BY <1>3, <1>11
    <2>2. QED
      BY <1>1, <1>4, <1>10, <1>11, <2>1, NeatSwap
  <1>13. NeedAll(k, <<>>) = {}
    <2>1. <<>> \in Seq(Steps)
      OBVIOUS
    <2>2. QED
      BY <2>1, GainAllIs
  <1>14. Owing(k, t) = {}
    BY <1>1, <1>13 DEF Owing
  <1>15. ASSUME NEW m \in Owes(k, s) PROVE m \in Owes(k, Swap(s, g))
    <2>1. m \notin Owing(k, s[Len(s)])
      BY <1>3, <1>14
    <2>2. m \in OwingRest(k, b, t) => m \in Owing(k, g) \cup OwingRest(k, b, g)
      BY <1>11, <1>r
    <2>3. Len(s) # 1 /\ m \in OwingRest(k, s[Len(s) - 1], s[Len(s)]) =>
            m \in Owing(k, g) \cup OwingRest(k, s[Len(s) - 1], g)
      BY <1>3, <2>2
    <2>4. QED
      BY <1>1, <1>4, <2>1, <2>3, OwesSwap
  <1>16. QED
    BY <1>4, <1>10, <1>12, <1>15 DEF Settles, s

(* The frame f is the one below with what its block bound.                 *)
LEMMA CloseSettles ==
  ASSUME StackOk, stack # <<>>, Top.kind # "section", Top.todo = <<>>, NEW k, StackTidy(k, stack),
         Top.kind = "branch" => Top.rest = <<>>, unbound' = unbound,
         NEW f \in Frames, FieldsOf(f, Below), f.failed = Below.failed, NEW binds \in SUBSET STRING,
         NEW g \in Frames, g = After(f, TRUE, FALSE, binds), stack' = Shrink(stack, g),
         f.outputs \cup binds \subseteq Below.outputs \cup Gain(k, Head(Below.todo)),
         Below.kind = "branch" => f.writes \cup binds \subseteq Below.writes \cup Seen(Head(Below.todo))
  PROVE  Settles(k)
  <1> DEFINE b == Below
  <1>1. b \in Frames /\ Tidy(b)
    BY ClosingIs
  <1>2. f.kind = b.kind /\ f.todo = b.todo /\ f.rest = b.rest /\ f.wrote = b.wrote
    BY DEF FieldsOf
  <1>3. ~f.failed
    BY <1>1 DEF Tidy
  <1>4. /\ g.kind = f.kind /\ g.rest = f.rest /\ g.wrote = f.wrote /\ g.failed = FALSE /\ g.todo = Tail(f.todo)
        /\ g.outputs = f.outputs \cup binds /\ g.writes = f.writes \cup binds
    BY <1>3, AfterPassed
  <1>5. Passed(k, b, g)
    BY <1>2, <1>4 DEF Passed
  <1>6. QED
    BY <1>5, ShrinkSettles

LEMMA JoinSettles ==
  ASSUME StackOk, NEW k, StackTidy(k, stack), JoinBranches
  PROVE  Settles(k)
  <1>1. /\ stack # <<>> /\ Top.kind = "branch" /\ Top.kind # "section" /\ Top.todo = <<>> /\ Top.rest = <<>>
        /\ Handed \in SUBSET STRING
    BY EndsIs DEF JoinBranches
  <1>2. /\ Below \in Frames /\ Tidy(Top) /\ Tied(k, Below, Top)
    BY <1>1, ClosingIs
  <1>3. Top.failed = FALSE
    <2>1. Top.failed \in BOOLEAN
      BY EndsIs DEF JoinBranches
    <2>2. QED
      BY <1>2, <2>1 DEF Tidy
  <1> DEFINE f == Joined  g == After(f, TRUE, FALSE, {})
  <1>4. f \in Frames /\ FieldsOf(f, Below) /\ g \in Frames /\ stack' = Shrink(stack, g)
    BY <1>3, BlockCloses DEF Drops
  <1>5. f.outputs = Below.outputs \cup Handed /\ f.writes = Below.writes /\ f.failed = Below.failed
    <2> DEFINE b == Below  outputs == Below.outputs \cup Handed
    <2>1. b \in Frames /\ outputs \in SUBSET STRING
      BY <1>1, <1>2 DEF Frames
    <2>2. f = [b EXCEPT !.outputs = outputs]
      BY DEF Joined
    <2> HIDE DEF b, outputs, f
    <2>3. f.outputs = outputs /\ f.writes = b.writes /\ f.failed = b.failed
      <3>1. b.writes \in SUBSET STRING
        BY <2>1 DEF Frames
      <3>2. QED
        BY <2>1, <2>2, <3>1, BoundIs
    <2>4. QED
      BY <2>3 DEF b, outputs
  <1>6. Handed \subseteq Gain(k, Head(Below.todo))
    <2>1. Handed \subseteq Hands(Top)
      BY DEF Handed, Hands
    <2>2. QED
      BY <1>1, <1>2, <2>1 DEF Tied
  <1>7. unbound' = unbound
    BY DEF JoinBranches, CloseBlock
  <1> HIDE DEF f
  <1>8. f.outputs \cup {} \subseteq Below.outputs \cup Gain(k, Head(Below.todo)) /\ f.writes \cup {} \subseteq Below.writes
    BY <1>5, <1>6
  <1> DEFINE none == {}
  <1>9. /\ none \in SUBSET STRING /\ g = After(f, TRUE, FALSE, none)
        /\ f.outputs \cup none \subseteq Below.outputs \cup Gain(k, Head(Below.todo))
        /\ f.writes \cup none \subseteq Below.writes \cup Seen(Head(Below.todo))
    BY <1>8
  <1> HIDE DEF g, none
  <1>10. QED
    BY <1>1, <1>4, <1>5, <1>7, <1>9, CloseSettles

LEMMA RepeatSettles ==
  ASSUME StackOk, NEW k, StackTidy(k, stack), EndRepeat
  PROVE  Settles(k)
  <1>1. /\ stack # <<>> /\ Top.kind = "body" /\ Top.kind # "section" /\ Top.kind # "branch" /\ Top.todo = <<>>
        /\ Top.outputs \in SUBSET STRING /\ Top.writes \in SUBSET STRING
    BY EndsIs DEF EndRepeat
  <1>2. /\ Below \in Frames /\ Tidy(Top) /\ Tied(k, Below, Top)
    BY <1>1, ClosingIs
  <1>3. Top.failed = FALSE
    <2>1. Top.failed \in BOOLEAN
      BY EndsIs DEF EndRepeat
    <2>2. QED
      BY <1>2, <2>1 DEF Tidy
  <1> DEFINE f == Repeated  g == After(f, TRUE, FALSE, {})
  <1>4. f \in Frames /\ FieldsOf(f, Below) /\ g \in Frames /\ stack' = Shrink(stack, g)
    BY <1>3, BlockCloses DEF Drops
  <1>5. f.outputs = Top.outputs /\ f.failed = Below.failed
    <2> DEFINE b == Below  outputs == Top.outputs  writes == Top.writes
    <2>1. b \in Frames /\ outputs \in SUBSET STRING /\ writes \in SUBSET STRING
      BY <1>1, <1>2
    <2>2. f = [b EXCEPT !.outputs = outputs, !.writes = writes]
      BY DEF Repeated
    <2> HIDE DEF b, outputs, writes, f
    <2>3. f.outputs = outputs /\ f.failed = b.failed
      <3> DEFINE h == [b EXCEPT !.outputs = outputs, !.writes = writes]
      <3>1. h.outputs = outputs /\ h.failed = b.failed
        BY <2>1 DEF Frames
      <3>2. f = h
        BY <2>2
      <3> HIDE DEF h
      <3>3. QED
        BY <3>1, <3>2
    <2>4. QED
      BY <2>3 DEF b, outputs, writes
  <1>6. Below.kind # "branch" /\ Top.outputs \subseteq Below.outputs \cup Gain(k, Head(Below.todo))
    BY <1>1, <1>2 DEF Tied, Limit
  <1>7. unbound' = unbound
    BY DEF EndRepeat, CloseBlock
  <1> HIDE DEF f
  <1> DEFINE none == {}
  <1>8. /\ none \in SUBSET STRING /\ g = After(f, TRUE, FALSE, none)
        /\ f.outputs \cup none \subseteq Below.outputs \cup Gain(k, Head(Below.todo))
    BY <1>5, <1>6
  <1> HIDE DEF g, none
  <1>9. QED
    BY <1>1, <1>4, <1>5, <1>6, <1>7, <1>8, CloseSettles

LEMMA ReturnSettles ==
  ASSUME StackOk, NEW k, StackTidy(k, stack), ReturnComposed, clean'
  PROVE  Settles(k)
  <1>1. /\ stack # <<>> /\ Top.kind = "macro" /\ Top.kind # "section" /\ Top.kind # "branch" /\ Top.todo = <<>>
        /\ Top.failed \in BOOLEAN
    BY EndsIs DEF ReturnComposed
  <1> DEFINE f == Below  hd == Head(Below.todo)  binds == hd.binds  g == After(f, TRUE, FALSE, binds)
  <1>2. f \in Frames /\ Tied(k, f, Top) /\ hd \in Steps /\ f.todo # <<>> /\ binds \in SUBSET STRING
    <2>1. f \in Frames /\ Tied(k, f, Top) /\ hd \in Steps /\ f.todo # <<>>
      BY <1>1, ClosingIs
    <2>2. binds \in SUBSET STRING
      BY <1>1, BelowIs
    <2>3. QED
      BY <2>1, <2>2
  <1>3. PICK ok \in {FALSE, ~Top.failed} : EndStep(SubSeq(stack, 1, Len(stack) - 2), f, ok, Judged(f, ok), binds)
    BY DEF ReturnComposed
  <1>4. ok = TRUE /\ Judged(f, ok) = FALSE
    <2>1. ok \in BOOLEAN /\ Judged(f, ok) \in BOOLEAN
      BY <1>1 DEF Judged
    <2>2. ok /\ ~Judged(f, ok)
      BY <1>3 DEF EndStep
    <2>3. QED
      BY <2>1, <2>2
  <1>5. stack' = Shrink(stack, g)
    BY <1>3, <1>4 DEF EndStep, Shrink
  <1>6. unbound' = unbound
    BY DEF ReturnComposed
  <1>7. g \in Frames
    BY <1>2, AfterIs
  <1>8. Gain(k, hd) = binds
    BY <1>1, <1>2 DEF Tied
  <1>9. FieldsOf(f, Below) /\ f.failed = Below.failed
    BY DEF FieldsOf
  <1>10. binds \subseteq Seen(hd)
    BY <1>2, OwnSeen
  <1>11. /\ f.outputs \cup binds \subseteq Below.outputs \cup Gain(k, Head(Below.todo))
         /\ f.writes \cup binds \subseteq Below.writes \cup Seen(Head(Below.todo))
    BY <1>8, <1>10
  <1>12. g = After(f, TRUE, FALSE, binds)
    OBVIOUS
  <1> HIDE DEF f, hd, binds, g
  <1>13. QED
    BY <1>1, <1>2, <1>5, <1>6, <1>7, <1>9, <1>11, <1>12, CloseSettles

(* Every step inside a section.                                            *)
LEMMA InsideSettles ==
  ASSUME RunInv, RunStep, ~OpenSection, ~NextSection, NEW k, k.specs = specs, BlocksKnown(k), StackTidy(k, stack), clean'
  PROVE  Settles(k)
  <1>1. StackOk
    BY RunFrame DEF RunInv
  <1>2. CASE GuardSkips \/ DrySkip \/ Unevaluated \/ CallFails
    <2>1. ~clean'
      BY <1>2 DEF GuardSkips, DrySkip, Unevaluated, CallFails, EndStep
    <2>2. QED
      BY <2>1
  <1>3. CASE CallVerb
    BY <1>1, <1>3, CallSettles
  <1>4. CASE CallComposed
    BY <1>4, MacroSettles
  <1>5. CASE OpenBlock
    BY <1>1, <1>5, BlockSettles
  <1>6. CASE NextBranch
    BY <1>1, <1>6, NextSettles
  <1>7. CASE JoinBranches \/ EndRepeat \/ ReturnComposed
    BY <1>1, <1>7, JoinSettles, RepeatSettles, ReturnSettles
  <1>8. QED
    BY <1>2, <1>3, <1>4, <1>5, <1>6, <1>7 DEF RunStep

LEMMA OpenAwaits ==
  ASSUME StackOk, OpenSection, NEW k, Untangled(sections)
  PROVE  StackTidy(k, stack') /\ Awaited(k, stack, sections) \subseteq Awaited(k, stack', sections)
  <1>1. stack = <<>> /\ sections # <<>> /\ sections \in Seq(Headings)
    BY DEF StackOk, OpenSection
  <1>2. stack' = <<SectionFrame(sections[1], {})>>
    <2>1. Head(sections) = sections[1]
      BY <1>1, TailIs
    <2>2. QED
      BY <2>1, SectionOpens
  <1>3. Awaited(k, stack, sections) = DueSections(k, sections, {})
    <2>1. Owes(k, stack) = {}
      <3>1. 1..Len(stack) = {}
        BY <1>1
      <3>2. QED
        BY <3>1 DEF Owes
    <2>2. QED
      BY <1>1, <2>1 DEF Awaited, Beyond
  <1> DEFINE none == {}  t == stack'  secs == sections
  <1>4. none \in SUBSET STRING /\ t = <<SectionFrame(secs[1], none)>>
    BY <1>2
  <1>5. secs \in Seq(Headings) /\ secs # <<>> /\ Untangled(secs) /\ Awaited(k, stack, secs) = DueSections(k, secs, none)
    BY <1>1, <1>3
  <1> HIDE DEF none, t, secs
  <1>6. StackTidy(k, t) /\ DueSections(k, secs, none) \subseteq Awaited(k, t, secs)
    BY <1>4, <1>5, EnterOwes
  <1>7. QED
    BY <1>5, <1>6 DEF t, secs

LEMMA NextAwaits ==
  ASSUME StackOk, NextSection, NEW k, Untangled(sections), StackTidy(k, stack)
  PROVE  IF phase' = "run"
         THEN StackTidy(k, stack') /\ Untangled(sections') /\ Awaited(k, stack, sections) \subseteq Awaited(k, stack', sections')
         ELSE Awaited(k, stack, sections) = {}
  <1> DEFINE secs == sections  left == Tail(sections)  top == Top  outputs == Top.outputs
  <1>1. stack # <<>> /\ Len(stack) = 1 /\ stack[1] = top /\ top.todo = <<>> /\ top \in Frames /\ outputs \in SUBSET STRING
    <2>1. Len(stack) = 1 /\ Top.todo = <<>>
      BY DEF NextSection
    <2>2. stack # <<>>
      BY <2>1
    <2>3. Top \in Frames /\ Top = stack[1]
      BY <2>1, <2>2, TopIs
    <2>4. Top.outputs \in SUBSET STRING
      BY <2>3 DEF Frames
    <2>5. QED
      BY <2>1, <2>2, <2>3, <2>4
  <1>2. secs \in Seq(Headings) /\ secs # <<>>
    BY <1>1 DEF StackOk
  <1>3. ~top.failed
    <2>1. 1 \in 1..Len(stack)
      BY <1>1
    <2>2. QED
      BY <1>1, <2>1 DEF StackTidy, Tidy
  <1>4. IF left = <<>> THEN phase' = "end" ELSE phase' = "run" /\ sections' = left /\ stack' = <<SectionFrame(left[1], outputs)>>
    BY <1>3 DEF NextSection, SectionFrame
  <1>5. NeedAll(k, <<>>) = {} /\ GainAll(k, <<>>) = {}
    <2>1. <<>> \in Seq(Steps)
      OBVIOUS
    <2>2. QED
      BY <2>1, GainAllIs
  <1>6. left \in Seq(Headings) /\ Untangled(left)
    BY <1>2, UntangledTail, TailIs
  <1>7. Awaited(k, stack, secs) = DueSections(k, left, outputs)
    <2>1. Debt(k, stack, 1) = {}
      <3>1. Owing(k, stack[1]) = {}
        BY <1>1, <1>5 DEF Owing
      <3>2. QED
        BY <1>1, <3>1 DEF Debt
    <2>2. Owes(k, stack) = {}
      <3>1. 1..Len(stack) = {1}
        BY <1>1
      <3>2. QED
        BY <2>1, <3>1 DEF Owes
    <2>3. Limit(k, stack[1]) = outputs
      BY <1>1, <1>5 DEF Limit
    <2>4. QED
      BY <1>1, <2>2, <2>3 DEF Awaited, Beyond
  <1> HIDE DEF secs, left, top, outputs
  <1>8. CASE left = <<>>
    <2>1. 1..Len(left) = {}
      BY <1>8
    <2>2. DueSections(k, left, outputs) = {}
      BY <2>1 DEF DueSections
    <2>3. QED
      BY <1>4, <1>7, <1>8, <2>2 DEF secs
  <1>9. CASE left # <<>>
    <2> DEFINE t == stack'
    <2>1. t = <<SectionFrame(left[1], outputs)>> /\ phase' = "run" /\ sections' = left
      BY <1>4, <1>9
    <2> HIDE DEF t
    <2>2. StackTidy(k, t) /\ DueSections(k, left, outputs) \subseteq Awaited(k, t, left)
      BY <1>1, <1>6, <1>9, <2>1, EnterOwes
    <2>3. QED
      BY <1>6, <1>7, <2>1, <2>2 DEF t, secs
  <1>10. QED
    BY <1>8, <1>9

(* Every step of a run.                                                    *)
LEMMA RunSettles ==
  ASSUME RunInv, RunStep, NEW k, k.specs = specs, BlocksKnown(k), StackTidy(k, stack), Untangled(sections), clean'
  PROVE  /\ clean /\ unbound \subseteq unbound'
         /\ phase' = "run" => StackTidy(k, stack') /\ Untangled(sections')
         /\ \A m \in Awaited(k, stack, sections) :
              Told(m) \in unbound' \/ (phase' = "run" /\ m \in Awaited(k, stack', sections'))
  <1>1. StackOk /\ phase = "run"
    BY RunFrame DEF RunInv
  <1>2. clean
    BY DEF RunStep, OpenSection, NextSection, GuardSkips, DrySkip, Unevaluated, EndStep, OpenBlock, NextBranch,
           JoinBranches, CloseBlock, EndRepeat, CallFails, CallVerb, CallComposed, ReturnComposed
  <1>3. CASE OpenSection
    <2>1. UNCHANGED <<phase, sections, unbound>>
      BY <1>3 DEF OpenSection
    <2>2. StackTidy(k, stack') /\ Awaited(k, stack, sections) \subseteq Awaited(k, stack', sections)
      BY <1>1, <1>3, OpenAwaits
    <2>3. QED
      BY <1>1, <1>2, <2>1, <2>2
  <1>4. CASE NextSection
    <2>1. UNCHANGED unbound
      BY <1>4 DEF NextSection
    <2>2. IF phase' = "run"
          THEN StackTidy(k, stack') /\ Untangled(sections') /\ Awaited(k, stack, sections) \subseteq Awaited(k, stack', sections')
          ELSE Awaited(k, stack, sections) = {}
      BY <1>1, <1>4, NextAwaits
    <2>3. QED
      BY <1>2, <2>1, <2>2
  <1>5. CASE ~OpenSection /\ ~NextSection
    <2>1. UNCHANGED <<phase, sections>>
      BY <1>5, InsideFrame
    <2>2. Settles(k)
      BY <1>5, InsideSettles
    <2>3. /\ StackTidy(k, stack') /\ stack' # <<>> /\ Limit(k, stack'[1]) \subseteq Limit(k, stack[1]) /\ unbound \subseteq unbound'
          /\ \A m \in Owes(k, stack) : Told(m) \in unbound' \/ m \in Owes(k, stack')
      BY <2>2 DEF Settles, Neat
    <2>4. stack # <<>>
      BY <1>5 DEF RunStep, GuardSkips, DrySkip, Unevaluated, At, OpenBlock, NextBranch, Ends,
           JoinBranches, EndRepeat, CallFails, CallVerb, CallComposed, ReturnComposed
    <2>5. Beyond(k, stack, sections) \subseteq Beyond(k, stack', sections')
      <3> DEFINE D == Limit(k, stack[1])  E == Limit(k, stack'[1])  left == Tail(sections)
      <3>1. Beyond(k, stack, sections) = DueSections(k, left, D)
        BY <2>4 DEF Beyond
      <3>2. Beyond(k, stack', sections') = DueSections(k, left, E)
        BY <2>1, <2>3 DEF Beyond
      <3>3. E \subseteq D
        BY <2>3
      <3> HIDE DEF D, E, left
      <3>4. DueSections(k, left, D) \subseteq DueSections(k, left, E)
        BY <3>3, DueMore
      <3>5. QED
        BY <3>1, <3>2, <3>4
    <2>6. QED
      BY <1>1, <1>2, <2>1, <2>3, <2>5 DEF Awaited
  <1>6. QED
    BY <1>3, <1>4, <1>5

-----------------------------------------------------------------------------
(* What is blamed of the scenario that runs is awaited until it is read.   *)
Straight == ~(\E s \in Range(Sections(Scenario)) : RepeatInBranch(s.steps))

Blamed == DueSections(Known, Sections(Scenario), {})

Builds == NewErrors(set.providers, Merged(Scenario)) = {}

OweInv ==
  clean /\ Straight =>
    /\ phase = "run" =>
         /\ StackTidy(Known, stack) /\ Untangled(sections)
         /\ \A m \in Blamed : Told(m) \in unbound \/ m \in Awaited(Known, stack, sections)
    /\ phase = "end" /\ chosen # <<>> /\ Builds => \A m \in Blamed : Told(m) \in unbound

(* Every finding of the scenarios is part of a report that is there whole. *)
ReportInv ==
  Validated => \A f \in findings.scenarios : \E i \in DOMAIN set.scenarios :
                 \E found \in Reports(set.scenarios[i]) : f \in found /\ found \subseteq findings.scenarios

LEMMA OweParts ==
  /\ OweInv <=> (clean /\ Straight =>
       /\ phase = "run" =>
            /\ StackTidy(Known, stack) /\ Untangled(sections)
            /\ \A m \in Blamed : Told(m) \in unbound \/ m \in Awaited(Known, stack, sections)
       /\ phase = "end" /\ chosen # <<>> /\ Builds => \A m \in Blamed : Told(m) \in unbound)
  /\ OweInv' <=> (clean' /\ Straight' =>
       /\ phase' = "run" =>
            /\ StackTidy(Known', stack') /\ Untangled(sections')
            /\ \A m \in Blamed' : Told(m) \in unbound' \/ m \in Awaited(Known', stack', sections')
       /\ phase' = "end" /\ chosen' # <<>> /\ Builds' => \A m \in Blamed' : Told(m) \in unbound')
  BY DEF OweInv, Told

LEMMA ScenarioStays ==
  ASSUME UNCHANGED <<set, chosen>>
  PROVE  Known' = Known /\ (Straight' <=> Straight) /\ Blamed' = Blamed /\ (Builds' <=> Builds)
  <1>1. Scenario' = Scenario /\ Project' = Project
    BY DEF Scenario, Project
  <1>2. (Merged(Scenario))' = Merged(Scenario)
    BY <1>1 DEF Merged
  <1>3. Known' = Known
    BY KnownStays
  <1>4. QED
    BY <1>1, <1>2, <1>3 DEF Straight, Blamed, Builds

LEMMA SettleOwes ==
  ASSUME SelectionInv, Unstarted, Settle, Straight'
  PROVE  /\ phase' = "run" =>
              /\ StackTidy(Known', stack') /\ Untangled(sections')
              /\ Blamed' \subseteq Awaited(Known', stack', sections')
         /\ ~(phase' = "end" /\ chosen' # <<>> /\ Builds')
  <1> DEFINE sc == chosen'[1].file
  <1>1. UNCHANGED <<case, set, stack>> /\ stack' = <<>>
    BY DEF Settle, Unstarted
  <1>2. Scenario' = sc /\ Project' = Project
    BY <1>1 DEF Scenario, Project
  <1>3. (Merged(Scenario))' = Merged(sc)
    BY <1>2, <1>1 DEF Merged
  <1>4. ASSUME phase' = "run"
        PROVE  /\ StackTidy(Known', stack') /\ Untangled(sections')
               /\ Blamed' \subseteq Awaited(Known', stack', sections')
    <2> DEFINE k == Known'  secs == sections'
    <2>1. secs = SectionsOf(sc)
      BY <1>4, SettledIs
    <2>2. (\A s \in Range(Sections(sc)) : ~RepeatInBranch(s.steps)) /\ Blamed' = DueSections(k, Sections(sc), {})
      BY <1>2 DEF Straight, Blamed
    <2> HIDE DEF k, secs, sc
    <2>3. DueSections(k, Sections(sc), {}) \subseteq DueSections(k, secs, {}) /\ Untangled(secs)
      BY <2>1, <2>2, StartDue
    <2>4. StackTidy(k, <<>>) /\ Awaited(k, <<>>, secs) = Owes(k, <<>>) \cup DueSections(k, secs, {})
      <3>1. 1..Len(<<>>) = {}
        OBVIOUS
      <3>2. QED
        BY <3>1 DEF StackTidy, Awaited, Beyond
    <2>5. QED
      BY <1>1, <2>2, <2>3, <2>4 DEF k, secs
  <1>5. ASSUME phase' = "end", chosen' # <<>>, Builds' PROVE FALSE
    <2>1. Refusal # "end"
      BY DEF Refusal
    <2>2. Launch(Selected)
      BY <1>5, <2>1 DEF Settle
    <2>3. NewErrors(set.providers, Merged(sc)) = {}
      BY <1>1, <1>3, <1>5 DEF Builds
    <2>4. QED
      BY <1>5, <2>2, <2>3 DEF Launch
  <1>6. QED
    BY <1>4, <1>5

LEMMA OweSteps == RunInv /\ OweInv /\ [Next]_vars => OweInv'
  <1> SUFFICES ASSUME RunInv, OweInv, [Next]_vars, clean', Straight'
               PROVE  /\ phase' = "run" =>
                           /\ StackTidy(Known', stack') /\ Untangled(sections')
                           /\ \A m \in Blamed' : Told(m) \in unbound' \/ m \in Awaited(Known', stack', sections')
                      /\ phase' = "end" /\ chosen' # <<>> /\ Builds' => \A m \in Blamed' : Told(m) \in unbound'
    BY OweParts
  <1>1. CASE LoadProject \/ ValidateProject
    <2>1. phase' \notin {"run", "end"}
      BY <1>1 DEF LoadProject, ValidateProject
    <2>2. QED
      BY <2>1
  <1>2. CASE Settle
    <2>1. SelectionInv /\ Unstarted
      BY <1>2 DEF Settle, RunInv
    <2>2. QED
      BY <1>2, <2>1, SettleOwes
  <1>3. CASE RunStep
    <2>1. phase = "run" /\ phase' \in {"run", "end"} /\ UNCHANGED <<set, chosen>> /\ specs = Specs(Insts)
      BY <1>3, RunFrame DEF RunInv
    <2>2. Known' = Known /\ Straight /\ Blamed' = Blamed
      BY <2>1, ScenarioStays
    <2> DEFINE k == Known
    <2>3. k.specs = specs /\ BlocksKnown(k)
      BY <2>1, KnownIs, BlocksResolve DEF BlocksKnown
    <2>4. clean
      BY <1>3 DEF RunStep, OpenSection, NextSection, GuardSkips, DrySkip, Unevaluated, EndStep, OpenBlock, NextBranch,
                  JoinBranches, CloseBlock, EndRepeat, CallFails, CallVerb, CallComposed, ReturnComposed
    <2>5. /\ StackTidy(k, stack) /\ Untangled(sections)
          /\ \A m \in Blamed : Told(m) \in unbound \/ m \in Awaited(k, stack, sections)
      BY <2>1, <2>2, <2>4, OweParts
    <2> HIDE DEF k
    <2>6. /\ unbound \subseteq unbound'
          /\ phase' = "run" => StackTidy(k, stack') /\ Untangled(sections')
          /\ \A m \in Awaited(k, stack, sections) :
               Told(m) \in unbound' \/ (phase' = "run" /\ m \in Awaited(k, stack', sections'))
      BY <1>3, <2>3, <2>5, RunSettles
    <2>7. \A m \in Blamed : Told(m) \in unbound' \/ (phase' = "run" /\ m \in Awaited(k, stack', sections'))
      BY <2>5, <2>6
    <2>8. QED
      BY <2>2, <2>6, <2>7 DEF k
  <1>4. CASE UNCHANGED vars
    <2>1. UNCHANGED <<phase, set, chosen, stack, sections, unbound, clean>>
      BY <1>4 DEF vars
    <2>2. Known' = Known /\ (Straight' <=> Straight) /\ Blamed' = Blamed /\ (Builds' <=> Builds)
      BY <2>1, ScenarioStays
    <2>3. QED
      BY <2>1, <2>2, OweParts
  <1>5. QED
    BY <1>1, <1>2, <1>3, <1>4, StepKinds

LEMMA ReportSteps == RunInv /\ ReportInv /\ [Next]_vars => ReportInv'
  <1> SUFFICES ASSUME ReportInv, [Next]_vars PROVE ReportInv'
    OBVIOUS
  <1>1. CASE LoadProject
    <2>1. phase' \in {"validate", "refused"}
      BY <1>1 DEF LoadProject
    <2>2. QED
      BY <2>1 DEF ReportInv, Validated
  <1>2. CASE ValidateProject
    <2> DEFINE scs == set.scenarios  reports == [i \in DOMAIN scs |-> Reports(scs[i])]
    <2>1. PICK found \in OneReportEach(reports) :
            findings' = [project |-> CheckOutput(Project.output) \cup CheckDefs(set.providers, Project),
                         scenarios |-> UNION Range(found)]
      BY <1>2 DEF ValidateProject
    <2>2. set' = set /\ Project' = Project
      BY <1>2 DEF ValidateProject, Project
    <2>3. found \in [DOMAIN scs -> UNION Range(reports)] /\ \A i \in DOMAIN scs : found[i] \in Reports(scs[i])
      BY <2>1 DEF OneReportEach
    <2>4. \A i \in DOMAIN scs : Reports(scs[i])' = Reports(scs[i])
      BY <2>2 DEF Reports
    <2>5. findings'.scenarios = UNION Range(found)
      BY <2>1
    <2>6. \A f \in UNION Range(found) : \E i \in DOMAIN scs : f \in found[i] /\ found[i] \subseteq UNION Range(found)
      BY <2>3 DEF Range
    <2> HIDE DEF reports
    <2>7. \A f \in findings'.scenarios : \E i \in DOMAIN scs :
            \E one \in Reports(scs[i]) : f \in one /\ one \subseteq findings'.scenarios
      BY <2>3, <2>5, <2>6
    <2>8. QED
      BY <2>2, <2>4, <2>7 DEF ReportInv, Reports
  <1>3. CASE Settle \/ RunStep \/ UNCHANGED vars
    <2>1. UNCHANGED <<set, findings>> /\ (Validated' => Validated)
      BY <1>3, RunFrame DEF Settle, vars, Validated
    <2>2. Project' = Project
      BY <2>1 DEF Project
    <2>3. QED
      BY <2>1, <2>2 DEF ReportInv, Reports
  <1>4. QED
    BY <1>1, <1>2, <1>3, StepKinds

LEMMA OnlyScenario ==
  ASSUME RunInv, phase = "end", Len(chosen) = 1, Len(set.scenarios) = 1
  PROVE  /\ chosen # <<>> /\ DOMAIN set.scenarios = {1} /\ Scenario = set.scenarios[1].file
         /\ {Scenario.setup, Scenario.steady, Scenario.method, Scenario.verify, Scenario.teardown} \subseteq Seq(Steps)
  <1>1. chosen # <<>> /\ SelectionInv
    BY DEF RunInv
  <1>2. chosen = Selected /\ chosen[1] \in Range(set.scenarios)
    <2>1. chosen = Selected
      BY <1>1 DEF SelectionInv
    <2>2. QED
      BY <1>1, <2>1, FirstIsListed
  <1>3. set.scenarios \in Seq(Listed(case.docs))
    BY <1>1 DEF SelectionInv, LoadInv, Sets
  <1>4. DOMAIN set.scenarios = {1} /\ set.scenarios[1] \in Listed(case.docs)
    <2>1. \A X : \A s \in Seq(X) : Len(s) = 1 => DOMAIN s = {1} /\ s[1] \in X
      OBVIOUS
    <2>2. QED
      BY <1>3, <2>1
  <1>5. chosen[1] = set.scenarios[1]
    BY <1>2, <1>4 DEF Range
  <1>6. Scenario \in Of(case.docs, "Scenario")
    <2> DEFINE one == set.scenarios[1]
    <2>1. PICK d \in Of(case.docs, "Scenario") : one = [name |-> d.name, suite |-> SuiteOf(d), file |-> d]
      BY <1>4 DEF Listed
    <2>2. one.file = d
      BY <2>1
    <2>3. QED
      BY <1>5, <2>2 DEF Scenario
  <1>7. {Scenario.setup, Scenario.steady, Scenario.method, Scenario.verify, Scenario.teardown} \subseteq Seq(Steps)
    <2>1. \A d \in Range(case.docs) : d.class = "Scenario" =>
            {d.setup, d.steady, d.method, d.verify, d.teardown} \subseteq Seq(Steps)
      BY <1>1 DEF SelectionInv, LoadInv, CaseRight
    <2>2. QED
      BY <1>6, <2>1 DEF Of
  <1>8. QED
    BY <1>1, <1>4, <1>5, <1>7 DEF Scenario

LEMMA ErrorsAreUnbound ==
  ASSUME RunInv, OweInv, ReportInv, phase = "end", clean, Len(chosen) = 1, Len(set.scenarios) = 1, Straight,
         \A f \in Errors(findings.scenarios) : f.ref # <<>> /\ f.ref[1] = "outputs" /\ f.ref[2] # "",
         NEW f \in Errors(findings.scenarios)
  PROVE  f.ref \in unbound
  <1>1. /\ chosen # <<>> /\ DOMAIN set.scenarios = {1} /\ Scenario = set.scenarios[1].file
        /\ {Scenario.setup, Scenario.steady, Scenario.method, Scenario.verify, Scenario.teardown} \subseteq Seq(Steps)
    BY OnlyScenario
  <1>2. f \in findings.scenarios /\ Validated
    BY DEF Errors, Validated
  <1>3. PICK found \in ScenarioFindings(set.providers, Project, Scenario) :
          f \in found /\ found \subseteq findings.scenarios
    BY <1>1, <1>2 DEF ReportInv, Reports
  <1> DEFINE merged == Merged(Scenario)  sc == Scenario  stops == NewErrors(set.providers, merged)
  <1>4. stops = {} /\ found = CheckScenario(sc, Project, Insts)
    <2>1. IF stops # {} THEN \E g \in found : g.ref = <<>> /\ g.severity = "error"
          ELSE found = CheckScenario(sc, Project, Instances(set.providers, merged))
      BY <1>3, ReportBlames DEF Merged
    <2>2. ~(\E g \in found : g.ref = <<>> /\ g.severity = "error")
      BY <1>3 DEF Errors
    <2>3. QED
      BY <2>1, <2>2 DEF Insts
  <1> HIDE DEF merged, stops
  <1>5. f.ref \in Pairs /\ f.ref[1] = "outputs" /\ f.ref[2] # ""
    <2> DEFINE project == Project  insts == Insts
    <2>1. f \in CheckScenario(sc, project, insts)
      BY <1>3, <1>4
    <2>2. {sc.setup, sc.steady, sc.method, sc.verify, sc.teardown} \subseteq Seq(Steps)
      BY <1>1
    <2> HIDE DEF sc, project, insts
    <2>3. f.ref = <<>> \/ f.ref \in Pairs
      BY <2>1, <2>2, ScenarioRefs
    <2>4. QED
      BY <2>3
  <1> DEFINE r == f.ref  m == r[2]
  <1>6. r = Told(m) /\ m \in STRING
    <2>1. r \in Pairs /\ r[1] = "outputs" /\ r[2] # ""
      BY <1>5
    <2> HIDE DEF r
    <2>2. r = <<r[1], r[2]>>
      BY <2>1, PairParts
    <2>3. r[2] \in STRING \cup {""}
      BY <2>1 DEF Pairs
    <2>4. QED
      BY <2>1, <2>2, <2>3 DEF Told
  <1>7. m \in BlamedIn(found)
    BY <1>3, <1>5, <1>6 DEF BlamedIn, About
  <1>8. m \in Blamed
    <2> DEFINE project == Project  insts == Insts
    <2>1. Known = KnownOf(sc, project, insts)
      BY DEF Known
    <2>2. {sc.setup, sc.steady, sc.method, sc.verify, sc.teardown} \subseteq Seq(Steps)
      BY <1>1
    <2>3. found = CheckScenario(sc, project, insts)
      BY <1>4
    <2>4. Blamed = DueSections(Known, Sections(sc), {})
      BY DEF Blamed
    <2> HIDE DEF sc, project, insts, m
    <2>5. BlamedIn(CheckScenario(sc, project, insts)) \subseteq DueSections(KnownOf(sc, project, insts), Sections(sc), {})
      BY <2>2, ScenarioBlames
    <2>6. QED
      BY <1>7, <2>1, <2>3, <2>4, <2>5
  <1>9. Builds
    BY <1>4 DEF Builds, stops, merged
  <1> HIDE DEF m, r
  <1>10. Told(m) \in unbound
    BY <1>1, <1>8, <1>9, OweParts
  <1>11. QED
    BY <1>6, <1>10 DEF r

(* A capture that validation reports as read too early is unbound when a   *)
(* run with no failure and no skip reads it.  What the report blames the   *)
(* open frames and the sections to come are still to read; a step that     *)
(* ends well binds no more than validation takes it to bind, and what it   *)
(* reads that is not bound is noted: so at the end all of it was read.     *)
THEOREM RejectionsHold == Spec => []RejectedForAReason
  <1>1. Init => RunInv /\ OweInv /\ ReportInv
    BY RunInit DEF Init, OweInv, ReportInv, Validated
  <1>2. RunInv /\ OweInv /\ ReportInv /\ [Next]_vars => (RunInv /\ OweInv /\ ReportInv)'
    BY RunSteps, OweSteps, ReportSteps
  <1>3. RunInv /\ OweInv /\ ReportInv => RejectedForAReason
    BY ErrorsAreUnbound DEF RejectedForAReason, Straight
  <1>4. QED
    BY <1>1, <1>2, <1>3, PTL DEF Spec
==============================================================================
