------------------------------ MODULE Scenario ------------------------------
(***************************************************************************)
(* One scenario run by the engine: RunScenario and all it calls for leaf   *)
(* steps (core/engine/executor.go).  The runner goes through               *)
(*                                                                         *)
(*   setup -> steadyState (gate) -> method phases -> steadyState:recovery  *)
(*   -> verify -> returned -> stopping -> teardown -> finished             *)
(*                                                                         *)
(* leaving the timeline early on a failure of setup, gate or method, or on *)
(* a panic.  A step is two actions, so that the scenario's deadline, a     *)
(* cancellation and the background goroutines interleave with a verb that  *)
(* is running.  Blocks (parallel, repeat) have modules of their own.       *)
(***************************************************************************)
EXTENDS Journal

CONSTANTS Scenarios,  \* the scenarios Init may choose from
          BgNames     \* names that background steps use

(* A step as the runner sees it: the effective kind and whether the        *)
(* effective effect is a fault, the envelope keys that change control      *)
(* flow, and for background and stop_background the handle's name.         *)
Step == [op      : {"call", "background", "stop_background"},
         kind    : {"action", "probe", "assertion"},
         fault   : BOOLEAN,
         finding : BOOLEAN,
         when    : BOOLEAN,
         onAbsentSkip : BOOLEAN,
         timeout : BOOLEAN,
         name    : BgNames]

ScenarioType ==
  [setup : Seq(Step), steadyState : Seq(Step), method : Seq(Seq(Step)),
   verify : Seq(Step), teardown : Seq(Step), hasTeardown : BOOLEAN,
   timeout : BOOLEAN]

ASSUME ScenarioAssumption == Scenarios \subseteq ScenarioType /\ BgNames # {}

VARIABLES
  sc,        \* the scenario, fixed by Init
  opts,      \* keepUp, dryRun, and whether exactly one lifecycle provider exists
  pc,        \* where RunScenario is
  phase,     \* method phase being run, 0 before the first and outside method
  next,      \* index of the current step in the section
  running,   \* the current step's verb has been dispatched and has not returned
  failures,  \* recovery or verify has collected a failure
  verdict,   \* what timeline returned, then what RunScenario will report
  ctx,       \* the timeline's context
  bg,        \* background handles by name
  res,       \* the ScenarioResult under construction
  journal    \* the events emitted so far

vars == <<sc, opts, pc, phase, next, running, failures, verdict, ctx, bg, res, journal>>

InTimeline == pc \in TimelineSections

(* <lifecycle>.down, the teardown of a scenario that declares none.        *)
DownStep ==
  [op |-> "call", kind |-> "action", fault |-> FALSE, finding |-> FALSE,
   when |-> FALSE, onAbsentSkip |-> FALSE, timeout |-> FALSE,
   name |-> CHOOSE n \in BgNames : TRUE]

TeardownSteps ==
  IF sc.hasTeardown THEN sc.teardown
  ELSE IF opts.lifecycle THEN <<DownStep>> ELSE <<>>

Steps ==
  CASE pc = "setup"    -> sc.setup
    [] pc = "method"   -> sc.method[phase]
    [] pc = "verify"   -> sc.verify
    [] pc = "teardown" -> TeardownSteps
    [] OTHER           -> sc.steadyState

InSection == InTimeline \/ pc = "teardown"
HasStep == InSection /\ next <= Len(Steps)
SectionDone == InSection /\ ~running /\ next > Len(Steps)

(* Mutant of StopOnFail: a failed method phase lets the next steps run.    *)
MethodGoesOn == pc \in {"setup", "steadyState"}

StopOnFail == pc \in {"setup", "steadyState", "method"}
Here == [section |-> pc, phase |-> phase, step |-> next]

-----------------------------------------------------------------------------
Init ==
  /\ sc \in Scenarios
  /\ opts \in [keepUp : BOOLEAN, dryRun : BOOLEAN, lifecycle : BOOLEAN]
  /\ pc = "setup" /\ phase = 0 /\ next = 1
  /\ running = FALSE /\ failures = FALSE
  /\ verdict = "none" /\ ctx = "live"
  /\ bg = [n \in BgNames |-> "none"]
  /\ res = EmptyResult
  /\ journal = <<Started>>

(* Mutant of AbortVerdict: a failed gate reported as a failed system.      *)
GateFailsScenario == IF pc = "setup" THEN "ERRORED" ELSE "FAILED"

(* What timeline returns when a section that stops on a failure fails.     *)
AbortVerdict ==
  CASE pc = "setup" -> "ERRORED"
    [] pc = "steadyState" -> "INCONCLUSIVE"
    [] OTHER -> "FAILED"

(* The end of a step: finish emits its event, runSection records its       *)
(* result, counts it as held if it is an assertion of a claiming section,  *)
(* and goes on, or returns at once from a section that stops on a failure. *)
(* before: the events the step emits ahead of its own; found, injected:    *)
(* what it adds to the result.                                             *)
FinishStep(st, v, timedOut, before, found, injected) ==
  LET sr == [at |-> Here, verdict |-> v, timedOut |-> timedOut]
      claims == pc \in {"verify", "steadyState:recovery"} /\ st.kind = "assertion"
      aborts == v = "FAIL" /\ StopOnFail
  IN /\ journal' = journal \o before \o <<StepEnded(sr)>>
     /\ res' = [res EXCEPT !.steps = Append(@, sr),
                           !.findings = @ \o found,
                           !.injected = @ \o injected,
                           !.held = IF v = "PASS" /\ claims THEN Append(@, Here) ELSE @]
     /\ running' = FALSE
     /\ next' = next + 1
     /\ failures' = (failures \/ (v = "FAIL" /\ pc \in {"verify", "steadyState:recovery"}))
     /\ pc' = IF aborts THEN "returned" ELSE pc
     /\ verdict' = IF aborts THEN AbortVerdict ELSE verdict

(* Why a step may end before its verb is dispatched, in the code's order:  *)
(* the when: guard, the verb's resolution, dry-run, the with: values.      *)
Early(st) ==
  (IF st.when THEN {"whenFalse", "whenError"} ELSE {}) \cup {"unresolved"}
  \cup (IF opts.dryRun /\ st.kind = "action" THEN {"dryRun"} ELSE {"badWith"})

EarlyVerdict(st, why) ==
  IF why \in {"whenFalse", "dryRun"} \/ st.onAbsentSkip THEN "SKIP" ELSE "FAIL"

(* runStep up to a return that precedes execVerb.                          *)
EndEarly(why) ==
  /\ HasStep /\ ~running
  /\ why \in Early(Steps[next])
  /\ FinishStep(Steps[next], EarlyVerdict(Steps[next], why), FALSE,
                <<StepStarted(Here)>>, <<>>, <<>>)
  /\ UNCHANGED <<sc, opts, phase, ctx, bg>>

(* runStep into execVerb.                                                  *)
Dispatch ==
  /\ HasStep /\ ~running
  /\ ~(opts.dryRun /\ Steps[next].kind = "action")
  /\ running' = TRUE
  /\ journal' = Append(journal, StepStarted(Here))
  /\ UNCHANGED <<sc, opts, pc, phase, next, failures, verdict, ctx, bg, res>>

(* stop_background cancels the handle it found and then waits for the      *)
(* goroutine, whatever becomes of the step's own context.                  *)
StopCancels ==
  /\ running /\ Steps[next].op = "stop_background"
  /\ bg[Steps[next].name] = "running"
  /\ bg' = [bg EXCEPT ![Steps[next].name] = "cancelling"]
  /\ UNCHANGED <<sc, opts, pc, phase, next, running, failures, verdict, ctx, res, journal>>

(* stop_background's outcomes.  An unevaluable one either never looked at  *)
(* its handle or had already joined it.                                    *)
StopOutcomes(handle) ==
  CASE handle = "cancelling"       -> {}
    [] handle = "running"          -> {"unevaluable"}
    [] handle = "ended"            -> {"unevaluable", "ok"}
    [] handle \in {"none", "died"} -> {"unevaluable", "failed"}

(* How the dispatched verb may return.  A verb may ignore its context, so  *)
(* an ended context only adds outcomes.  Teardown runs without the         *)
(* timeline's deadline and cancellation.                                   *)
VerbOutcomes(st) ==
  CASE st.op = "background" ->
         {"unevaluable", IF bg[st.name] = "none" THEN "ok" ELSE "failed"}
    [] st.op = "stop_background" -> StopOutcomes(bg[st.name])
    [] OTHER ->
         {"ok", "failed", "unevaluable"}
         \cup (IF st.timeout \/ (InTimeline /\ ctx = "expired") THEN {"deadline"} ELSE {})
         \cup (IF InTimeline /\ ctx = "canceled" THEN {"canceled"} ELSE {})

(* The handles a returning step may leave.  An unevaluable step may have   *)
(* failed before its verb ran (arguments) or after it (read:, capture:).   *)
HandlesAfter(st, out) ==
  LET started == [bg EXCEPT ![st.name] = "running"]
      removed == [bg EXCEPT ![st.name] = "none"]
  IN CASE st.op = "background" ->
            (IF out # "ok" THEN {bg} ELSE {})
            \cup (IF out # "failed" /\ bg[st.name] = "none" THEN {started} ELSE {})
       [] st.op = "stop_background" ->
            (IF out = "unevaluable" THEN {bg} ELSE {removed})
            \cup (IF bg[st.name] = "ended" THEN {removed} ELSE {})
       [] OTHER -> {bg}

(* judge: the findings ledger.  A finding whose check errs is FINDING, one *)
(* whose check holds is a FAIL that asks for promotion.                    *)
Judge(st, out) ==
  IF st.finding
  THEN [verdict |-> IF out = "ok" THEN "FAIL" ELSE "FINDING",
        found   |-> <<[at |-> Here, nowPasses |-> out = "ok", detail |-> out]>>]
  ELSE [verdict |-> IF out = "ok" THEN "PASS" ELSE "FAIL", found |-> <<>>]

(* A fault counts as injected when its step did its work during method.    *)
Injects(st, out) == out = "ok" /\ st.fault /\ pc = "method"

Return(out) ==
  /\ running
  /\ LET st == Steps[next]
         j  == Judge(st, out)
         faults == IF Injects(st, out) THEN <<Here>> ELSE <<>>
         events == [i \in 1..Len(faults) |-> FaultInjected(faults[i])]
                   \o [i \in 1..Len(j.found) |-> FindingEvent(j.found[i])]
     IN /\ out \in VerbOutcomes(st)
        /\ FinishStep(st, j.verdict, out = "deadline", events, j.found, faults)
        /\ bg' \in HandlesAfter(st, out)
  /\ UNCHANGED <<sc, opts, phase, ctx>>

(* The verb panics.  In the timeline RunScenario recovers and goes on to   *)
(* the epilogue; teardown runs outside the recovering closure, so there    *)
(* the panic unwinds past RunScenario.                                     *)
Panic ==
  /\ running /\ Steps[next].op = "call"
  /\ running' = FALSE
  /\ IF InTimeline THEN pc' = "returned" /\ verdict' = "ERRORED"
                   ELSE pc' = "crashed" /\ UNCHANGED verdict
  /\ UNCHANGED <<sc, opts, phase, next, failures, ctx, bg, res, journal>>

-----------------------------------------------------------------------------
(* timeline: the order of the sections.                                    *)
Enter(section, ph) ==
  /\ pc' = section /\ phase' = ph /\ next' = 1
  /\ UNCHANGED <<sc, opts, running, failures, verdict, ctx, bg, res>>

EnterGate ==
  /\ pc = "setup" /\ SectionDone
  /\ sc.steadyState # <<>>
  /\ Enter("steadyState", 0)
  /\ UNCHANGED journal

(* Mutant of PastGate: method straight after setup.                        *)
GateForgotten == pc \in {"setup", "steadyState", "method"}

(* The gate is behind, or the scenario has none.                           *)
PastGate ==
  \/ pc \in {"steadyState", "method"}
  \/ pc = "setup" /\ sc.steadyState = <<>>

(* Mutant of EnterPhase: one phase too many.                               *)
PhaseTooMany ==
  /\ PastGate /\ SectionDone
  /\ phase <= Len(sc.method)
  /\ Enter("method", phase + 1)
  /\ journal' = Append(journal, PhaseStarted(phase + 1))

EnterPhase ==
  /\ PastGate /\ SectionDone
  /\ phase < Len(sc.method)
  /\ Enter("method", phase + 1)
  /\ journal' = Append(journal, PhaseStarted(phase + 1))

EnterRecovery ==
  /\ PastGate /\ SectionDone
  /\ phase = Len(sc.method)
  /\ sc.steadyState # <<>>
  /\ Enter("steadyState:recovery", 0)
  /\ UNCHANGED journal

(* Mutant of EnterVerify: the recovery pass may be left out.               *)
RecoverySkipped ==
  /\ SectionDone
  /\ pc = "steadyState:recovery" \/ (PastGate /\ phase = Len(sc.method))
  /\ Enter("verify", 0)
  /\ UNCHANGED journal

EnterVerify ==
  /\ SectionDone
  /\ \/ pc = "steadyState:recovery"
     \/ PastGate /\ phase = Len(sc.method) /\ sc.steadyState = <<>>
  /\ Enter("verify", 0)
  /\ UNCHANGED journal

EndTimeline ==
  /\ pc = "verify" /\ SectionDone
  /\ pc' = "returned"
  /\ verdict' = IF failures THEN "FAILED" ELSE "PASSED"
  /\ UNCHANGED <<sc, opts, phase, next, running, failures, ctx, bg, res, journal>>

-----------------------------------------------------------------------------
(* RunScenario's epilogue.                                                 *)
CheckDeadline ==
  /\ pc = "returned"
  /\ pc' = "stopping"
  /\ verdict' = IF sc.timeout /\ ctx = "expired" THEN "FAILED" ELSE verdict
  /\ UNCHANGED <<sc, opts, phase, next, running, failures, ctx, bg, res, journal>>

(* Mutant of CancelBackground: the goroutine is awaited but not cancelled. *)
AwaitsOnly(n) ==
  /\ pc = "stopping" /\ bg[n] = "running"
  /\ UNCHANGED vars

(* stopBackgrounds: one handle after the other, in map order: cancel it,   *)
(* await its goroutine, forget it.                                         *)
CancelBackground(n) ==
  /\ pc = "stopping"
  /\ \A m \in BgNames : bg[m] # "cancelling"
  /\ bg[n] = "running"
  /\ bg' = [bg EXCEPT ![n] = "cancelling"]
  /\ UNCHANGED <<sc, opts, pc, phase, next, running, failures, verdict, ctx, res, journal>>

JoinBackground(n) ==
  /\ pc = "stopping"
  /\ \A m \in BgNames \ {n} : bg[m] # "cancelling"
  /\ bg[n] \in {"ended", "died"}
  /\ bg' = [bg EXCEPT ![n] = "none"]
  /\ UNCHANGED <<sc, opts, pc, phase, next, running, failures, verdict, ctx, res, journal>>

(* Mutant of Drained: cancelled is taken for stopped.                      *)
CancelledIsEnough == \A n \in BgNames : bg[n] # "running"

Drained == \A n \in BgNames : bg[n] = "none"

StartTeardown ==
  /\ pc = "stopping" /\ Drained /\ ~opts.keepUp
  /\ Enter("teardown", 0)
  /\ UNCHANGED journal

(* Mutant of Finish: an errored scenario skips its teardown.               *)
ErroredSkipsTeardown ==
  /\ \/ pc = "teardown" /\ SectionDone
     \/ pc = "stopping" /\ Drained /\ (opts.keepUp \/ verdict = "ERRORED")
  /\ pc' = "finished"
  /\ res' = [res EXCEPT !.verdict = verdict]
  /\ journal' = Append(journal, Finished(verdict, res.held))
  /\ UNCHANGED <<sc, opts, phase, next, running, failures, verdict, ctx, bg>>

Finish ==
  /\ \/ pc = "teardown" /\ SectionDone
     \/ pc = "stopping" /\ Drained /\ opts.keepUp
  /\ pc' = "finished"
  /\ res' = [res EXCEPT !.verdict = verdict]
  /\ journal' = Append(journal, Finished(verdict, res.held))
  /\ UNCHANGED <<sc, opts, phase, next, running, failures, verdict, ctx, bg>>

-----------------------------------------------------------------------------
(* The environment: the scenario's deadline passes, the caller cancels the *)
(* run, a background's goroutine ends by itself or because it is told to.  *)
EndContext(how) ==
  /\ InTimeline \/ pc = "returned"
  /\ ctx = "live"
  /\ how = "expired" => sc.timeout
  /\ ctx' = how
  /\ UNCHANGED <<sc, opts, pc, phase, next, running, failures, verdict, bg, res, journal>>

BackgroundEnds(n, how) ==
  /\ bg[n] = "running"
  /\ bg' = [bg EXCEPT ![n] = how]
  /\ UNCHANGED <<sc, opts, pc, phase, next, running, failures, verdict, ctx, res, journal>>

BackgroundObeys(n, how) ==
  /\ bg[n] = "cancelling"
  /\ bg' = [bg EXCEPT ![n] = how]
  /\ UNCHANGED <<sc, opts, pc, phase, next, running, failures, verdict, ctx, res, journal>>

Runner ==
  \/ \E why \in {"whenFalse", "whenError", "unresolved", "dryRun", "badWith"} : EndEarly(why)
  \/ Dispatch \/ StopCancels
  \/ \E out \in Outcomes : Return(out)
  \/ Panic
  \/ EnterGate \/ EnterPhase \/ EnterRecovery \/ EnterVerify \/ EndTimeline
  \/ CheckDeadline
  \/ \E n \in BgNames : CancelBackground(n) \/ JoinBackground(n)
  \/ StartTeardown \/ Finish

Environment ==
  \/ \E how \in {"expired", "canceled"} : EndContext(how)
  \/ \E n \in BgNames, how \in {"ended", "died"} :
       BackgroundEnds(n, how) \/ BackgroundObeys(n, how)

Next == Runner \/ Environment

Spec == Init /\ [][Next]_vars

(* The runner's goroutine is scheduled and its verbs return; a cancelled   *)
(* background honours its context.  Nothing makes a background end by      *)
(* itself, nor the deadline pass.                                          *)
Fairness ==
  /\ WF_vars(Runner)
  /\ \A n \in BgNames : WF_vars(\E how \in {"ended", "died"} : BackgroundObeys(n, how))

FairSpec == Spec /\ Fairness

-----------------------------------------------------------------------------
(* Every variable keeps its shape.                                         *)
TypeOK ==
  /\ sc \in Scenarios
  /\ opts \in [keepUp : BOOLEAN, dryRun : BOOLEAN, lifecycle : BOOLEAN]
  /\ pc \in TimelineSections \cup {"returned", "stopping", "teardown", "finished", "crashed"}
  /\ phase \in Nat /\ (pc = "method" => phase \in 1..Len(sc.method))
  /\ next \in Nat \ {0}
  /\ running \in BOOLEAN /\ (running => HasStep)
  /\ failures \in BOOLEAN
  /\ verdict \in ScenarioVerdicts \cup {"none"}
  /\ ctx \in {"live", "expired", "canceled"}
  /\ bg \in [BgNames -> {"none", "running", "cancelling", "ended", "died"}]
  /\ res \in [verdict : ScenarioVerdicts \cup {"none"}, steps : Seq(StepResult),
              findings : Seq(FindingRecord), injected : Seq(Place), held : Seq(Place)]

FailAmong(results, sections) ==
  \E i \in DOMAIN results :
     results[i].verdict = "FAIL" /\ results[i].at.section \in sections

FailIn(sections) == FailAmong(res.steps, sections)

PlacesAmong(results, sections) ==
  {results[i].at : i \in {k \in DOMAIN results : results[k].at.section \in sections}}

PlacesRecorded(sections) == PlacesAmong(res.steps, sections)

StartsAmong(events) ==
  {events[i].at : i \in {k \in DOMAIN events : events[k].type = "step.started"}}

(* Steps of the timeline that were started and have no result.             *)
Unended ==
  {at \in StartsAmong(journal) : at.section \in TimelineSections}
    \ PlacesRecorded(TimelineSections)

(* A step of the timeline was started and never ended.                     *)
Panicked == Unended # {}

(* The resolution order of docs/content/reference/verdicts.md, read off    *)
(* the recorded steps.                                                     *)
StepsVerdict ==
  IF Panicked \/ FailIn({"setup"}) THEN "ERRORED"
  ELSE IF FailIn({"steadyState"}) THEN "INCONCLUSIVE"
  ELSE IF FailIn({"method", "steadyState:recovery", "verify"}) THEN "FAILED"
  ELSE "PASSED"

(* The scenario's own deadline overrides it.                               *)
DocumentedVerdict == IF ctx = "expired" THEN "FAILED" ELSE StepsVerdict

(* The reported verdict is the documented function of what happened to the *)
(* steps: teardown's steps and a background nobody stopped do not count.   *)
VerdictFollowsTable == pc = "finished" => res.verdict = DocumentedVerdict

PlacesOf(section, ph, steps) ==
  {[section |-> section, phase |-> ph, step |-> i] : i \in 1..Len(steps)}

TimelinePlaces ==
  PlacesOf("setup", 0, sc.setup)
  \cup PlacesOf("steadyState", 0, sc.steadyState)
  \cup (UNION {PlacesOf("method", p, sc.method[p]) : p \in 1..Len(sc.method)})
  \cup PlacesOf("steadyState:recovery", 0, sc.steadyState)
  \cup PlacesOf("verify", 0, sc.verify)

(* A green scenario ran every declared step, steadyState twice, and none   *)
(* of them failed: timeline cannot lose a section, a phase or a failure.   *)
PassedRanEverything ==
  pc = "finished" /\ res.verdict = "PASSED" =>
    /\ PlacesRecorded(TimelineSections) = TimelinePlaces
    /\ ~FailIn(TimelineSections)

(* By the time a fault is recorded as injected the whole steadyState gate  *)
(* has been evaluated and none of it failed: the engine never breaks a     *)
(* system it has not seen healthy.                                         *)
GatePassed ==
  \A k \in 1..Len(sc.steadyState) :
    \E i \in DOMAIN res.steps :
       /\ res.steps[i].at = [section |-> "steadyState", phase |-> 0, step |-> k]
       /\ res.steps[i].verdict # "FAIL"

FaultsOnlyWhenHealthy == res.injected # <<>> => GatePassed

(* After a failure in setup, the gate or a method phase the only steps     *)
(* that run are teardown's.                                                *)
StopsAtFirstFailure ==
  \A i, j \in DOMAIN res.steps :
    /\ i < j
    /\ res.steps[i].verdict = "FAIL"
    /\ res.steps[i].at.section \in {"setup", "steadyState", "method"}
    => res.steps[j].at.section = "teardown"

(* Whatever the timeline came to, unless the stack is kept up every        *)
(* teardown step (or the lifecycle's down) has run by the end.             *)
TeardownAlwaysRuns ==
  pc = "finished" /\ ~opts.keepUp =>
    PlacesRecorded({"teardown"}) = PlacesOf("teardown", 0, TeardownSteps)

(* From teardown on, no goroutine of a background started in the timeline  *)
(* is left: only a background that teardown itself starts can be live.     *)
TimelineBackgroundsStopped ==
  pc \in {"teardown", "finished", "crashed"} =>
    \A n \in BgNames : bg[n] # "none" =>
      \E i \in DOMAIN TeardownSteps :
         TeardownSteps[i].op = "background" /\ TeardownSteps[i].name = n

(* A ScenarioResult is the deterministic reduction of the event stream: at *)
(* every step for what accumulates, and as a whole once finished.          *)
ResultIsReduction ==
  LET r == Reduce(journal) IN
  /\ r.steps = res.steps /\ r.findings = res.findings /\ r.injected = res.injected
  /\ pc = "finished" => r = res

(* RunScenario gets to its end whatever the steps do, provided verbs       *)
(* return and backgrounds honour a cancel.                                 *)
EventuallyOver == <>(pc \in {"finished", "crashed"})

(* executor.go's comment on the recovering closure: a panicking verb must  *)
(* not unwind past the scenario, teardown still runs and the finished      *)
(* event is still emitted.                                                 *)
NeverUnwinds == pc # "crashed"

(* executor.go's comment in skipOrFail: a check that could not be          *)
(* evaluated is never a finding.                                           *)
FindingsAreEvaluated ==
  \A i \in DOMAIN res.findings : res.findings[i].detail # "unevaluable"

-----------------------------------------------------------------------------
(* The inductive strengthening of PassedRanEverything, FaultsOnlyWhenHealthy, *)
(* StopsAtFirstFailure and TeardownAlwaysRuns.                             *)

(* The places of the sections and phases that are behind the current one.  *)
PlacesBehind ==
  LET S == PlacesOf("setup", 0, sc.setup)
      G == PlacesOf("steadyState", 0, sc.steadyState)
      M(n) == UNION {PlacesOf("method", p, sc.method[p]) : p \in 1..n}
      R == PlacesOf("steadyState:recovery", 0, sc.steadyState)
  IN CASE pc = "setup"                -> {}
       [] pc = "steadyState"          -> S
       [] pc = "method"               -> S \cup G \cup M(phase - 1)
       [] pc = "steadyState:recovery" -> S \cup G \cup M(Len(sc.method))
       [] pc = "verify"               -> S \cup G \cup M(Len(sc.method)) \cup R

PlacesHere == {[section |-> pc, phase |-> phase, step |-> i] : i \in 1..(next - 1)}

(* In the timeline exactly the steps behind the current one are recorded,  *)
(* none of a section that stops on a failure failed, and a failure of the  *)
(* others is remembered in failures.                                       *)
TimelineProgress ==
  InTimeline =>
    /\ PlacesRecorded(TimelineSections) = PlacesBehind \cup PlacesHere
    /\ next <= Len(Steps) + 1
    /\ pc # "method" => phase = 0
    /\ verdict = "none"
    /\ ~FailIn({"setup", "steadyState", "method"})
    /\ FailIn(TimelineSections) => failures /\ ~StopOnFail

VerdictEarned ==
  /\ verdict = "PASSED" =>
       PlacesRecorded(TimelineSections) = TimelinePlaces /\ ~FailIn(TimelineSections)
  /\ res.verdict = IF pc = "finished" THEN verdict ELSE "none"

TeardownProgress ==
  /\ pc = "teardown" => /\ PlacesRecorded({"teardown"}) = PlacesHere
                        /\ next <= Len(Steps) + 1 /\ phase = 0
  /\ InTimeline \/ pc \in {"returned", "stopping"} => PlacesRecorded({"teardown"}) = {}

IInv ==
  /\ TypeOK /\ TimelineProgress /\ VerdictEarned /\ TeardownProgress
  /\ FaultsOnlyWhenHealthy /\ StopsAtFirstFailure /\ TeardownAlwaysRuns

-----------------------------------------------------------------------------
(* What makes VerdictFollowsTable and ResultIsReduction inductive.         *)

Event ==
  [type : {"scenario.started"}]
  \cup [type : {"step.started", "fault.injected"}, at : Place]
  \cup [type : StepEndTypes, result : StepResult]
  \cup [type : {"phase.started"}, phase : Nat]
  \cup [type : {"finding.recorded"}, record : FindingRecord]
  \cup [type : {"scenario.finished"}, verdict : ScenarioVerdicts \cup {"none"}, held : Seq(Place)]

(* In the timeline the one step without a result is the one that runs.     *)
OneStepOpen == InTimeline => Unended = IF running THEN {Here} ELSE {}

(* The runner's collected failures and verdict are those of the records,   *)
(* first without and then with the scenario's deadline.                    *)
VerdictSoFar ==
  /\ failures <=> FailIn({"steadyState:recovery", "verify"})
  /\ pc = "returned" => verdict = StepsVerdict
  /\ pc \in {"stopping", "teardown", "finished"} => verdict = DocumentedVerdict
  /\ ctx = "expired" => sc.timeout

(* Only scenario.finished brings the verdict and what was held.            *)
ReductionSoFar ==
  /\ ResultIsReduction
  /\ pc # "finished" => Reduce(journal).verdict = "none" /\ Reduce(journal).held = <<>>

RecordInv ==
  /\ IInv /\ journal \in Seq(Event) /\ OneStepOpen /\ VerdictSoFar /\ ReductionSoFar
  /\ TimelineBackgroundsStopped
=============================================================================
