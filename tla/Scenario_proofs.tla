--------------------------- MODULE Scenario_proofs ---------------------------
EXTENDS Scenario, Journal_proofs

LEMMA TypeInit == Init => TypeOK
  <1> SUFFICES ASSUME Init PROVE TypeOK
    OBVIOUS
  <1> USE DEF Init
  <1>1. res \in [verdict : ScenarioVerdicts \cup {"none"}, steps : Seq(StepResult),
                 findings : Seq(FindingRecord), injected : Seq(Place), held : Seq(Place)]
    BY DEF EmptyResult
  <1>2. bg \in [BgNames -> {"none", "running", "cancelling", "ended", "died"}]
    OBVIOUS
  <1>3. running \in BOOLEAN /\ (running => HasStep)
    OBVIOUS
  <1>4. failures \in BOOLEAN
    OBVIOUS
  <1>5. phase \in Nat /\ (pc = "method" => phase \in 1..Len(sc.method))
    OBVIOUS
  <1>6. next \in Nat \ {0}
    OBVIOUS
  <1>7. pc \in TimelineSections \cup {"returned", "stopping", "teardown", "finished", "crashed"}
    BY DEF TimelineSections
  <1>8. verdict \in ScenarioVerdicts \cup {"none"} /\ ctx \in {"live", "expired", "canceled"}
    OBVIOUS
  <1>9. sc \in Scenarios /\ opts \in [keepUp : BOOLEAN, dryRun : BOOLEAN, lifecycle : BOOLEAN]
    OBVIOUS
  <1>10. QED
    BY <1>1, <1>2, <1>3, <1>4, <1>5, <1>6, <1>7, <1>8, <1>9 DEF TypeOK

(* The section being run is a sequence of steps.                           *)
LEMMA StepsAreSteps ==
  ASSUME TypeOK, InSection
  PROVE  /\ Steps \in Seq(Step)
         /\ Len(Steps) \in Nat
         /\ HasStep => Steps[next] \in Step
  <1> USE DEF TypeOK
  <1>1. sc \in ScenarioType
    BY ScenarioAssumption
  <1>2. sc.setup \in Seq(Step) /\ sc.steadyState \in Seq(Step) /\ sc.verify \in Seq(Step)
        /\ sc.teardown \in Seq(Step) /\ sc.method \in Seq(Seq(Step))
    BY <1>1 DEF ScenarioType
  <1>3. DownStep \in Step
    BY ScenarioAssumption DEF DownStep, Step
  <1>4. TeardownSteps \in Seq(Step)
    BY <1>2, <1>3 DEF TeardownSteps
  <1>5. pc = "method" => sc.method[phase] \in Seq(Step)
    BY <1>2, ElementOfSeq
  <1>6. Steps \in Seq(Step)
    BY <1>2, <1>4, <1>5 DEF Steps
  <1>7. Len(Steps) \in Nat
    BY <1>6, LenProperties
  <1>8. HasStep => Steps[next] \in Step
    BY <1>6, <1>7, ElementOfSeq DEF HasStep
  <1>9. QED
    BY <1>6, <1>7, <1>8

(* A position in a section is a place.                                     *)
LEMMA HereIsPlace ==
  ASSUME TypeOK, InSection
  PROVE  Here \in Place
  BY DEF TypeOK, InSection, InTimeline, Here, Place, TimelineSections

(* Ending a step keeps the types.                                          *)
LEMMA FinishStepType ==
  ASSUME TypeOK, HasStep,
         NEW st \in Step, NEW v \in Verdicts, NEW timedOut \in BOOLEAN, NEW before,
         NEW found \in Seq(FindingRecord), NEW injected \in Seq(Place),
         FinishStep(st, v, timedOut, before, found, injected),
         UNCHANGED <<sc, opts, phase, ctx>>,
         bg' \in [BgNames -> {"none", "running", "cancelling", "ended", "died"}]
  PROVE  TypeOK'
  <1> DEFINE sr == [at |-> Here, verdict |-> v, timedOut |-> timedOut]
  <1>1. Here \in Place /\ sr \in StepResult
    BY HereIsPlace DEF HasStep, StepResult
  <1>2. /\ Append(res.steps, sr) \in Seq(StepResult)
        /\ res.findings \o found \in Seq(FindingRecord)
        /\ res.injected \o injected \in Seq(Place)
        /\ Append(res.held, Here) \in Seq(Place)
    <2> HIDE DEF sr
    <2> QED BY <1>1, ConcatProperties, AppendProperties DEF TypeOK
  <1>3. res' \in [verdict : ScenarioVerdicts \cup {"none"}, steps : Seq(StepResult),
                  findings : Seq(FindingRecord), injected : Seq(Place), held : Seq(Place)]
    <2>1. PICK h \in Seq(Place) :
            res' = [res EXCEPT !.steps = Append(@, sr), !.findings = @ \o found,
                               !.injected = @ \o injected, !.held = h]
      BY <1>2 DEF FinishStep, TypeOK
    <2> HIDE DEF sr
    <2>2. QED
      BY <2>1, <1>2 DEF TypeOK
  <1>4. pc' \in {pc, "returned"} /\ verdict' \in ScenarioVerdicts \cup {"none"}
    BY DEF FinishStep, TypeOK, AbortVerdict, ScenarioVerdicts
  <1>5. running' = FALSE /\ failures' \in BOOLEAN /\ next' \in Nat \ {0}
    BY DEF FinishStep, TypeOK
  <1>6. QED
    BY <1>3, <1>4, <1>5 DEF TypeOK

(* Whether the section has a current step depends only on the position.    *)
LEMMA SameStep ==
  ASSUME UNCHANGED <<sc, opts, pc, phase, next>>
  PROVE  /\ HasStep' = HasStep /\ InSection' = InSection /\ InTimeline' = InTimeline
         /\ Steps' = Steps /\ Here' = Here
  BY DEF HasStep, InSection, InTimeline, Steps, TeardownSteps, Here

HandleStates == {"none", "running", "cancelling", "ended", "died"}

LEMMA HandlesAfterType ==
  ASSUME TypeOK, NEW st \in Step, NEW out, bg' \in HandlesAfter(st, out)
  PROVE  bg' \in [BgNames -> HandleStates]
  <1>1. bg \in [BgNames -> HandleStates]
    BY DEF TypeOK, HandleStates
  <1>2. /\ [bg EXCEPT ![st.name] = "running"] \in [BgNames -> HandleStates]
        /\ [bg EXCEPT ![st.name] = "none"] \in [BgNames -> HandleStates]
    BY <1>1 DEF HandleStates
  <1>3. bg' \in {bg, [bg EXCEPT ![st.name] = "running"], [bg EXCEPT ![st.name] = "none"]}
    BY DEF HandlesAfter
  <1>4. QED
    BY <1>1, <1>2, <1>3

(* What judge adds to the ledger.                                          *)
LEMMA JudgeType ==
  ASSUME TypeOK, InSection, NEW st \in Step, NEW out \in Outcomes
  PROVE  /\ Judge(st, out).verdict \in Verdicts
         /\ Judge(st, out).found \in Seq(FindingRecord)
  <1>1. [at |-> Here, nowPasses |-> out = "ok", detail |-> out] \in FindingRecord
    BY HereIsPlace DEF FindingRecord
  <1>2. QED
    BY <1>1 DEF Judge, Verdicts

LEMMA TypeStep == TypeOK /\ [Next]_vars => TypeOK'
  <1> SUFFICES ASSUME TypeOK, [Next]_vars PROVE TypeOK'
    OBVIOUS
  <1>1. ASSUME NEW why \in {"whenFalse", "whenError", "unresolved", "dryRun", "badWith"},
               EndEarly(why)
        PROVE  TypeOK'
    <2>1. Steps[next] \in Step
      BY <1>1, StepsAreSteps DEF EndEarly, HasStep
    <2>2. EarlyVerdict(Steps[next], why) \in Verdicts
      BY DEF EarlyVerdict, Verdicts
    <2>3. /\ <<>> \in Seq(FindingRecord) /\ <<>> \in Seq(Place) /\ FALSE \in BOOLEAN
          /\ bg' \in [BgNames -> {"none", "running", "cancelling", "ended", "died"}]
      BY <1>1 DEF EndEarly, TypeOK
    <2>4. QED
      BY <1>1, <2>1, <2>2, <2>3, FinishStepType DEF EndEarly
  <1>2. CASE Dispatch
    <2>1. HasStep /\ UNCHANGED <<sc, opts, pc, phase, next>>
      BY <1>2 DEF Dispatch
    <2>2. HasStep'
      BY <2>1, SameStep
    <2>3. running' \in BOOLEAN /\ (running' => HasStep')
      BY <1>2, <2>2 DEF Dispatch
    <2>4. QED
      BY <1>2, <2>3 DEF Dispatch, TypeOK
  <1>3. CASE StopCancels
    <2>1. bg' \in [BgNames -> {"none", "running", "cancelling", "ended", "died"}]
      BY <1>3 DEF StopCancels, TypeOK
    <2>2. HasStep' = HasStep
      BY <1>3, SameStep DEF StopCancels
    <2>3. QED
      BY <1>3, <2>1, <2>2 DEF StopCancels, TypeOK
  <1>4. ASSUME NEW out \in Outcomes, Return(out) PROVE TypeOK'
    <2>1. HasStep /\ InSection
      BY <1>4 DEF Return, TypeOK, HasStep
    <2> DEFINE st == Steps[next]
               faults == IF Injects(st, out) THEN <<Here>> ELSE <<>>
               events == [i \in 1..Len(faults) |-> FaultInjected(faults[i])]
                   \o [i \in 1..Len(Judge(st, out).found) |-> FindingEvent(Judge(st, out).found[i])]
    <2>2. st \in Step
      BY <2>1, StepsAreSteps
    <2>3. faults \in Seq(Place)
      BY <2>1, HereIsPlace
    <2>4. /\ FinishStep(st, Judge(st, out).verdict, out = "deadline", events,
                        Judge(st, out).found, faults)
          /\ bg' \in HandlesAfter(st, out)
          /\ UNCHANGED <<sc, opts, phase, ctx>>
      BY <1>4 DEF Return
    <2>5. bg' \in [BgNames -> HandleStates]
      <3> HIDE DEF st
      <3> QED BY <2>2, <2>4, HandlesAfterType
    <2>6. (out = "deadline") \in BOOLEAN
      OBVIOUS
    <2> HIDE DEF st, faults, events
    <2>7. QED
      BY <2>1, <2>2, <2>3, <2>4, <2>5, <2>6, JudgeType, FinishStepType DEF HandleStates
  <1>5. CASE Panic
    BY ZenonT(30), <1>5 DEF Panic, TypeOK, ScenarioVerdicts
  <1>6. CASE EnterGate
    BY <1>6 DEF EnterGate, Enter, SectionDone, TypeOK, TimelineSections
  <1>7. CASE EnterPhase
    <2>1. sc.method \in Seq(Seq(Step))
      BY ScenarioAssumption DEF TypeOK, ScenarioType
    <2>2. phase + 1 \in 1..Len(sc.method)
      BY <1>7, <2>1, LenProperties DEF EnterPhase, TypeOK
    <2>3. QED
      BY <1>7, <2>2 DEF EnterPhase, Enter, SectionDone, TypeOK, TimelineSections
  <1>8. CASE EnterRecovery
    BY <1>8 DEF EnterRecovery, Enter, SectionDone, TypeOK, TimelineSections
  <1>9. CASE EnterVerify
    BY <1>9 DEF EnterVerify, Enter, SectionDone, TypeOK, TimelineSections
  <1>10. CASE EndTimeline
    BY <1>10 DEF EndTimeline, SectionDone, TypeOK, ScenarioVerdicts
  <1>11. CASE CheckDeadline
    BY <1>11 DEF CheckDeadline, TypeOK, ScenarioVerdicts, HasStep, InSection, InTimeline,
       TimelineSections
  <1>12. ASSUME NEW n \in BgNames, CancelBackground(n) PROVE TypeOK'
    BY <1>12, SameStep DEF CancelBackground, TypeOK
  <1>13. ASSUME NEW n \in BgNames, JoinBackground(n) PROVE TypeOK'
    BY <1>13, SameStep DEF JoinBackground, TypeOK
  <1>14. CASE StartTeardown
    BY <1>14 DEF StartTeardown, Enter, TypeOK, HasStep, InSection, InTimeline, TimelineSections
  <1>15. CASE Finish
    BY <1>15 DEF Finish, TypeOK, HasStep, InSection, InTimeline, TimelineSections, SectionDone
  <1>16. ASSUME NEW how \in {"expired", "canceled"}, EndContext(how) PROVE TypeOK'
    BY <1>16, SameStep DEF EndContext, TypeOK
  <1>17. ASSUME NEW n \in BgNames, NEW how \in {"ended", "died"},
                BackgroundEnds(n, how) \/ BackgroundObeys(n, how)
         PROVE  TypeOK'
    BY SMTT(20), <1>17, SameStep DEF BackgroundEnds, BackgroundObeys, TypeOK
  <1>18. CASE UNCHANGED vars
    BY <1>18, SameStep DEF vars, TypeOK
  <1>19. QED
    BY <1>1, <1>2, <1>3, <1>4, <1>5, <1>6, <1>7, <1>8, <1>9, <1>10, <1>11, <1>12, <1>13,
       <1>14, <1>15, <1>16, <1>17, <1>18 DEF Next, Runner, Environment

(* The types of every variable hold throughout any scenario's run.         *)
THEOREM TypeCorrect == Spec => []TypeOK
  BY TypeInit, TypeStep, PTL DEF Spec

-----------------------------------------------------------------------------
(* One more result adds its place and its failure to what is recorded.     *)
LEMMA AppendResult ==
  ASSUME NEW q \in Seq(StepResult), NEW r \in StepResult, NEW S
  PROVE  /\ PlacesAmong(Append(q, r), S)
             = PlacesAmong(q, S) \cup (IF r.at.section \in S THEN {r.at} ELSE {})
         /\ FailAmong(Append(q, r), S)
             <=> FailAmong(q, S) \/ (r.verdict = "FAIL" /\ r.at.section \in S)
  <1> DEFINE a == Append(q, r)
  <1>1. /\ Len(q) \in Nat /\ DOMAIN q = 1..Len(q) /\ DOMAIN a = 1..(Len(q) + 1)
        /\ \A i \in 1..Len(q) : a[i] = q[i]
        /\ a[Len(q) + 1] = r
    BY AppendProperties, LenProperties
  <1> HIDE DEF a
  <1>2. DOMAIN a = DOMAIN q \cup {Len(q) + 1} /\ Len(q) + 1 \notin DOMAIN q
    BY <1>1
  <1>3. PlacesAmong(a, S) = PlacesAmong(q, S) \cup (IF r.at.section \in S THEN {r.at} ELSE {})
    BY <1>1, <1>2 DEF PlacesAmong
  <1>4. FailAmong(a, S) <=> FailAmong(q, S) \/ (r.verdict = "FAIL" /\ r.at.section \in S)
    BY <1>1, <1>2 DEF FailAmong
  <1>5. QED
    BY <1>3, <1>4 DEF a

(* What FinishStep does to the position, the verdict and the records.      *)
LEMMA FinishStepRecords ==
  ASSUME TypeOK, HasStep,
         NEW st \in Step, NEW v \in Verdicts, NEW timedOut \in BOOLEAN, NEW before,
         NEW found, NEW injected,
         FinishStep(st, v, timedOut, before, found, injected)
  PROVE  /\ \E sr \in StepResult :
               sr.at = Here /\ sr.verdict = v /\ res'.steps = Append(res.steps, sr)
         /\ res'.verdict = res.verdict /\ res'.injected = res.injected \o injected
         /\ next' = next + 1
         /\ pc' = IF v = "FAIL" /\ StopOnFail THEN "returned" ELSE pc
         /\ verdict' = IF v = "FAIL" /\ StopOnFail THEN AbortVerdict ELSE verdict
         /\ failures' <=> (failures \/ (v = "FAIL" /\ pc \in {"verify", "steadyState:recovery"}))
  <1> DEFINE sr == [at |-> Here, verdict |-> v, timedOut |-> timedOut]
  <1>1. sr \in StepResult
    BY HereIsPlace DEF HasStep, StepResult
  <1>2. res'.steps = Append(res.steps, sr) /\ res'.verdict = res.verdict
        /\ res'.injected = res.injected \o injected
    BY DEF FinishStep, TypeOK
  <1>3. QED
    BY <1>1, <1>2 DEF FinishStep

(* A gate that is on record in full and has no failure has passed.         *)
LEMMA GateFromRecords ==
  ASSUME TypeOK,
         PlacesOf("steadyState", 0, sc.steadyState) \subseteq PlacesRecorded(TimelineSections),
         ~FailIn({"setup", "steadyState", "method"})
  PROVE  GatePassed
  <1> SUFFICES ASSUME NEW k \in 1..Len(sc.steadyState)
               PROVE  \E i \in DOMAIN res.steps :
                        /\ res.steps[i].at = [section |-> "steadyState", phase |-> 0, step |-> k]
                        /\ res.steps[i].verdict # "FAIL"
    BY DEF GatePassed
  <1>1. [section |-> "steadyState", phase |-> 0, step |-> k] \in PlacesRecorded(TimelineSections)
    BY DEF PlacesOf
  <1>2. PICK i \in DOMAIN res.steps :
          res.steps[i].at = [section |-> "steadyState", phase |-> 0, step |-> k]
    BY <1>1 DEF PlacesRecorded, PlacesAmong
  <1>3. res.steps[i].at.section = "steadyState"
    BY <1>2
  <1>4. QED
    BY <1>2, <1>3 DEF FailIn, FailAmong

(* Recording another result cannot undo a passed gate.                     *)
LEMMA GateStays ==
  ASSUME TypeOK, NEW sr \in StepResult, res'.steps = Append(res.steps, sr),
         UNCHANGED sc, GatePassed
  PROVE  GatePassed'
  <1>1. res.steps \in Seq(StepResult)
    BY DEF TypeOK
  <1>2. \A i \in DOMAIN res.steps : i \in DOMAIN res'.steps /\ res'.steps[i] = res.steps[i]
    BY <1>1, AppendProperties, LenProperties
  <1>3. QED
    BY <1>2 DEF GatePassed

LEMMA FinishStepInv ==
  ASSUME IInv, TypeOK', HasStep,
         NEW st \in Step, NEW v \in Verdicts, NEW timedOut \in BOOLEAN, NEW before,
         NEW found, NEW injected \in Seq(Place),
         injected # <<>> => pc = "method",
         FinishStep(st, v, timedOut, before, found, injected),
         UNCHANGED <<sc, opts, phase>>
  PROVE  IInv'
  <1> DEFINE Stops == {"setup", "steadyState", "method"}
  <1>0. TypeOK /\ InSection /\ Here.section = pc
        /\ InTimeline = (pc \in TimelineSections) /\ StopOnFail = (pc \in Stops)
    BY DEF IInv, HasStep, Here, InTimeline, StopOnFail
  <1>1. PICK sr \in StepResult :
          sr.at = Here /\ sr.verdict = v /\ res'.steps = Append(res.steps, sr)
    BY <1>0, FinishStepRecords
  <1>2. /\ res'.verdict = res.verdict /\ res'.injected = res.injected \o injected
        /\ next' = next + 1
        /\ pc' = IF v = "FAIL" /\ StopOnFail THEN "returned" ELSE pc
        /\ verdict' = IF v = "FAIL" /\ StopOnFail THEN AbortVerdict ELSE verdict
        /\ failures' <=> (failures \/ (v = "FAIL" /\ pc \in {"verify", "steadyState:recovery"}))
    BY <1>0, FinishStepRecords
  <1>3. ASSUME NEW S
        PROVE  /\ PlacesRecorded(S)' = PlacesRecorded(S) \cup (IF pc \in S THEN {Here} ELSE {})
               /\ FailIn(S)' <=> FailIn(S) \/ (v = "FAIL" /\ pc \in S)
    <2>1. res.steps \in Seq(StepResult)
      BY <1>0 DEF TypeOK
    <2>2. /\ PlacesAmong(res'.steps, S)
               = PlacesAmong(res.steps, S) \cup (IF pc \in S THEN {Here} ELSE {})
          /\ FailAmong(res'.steps, S) <=> FailAmong(res.steps, S) \/ (v = "FAIL" /\ pc \in S)
      BY <1>0, <1>1, <2>1, AppendResult
    <2>3. QED
      BY <2>2 DEF PlacesRecorded, FailIn
  <1>4. Len(Steps) \in Nat /\ next \in Nat \ {0} /\ next <= Len(Steps)
    BY <1>0, StepsAreSteps DEF HasStep, TypeOK
  <1>5. pc' = pc => Steps' = Steps /\ PlacesBehind' = PlacesBehind
    BY DEF Steps, TeardownSteps, PlacesBehind
  <1>6. pc' = pc => PlacesHere' = PlacesHere \cup {Here}
    <2>1. 1..(next' - 1) = 1..(next - 1) \cup {next}
      BY <1>2, <1>4
    <2>2. QED
      BY <2>1 DEF PlacesHere, Here
  <1>7. TimelineProgress'
    <2> SUFFICES ASSUME InTimeline' PROVE TimelineProgress'
      BY DEF TimelineProgress
    <2>1. pc' = pc /\ InTimeline /\ ~(v = "FAIL" /\ StopOnFail) /\ verdict' = verdict
      BY <1>0, <1>2 DEF InTimeline, TimelineSections
    <2>2. /\ PlacesRecorded(TimelineSections) = PlacesBehind \cup PlacesHere
          /\ pc # "method" => phase = 0
          /\ verdict = "none"
          /\ ~FailIn(Stops)
          /\ FailIn(TimelineSections) => failures /\ ~StopOnFail
      BY <2>1 DEF IInv, TimelineProgress
    <2>3. PlacesRecorded(TimelineSections)' = PlacesBehind' \cup PlacesHere'
      BY <2>1, <2>2, <1>0, <1>3, <1>5, <1>6
    <2>4. next' <= Len(Steps)' + 1
      BY <2>1, <1>2, <1>4, <1>5
    <2>5. ~FailIn(Stops)'
      BY <2>1, <2>2, <1>0, <1>3
    <2>6. FailIn(TimelineSections)' => failures' /\ ~StopOnFail'
      <3>1. StopOnFail' = StopOnFail
        BY <2>1 DEF StopOnFail
      <3>2. FailIn(TimelineSections)' => (FailIn(TimelineSections) \/ v = "FAIL")
        BY <1>3
      <3>3. v = "FAIL" => pc \in {"verify", "steadyState:recovery"}
        BY <2>1, <1>0 DEF TimelineSections
      <3>4. QED
        BY <3>1, <3>2, <3>3, <2>1, <2>2, <1>2
    <2>7. QED
      BY <2>1, <2>2, <2>3, <2>4, <2>5, <2>6 DEF TimelineProgress
  <1>8. VerdictEarned'
    <2>1. res'.verdict = "none" /\ pc' # "finished"
      BY <1>0, <1>2 DEF IInv, VerdictEarned, InSection, InTimeline, TimelineSections
    <2>2. verdict' = "PASSED" => ~InTimeline /\ verdict = "PASSED"
      BY <1>0, <1>2 DEF IInv, TimelineProgress, AbortVerdict
    <2>3. TimelinePlaces' = TimelinePlaces
      BY DEF TimelinePlaces
    <2>4. QED
      BY <1>0, <1>3, <2>1, <2>2, <2>3 DEF IInv, VerdictEarned
  <1>9. TeardownProgress'
    <2>1. CASE InTimeline
      BY <2>1, <1>0, <1>2, <1>3 DEF IInv, TeardownProgress, InTimeline, TimelineSections
    <2>2. CASE pc = "teardown"
      <3>1. pc' = pc
        BY <2>2, <1>0, <1>2
      <3>2. PlacesRecorded({"teardown"})' = PlacesHere'
        BY <2>2, <3>1, <1>3, <1>6 DEF IInv, TeardownProgress
      <3>3. next' <= Len(Steps)' + 1 /\ phase' = 0
        BY <2>2, <3>1, <1>2, <1>4, <1>5 DEF IInv, TeardownProgress
      <3>4. ~InTimeline' /\ pc' \notin {"returned", "stopping"}
        BY <2>2, <3>1 DEF InTimeline, TimelineSections
      <3>5. QED
        BY <3>2, <3>3, <3>4 DEF TeardownProgress
    <2>3. QED
      BY <2>1, <2>2, <1>0 DEF InSection
  <1>10. FaultsOnlyWhenHealthy'
    <2> SUFFICES ASSUME res'.injected # <<>> PROVE GatePassed'
      BY DEF FaultsOnlyWhenHealthy
    <2>1. GatePassed
      <3>1. CASE res.injected # <<>>
        BY <3>1 DEF IInv, FaultsOnlyWhenHealthy
      <3>2. CASE res.injected = <<>>
        <4>1. injected # <<>>
          BY <3>2, <1>2, ConcatEmptySeq
        <4>2. pc = "method"
          BY <4>1
        <4>3. PlacesRecorded(TimelineSections) = PlacesBehind \cup PlacesHere /\ ~FailIn(Stops)
          BY <4>2 DEF IInv, TimelineProgress, InTimeline, TimelineSections
        <4>4. PlacesOf("steadyState", 0, sc.steadyState) \subseteq PlacesBehind
          BY <4>2 DEF PlacesBehind
        <4>5. QED
          BY <1>0, <4>3, <4>4, GateFromRecords
      <3>3. QED
        BY <3>1, <3>2
    <2>2. QED
      BY <2>1, <1>0, <1>1, GateStays
  <1>11. StopsAtFirstFailure'
    <2>1. res.steps \in Seq(StepResult)
      BY <1>0 DEF TypeOK
    <2>2. /\ DOMAIN res'.steps = DOMAIN res.steps \cup {Len(res.steps) + 1}
          /\ DOMAIN res.steps = 1..Len(res.steps) /\ Len(res.steps) \in Nat
          /\ \A i \in DOMAIN res.steps : res'.steps[i] = res.steps[i]
          /\ res'.steps[Len(res.steps) + 1] = sr
      BY <1>1, <2>1, AppendProperties, LenProperties
    <2>3. FailIn(Stops) => sr.at.section = "teardown"
      BY <1>0, <1>1 DEF IInv, TimelineProgress, InSection
    <2>4. SUFFICES ASSUME NEW i \in DOMAIN res'.steps, NEW j \in DOMAIN res'.steps, i < j,
                          res'.steps[i].verdict = "FAIL", res'.steps[i].at.section \in Stops
                   PROVE  res'.steps[j].at.section = "teardown"
      BY DEF StopsAtFirstFailure
    <2>5. i \in DOMAIN res.steps
      BY <2>2, <2>4
    <2>6. CASE j \in DOMAIN res.steps
      BY <2>2, <2>4, <2>5, <2>6 DEF IInv, StopsAtFirstFailure
    <2>7. CASE j = Len(res.steps) + 1
      BY <2>2, <2>3, <2>4, <2>5, <2>7 DEF FailIn, FailAmong
    <2>8. QED
      BY <2>2, <2>6, <2>7
  <1>12. TeardownAlwaysRuns'
    BY <1>0, <1>2 DEF TeardownAlwaysRuns, InSection, InTimeline, TimelineSections
  <1>13. QED
    BY <1>7, <1>8, <1>9, <1>10, <1>11, <1>12 DEF IInv

(* What is recorded stays the same while no result is appended.            *)
LEMMA SameRecords ==
  ASSUME res'.steps = res.steps, UNCHANGED sc
  PROVE  /\ \A S : PlacesRecorded(S)' = PlacesRecorded(S) /\ (FailIn(S)' <=> FailIn(S))
         /\ GatePassed' = GatePassed /\ StopsAtFirstFailure' = StopsAtFirstFailure
         /\ TimelinePlaces' = TimelinePlaces
  BY DEF PlacesRecorded, FailIn, GatePassed, StopsAtFirstFailure, TimelinePlaces

(* A step that leaves the position and the result alone keeps IInv.        *)
LEMMA QuietInv ==
  ASSUME IInv, TypeOK', UNCHANGED <<sc, opts, pc, phase, next, failures, verdict, res>>
  PROVE  IInv'
  <1>1. /\ InTimeline' = InTimeline /\ Steps' = Steps /\ StopOnFail' = StopOnFail
        /\ PlacesBehind' = PlacesBehind /\ PlacesHere' = PlacesHere
        /\ TeardownSteps' = TeardownSteps
    BY DEF InTimeline, Steps, TeardownSteps, StopOnFail, PlacesBehind, PlacesHere
  <1>2. /\ TimelineProgress' = TimelineProgress /\ VerdictEarned' = VerdictEarned
        /\ TeardownProgress' = TeardownProgress
    BY <1>1, SameRecords DEF TimelineProgress, VerdictEarned, TeardownProgress
  <1>3. FaultsOnlyWhenHealthy' = FaultsOnlyWhenHealthy /\ TeardownAlwaysRuns' = TeardownAlwaysRuns
    BY <1>1, SameRecords DEF FaultsOnlyWhenHealthy, TeardownAlwaysRuns
  <1>4. QED
    BY <1>2, <1>3, SameRecords DEF IInv

(* Entering a section of the timeline keeps IInv if what is behind the new *)
(* position is what was behind the old one and the section just finished.  *)
LEMMA EnterInv ==
  ASSUME IInv, TypeOK', InTimeline, SectionDone,
         NEW section \in TimelineSections, NEW ph \in Nat, Enter(section, ph),
         section # "method" => ph = 0,
         section \in {"setup", "steadyState", "method"} => StopOnFail,
         PlacesBehind' = PlacesBehind \cup PlacesHere
  PROVE  IInv'
  <1>1. /\ pc' = section /\ phase' = ph /\ next' = 1
        /\ UNCHANGED <<sc, opts, running, failures, verdict, ctx, bg, res>>
    BY DEF Enter
  <1>2. /\ PlacesRecorded(TimelineSections) = PlacesBehind \cup PlacesHere
        /\ verdict = "none"
        /\ ~FailIn({"setup", "steadyState", "method"})
        /\ FailIn(TimelineSections) => failures /\ ~StopOnFail
    BY DEF IInv, TimelineProgress
  <1>3. PlacesHere' = {}
    BY <1>1 DEF PlacesHere
  <1>4. InTimeline' /\ pc' # "teardown" /\ pc' \notin {"returned", "stopping", "finished"}
    BY <1>1 DEF InTimeline, TimelineSections
  <1>5. Len(Steps)' \in Nat
    <2>1. InSection'
      BY <1>4 DEF InSection
    <2>2. (Len(Steps) \in Nat)'
      BY <2>1, StepsAreSteps, PTL
    <2>3. QED
      BY <2>2
  <1>6. next' <= Len(Steps)' + 1
    BY <1>1, <1>5
  <1>7. FailIn(TimelineSections)' => failures' /\ ~StopOnFail'
    BY <1>1, <1>2, SameRecords DEF StopOnFail
  <1>8. TimelineProgress'
    BY <1>1, <1>2, <1>3, <1>6, <1>7, SameRecords DEF TimelineProgress
  <1>9. VerdictEarned'
    BY <1>1, <1>2, <1>4, SameRecords DEF IInv, VerdictEarned, InTimeline, TimelineSections
  <1>10. TeardownProgress'
    BY <1>1, <1>4, SameRecords DEF IInv, TeardownProgress
  <1>11. FaultsOnlyWhenHealthy' /\ StopsAtFirstFailure' /\ TeardownAlwaysRuns'
    BY <1>1, <1>4, SameRecords DEF IInv, FaultsOnlyWhenHealthy, TeardownAlwaysRuns
  <1>12. QED
    BY <1>8, <1>9, <1>10, <1>11 DEF IInv

(* Leaving the timeline for the epilogue with a verdict that is not PASSED *)
(* or has been earned.                                                     *)
LEMMA LeaveInv ==
  ASSUME IInv, TypeOK', InTimeline \/ pc \in {"returned", "stopping"},
         pc' \in {"returned", "stopping"}, UNCHANGED <<sc, opts, phase, next, res>>,
         verdict' = "PASSED" =>
           PlacesRecorded(TimelineSections) = TimelinePlaces /\ ~FailIn(TimelineSections)
  PROVE  IInv'
  <1>1. ~InTimeline' /\ pc' # "teardown" /\ pc' # "finished"
    BY DEF InTimeline, TimelineSections
  <1>2. TimelineProgress'
    BY <1>1 DEF TimelineProgress
  <1>3. pc # "finished"
    BY DEF InTimeline, TimelineSections
  <1>4. VerdictEarned'
    BY <1>1, <1>3, SameRecords DEF IInv, VerdictEarned
  <1>5. TeardownProgress'
    BY <1>1, SameRecords DEF IInv, TeardownProgress
  <1>6. FaultsOnlyWhenHealthy' /\ StopsAtFirstFailure' /\ TeardownAlwaysRuns'
    BY <1>1, SameRecords DEF IInv, FaultsOnlyWhenHealthy, TeardownAlwaysRuns
  <1>7. QED
    BY <1>2, <1>4, <1>5, <1>6 DEF IInv

LEMMA InitInv == Init => IInv
  <1> SUFFICES ASSUME Init PROVE IInv
    OBVIOUS
  <1>1. TypeOK
    BY TypeInit
  <1>2. res.steps = <<>> /\ res.injected = <<>> /\ res.verdict = "none"
    BY DEF Init, EmptyResult
  <1>3. \A S : PlacesRecorded(S) = {} /\ ~FailIn(S)
    BY <1>2 DEF PlacesRecorded, PlacesAmong, FailIn, FailAmong
  <1>4. PlacesBehind = {} /\ PlacesHere = {}
    BY DEF Init, PlacesBehind, PlacesHere
  <1>5. Len(Steps) \in Nat
    BY <1>1, StepsAreSteps DEF Init, InSection, InTimeline, TimelineSections
  <1>6. TimelineProgress
    BY <1>3, <1>4, <1>5 DEF Init, TimelineProgress
  <1>7. VerdictEarned /\ TeardownProgress
    BY <1>2, <1>3 DEF Init, VerdictEarned, TeardownProgress
  <1>8. FaultsOnlyWhenHealthy /\ StopsAtFirstFailure /\ TeardownAlwaysRuns
    BY <1>2 DEF Init, FaultsOnlyWhenHealthy, StopsAtFirstFailure, TeardownAlwaysRuns
  <1>9. QED
    BY <1>1, <1>6, <1>7, <1>8 DEF IInv

LEMMA StepInv == IInv /\ [Next]_vars => IInv'
  <1> SUFFICES ASSUME IInv, [Next]_vars PROVE IInv'
    OBVIOUS
  <1>0. TypeOK /\ TypeOK'
    BY TypeStep DEF IInv
  <1>a. /\ sc.method \in Seq(Seq(Step)) /\ Len(sc.method) \in Nat
        /\ sc.steadyState \in Seq(Step) /\ Len(sc.steadyState) \in Nat
    <2>1. sc \in ScenarioType
      BY <1>0, ScenarioAssumption DEF TypeOK
    <2>2. QED
      BY <2>1, LenProperties DEF ScenarioType
  (* A finished section's steps are exactly those before next.             *)
  <1>b. InTimeline /\ SectionDone => /\ PlacesHere = PlacesOf(pc, phase, Steps)
                                    /\ (pc # "method" => phase = 0)
    <2> SUFFICES ASSUME InTimeline, SectionDone
                 PROVE  PlacesHere = PlacesOf(pc, phase, Steps) /\ (pc # "method" => phase = 0)
      OBVIOUS
    <2>1. Len(Steps) \in Nat /\ next \in Nat
      BY <1>0, StepsAreSteps DEF InSection, TypeOK
    <2>2. next = Len(Steps) + 1 /\ (pc # "method" => phase = 0)
      BY <2>1 DEF IInv, TimelineProgress, SectionDone
    <2>3. QED
      BY <2>1, <2>2 DEF PlacesHere, PlacesOf
  <1>1. ASSUME NEW why \in {"whenFalse", "whenError", "unresolved", "dryRun", "badWith"},
               EndEarly(why)
        PROVE  IInv'
    <2>1. Steps[next] \in Step
      BY <1>0, <1>1, StepsAreSteps DEF EndEarly, HasStep
    <2>2. EarlyVerdict(Steps[next], why) \in Verdicts
      BY DEF EarlyVerdict, Verdicts
    <2>3. <<>> \in Seq(Place) /\ FALSE \in BOOLEAN
      OBVIOUS
    <2>4. QED
      BY <1>0, <1>1, <2>1, <2>2, <2>3, FinishStepInv DEF EndEarly
  <1>2. CASE Dispatch
    BY <1>0, <1>2, QuietInv DEF Dispatch
  <1>3. CASE StopCancels
    BY <1>0, <1>3, QuietInv DEF StopCancels
  <1>4. ASSUME NEW out \in Outcomes, Return(out) PROVE IInv'
    <2>1. HasStep /\ InSection
      BY <1>0, <1>4 DEF Return, TypeOK, HasStep
    <2> DEFINE st == Steps[next]
               faults == IF Injects(st, out) THEN <<Here>> ELSE <<>>
               events == [i \in 1..Len(faults) |-> FaultInjected(faults[i])]
                   \o [i \in 1..Len(Judge(st, out).found) |-> FindingEvent(Judge(st, out).found[i])]
    <2>2. st \in Step
      BY <1>0, <2>1, StepsAreSteps
    <2>3. faults \in Seq(Place) /\ (faults # <<>> => pc = "method")
      BY <1>0, <2>1, HereIsPlace DEF Injects
    <2>4. /\ FinishStep(st, Judge(st, out).verdict, out = "deadline", events,
                        Judge(st, out).found, faults)
          /\ UNCHANGED <<sc, opts, phase>>
      BY <1>4 DEF Return
    <2>5. (out = "deadline") \in BOOLEAN
      OBVIOUS
    <2> HIDE DEF st, faults, events
    <2>6. QED
      BY <1>0, <2>1, <2>2, <2>3, <2>4, <2>5, JudgeType, FinishStepInv
  <1>5. CASE Panic
    <2>1. CASE InTimeline
      BY <1>0, <1>5, <2>1, LeaveInv DEF Panic
    <2>2. CASE ~InTimeline
      <3>1. pc' = "crashed" /\ ~InTimeline' /\ UNCHANGED <<sc, opts, phase, next, verdict, res>>
        BY <1>5, <2>2 DEF Panic, InTimeline, TimelineSections
      <3>2. pc # "finished"
        BY <1>0, <1>5 DEF Panic, TypeOK, HasStep, InSection, InTimeline, TimelineSections
      <3>3. TimelineProgress' /\ VerdictEarned' /\ TeardownProgress'
        BY <3>1, <3>2, SameRecords DEF IInv, TimelineProgress, VerdictEarned, TeardownProgress
      <3>4. FaultsOnlyWhenHealthy' /\ StopsAtFirstFailure' /\ TeardownAlwaysRuns'
        BY <3>1, SameRecords DEF IInv, FaultsOnlyWhenHealthy, TeardownAlwaysRuns
      <3>5. QED
        BY <1>0, <3>3, <3>4 DEF IInv
    <2>3. QED
      BY <2>1, <2>2
  <1>6. CASE EnterGate
    <2>1. InTimeline /\ SectionDone /\ StopOnFail
      BY <1>6 DEF EnterGate, InTimeline, TimelineSections, StopOnFail
    <2>2. PlacesBehind' = PlacesBehind \cup PlacesHere
      BY <1>6, <1>b, <2>1 DEF EnterGate, Enter, PlacesBehind, Steps
    <2>3. Enter("steadyState", 0) /\ "steadyState" \in TimelineSections /\ 0 \in Nat
      BY <1>6 DEF EnterGate, TimelineSections
    <2>4. QED
      BY <1>0, <2>1, <2>2, <2>3, EnterInv
  <1>7. CASE EnterPhase
    <2>1. InTimeline /\ SectionDone /\ StopOnFail
      BY <1>7 DEF EnterPhase, PastGate, InTimeline, TimelineSections, StopOnFail
    <2>2. phase \in Nat /\ phase + 1 \in Nat
      BY <1>0 DEF TypeOK
    <2>3. PlacesBehind' = PlacesBehind \cup PlacesHere
      <3>0. UNCHANGED sc /\ pc' = "method" /\ phase' = phase + 1
        BY <1>7 DEF EnterPhase, Enter
      <3>1. CASE pc = "method"
        <4>1. 1..phase = 1..(phase - 1) \cup {phase} /\ phase' - 1 = phase
          BY <1>0, <3>0, <3>1 DEF TypeOK
        <4>2. PlacesHere = PlacesOf("method", phase, sc.method[phase])
          BY <1>b, <2>1, <3>1 DEF Steps
        <4>3. QED
          BY <3>0, <3>1, <4>1, <4>2 DEF PlacesBehind
      <3>2. CASE pc = "steadyState"
        BY <1>b, <2>1, <3>0, <3>2 DEF PlacesBehind, Steps
      <3>3. CASE pc = "setup" /\ sc.steadyState = <<>>
        <4>1. PlacesOf("steadyState", 0, sc.steadyState) = {}
          BY <3>3 DEF PlacesOf
        <4>2. QED
          BY <1>b, <2>1, <3>0, <3>3, <4>1 DEF PlacesBehind, Steps
      <3>4. QED
        BY <1>7, <3>1, <3>2, <3>3 DEF EnterPhase, PastGate
    <2>4. Enter("method", phase + 1) /\ "method" \in TimelineSections
      BY <1>7 DEF EnterPhase, TimelineSections
    <2>5. QED
      BY <1>0, <2>1, <2>2, <2>3, <2>4, EnterInv
  <1>c. PastGate /\ SectionDone /\ phase = Len(sc.method) =>
          PlacesBehind \cup PlacesHere
            = PlacesOf("setup", 0, sc.setup)
              \cup PlacesOf("steadyState", 0, sc.steadyState)
              \cup (UNION {PlacesOf("method", p, sc.method[p]) : p \in 1..Len(sc.method)})
    <2> SUFFICES ASSUME PastGate, SectionDone, phase = Len(sc.method)
                 PROVE  PlacesBehind \cup PlacesHere
                          = PlacesOf("setup", 0, sc.setup)
                            \cup PlacesOf("steadyState", 0, sc.steadyState)
                            \cup (UNION {PlacesOf("method", p, sc.method[p]) : p \in 1..Len(sc.method)})
      OBVIOUS
    <2>1. InTimeline
      BY DEF PastGate, InTimeline, TimelineSections
    <2>2. CASE pc = "method"
      <3>1. 1..phase = 1..(phase - 1) \cup {phase}
        BY SMTT(20), <1>0, <2>2 DEF TypeOK
      <3>2. PlacesHere = PlacesOf("method", phase, sc.method[phase])
        BY <1>b, <2>1, <2>2 DEF Steps
      <3>3. QED
        BY <2>2, <3>1, <3>2 DEF PlacesBehind
    <2>3. CASE pc = "steadyState"
      <3>1. 1..Len(sc.method) = {}
        BY <1>b, <2>1, <2>3
      <3>2. QED
        BY <1>b, <2>1, <2>3, <3>1 DEF PlacesBehind, Steps
    <2>4. CASE pc = "setup" /\ sc.steadyState = <<>>
      <3>1. 1..Len(sc.method) = {} /\ PlacesOf("steadyState", 0, sc.steadyState) = {}
        BY <1>b, <2>1, <2>4 DEF PlacesOf
      <3>2. QED
        BY <1>b, <2>1, <2>4, <3>1 DEF PlacesBehind, Steps
    <2>5. QED
      BY <2>2, <2>3, <2>4 DEF PastGate
  <1>8. CASE EnterRecovery
    <2>1. InTimeline /\ SectionDone
      BY <1>8 DEF EnterRecovery, PastGate, InTimeline, TimelineSections
    <2>2. PlacesBehind' = PlacesBehind \cup PlacesHere
      <3>1. UNCHANGED sc /\ pc' = "steadyState:recovery"
        BY <1>8 DEF EnterRecovery, Enter
      <3>2. QED
        BY <1>8, <1>c, <3>1 DEF EnterRecovery, PlacesBehind
    <2>3. Enter("steadyState:recovery", 0) /\ "steadyState:recovery" \in TimelineSections /\ 0 \in Nat
      BY <1>8 DEF EnterRecovery, TimelineSections
    <2>4. QED
      BY <1>0, <2>1, <2>2, <2>3, EnterInv
  <1>9. CASE EnterVerify
    <2>1. InTimeline /\ SectionDone
      BY <1>9 DEF EnterVerify, PastGate, InTimeline, TimelineSections
    <2>2. PlacesBehind' = PlacesBehind \cup PlacesHere
      <3>1. UNCHANGED sc /\ pc' = "verify"
        BY <1>9 DEF EnterVerify, Enter
      <3>2. CASE pc = "steadyState:recovery"
        BY <1>b, <2>1, <3>1, <3>2 DEF PlacesBehind, Steps
      <3>3. CASE PastGate /\ phase = Len(sc.method) /\ sc.steadyState = <<>>
        <4>1. PlacesOf("steadyState:recovery", 0, sc.steadyState) = {}
          BY <3>3 DEF PlacesOf
        <4>2. QED
          BY ZenonT(30), <1>c, <2>1, <3>1, <3>3, <4>1 DEF PlacesBehind
      <3>4. QED
        BY <1>9, <3>2, <3>3 DEF EnterVerify
    <2>3. Enter("verify", 0) /\ "verify" \in TimelineSections /\ 0 \in Nat
      BY <1>9 DEF EnterVerify, TimelineSections
    <2>4. QED
      BY <1>0, <2>1, <2>2, <2>3, EnterInv
  <1>10. CASE EndTimeline
    <2>1. InTimeline /\ SectionDone /\ pc = "verify"
      BY <1>10 DEF EndTimeline, InTimeline, TimelineSections
    <2>2. PlacesBehind \cup PlacesHere = TimelinePlaces
      <3>1. PlacesHere = PlacesOf("verify", 0, sc.verify)
        BY <1>b, <2>1 DEF Steps
      <3>2. PlacesBehind = PlacesOf("setup", 0, sc.setup)
                           \cup PlacesOf("steadyState", 0, sc.steadyState)
                           \cup (UNION {PlacesOf("method", p, sc.method[p]) : p \in 1..Len(sc.method)})
                           \cup PlacesOf("steadyState:recovery", 0, sc.steadyState)
        BY <2>1 DEF PlacesBehind
      <3>3. QED
        BY <3>1, <3>2, Zenon DEF TimelinePlaces
    <2>3. PlacesRecorded(TimelineSections) = TimelinePlaces
          /\ (FailIn(TimelineSections) => failures)
      BY <2>1, <2>2 DEF IInv, TimelineProgress
    <2>4. pc' = "returned" /\ (verdict' = "PASSED" => ~failures)
          /\ UNCHANGED <<sc, opts, phase, next, res>>
      BY <1>10 DEF EndTimeline
    <2>5. QED
      BY <1>0, <2>1, <2>3, <2>4, LeaveInv
  <1>11. CASE CheckDeadline
    BY <1>0, <1>11, LeaveInv DEF CheckDeadline, IInv, VerdictEarned
  <1>12. ASSUME NEW n \in BgNames, CancelBackground(n) PROVE IInv'
    BY <1>0, <1>12, QuietInv DEF CancelBackground
  <1>13. ASSUME NEW n \in BgNames, JoinBackground(n) PROVE IInv'
    BY <1>0, <1>13, QuietInv DEF JoinBackground
  <1>14. CASE StartTeardown
    <2>1. /\ pc = "stopping" /\ pc' = "teardown" /\ phase' = 0 /\ next' = 1
          /\ UNCHANGED <<sc, opts, failures, verdict, res>>
      BY <1>14 DEF StartTeardown, Enter
    <2>2. ~InTimeline' /\ PlacesHere' = {} /\ InSection'
      BY <2>1 DEF InTimeline, TimelineSections, PlacesHere, InSection
    <2>3. (Len(Steps) \in Nat)'
      BY <1>0, <2>2, StepsAreSteps, PTL
    <2>4. TimelineProgress' /\ VerdictEarned'
      BY <2>1, <2>2, SameRecords DEF IInv, TimelineProgress, VerdictEarned
    <2>5. TeardownProgress'
      BY <2>1, <2>2, <2>3, SameRecords DEF IInv, TeardownProgress
    <2>6. FaultsOnlyWhenHealthy' /\ StopsAtFirstFailure' /\ TeardownAlwaysRuns'
      BY <2>1, SameRecords DEF IInv, FaultsOnlyWhenHealthy, TeardownAlwaysRuns
    <2>7. QED
      BY <1>0, <2>4, <2>5, <2>6 DEF IInv
  <1>15. CASE Finish
    <2>1. /\ pc' = "finished" /\ UNCHANGED <<sc, opts, verdict>> /\ res'.verdict = verdict
          /\ res'.steps = res.steps /\ res'.injected = res.injected
      BY <1>0, <1>15 DEF Finish, TypeOK
    <2>2. ~InTimeline'
      BY <2>1 DEF InTimeline, TimelineSections
    <2>3. TimelineProgress' /\ VerdictEarned' /\ TeardownProgress'
      BY <2>1, <2>2, SameRecords DEF IInv, TimelineProgress, VerdictEarned, TeardownProgress
    <2>4. FaultsOnlyWhenHealthy' /\ StopsAtFirstFailure'
      BY <2>1, SameRecords DEF IInv, FaultsOnlyWhenHealthy
    <2>5. TeardownAlwaysRuns'
      <3>1. CASE pc = "teardown" /\ SectionDone
        <4>1. Len(Steps) \in Nat /\ next \in Nat /\ Steps = TeardownSteps
          BY <1>0, <3>1, StepsAreSteps DEF InSection, TypeOK, Steps
        <4>2. next = Len(Steps) + 1 /\ phase = 0 /\ PlacesRecorded({"teardown"}) = PlacesHere
          BY <3>1, <4>1 DEF IInv, TeardownProgress, SectionDone
        <4>3. PlacesHere = PlacesOf("teardown", 0, TeardownSteps)
          BY <3>1, <4>1, <4>2 DEF PlacesHere, PlacesOf
        <4>4. TeardownSteps' = TeardownSteps
          BY <2>1 DEF TeardownSteps
        <4>5. PlacesOf("teardown", 0, TeardownSteps)' = PlacesOf("teardown", 0, TeardownSteps)
          BY <4>4
        <4>6. QED
          BY <2>1, <4>2, <4>3, <4>5, SameRecords DEF TeardownAlwaysRuns
      <3>2. CASE opts.keepUp
        BY <2>1, <3>2 DEF TeardownAlwaysRuns
      <3>3. QED
        BY <1>15, <3>1, <3>2 DEF Finish
    <2>6. QED
      BY <1>0, <2>3, <2>4, <2>5 DEF IInv
  <1>16. ASSUME NEW how \in {"expired", "canceled"}, EndContext(how) PROVE IInv'
    BY <1>0, <1>16, QuietInv DEF EndContext
  <1>17. ASSUME NEW n \in BgNames, NEW how \in {"ended", "died"},
                BackgroundEnds(n, how) \/ BackgroundObeys(n, how)
         PROVE  IInv'
    BY <1>0, <1>17, QuietInv DEF BackgroundEnds, BackgroundObeys
  <1>18. CASE UNCHANGED vars
    BY <1>0, <1>18, QuietInv DEF vars
  <1>19. QED
    BY <1>1, <1>2, <1>3, <1>4, <1>5, <1>6, <1>7, <1>8, <1>9, <1>10, <1>11, <1>12, <1>13,
       <1>14, <1>15, <1>16, <1>17, <1>18 DEF Next, Runner, Environment

LEMMA InvHolds == Spec => []IInv
  BY InitInv, StepInv, PTL DEF Spec

(* A scenario reported PASSED has a result for every declared step, the    *)
(* steadyState checks twice, and none of them failed.                      *)
THEOREM PassedIsComplete == Spec => []PassedRanEverything
  <1>1. IInv => PassedRanEverything
    BY DEF IInv, VerdictEarned, PassedRanEverything
  <1>2. QED
    BY <1>1, InvHolds, PTL

(* No fault is on record as injected before the whole gate has passed.     *)
THEOREM FaultsFollowGate == Spec => []FaultsOnlyWhenHealthy
  BY InvHolds, PTL DEF IInv

(* A failure in setup, gate or method leads straight to teardown.          *)
THEOREM FailureStopsTimeline == Spec => []StopsAtFirstFailure
  BY InvHolds, PTL DEF IInv

(* A finished scenario whose stack is not kept up has run its teardown.    *)
THEOREM TeardownGuaranteed == Spec => []TeardownAlwaysRuns
  BY InvHolds, PTL DEF IInv

-----------------------------------------------------------------------------
(***************************************************************************)
(* What a scenario leaves on record: its verdict is the documented one,    *)
(* its result the reduction of its events, and no background of its        *)
(* timeline outlives it.                                                   *)
(***************************************************************************)
(* A handle that a step starts is started by a background step.            *)
LEMMA HandleOrigin ==
  ASSUME TypeOK, NEW st \in Step, NEW out, bg' \in HandlesAfter(st, out),
         NEW n \in BgNames, bg'[n] # "none"
  PROVE  bg[n] # "none" \/ (st.op = "background" /\ st.name = n)
  <1>1. bg \in [BgNames -> HandleStates]
    BY DEF TypeOK, HandleStates
  <1>2. \/ bg' = bg
        \/ bg' = [bg EXCEPT ![st.name] = "none"]
        \/ bg' = [bg EXCEPT ![st.name] = "running"] /\ st.op = "background"
    BY DEF HandlesAfter
  <1>3. QED
    BY <1>1, <1>2

LEMMA BackgroundsInit == Init => TimelineBackgroundsStopped
  BY DEF Init, TimelineBackgroundsStopped

LEMMA BackgroundsStep ==
  TypeOK /\ TimelineBackgroundsStopped /\ [Next]_vars => TimelineBackgroundsStopped'
  <1> SUFFICES ASSUME TypeOK, TimelineBackgroundsStopped, [Next]_vars
               PROVE  TimelineBackgroundsStopped'
    OBVIOUS
  <1> DEFINE Late == {"teardown", "finished", "crashed"}
  (* A step that leaves this invariant's variables alone, or whose handles *)
  (* were there before.                                                    *)
  <1>a. ASSUME UNCHANGED <<sc, opts>>, pc' \in Late => pc \in Late,
               \A n \in BgNames : bg'[n] # "none" => bg[n] # "none"
        PROVE  TimelineBackgroundsStopped'
    BY <1>a DEF TimelineBackgroundsStopped, TeardownSteps
  <1>b. pc' \notin Late => TimelineBackgroundsStopped'
    BY DEF TimelineBackgroundsStopped
  <1>c. ASSUME Drained, UNCHANGED bg PROVE TimelineBackgroundsStopped'
    BY <1>c DEF TimelineBackgroundsStopped, Drained
  <1>1. ASSUME NEW why \in {"whenFalse", "whenError", "unresolved", "dryRun", "badWith"},
               EndEarly(why)
        PROVE  TimelineBackgroundsStopped'
    <2>1. UNCHANGED <<sc, opts, bg>> /\ pc' \in {pc, "returned"}
      BY <1>1 DEF EndEarly, FinishStep
    <2>2. QED
      BY <2>1, <1>a
  <1>2. CASE Dispatch
    BY <1>2, <1>a DEF Dispatch
  <1>3. CASE StopCancels
    <2>1. UNCHANGED <<sc, opts, pc>> /\ bg[Steps[next].name] # "none"
          /\ bg' = [bg EXCEPT ![Steps[next].name] = "cancelling"]
      BY <1>3 DEF StopCancels
    <2>2. QED
      BY <2>1, <1>a DEF TypeOK
  <1>4. ASSUME NEW out \in Outcomes, Return(out) PROVE TimelineBackgroundsStopped'
    <2>1. HasStep /\ InSection
      BY <1>4 DEF Return, TypeOK, HasStep
    <2>2. Steps[next] \in Step /\ Len(Steps) \in Nat /\ Steps \in Seq(Step)
      BY <2>1, StepsAreSteps
    <2>3. UNCHANGED <<sc, opts>> /\ pc' \in {pc, "returned"} /\ bg' \in HandlesAfter(Steps[next], out)
      BY <1>4 DEF Return, FinishStep
    <2>4. CASE pc = "teardown"
      <3>1. Steps = TeardownSteps /\ TeardownSteps' = TeardownSteps
        BY <2>3, <2>4 DEF Steps, TeardownSteps
      <3>2. next \in DOMAIN TeardownSteps
        BY <2>1, <2>2, <3>1 DEF HasStep, TypeOK
      <3>3. ASSUME NEW n \in BgNames, bg'[n] # "none"
            PROVE  \E i \in DOMAIN TeardownSteps :
                     TeardownSteps[i].op = "background" /\ TeardownSteps[i].name = n
        <4>1. bg[n] # "none" \/ (Steps[next].op = "background" /\ Steps[next].name = n)
          BY <2>2, <2>3, <3>3, HandleOrigin
        <4>2. QED
          BY <2>4, <3>1, <3>2, <4>1 DEF TimelineBackgroundsStopped
      <3>4. QED
        BY <3>1, <3>3 DEF TimelineBackgroundsStopped
    <2>5. CASE pc # "teardown"
      BY <2>1, <2>3, <2>5, <1>b DEF InSection, InTimeline, TimelineSections
    <2>6. QED
      BY <2>4, <2>5
  <1>5. CASE Panic
    <2>1. pc \in Late \/ InTimeline
      BY <1>5 DEF Panic, TypeOK, HasStep, InSection
    <2>2. UNCHANGED <<sc, opts, bg>> /\ (InTimeline => pc' = "returned")
      BY <1>5 DEF Panic
    <2>3. QED
      BY <2>1, <2>2, <1>a, <1>b
  <1>6. CASE EnterGate
    BY <1>6, <1>b DEF EnterGate, Enter
  <1>7. CASE EnterPhase
    BY <1>7, <1>b DEF EnterPhase, Enter
  <1>8. CASE EnterRecovery
    BY <1>8, <1>b DEF EnterRecovery, Enter
  <1>9. CASE EnterVerify
    BY <1>9, <1>b DEF EnterVerify, Enter
  <1>10. CASE EndTimeline
    BY <1>10, <1>b DEF EndTimeline
  <1>11. CASE CheckDeadline
    BY <1>11, <1>b DEF CheckDeadline
  <1>12. ASSUME NEW n \in BgNames, CancelBackground(n) PROVE TimelineBackgroundsStopped'
    BY <1>12, <1>b DEF CancelBackground
  <1>13. ASSUME NEW n \in BgNames, JoinBackground(n) PROVE TimelineBackgroundsStopped'
    BY <1>13, <1>b DEF JoinBackground
  <1>14. CASE StartTeardown
    BY <1>14, <1>c DEF StartTeardown, Enter
  <1>15. CASE Finish
    BY <1>15, <1>a, <1>c DEF Finish
  <1>16. ASSUME NEW how \in {"expired", "canceled"}, EndContext(how)
         PROVE  TimelineBackgroundsStopped'
    BY <1>16, <1>a DEF EndContext
  <1>17. ASSUME NEW n \in BgNames, NEW how \in {"ended", "died"},
                BackgroundEnds(n, how) \/ BackgroundObeys(n, how)
         PROVE  TimelineBackgroundsStopped'
    <2>1. UNCHANGED <<sc, opts, pc>> /\ bg[n] # "none" /\ bg' = [bg EXCEPT ![n] = how]
      BY <1>17 DEF BackgroundEnds, BackgroundObeys
    <2>2. QED
      BY <2>1, <1>a DEF TypeOK
  <1>18. CASE UNCHANGED vars
    BY <1>18, <1>a DEF vars
  <1>19. QED
    BY <1>1, <1>2, <1>3, <1>4, <1>5, <1>6, <1>7, <1>8, <1>9, <1>10, <1>11, <1>12, <1>13,
       <1>14, <1>15, <1>16, <1>17, <1>18 DEF Next, Runner, Environment

(* From teardown on the only backgrounds left are teardown's own.          *)
THEOREM BackgroundsStopped == Spec => []TimelineBackgroundsStopped
  BY BackgroundsInit, BackgroundsStep, TypeCorrect, PTL DEF Spec

-----------------------------------------------------------------------------
LEMMA EventTypes ==
  /\ \A at \in Place : StepStarted(at) \in Event /\ FaultInjected(at) \in Event
  /\ \A sr \in StepResult : StepEnded(sr) \in Event
  /\ \A p \in Nat : PhaseStarted(p) \in Event
  /\ \A f \in FindingRecord : FindingEvent(f) \in Event
  /\ \A v \in ScenarioVerdicts \cup {"none"}, h \in Seq(Place) : Finished(v, h) \in Event
  /\ Started \in Event
  <1>1. \A at \in Place : StepStarted(at) \in Event /\ FaultInjected(at) \in Event
    BY DEF StepStarted, FaultInjected, Event
  <1>2. \A sr \in StepResult : stepEventType[sr.verdict] \in StepEndTypes
    BY DEF StepResult, Verdicts, stepEventType, StepEndTypes
  <1>3. \A sr \in StepResult : StepEnded(sr) \in Event
    BY <1>2 DEF StepEnded, Event
  <1>4. \A p \in Nat : PhaseStarted(p) \in Event
    BY DEF PhaseStarted, Event
  <1>5. \A f \in FindingRecord : FindingEvent(f) \in Event
    BY DEF FindingEvent, Event
  <1>6. \A v \in ScenarioVerdicts \cup {"none"}, h \in Seq(Place) : Finished(v, h) \in Event
    BY DEF Finished, Event
  <1>7. Started \in Event
    BY DEF Started, Event
  <1>8. QED
    BY <1>1, <1>3, <1>4, <1>5, <1>6, <1>7

(* What is known of a stream k that extends j by events of a step, which   *)
(* open the places S and add these steps, findings and faults.             *)
Extends(k, j, S, steps, findings, injected) ==
  /\ k \in Seq(Event)
  /\ StartsAmong(k) = StartsAmong(j) \cup S
  /\ Reduce(k).steps = Reduce(j).steps \o steps
  /\ Reduce(k).findings = Reduce(j).findings \o findings
  /\ Reduce(k).injected = Reduce(j).injected \o injected
  /\ Reduce(k).verdict = Reduce(j).verdict /\ Reduce(k).held = Reduce(j).held

LEMMA StartsAppend ==
  ASSUME NEW j \in Seq(Event), NEW e \in Event
  PROVE  StartsAmong(Append(j, e))
           = StartsAmong(j) \cup (IF e.type = "step.started" THEN {e.at} ELSE {})
  <1> DEFINE a == Append(j, e)
  <1>1. /\ Len(j) \in Nat /\ DOMAIN j = 1..Len(j) /\ DOMAIN a = 1..(Len(j) + 1)
        /\ \A i \in 1..Len(j) : a[i] = j[i]
        /\ a[Len(j) + 1] = e
    BY AppendProperties, LenProperties
  <1> HIDE DEF a
  <1>2. DOMAIN a = DOMAIN j \cup {Len(j) + 1} /\ Len(j) + 1 \notin DOMAIN j
    BY <1>1
  <1>3. StartsAmong(a) = StartsAmong(j) \cup (IF e.type = "step.started" THEN {e.at} ELSE {})
    BY <1>1, <1>2 DEF StartsAmong
  <1>4. QED
    BY <1>3 DEF a

(* Each kind of event a step emits.                                        *)
LEMMA OneMore ==
  ASSUME NEW j \in Seq(Event)
  PROVE  /\ \A at \in Place :
              /\ Extends(Append(j, StepStarted(at)), j, {at}, <<>>, <<>>, <<>>)
              /\ Extends(Append(j, FaultInjected(at)), j, {}, <<>>, <<>>, <<at>>)
         /\ \A f \in FindingRecord :
              Extends(Append(j, FindingEvent(f)), j, {}, <<>>, <<f>>, <<>>)
         /\ \A p \in Nat : Extends(Append(j, PhaseStarted(p)), j, {}, <<>>, <<>>, <<>>)
         /\ \A sr \in StepResult :
              Extends(Append(j, StepEnded(sr)), j, {}, <<sr>>, <<>>, <<>>)
  <1> DEFINE R == Reduce(j)
  <1>1. R \in ResultsOf(Event)
    BY ReduceType
  <1> DEFINE X == {x.result : x \in Event}
             F == {x.record : x \in Event}
             P == {x.at : x \in Event}
  <1>2. R.steps \in Seq(X) /\ R.findings \in Seq(F) /\ R.injected \in Seq(P)
    BY <1>1 DEF ResultsOf
  <1>3. /\ DOMAIN R = {"verdict", "steps", "findings", "injected", "held"}
        /\ R = [f \in DOMAIN R |-> R[f]]
    BY <1>1 DEF ResultsOf
  <1>4. R.steps \o <<>> = R.steps /\ R.findings \o <<>> = R.findings /\ R.injected \o <<>> = R.injected
    <2> HIDE DEF X, F, P
    <2>1. QED
      BY <1>2, ConcatEmptySeq
  <1>5. ASSUME NEW e \in Event
        PROVE  /\ Append(j, e) \in Seq(Event)
               /\ Reduce(Append(j, e)) = Absorb(R, e)
               /\ e.type # "step.started" => StartsAmong(Append(j, e)) = StartsAmong(j) \cup {}
               /\ e.type = "step.started" => StartsAmong(Append(j, e)) = StartsAmong(j) \cup {e.at}
    BY ReduceAppend, StartsAppend, AppendProperties
  <1>6. ASSUME NEW at \in Place
        PROVE  Extends(Append(j, StepStarted(at)), j, {at}, <<>>, <<>>, <<>>)
    <2> DEFINE e == StepStarted(at)
    <2>1. e \in Event /\ e.type = "step.started" /\ e.at = at
      BY EventTypes DEF StepStarted
    <2> HIDE DEF e
    <2>2. Absorb(R, e) = R
      BY <2>1, AbsorbCases DEF StepEndTypes
    <2>3. QED
      BY <1>4, <1>5, <2>1, <2>2 DEF Extends, e
  <1>7. ASSUME NEW at \in Place
        PROVE  Extends(Append(j, FaultInjected(at)), j, {}, <<>>, <<>>, <<at>>)
    <2> DEFINE e == FaultInjected(at)
    <2>1. e \in Event /\ e.type = "fault.injected" /\ e.at = at
      BY EventTypes DEF FaultInjected
    <2>2. at \in P
      BY <2>1
    <2> HIDE DEF e, R, P
    <2>3. Absorb(R, e) = [R EXCEPT !.injected = Append(@, at)]
      BY <2>1, AbsorbCases
    <2>4. R.injected \o <<at>> = Append(R.injected, at)
      BY <1>2, <2>2, AppendIsConcat
    <2>5. /\ Absorb(R, e).steps = R.steps /\ Absorb(R, e).findings = R.findings
          /\ Absorb(R, e).injected = R.injected \o <<at>>
          /\ Absorb(R, e).verdict = R.verdict /\ Absorb(R, e).held = R.held
      BY <1>3, <2>3, <2>4
    <2>6. QED
      BY <1>4, <1>5, <2>1, <2>5 DEF Extends, e, R
  <1>8. ASSUME NEW f \in FindingRecord
        PROVE  Extends(Append(j, FindingEvent(f)), j, {}, <<>>, <<f>>, <<>>)
    <2> DEFINE e == FindingEvent(f)
    <2>1. e \in Event /\ e.type = "finding.recorded" /\ e.record = f
      BY EventTypes DEF FindingEvent
    <2>2. f \in F
      BY <2>1
    <2> HIDE DEF e, R, F
    <2>3. Absorb(R, e) = [R EXCEPT !.findings = Append(@, f)]
      BY <2>1, AbsorbCases
    <2>4. R.findings \o <<f>> = Append(R.findings, f)
      BY <1>2, <2>2, AppendIsConcat
    <2>5. /\ Absorb(R, e).steps = R.steps /\ Absorb(R, e).findings = R.findings \o <<f>>
          /\ Absorb(R, e).injected = R.injected
          /\ Absorb(R, e).verdict = R.verdict /\ Absorb(R, e).held = R.held
      BY <1>3, <2>3, <2>4
    <2>6. QED
      BY <1>4, <1>5, <2>1, <2>5 DEF Extends, e, R
  <1>9. ASSUME NEW p \in Nat
        PROVE  Extends(Append(j, PhaseStarted(p)), j, {}, <<>>, <<>>, <<>>)
    <2> DEFINE e == PhaseStarted(p)
    <2>1. e \in Event /\ e.type = "phase.started"
      BY EventTypes DEF PhaseStarted
    <2> HIDE DEF e
    <2>2. Absorb(R, e) = R
      BY <2>1, AbsorbCases DEF StepEndTypes
    <2>3. QED
      BY <1>4, <1>5, <2>1, <2>2 DEF Extends, e
  <1>10. ASSUME NEW sr \in StepResult
         PROVE  Extends(Append(j, StepEnded(sr)), j, {}, <<sr>>, <<>>, <<>>)
    <2> DEFINE e == StepEnded(sr)
    <2>1. e \in Event /\ e.type \in StepEndTypes /\ e.result = sr
      BY EventTypes DEF StepEnded, StepResult, Verdicts, stepEventType, StepEndTypes
    <2>2. sr \in X
      BY <2>1
    <2> HIDE DEF e, R, X
    <2>3. Absorb(R, e) = [R EXCEPT !.steps = Append(@, sr)]
      BY <2>1, AbsorbCases
    <2>4. R.steps \o <<sr>> = Append(R.steps, sr)
      BY <1>2, <2>2, AppendIsConcat
    <2>5. /\ Absorb(R, e).steps = R.steps \o <<sr>> /\ Absorb(R, e).findings = R.findings
          /\ Absorb(R, e).injected = R.injected
          /\ Absorb(R, e).verdict = R.verdict /\ Absorb(R, e).held = R.held
      BY <1>3, <2>3, <2>4
    <2>6. e.type # "step.started"
      BY <2>1 DEF StepEndTypes
    <2>7. QED
      BY <1>4, <1>5, <2>1, <2>5, <2>6 DEF Extends, e, R
  <1>11. QED
    BY <1>6, <1>7, <1>8, <1>9, <1>10

(* The verdict that the records document depends on these only.            *)
LEMMA SameVerdict ==
  ASSUME res'.steps = res.steps, Unended' = Unended
  PROVE  /\ StepsVerdict' = StepsVerdict
         /\ ctx' = ctx => DocumentedVerdict' = DocumentedVerdict
         /\ \A S : FailIn(S)' <=> FailIn(S)
  <1>1. \A S : FailIn(S)' <=> FailIn(S)
    BY DEF FailIn
  <1>2. Panicked' = Panicked
    BY DEF Panicked
  <1>3. StepsVerdict' = StepsVerdict
    BY <1>1, <1>2 DEF StepsVerdict
  <1>4. QED
    BY <1>1, <1>3 DEF DocumentedVerdict

LEMMA SameUnended ==
  ASSUME res'.steps = res.steps, StartsAmong(journal') = StartsAmong(journal)
  PROVE  Unended' = Unended
  BY DEF Unended, PlacesRecorded

(* The reduction of the journal as far as it is typed.                     *)
LEMMA ReductionTypes ==
  ASSUME RecordInv
  PROVE  /\ Reduce(journal).steps = res.steps /\ res.steps \in Seq(StepResult)
         /\ Reduce(journal).findings = res.findings /\ res.findings \in Seq(FindingRecord)
         /\ Reduce(journal).injected = res.injected /\ res.injected \in Seq(Place)
         /\ journal \in Seq(Event)
  BY DEF RecordInv, ReductionSoFar, ResultIsReduction, IInv, TypeOK

(* A current step of the timeline has no result yet.                       *)
LEMMA HereIsNew ==
  ASSUME IInv, InTimeline, HasStep
  PROVE  Here \notin PlacesRecorded(TimelineSections)
  <1>1. PlacesRecorded(TimelineSections) = PlacesBehind \cup PlacesHere
    BY DEF IInv, TimelineProgress
  <1>2. next \in Nat /\ phase \in Nat
    BY DEF IInv, TypeOK
  <1>3. Here \notin PlacesHere
    <2>1. ASSUME NEW i \in 1..(next - 1) PROVE Here # [section |-> pc, phase |-> phase, step |-> i]
      <3>1. i # next /\ Here.step = next
        BY <1>2 DEF Here
      <3>2. QED
        BY <3>1
    <2>2. QED
      BY <2>1 DEF PlacesHere
  <1>4. ASSUME NEW sec, NEW ph, NEW steps, sec # pc \/ ph # phase
        PROVE  Here \notin PlacesOf(sec, ph, steps)
    <2>1. ASSUME NEW i PROVE Here # [section |-> sec, phase |-> ph, step |-> i]
      BY <1>4 DEF Here
    <2>2. QED
      BY <2>1 DEF PlacesOf
  <1>5. \A p \in 1..(phase - 1) : Here \notin PlacesOf("method", p, sc.method[p])
    BY <1>2, <1>4
  <1>6. pc = "method" \/ \A p : Here \notin PlacesOf("method", p, sc.method[p])
    BY <1>4
  <1>7. Here \notin PlacesBehind
    <2>1. CASE pc = "setup"
      BY <2>1 DEF PlacesBehind
    <2>2. CASE pc = "steadyState"
      BY <2>2, <1>4 DEF PlacesBehind
    <2>3. CASE pc = "method"
      BY <2>3, <1>4, <1>5 DEF PlacesBehind
    <2>4. CASE pc = "steadyState:recovery"
      BY <2>4, <1>4, <1>6 DEF PlacesBehind
    <2>5. CASE pc = "verify"
      BY <2>5, <1>4, <1>6 DEF PlacesBehind
    <2>6. QED
      BY <2>1, <2>2, <2>3, <2>4, <2>5 DEF InTimeline, TimelineSections
  <1>8. QED
    BY <1>1, <1>3, <1>7

(* A step that leaves the runner's position and the records alone.         *)
LEMMA QuietRecords ==
  ASSUME RecordInv, IInv', TimelineBackgroundsStopped',
         UNCHANGED <<sc, pc, phase, next, running, failures, verdict, ctx, res, journal>>
  PROVE  RecordInv'
  <1>1. Unended' = Unended
    BY SameUnended
  <1>2. InTimeline' = InTimeline /\ Here' = Here
    BY DEF InTimeline, Here
  <1>3. OneStepOpen' /\ VerdictSoFar'
    BY <1>1, <1>2, SameVerdict DEF RecordInv, OneStepOpen, VerdictSoFar
  <1>4. ReductionSoFar' /\ journal' \in Seq(Event)
    BY DEF RecordInv, ReductionSoFar, ResultIsReduction
  <1>5. QED
    BY <1>3, <1>4 DEF RecordInv

(* A step of the epilogue, or into it, with nothing new on record.         *)
LEMMA LeaveRecords ==
  ASSUME RecordInv, IInv', TimelineBackgroundsStopped',
         UNCHANGED <<sc, failures, ctx, res, journal>>,
         pc # "finished", pc' \in {"returned", "stopping", "teardown", "crashed"},
         pc' = "returned" => verdict' = StepsVerdict,
         pc' \in {"stopping", "teardown"} => verdict' = DocumentedVerdict
  PROVE  RecordInv'
  <1>1. Unended' = Unended
    BY SameUnended
  <1>2. ~InTimeline'
    BY DEF InTimeline, TimelineSections
  <1>3. OneStepOpen' /\ VerdictSoFar'
    BY <1>1, <1>2, SameVerdict DEF RecordInv, OneStepOpen, VerdictSoFar
  <1>4. ReductionSoFar' /\ journal' \in Seq(Event)
    BY DEF RecordInv, ReductionSoFar, ResultIsReduction
  <1>5. QED
    BY <1>3, <1>4 DEF RecordInv

(* Entering a section of the timeline.                                     *)
LEMMA EnterRecords ==
  ASSUME RecordInv, IInv', TimelineBackgroundsStopped', InTimeline, ~running,
         NEW section \in TimelineSections, NEW ph, Enter(section, ph),
         journal' = journal \/ (\E p \in Nat : journal' = Append(journal, PhaseStarted(p)))
  PROVE  RecordInv'
  <1>1. /\ pc' = section /\ UNCHANGED <<sc, running, failures, verdict, ctx, res>>
        /\ pc # "finished" /\ pc' \notin {"returned", "stopping", "teardown", "finished"}
    BY DEF Enter, InTimeline, TimelineSections
  <1>2. /\ Reduce(journal).steps = res.steps /\ res.steps \in Seq(StepResult)
        /\ Reduce(journal).findings = res.findings /\ res.findings \in Seq(FindingRecord)
        /\ Reduce(journal).injected = res.injected /\ res.injected \in Seq(Place)
        /\ journal \in Seq(Event)
    BY ReductionTypes
  <1>3. /\ journal' \in Seq(Event) /\ StartsAmong(journal') = StartsAmong(journal)
        /\ Reduce(journal').steps = res.steps /\ Reduce(journal').findings = res.findings
        /\ Reduce(journal').injected = res.injected
        /\ Reduce(journal').verdict = Reduce(journal).verdict
        /\ Reduce(journal').held = Reduce(journal).held
    <2>1. CASE journal' = journal
      BY <2>1, <1>2
    <2>2. CASE \E p \in Nat : journal' = Append(journal, PhaseStarted(p))
      <3>1. Extends(journal', journal, {}, <<>>, <<>>, <<>>)
        BY <2>2, <1>2, OneMore
      <3>2. QED
        BY <3>1, <1>2, ConcatEmptySeq DEF Extends
    <2>3. QED
      BY <2>1, <2>2
  <1>4. Unended' = Unended /\ Unended = {}
    BY <1>1, <1>3, SameUnended DEF RecordInv, OneStepOpen
  <1>5. OneStepOpen' /\ VerdictSoFar'
    BY <1>1, <1>4, SameVerdict DEF RecordInv, OneStepOpen, VerdictSoFar
  <1>6. ReductionSoFar'
    BY <1>1, <1>3 DEF RecordInv, ReductionSoFar, ResultIsReduction
  <1>7. QED
    BY <1>3, <1>5, <1>6 DEF RecordInv

(* What a step that ends adds to the records of places and failures.       *)
LEMMA FinishPlaces ==
  ASSUME TypeOK, HasStep,
         NEW st \in Step, NEW v \in Verdicts, NEW timedOut \in BOOLEAN, NEW before,
         NEW found, NEW injected,
         FinishStep(st, v, timedOut, before, found, injected), NEW S
  PROVE  /\ PlacesRecorded(S)' = PlacesRecorded(S) \cup (IF pc \in S THEN {Here} ELSE {})
         /\ FailIn(S)' <=> FailIn(S) \/ (v = "FAIL" /\ pc \in S)
  <1>1. PICK sr \in StepResult :
          sr.at = Here /\ sr.verdict = v /\ res'.steps = Append(res.steps, sr)
    BY FinishStepRecords
  <1>2. res.steps \in Seq(StepResult) /\ Here.section = pc
    BY DEF TypeOK, Here
  <1>3. /\ PlacesAmong(res'.steps, S)
             = PlacesAmong(res.steps, S) \cup (IF pc \in S THEN {Here} ELSE {})
        /\ FailAmong(res'.steps, S) <=> FailAmong(res.steps, S) \/ (v = "FAIL" /\ pc \in S)
    BY <1>1, <1>2, AppendResult
  <1>4. QED
    BY <1>3 DEF PlacesRecorded, FailIn

(* The end of a step: the events ahead of its own end open its place if it *)
(* was not running, and carry what it adds to the result.                  *)
LEMMA FinishRecords ==
  ASSUME RecordInv, IInv', TimelineBackgroundsStopped', HasStep,
         NEW st \in Step, NEW v \in Verdicts, NEW timedOut \in BOOLEAN, NEW before,
         NEW found \in Seq(FindingRecord), NEW injected \in Seq(Place),
         FinishStep(st, v, timedOut, before, found, injected),
         UNCHANGED <<sc, opts, phase, ctx>>,
         Extends(journal \o before, journal, IF running THEN {} ELSE {Here},
                 <<>>, found, injected)
  PROVE  RecordInv'
  <1> DEFINE sr == [at |-> Here, verdict |-> v, timedOut |-> timedOut]
             k == journal \o before
             Stops == {"setup", "steadyState", "method"}
  <1>0. TypeOK /\ IInv /\ InSection /\ Here.section = pc /\ pc # "finished"
    BY DEF RecordInv, IInv, HasStep, Here, InSection, InTimeline, TimelineSections
  <1>1. sr \in StepResult
    BY <1>0, HereIsPlace DEF StepResult
  <1>2. /\ journal' = k \o <<StepEnded(sr)>> /\ running' = FALSE
        /\ res'.steps = Append(res.steps, sr)
        /\ res'.findings = res.findings \o found /\ res'.injected = res.injected \o injected
    BY <1>0 DEF FinishStep, TypeOK
  <1>3. /\ pc' = IF v = "FAIL" /\ pc \in Stops THEN "returned" ELSE pc
        /\ verdict' = IF v = "FAIL" /\ pc \in Stops THEN AbortVerdict ELSE verdict
        /\ failures' <=> (failures \/ (v = "FAIL" /\ pc \in {"verify", "steadyState:recovery"}))
    BY <1>0, FinishStepRecords DEF StopOnFail
  <1>4. \A S : /\ PlacesRecorded(S)' = PlacesRecorded(S) \cup (IF pc \in S THEN {Here} ELSE {})
               /\ FailIn(S)' <=> FailIn(S) \/ (v = "FAIL" /\ pc \in S)
    BY <1>0, FinishPlaces
  <1>5. /\ Reduce(journal).steps = res.steps /\ res.steps \in Seq(StepResult)
        /\ Reduce(journal).findings = res.findings /\ res.findings \in Seq(FindingRecord)
        /\ Reduce(journal).injected = res.injected /\ res.injected \in Seq(Place)
        /\ journal \in Seq(Event)
    BY ReductionTypes
  <1> HIDE DEF sr, k
  <1>6. Extends(k, journal, IF running THEN {} ELSE {Here}, <<>>, found, injected)
    BY DEF k
  <1>7. Extends(journal', k, {}, <<sr>>, <<>>, <<>>)
    <2>1. k \in Seq(Event) /\ StepEnded(sr) \in Event
      BY <1>1, <1>6, EventTypes DEF Extends
    <2>2. journal' = Append(k, StepEnded(sr))
      BY <1>2, <2>1, AppendIsConcat
    <2>3. QED
      BY <1>1, <2>1, <2>2, OneMore
  <1>8. /\ Reduce(journal').steps = res'.steps
        /\ Reduce(journal').findings = res'.findings
        /\ Reduce(journal').injected = res'.injected
        /\ Reduce(journal').verdict = Reduce(journal).verdict
        /\ Reduce(journal').held = Reduce(journal).held
        /\ journal' \in Seq(Event)
    <2>1. /\ Reduce(journal').steps = (res.steps \o <<>>) \o <<sr>>
          /\ Reduce(journal').findings = (res.findings \o found) \o <<>>
          /\ Reduce(journal').injected = (res.injected \o injected) \o <<>>
      BY <1>5, <1>6, <1>7 DEF Extends
    <2>2. /\ (res.steps \o <<>>) \o <<sr>> = Append(res.steps, sr)
          /\ (res.findings \o found) \o <<>> = res.findings \o found
          /\ (res.injected \o injected) \o <<>> = res.injected \o injected
      BY <1>1, <1>5, ConcatEmptySeq, AppendIsConcat, ConcatProperties
    <2>3. QED
      BY <1>2, <1>6, <1>7, <2>1, <2>2 DEF Extends
  <1>9. StartsAmong(journal') = StartsAmong(journal) \cup (IF running THEN {} ELSE {Here})
    BY <1>6, <1>7 DEF Extends
  <1>10. InTimeline => Unended' = {}
    <2> SUFFICES ASSUME InTimeline PROVE Unended' = {}
      OBVIOUS
    <2>1. Unended \subseteq {Here}
      BY DEF RecordInv, OneStepOpen
    <2>2. PlacesRecorded(TimelineSections)' = PlacesRecorded(TimelineSections) \cup {Here}
      BY <1>4 DEF InTimeline
    <2>3. QED
      BY <1>9, <2>1, <2>2 DEF Unended
  <1>11. ~InTimeline => Unended' = Unended
    <2> SUFFICES ASSUME ~InTimeline PROVE Unended' = Unended
      OBVIOUS
    <2>1. Here.section \notin TimelineSections
          /\ PlacesRecorded(TimelineSections)' = PlacesRecorded(TimelineSections)
      BY <1>0, <1>4 DEF InTimeline
    <2>2. QED
      BY <1>9, <2>1 DEF Unended
  <1>12. OneStepOpen'
    BY <1>0, <1>2, <1>3, <1>10 DEF OneStepOpen, InTimeline, InSection, TimelineSections
  <1>13. failures' <=> FailIn({"steadyState:recovery", "verify"})'
    BY <1>3, <1>4 DEF RecordInv, VerdictSoFar
  <1>14. pc' = "returned" => verdict' = StepsVerdict'
    <2> SUFFICES ASSUME pc' = "returned" PROVE verdict' = StepsVerdict'
      OBVIOUS
    <2>1. v = "FAIL" /\ pc \in Stops /\ verdict' = AbortVerdict /\ InTimeline
      BY <1>0, <1>3 DEF InSection, InTimeline, TimelineSections
    <2>2. ~FailIn(TimelineSections)
      BY <1>0, <2>1 DEF IInv, TimelineProgress, StopOnFail
    <2>3. \A S \in SUBSET TimelineSections : FailIn(S)' <=> pc \in S
      <3>1. \A S \in SUBSET TimelineSections : FailIn(S) => FailIn(TimelineSections)
        BY DEF FailIn, FailAmong
      <3>2. QED
        BY <1>4, <2>1, <2>2, <3>1
    <2>4. ~Panicked'
      BY <1>10, <2>1 DEF Panicked
    <2>5. /\ FailIn({"setup"})' <=> pc = "setup"
          /\ FailIn({"steadyState"})' <=> pc = "steadyState"
          /\ FailIn({"method", "steadyState:recovery", "verify"})'
               <=> pc \in {"method", "steadyState:recovery", "verify"}
      BY <2>3 DEF TimelineSections
    <2>6. StepsVerdict' = CASE pc = "setup" -> "ERRORED"
                            [] pc = "steadyState" -> "INCONCLUSIVE"
                            [] OTHER -> "FAILED"
      BY <2>1, <2>4, <2>5 DEF StepsVerdict
    <2>7. QED
      BY <2>1, <2>6 DEF AbortVerdict
  <1>15. pc' \in {"stopping", "teardown", "finished"} => verdict' = DocumentedVerdict'
    <2> SUFFICES ASSUME pc' \in {"stopping", "teardown", "finished"}
                 PROVE  verdict' = DocumentedVerdict'
      OBVIOUS
    <2>1. pc = "teardown" /\ verdict' = verdict /\ ~InTimeline
      BY <1>0, <1>3 DEF InSection, InTimeline, TimelineSections
    <2>2. \A S \in SUBSET TimelineSections : FailIn(S)' <=> FailIn(S)
      BY <1>4, <2>1 DEF TimelineSections
    <2>3. Panicked' = Panicked
      BY <1>11, <2>1 DEF Panicked
    <2>4. StepsVerdict' = StepsVerdict
      BY <2>2, <2>3 DEF StepsVerdict, TimelineSections
    <2>5. QED
      BY <2>1, <2>4 DEF RecordInv, VerdictSoFar, DocumentedVerdict
  <1>16. VerdictSoFar'
    BY <1>13, <1>14, <1>15 DEF RecordInv, VerdictSoFar
  <1>17. pc' # "finished"
    BY <1>0, <1>3
  <1>18. ReductionSoFar'
    BY <1>0, <1>8, <1>17 DEF RecordInv, ReductionSoFar, ResultIsReduction
  <1>19. QED
    BY <1>8, <1>12, <1>16, <1>18 DEF RecordInv

(* The start of a step opens its place.                                    *)
LEMMA DispatchRecords ==
  ASSUME RecordInv, IInv', TimelineBackgroundsStopped', Dispatch
  PROVE  RecordInv'
  <1>1. /\ HasStep /\ ~running /\ running' = TRUE /\ journal' = Append(journal, StepStarted(Here))
        /\ UNCHANGED <<sc, opts, pc, phase, next, failures, verdict, ctx, bg, res>>
    BY DEF Dispatch
  <1>2. IInv /\ TypeOK /\ InSection /\ Here.section = pc /\ pc # "finished"
    BY <1>1 DEF RecordInv, IInv, HasStep, Here, InSection, InTimeline, TimelineSections
  <1>3. /\ Reduce(journal).steps = res.steps /\ res.steps \in Seq(StepResult)
        /\ Reduce(journal).findings = res.findings /\ res.findings \in Seq(FindingRecord)
        /\ Reduce(journal).injected = res.injected /\ res.injected \in Seq(Place)
        /\ journal \in Seq(Event)
    BY ReductionTypes
  <1>4. Extends(journal', journal, {Here}, <<>>, <<>>, <<>>)
    BY <1>1, <1>2, <1>3, HereIsPlace, OneMore
  <1>5. /\ Reduce(journal').steps = res.steps /\ Reduce(journal').findings = res.findings
        /\ Reduce(journal').injected = res.injected
        /\ Reduce(journal').verdict = Reduce(journal).verdict
        /\ Reduce(journal').held = Reduce(journal).held
        /\ journal' \in Seq(Event) /\ StartsAmong(journal') = StartsAmong(journal) \cup {Here}
    BY <1>3, <1>4, ConcatEmptySeq DEF Extends
  <1>6. PlacesRecorded(TimelineSections)' = PlacesRecorded(TimelineSections)
    BY <1>1 DEF PlacesRecorded
  <1>7. InTimeline' = InTimeline /\ Here' = Here
    BY <1>1 DEF InTimeline, Here
  <1>8. CASE InTimeline
    <2>1. Unended = {} /\ Here \notin PlacesRecorded(TimelineSections)
      BY <1>1, <1>2, <1>8, HereIsNew DEF RecordInv, OneStepOpen
    <2>2. Unended' = {Here}
      BY <1>2, <1>5, <1>6, <1>8, <2>1 DEF Unended, InTimeline
    <2>3. OneStepOpen'
      BY <1>1, <1>7, <2>2 DEF OneStepOpen
    <2>4. pc \notin {"returned", "stopping", "teardown", "finished"}
      BY <1>8 DEF InTimeline, TimelineSections
    <2>5. VerdictSoFar'
      BY <1>1, <2>4 DEF RecordInv, VerdictSoFar, FailIn
    <2>6. ReductionSoFar'
      BY <1>1, <1>2, <1>5 DEF RecordInv, ReductionSoFar, ResultIsReduction
    <2>7. QED
      BY <1>5, <2>3, <2>5, <2>6 DEF RecordInv
  <1>9. CASE ~InTimeline
    <2>1. Unended' = Unended
      BY <1>2, <1>5, <1>6, <1>9 DEF Unended, InTimeline
    <2>2. OneStepOpen'
      BY <1>7, <1>9 DEF OneStepOpen
    <2>3. VerdictSoFar'
      BY <1>1, <2>1, SameVerdict DEF RecordInv, VerdictSoFar
    <2>4. ReductionSoFar'
      BY <1>1, <1>2, <1>5 DEF RecordInv, ReductionSoFar, ResultIsReduction
    <2>5. QED
      BY <1>5, <2>2, <2>3, <2>4 DEF RecordInv
  <1>10. QED
    BY <1>8, <1>9

LEMMA OneElement ==
  \A S : <<>> \in Seq(S) /\ (\A e \in S : <<e>> \in Seq(S) /\ <<e>> = Append(<<>>, e))
  OBVIOUS

(* The events that a returned verb adds ahead of the step's own end.       *)
LEMMA ReturnEvents ==
  ASSUME RecordInv, InSection, NEW st \in Step, NEW out \in Outcomes,
         NEW faults, faults = <<>> \/ faults = <<Here>>,
         NEW found, found = Judge(st, out).found
  PROVE  Extends(journal \o ([i \in 1..Len(faults) |-> FaultInjected(faults[i])]
                             \o [i \in 1..Len(found) |-> FindingEvent(found[i])]),
                 journal, {}, <<>>, found, faults)
  <1> DEFINE A == [i \in 1..Len(faults) |-> FaultInjected(faults[i])]
             B == [i \in 1..Len(found) |-> FindingEvent(found[i])]
             f == [at |-> Here, nowPasses |-> out = "ok", detail |-> out]
  <1>0. TypeOK
    BY DEF RecordInv, IInv
  <1>1. Here \in Place /\ f \in FindingRecord
    BY <1>0, HereIsPlace DEF FindingRecord
  <1>2. \/ faults = <<>> /\ A = <<>>
        \/ faults = <<Here>> /\ A = <<FaultInjected(Here)>>
    <2>1. faults = <<>> => A = <<>>
      OBVIOUS
    <2>2. faults = <<Here>> => A = <<FaultInjected(Here)>>
      OBVIOUS
    <2>3. QED
      BY <2>1, <2>2
  <1>3. \/ found = <<>> /\ B = <<>>
        \/ found = <<f>> /\ B = <<FindingEvent(f)>>
    <2>1. found = <<>> \/ found = <<f>>
      BY DEF Judge
    <2>2. found = <<>> => B = <<>>
      OBVIOUS
    <2>3. found = <<f>> => B = <<FindingEvent(f)>>
      OBVIOUS
    <2>4. QED
      BY <2>1, <2>2, <2>3
  <1>4. /\ Reduce(journal).steps = res.steps /\ res.steps \in Seq(StepResult)
        /\ Reduce(journal).findings = res.findings /\ res.findings \in Seq(FindingRecord)
        /\ Reduce(journal).injected = res.injected /\ res.injected \in Seq(Place)
        /\ journal \in Seq(Event)
    BY ReductionTypes
  <1>5. FaultInjected(Here) \in Event /\ FindingEvent(f) \in Event
    BY <1>1, EventTypes
  <1> HIDE DEF A, B, f
  <1> DEFINE k == journal \o A
  <1>6. A \in Seq(Event) /\ B \in Seq(Event)
    BY <1>2, <1>3, <1>5, OneElement
  <1>7. journal \o (A \o B) = k \o B
    <2>1. \A a, b, c \in Seq(Event) : (a \o b) \o c = a \o (b \o c)
      BY ConcatAssociative
    <2>2. QED
      BY <1>4, <1>6, <2>1
  <1>8. /\ k \in Seq(Event) /\ StartsAmong(k) = StartsAmong(journal)
        /\ Reduce(k).steps = res.steps /\ Reduce(k).findings = res.findings
        /\ Reduce(k).injected = res.injected \o faults
        /\ Reduce(k).verdict = Reduce(journal).verdict /\ Reduce(k).held = Reduce(journal).held
    <2>1. CASE faults = <<>> /\ A = <<>>
      BY <1>4, <2>1, ConcatEmptySeq
    <2>2. CASE faults = <<Here>> /\ A = <<FaultInjected(Here)>>
      <3>1. k = Append(journal, FaultInjected(Here))
        BY <1>4, <1>5, <2>2, AppendIsConcat
      <3>2. Extends(k, journal, {}, <<>>, <<>>, <<Here>>)
        BY <1>1, <1>4, <3>1, OneMore
      <3> HIDE DEF k
      <3>3. QED
        BY <1>4, <2>2, <3>2, ConcatEmptySeq DEF Extends
    <2>3. QED
      BY <1>2, <2>1, <2>2
  <1>9. faults \in Seq(Place)
    BY <1>1, <1>2, OneElement
  <1> HIDE DEF k
  <1>10. CASE found = <<>> /\ B = <<>>
    <2>1. k \o B = k /\ res.findings \o found = res.findings /\ res.steps \o <<>> = res.steps
      BY <1>4, <1>8, <1>10, ConcatEmptySeq
    <2>2. Extends(k, journal, {}, <<>>, found, faults)
      BY <1>4, <1>8, <2>1 DEF Extends
    <2>3. QED
      BY <1>7, <2>1, <2>2 DEF A, B
  <1>11. CASE found = <<f>> /\ B = <<FindingEvent(f)>>
    <2>1. k \o B = Append(k, FindingEvent(f))
      BY <1>5, <1>8, <1>11, AppendIsConcat
    <2>2. Extends(k \o B, k, {}, <<>>, <<f>>, <<>>)
      BY <1>1, <1>8, <2>1, OneMore DEF f
    <2>3. /\ res.steps \o <<>> = res.steps
          /\ (res.injected \o faults) \o <<>> = res.injected \o faults
      BY <1>4, <1>9, ConcatEmptySeq, ConcatProperties
    <2>4. Extends(k \o B, journal, {}, <<>>, found, faults)
      BY <1>4, <1>8, <1>11, <2>2, <2>3 DEF Extends
    <2>5. QED
      BY <1>7, <2>4 DEF A, B
  <1>12. QED
    BY <1>3, <1>10, <1>11

(* The end of the scenario: its last event brings the verdict and what was *)
(* held, and the reduction is the result.                                  *)
LEMMA FinishedRecords ==
  ASSUME RecordInv, IInv', TimelineBackgroundsStopped', Finish
  PROVE  RecordInv'
  <1> DEFINE e == Finished(verdict, res.held)
             R == Reduce(journal)
  <1>1. /\ pc \in {"teardown", "stopping"} /\ pc' = "finished"
        /\ res' = [res EXCEPT !.verdict = verdict] /\ journal' = Append(journal, e)
        /\ UNCHANGED <<sc, opts, phase, next, running, failures, verdict, ctx, bg>>
    BY DEF Finish
  <1>2. /\ res \in [verdict : ScenarioVerdicts \cup {"none"}, steps : Seq(StepResult),
                    findings : Seq(FindingRecord), injected : Seq(Place), held : Seq(Place)]
        /\ verdict \in ScenarioVerdicts \cup {"none"}
    BY DEF RecordInv, IInv, TypeOK
  <1>3. /\ R.steps = res.steps /\ R.findings = res.findings /\ R.injected = res.injected
        /\ journal \in Seq(Event)
    BY ReductionTypes
  <1>4. /\ e \in Event /\ e.type = "scenario.finished" /\ e.verdict = verdict
        /\ e.held = res.held
    BY <1>2, EventTypes DEF Finished
  <1> HIDE DEF e
  <1>5. Reduce(journal') = [R EXCEPT !.verdict = verdict, !.held = res.held]
    <2>1. \A j \in Seq(Event), x \in Event : Reduce(Append(j, x)) = Absorb(Reduce(j), x)
      BY ReduceAppend
    <2>2. Reduce(journal') = Absorb(R, e)
      BY <1>1, <1>3, <1>4, <2>1
    <2>3. Absorb(R, e) = [R EXCEPT !.verdict = e.verdict, !.held = e.held]
      BY <1>4, AbsorbCases
    <2> HIDE DEF R
    <2>4. QED
      BY <1>4, <2>2, <2>3
  <1>6. R \in ResultsOf(Event)
    BY <1>3, ReduceType
  <1> HIDE DEF R
  <1>7. Reduce(journal') = res'
    <2>1. res = [verdict |-> res.verdict, steps |-> res.steps, findings |-> res.findings,
                 injected |-> res.injected, held |-> res.held]
      BY <1>2
    <2>2. R = [verdict |-> R.verdict, steps |-> R.steps, findings |-> R.findings,
               injected |-> R.injected, held |-> R.held]
      BY <1>6 DEF ResultsOf
    <2>3. Reduce(journal') = [verdict |-> verdict, steps |-> R.steps, findings |-> R.findings,
                              injected |-> R.injected, held |-> res.held]
      BY <1>5, <2>2
    <2>4. res' = [verdict |-> verdict, steps |-> res.steps, findings |-> res.findings,
                  injected |-> res.injected, held |-> res.held]
      BY <1>1, <2>1
    <2>5. QED
      BY <1>3, <2>3, <2>4
  <1>8. journal' \in Seq(Event) /\ StartsAmong(journal') = StartsAmong(journal)
    BY ZenonT(30), <1>1, <1>3, <1>4, StartsAppend, AppendProperties
  <1>9. res'.steps = res.steps
    BY <1>1, <1>2
  <1>10. Unended' = Unended
    BY <1>8, <1>9, SameUnended
  <1>11. ~InTimeline'
    BY <1>1 DEF InTimeline, TimelineSections
  <1>12. OneStepOpen' /\ VerdictSoFar'
    BY <1>1, <1>9, <1>10, <1>11, SameVerdict DEF RecordInv, OneStepOpen, VerdictSoFar
  <1>13. ReductionSoFar'
    BY <1>1, <1>7 DEF ReductionSoFar, ResultIsReduction
  <1>14. QED
    BY <1>8, <1>12, <1>13 DEF RecordInv

LEMMA RecordInit == Init => RecordInv
  <1> SUFFICES ASSUME Init PROVE RecordInv
    OBVIOUS
  <1>1. journal = <<Started>> /\ res = EmptyResult /\ pc = "setup" /\ ~running /\ ~failures
        /\ ctx = "live"
    BY DEF Init
  <1>2. Started \in Event /\ Started.type = "scenario.started"
    BY EventTypes DEF Started
  <1>3. journal \in Seq(Event) /\ journal = Append(<<>>, Started) /\ <<>> \in Seq(Event)
    BY <1>1, <1>2, OneElement
  <1>4. Reduce(journal) = EmptyResult
    <2>1. \A j \in Seq(Event), x \in Event : Reduce(Append(j, x)) = Absorb(Reduce(j), x)
      BY ReduceAppend
    <2>2. Reduce(journal) = Absorb(Reduce(<<>>), Started)
      BY <1>2, <1>3, <2>1
    <2>3. QED
      BY <1>2, <2>2, AbsorbCases
  <1>5. StartsAmong(journal) = {}
    <2>1. DOMAIN journal = {1} /\ journal[1] = Started
      BY <1>1
    <2>2. QED
      BY <1>2, <2>1 DEF StartsAmong
  <1>6. Unended = {} /\ (\A S : ~FailIn(S))
    BY <1>1, <1>5 DEF Unended, FailIn, FailAmong, EmptyResult
  <1>7. OneStepOpen /\ VerdictSoFar
    BY <1>1, <1>6 DEF OneStepOpen, VerdictSoFar
  <1>8. ReductionSoFar
    BY <1>1, <1>4 DEF ReductionSoFar, ResultIsReduction, EmptyResult
  <1>9. QED
    BY <1>3, <1>7, <1>8, InitInv, BackgroundsInit DEF RecordInv

LEMMA RecordStep == RecordInv /\ [Next]_vars => RecordInv'
  <1> SUFFICES ASSUME RecordInv, [Next]_vars PROVE RecordInv'
    OBVIOUS
  <1>0. IInv /\ IInv' /\ TypeOK /\ TimelineBackgroundsStopped'
    BY StepInv, BackgroundsStep DEF RecordInv, IInv
  <1>a. HasStep => InSection /\ Steps[next] \in Step /\ Here \in Place
    BY <1>0, StepsAreSteps, HereIsPlace DEF HasStep
  <1>1. ASSUME NEW why \in {"whenFalse", "whenError", "unresolved", "dryRun", "badWith"},
               EndEarly(why)
        PROVE  RecordInv'
    <2>1. /\ HasStep /\ ~running
          /\ FinishStep(Steps[next], EarlyVerdict(Steps[next], why), FALSE,
                        <<StepStarted(Here)>>, <<>>, <<>>)
          /\ UNCHANGED <<sc, opts, phase, ctx>>
      BY <1>1 DEF EndEarly
    <2>2. EarlyVerdict(Steps[next], why) \in Verdicts
      BY DEF EarlyVerdict, Verdicts
    <2>3. journal \in Seq(Event) /\ StepStarted(Here) \in Event
      BY <1>a, <2>1, ReductionTypes, EventTypes
    <2>4. journal \o <<StepStarted(Here)>> = Append(journal, StepStarted(Here))
      BY <2>3, AppendIsConcat
    <2>5. Extends(journal \o <<StepStarted(Here)>>, journal, {Here}, <<>>, <<>>, <<>>)
      BY <1>a, <2>1, <2>3, <2>4, OneMore
    <2>6. <<>> \in Seq(FindingRecord) /\ <<>> \in Seq(Place) /\ FALSE \in BOOLEAN
      OBVIOUS
    <2>7. Extends(journal \o <<StepStarted(Here)>>, journal, IF running THEN {} ELSE {Here},
                  <<>>, <<>>, <<>>)
      BY <2>1, <2>5
    <2>8. QED
      BY <1>0, <1>a, <2>1, <2>2, <2>6, <2>7, FinishRecords
  <1>2. CASE Dispatch
    BY <1>0, <1>2, DispatchRecords
  <1>3. CASE StopCancels
    BY <1>0, <1>3, QuietRecords DEF StopCancels
  <1>4. ASSUME NEW out \in Outcomes, Return(out) PROVE RecordInv'
    <2>1. running /\ HasStep
      BY <1>0, <1>4 DEF Return, TypeOK
    <2> DEFINE st == Steps[next]
               faults == IF Injects(st, out) THEN <<Here>> ELSE <<>>
               found == Judge(st, out).found
               events == [i \in 1..Len(faults) |-> FaultInjected(faults[i])]
                   \o [i \in 1..Len(found) |-> FindingEvent(found[i])]
    <2>2. /\ FinishStep(st, Judge(st, out).verdict, out = "deadline", events, found, faults)
          /\ UNCHANGED <<sc, opts, phase, ctx>>
      BY <1>4 DEF Return
    <2>3. st \in Step /\ InSection /\ Here \in Place
      BY <1>a, <2>1
    <2>4. faults = <<>> \/ faults = <<Here>>
      OBVIOUS
    <2>5. faults \in Seq(Place) /\ (out = "deadline") \in BOOLEAN
      BY <2>3, <2>4, OneElement
    <2> HIDE DEF st, faults
    <2>6. Judge(st, out).verdict \in Verdicts /\ found \in Seq(FindingRecord)
      BY <1>0, <2>3, JudgeType
    <2>7. Extends(journal \o events, journal, {}, <<>>, found, faults)
      BY <2>3, <2>4, ReturnEvents
    <2> HIDE DEF found, events
    <2>8. Extends(journal \o events, journal, IF running THEN {} ELSE {Here}, <<>>, found, faults)
      BY <2>1, <2>7
    <2>9. QED
      BY <1>0, <2>1, <2>2, <2>3, <2>5, <2>6, <2>8, FinishRecords
  <1>5. CASE Panic
    <2>1. UNCHANGED <<sc, failures, ctx, res, journal>> /\ running /\ InSection
      BY <1>0, <1>5 DEF Panic, TypeOK, HasStep
    <2>2. pc # "finished"
      BY <2>1 DEF InSection, InTimeline, TimelineSections
    <2>3. CASE InTimeline
      <3>1. Unended = {Here}
        BY <2>1, <2>3 DEF RecordInv, OneStepOpen
      <3>2. StepsVerdict = "ERRORED"
        BY <3>1 DEF StepsVerdict, Panicked
      <3>3. QED
        BY <1>0, <1>5, <2>1, <2>2, <2>3, <3>2, LeaveRecords DEF Panic
    <2>4. CASE ~InTimeline
      BY <1>0, <1>5, <2>1, <2>2, <2>4, LeaveRecords DEF Panic
    <2>5. QED
      BY <2>3, <2>4
  <1>6. CASE EnterGate
    <2>1. InTimeline /\ ~running /\ Enter("steadyState", 0) /\ "steadyState" \in TimelineSections
          /\ journal' = journal
      BY <1>6 DEF EnterGate, SectionDone, InTimeline, TimelineSections
    <2>2. QED
      BY <1>0, <2>1, EnterRecords
  <1>7. CASE EnterPhase
    <2>1. InTimeline /\ ~running /\ Enter("method", phase + 1) /\ "method" \in TimelineSections
          /\ journal' = Append(journal, PhaseStarted(phase + 1))
      BY <1>7 DEF EnterPhase, PastGate, SectionDone, InTimeline, TimelineSections
    <2>2. phase + 1 \in Nat
      BY <1>0 DEF TypeOK
    <2>3. QED
      BY <1>0, <2>1, <2>2, EnterRecords
  <1>8. CASE EnterRecovery
    <2>1. InTimeline /\ ~running /\ Enter("steadyState:recovery", 0) /\ journal' = journal
          /\ "steadyState:recovery" \in TimelineSections
      BY <1>8 DEF EnterRecovery, PastGate, SectionDone, InTimeline, TimelineSections
    <2>2. QED
      BY <1>0, <2>1, EnterRecords
  <1>9. CASE EnterVerify
    <2>1. InTimeline /\ ~running /\ Enter("verify", 0) /\ "verify" \in TimelineSections
          /\ journal' = journal
      BY <1>9 DEF EnterVerify, PastGate, SectionDone, InTimeline, TimelineSections
    <2>2. QED
      BY <1>0, <2>1, EnterRecords
  <1>10. CASE EndTimeline
    <2>1. /\ InTimeline /\ pc = "verify" /\ ~running /\ pc' = "returned"
          /\ verdict' = IF failures THEN "FAILED" ELSE "PASSED"
          /\ UNCHANGED <<sc, failures, ctx, res, journal>>
      BY <1>10 DEF EndTimeline, SectionDone, InTimeline, TimelineSections
    <2>2. ~Panicked
      BY <2>1 DEF RecordInv, OneStepOpen, Panicked
    <2>3. ~FailIn({"setup", "steadyState", "method"})
      BY <1>0, <2>1 DEF IInv, TimelineProgress
    <2>4. /\ ~FailIn({"setup"}) /\ ~FailIn({"steadyState"})
          /\ FailIn({"method", "steadyState:recovery", "verify"})
               <=> FailIn({"steadyState:recovery", "verify"})
      BY <2>3 DEF FailIn, FailAmong
    <2>5. failures <=> FailIn({"steadyState:recovery", "verify"})
      BY DEF RecordInv, VerdictSoFar
    <2>6. verdict' = StepsVerdict
      BY <2>1, <2>2, <2>4, <2>5 DEF StepsVerdict
    <2>7. QED
      BY <1>0, <2>1, <2>6, LeaveRecords
  <1>11. CASE CheckDeadline
    <2>1. /\ pc = "returned" /\ pc' = "stopping"
          /\ verdict' = IF sc.timeout /\ ctx = "expired" THEN "FAILED" ELSE verdict
          /\ UNCHANGED <<sc, failures, ctx, res, journal>>
      BY <1>11 DEF CheckDeadline
    <2>2. verdict' = DocumentedVerdict
      BY <2>1 DEF RecordInv, VerdictSoFar, DocumentedVerdict
    <2>3. QED
      BY <1>0, <2>1, <2>2, LeaveRecords
  <1>12. ASSUME NEW n \in BgNames, CancelBackground(n) PROVE RecordInv'
    BY <1>0, <1>12, QuietRecords DEF CancelBackground
  <1>13. ASSUME NEW n \in BgNames, JoinBackground(n) PROVE RecordInv'
    BY <1>0, <1>13, QuietRecords DEF JoinBackground
  <1>14. CASE StartTeardown
    <2>1. /\ pc = "stopping" /\ pc' = "teardown" /\ verdict' = verdict
          /\ UNCHANGED <<sc, failures, ctx, res, journal>>
      BY <1>14 DEF StartTeardown, Enter
    <2>2. verdict' = DocumentedVerdict
      BY <2>1 DEF RecordInv, VerdictSoFar
    <2>3. QED
      BY <1>0, <2>1, <2>2, LeaveRecords
  <1>15. CASE Finish
    BY <1>0, <1>15, FinishedRecords
  <1>16. ASSUME NEW how \in {"expired", "canceled"}, EndContext(how) PROVE RecordInv'
    <2>1. /\ UNCHANGED <<sc, opts, pc, phase, next, running, failures, verdict, bg, res, journal>>
          /\ pc \notin {"stopping", "teardown", "finished"} /\ ctx' = how
          /\ how = "expired" => sc.timeout
      BY <1>16 DEF EndContext, InTimeline, TimelineSections
    <2>2. Unended' = Unended /\ InTimeline' = InTimeline /\ Here' = Here
      BY <2>1, SameUnended DEF InTimeline, Here
    <2>3. OneStepOpen' /\ VerdictSoFar'
      BY <2>1, <2>2, SameVerdict DEF RecordInv, OneStepOpen, VerdictSoFar
    <2>4. ReductionSoFar' /\ journal' \in Seq(Event)
      BY <2>1 DEF RecordInv, ReductionSoFar, ResultIsReduction
    <2>5. QED
      BY <1>0, <2>3, <2>4 DEF RecordInv
  <1>17. ASSUME NEW n \in BgNames, NEW how \in {"ended", "died"},
                BackgroundEnds(n, how) \/ BackgroundObeys(n, how)
         PROVE  RecordInv'
    BY <1>0, <1>17, QuietRecords DEF BackgroundEnds, BackgroundObeys
  <1>18. CASE UNCHANGED vars
    BY <1>0, <1>18, QuietRecords DEF vars
  <1>19. QED
    BY <1>1, <1>2, <1>3, <1>4, <1>5, <1>6, <1>7, <1>8, <1>9, <1>10, <1>11, <1>12, <1>13,
       <1>14, <1>15, <1>16, <1>17, <1>18 DEF Next, Runner, Environment

LEMMA RecordHolds == Spec => []RecordInv
  BY RecordInit, RecordStep, PTL DEF Spec

(* The verdict a finished scenario reports is the documented function of   *)
(* what happened to its steps: the first section that failed decides, a    *)
(* panic counts as an error, and the scenario's own deadline overrides.    *)
THEOREM VerdictIsDocumented == Spec => []VerdictFollowsTable
  <1>1. RecordInv => VerdictFollowsTable
    BY DEF RecordInv, IInv, VerdictEarned, VerdictSoFar, VerdictFollowsTable
  <1>2. QED
    BY <1>1, RecordHolds, PTL

(* Reducing the events emitted so far gives the result built so far, and   *)
(* once scenario.finished is among them the whole ScenarioResult.          *)
THEOREM ResultReduced == Spec => []ResultIsReduction
  <1>1. RecordInv => ResultIsReduction
    BY DEF RecordInv, ReductionSoFar
  <1>2. QED
    BY <1>1, RecordHolds, PTL
=============================================================================
