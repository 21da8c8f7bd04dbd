------------------------------- MODULE Journal -------------------------------
(***************************************************************************)
(* The append-only event stream of a run (core/engine/events.go) and the   *)
(* fold that rebuilds a scenario's result from it (Reduce in run.go).      *)
(*                                                                         *)
(* A place names a step of the scenario: its section, the method phase (0  *)
(* outside method) and its index there.  It stands for the label (desc or  *)
(* verb) that the code puts in events, in Injected and in Held.  Times,    *)
(* captured values and texts are left out; a finding keeps the kind of its *)
(* detail, because a property distinguishes them.                          *)
(***************************************************************************)
EXTENDS Naturals, Sequences, SequencesExt

Verdicts == {"PASS", "FAIL", "SKIP", "FINDING"}

TimelineSections ==
  {"setup", "steadyState", "method", "steadyState:recovery", "verify"}

Place == [section : TimelineSections \cup {"teardown"}, phase : Nat, step : Nat]

(* How an attempt to run a verb can end, as far as the engine can tell.    *)
(* "unevaluable" is an error of the check itself: arguments that do not    *)
(* bind, an unknown operator, operands of the wrong type, a read: or       *)
(* capture: expression that does not evaluate.                             *)
Outcomes == {"ok", "failed", "unevaluable", "deadline", "canceled"}

StepResult == [at : Place, verdict : Verdicts, timedOut : BOOLEAN]

FindingRecord == [at : Place, nowPasses : BOOLEAN, detail : Outcomes]

ScenarioVerdicts == {"PASSED", "FAILED", "ERRORED", "INCONCLUSIVE"}

(* Mutant of stepEventType: an event type of its own for FINDING, which    *)
(* the reduction does not know.                                            *)
findingEventType ==
  [PASS |-> "step.passed", FAIL |-> "step.failed",
   SKIP |-> "step.skipped", FINDING |-> "step.finding"]

(* A FINDING travels as a failed step; its verdict is in the payload.      *)
stepEventType ==
  [PASS |-> "step.passed", FAIL |-> "step.failed",
   SKIP |-> "step.skipped", FINDING |-> "step.failed"]

StepStarted(at)  == [type |-> "step.started", at |-> at]
StepEnded(sr)    == [type |-> stepEventType[sr.verdict], result |-> sr]
PhaseStarted(p)  == [type |-> "phase.started", phase |-> p]
FaultInjected(at) == [type |-> "fault.injected", at |-> at]
FindingEvent(f)  == [type |-> "finding.recorded", record |-> f]
Started          == [type |-> "scenario.started"]
Finished(v, held) ==
  [type |-> "scenario.finished", verdict |-> v, held |-> held]

StepEndTypes == {"step.passed", "step.failed", "step.skipped"}

EmptyResult ==
  [verdict |-> "none", steps |-> <<>>, findings |-> <<>>,
   injected |-> <<>>, held |-> <<>>]

(* One event's contribution to the result it is reduced into.              *)
Absorb(res, e) ==
  CASE e.type = "scenario.started"  -> EmptyResult
    [] e.type \in StepEndTypes      -> [res EXCEPT !.steps = Append(@, e.result)]
    [] e.type = "fault.injected"    -> [res EXCEPT !.injected = Append(@, e.at)]
    [] e.type = "finding.recorded"  -> [res EXCEPT !.findings = Append(@, e.record)]
    [] e.type = "scenario.finished" -> [res EXCEPT !.verdict = e.verdict, !.held = e.held]
    [] OTHER -> res

(* The events' contributions in the order in which they were emitted.      *)
Reduce(events) ==
  LET upTo[n \in 0..Len(events)] ==
        IF n = 0 THEN EmptyResult ELSE Absorb(upTo[n - 1], events[n])
  IN upTo[Len(events)]
=============================================================================
