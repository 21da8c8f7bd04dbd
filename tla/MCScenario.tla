----------------------------- MODULE MCScenario -----------------------------
(***************************************************************************)
(* Scenarios small enough for TLC: every section occurs empty and          *)
(* non-empty, method has up to two phases, and each of the step shapes     *)
(* that change control flow occurs where it matters.                       *)
(***************************************************************************)
EXTENDS Scenario

Plain ==
  [op |-> "call", kind |-> "action", fault |-> FALSE, finding |-> FALSE,
   when |-> FALSE, onAbsentSkip |-> FALSE, timeout |-> FALSE, name |-> "b1"]
Fault   == [Plain EXCEPT !.fault = TRUE]
Check  == [Plain EXCEPT !.kind = "assertion"]
Finding == [Check EXCEPT !.finding = TRUE]
Optional == [Check EXCEPT !.onAbsentSkip = TRUE]
Guarded == [Plain EXCEPT !.when = TRUE]
Bounded == [Check EXCEPT !.timeout = TRUE]
Load(n) == [Plain EXCEPT !.op = "background", !.name = n]
Stop(n) == [Plain EXCEPT !.op = "stop_background", !.name = n]

Base ==
  [setup |-> <<>>, steadyState |-> <<>>, method |-> <<>>, verify |-> <<>>,
   teardown |-> <<>>, hasTeardown |-> FALSE, timeout |-> FALSE]

MCScenarios ==
  { [Base EXCEPT !.setup = <<Plain>>, !.steadyState = <<Check>>,
                 !.method = <<<<Fault>>>>, !.verify = <<Check>>],
    [Base EXCEPT !.steadyState = <<Check, Optional>>,
                 !.method = <<<<Fault>>, <<Guarded>>>>, !.timeout = TRUE],
    [Base EXCEPT !.method = <<<<Load("b1"), Fault>>, <<>>>>,
                 !.verify = <<Stop("b1"), Finding>>, !.timeout = TRUE],
    [Base EXCEPT !.setup = <<Load("b1"), Load("b2")>>, !.verify = <<Load("b1")>>,
                 !.teardown = <<Stop("b2"), Plain>>, !.hasTeardown = TRUE],
    [Base EXCEPT !.steadyState = <<Finding>>, !.verify = <<Bounded, Check>>,
                 !.teardown = <<Load("b1"), Bounded>>, !.hasTeardown = TRUE] }
=============================================================================
