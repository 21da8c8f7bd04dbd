----------------------------- MODULE MCProject -----------------------------
(***************************************************************************)
(* A project for TLC: two scenarios in one suite, a third that is yet to   *)
(* be written; a recorded `run -u` of the suite and a check of one of its  *)
(* scenarios by name, twice, beside a terminal UI.                         *)
(***************************************************************************)
EXTENDS Project, TLC

CONSTANTS writer, checker, tui, nobody

Three == <<[name |-> "s1", suite |-> "a"], [name |-> "s2", suite |-> "a"],
           [name |-> "s3", suite |-> "b"]>>
All == {"s1", "s2", "s3"}

Update == [targets |-> <<"a">>, tagged |-> {"s1"}, update |-> TRUE, record |-> TRUE]
Check == [targets |-> <<"s1", "s1">>, tagged |-> All, update |-> FALSE, record |-> FALSE]

TwoRuns == writer :> Update @@ checker :> Check
NoRuns == [c \in {} |-> Check]

Gap == [verdict |-> "PASSED", gap |-> "active"]
Fixed == [verdict |-> "FAILED", gap |-> "fixed"]
Clean == [verdict |-> "PASSED", gap |-> "none"]
Searches == {All, {"s3"}}
GapOutcomes == "s1" :> {Gap, Clean} @@ "s2" :> {Fixed} @@ "s3" :> {Clean}
=============================================================================
