----------------------------- MODULE MCParallel -----------------------------
(***************************************************************************)
(* Sections for TLC: two blocks in a row, a block in a branch, every kind  *)
(* of leaf in a branch, and handles that cross a barrier.  The branches of *)
(* a program are runners 1 to 5, 0 is the scenario's own.                  *)
(***************************************************************************)
EXTENDS Parallel

Leaf == [op |-> "leaf", outcome |-> "PASS", adds |-> "nothing", reads |-> "nothing",
         binds |-> "nothing", name |-> "load", branches |-> <<>>]
Binds(n) == [Leaf EXCEPT !.binds = n]
Copies(m, n) == [Leaf EXCEPT !.reads = m, !.binds = n]
Ends(v) == [Leaf EXCEPT !.outcome = v]
Adds(what) == [Leaf EXCEPT !.adds = what]
Load(n) == [Leaf EXCEPT !.op = "background", !.name = n]
StopLoad(n) == [Leaf EXCEPT !.op = "stop_background", !.name = n]
Par(branches) == [Leaf EXCEPT !.op = "parallel", !.branches = branches]

Sections(stop, root, b1, b2, b3, b4, b5) ==
  [stopOnFail |-> stop,
   steps |-> [r \in 0..5 |-> CASE r = 0 -> root [] r = 1 -> b1 [] r = 2 -> b2
                               [] r = 3 -> b3 [] r = 4 -> b4 [] r = 5 -> b5]]

(* Colliding captures, a fault, an assertion that holds, a finding.        *)
Collide ==
  Sections(TRUE, <<Binds("x"), Par(<<1, 2, 3>>), Copies("x", "y")>>,
           <<Copies("x", "y"), Binds("x"), Copies("x", "y")>>,
           <<Adds("injected"), Copies("x", "y")>>,
           <<Binds("x"), Binds("y"), Ends("FINDING"), Adds("held")>>, <<>>, <<>>)

(* Failures and a panic in branches of nested blocks, in a section that    *)
(* goes on and in one that stops.                                          *)
Nested(stop) ==
  Sections(stop, <<Par(<<1, 2>>), Adds("held")>>,
           <<Leaf, Par(<<3, 4>>), Binds("x")>>, <<Ends("FAIL"), Binds("y")>>,
           <<Adds("injected"), Ends("panic"), Leaf>>, <<Leaf, Par(<<5>>)>>, <<Ends("FINDING")>>)

(* A background started in a branch and stopped after the barrier, one     *)
(* stopped in its branch, a refused name, handles that do not cross, and a *)
(* block with an empty branch.                                             *)
Handed ==
  Sections(FALSE, <<Load("load"), Par(<<1, 2>>), StopLoad("churn"), StopLoad("load"), Par(<<3>>), Par(<<4, 5>>)>>,
           <<Load("churn"), Load("churn")>>, <<StopLoad("load"), Leaf>>,
           <<Load("load"), StopLoad("load"), Load("churn")>>, <<Leaf>>, <<>>)

TreePrograms == {Collide, Nested(TRUE), Nested(FALSE), Handed}

(* A capture bound two blocks deep and used after the outer block.         *)
DeepCapture ==
  Sections(TRUE, <<Par(<<1, 2>>), Copies("x", "y")>>,
           <<Par(<<3>>)>>, <<Leaf>>, <<Binds("x")>>, <<>>, <<>>)

DeepPrograms == {DeepCapture}

(* A name that is live in the parent and started again in a branch: a      *)
(* stop_background in the sibling branch does not reach the parent's.      *)
Restarted ==
  Sections(TRUE, <<Load("load"), Par(<<1, 2>>)>>,
           <<StopLoad("load")>>, <<Leaf, Load("load")>>, <<>>, <<>>, <<>>)

RestartPrograms == {Restarted}

Promise == INSTANCE BlockPromise WITH
  outcome <- IF pc[Root] = "done" THEN Outcome ELSE [events |-> <<>>]

(* The section's outcome is a function of the program and the verbs: no    *)
(* schedule of the branches changes an event, a result, a capture, a       *)
(* handle or the verdict.  Only with more branches in a block than the cap *)
(* does it matter which of them came last: that one fails, and it is as if *)
(* it had no steps (builtins.md on parallel; parallel.go:59-63).           *)
Deterministic == Promise!Spec
=============================================================================
