------------------------------ MODULE MCRepeat ------------------------------
(***************************************************************************)
(* Programs for TLC: a paired background per iteration, one that is        *)
(* stopped only sometimes, repeats in repeats, with and without            *)
(* stopOnFail.                                                             *)
(***************************************************************************)
EXTENDS Repeat

Check == [op |-> "leaf", kind |-> "assertion", name |-> "gen", body |-> "section",
          times |-> 1, stopOnFail |-> TRUE]
Act == [Check EXCEPT !.kind = "action"]
Load(n) == [Act EXCEPT !.op = "background", !.name = n]
StopLoad(n) == [Act EXCEPT !.op = "stop_background", !.name = n]
Rep(n, body, stop) ==
  [Act EXCEPT !.op = "repeat", !.times = n, !.body = body, !.stopOnFail = stop]

Section(stop, steps, outer, inner) ==
  [stopOnFail |-> stop,
   steps |-> [b \in {"section", "outer", "inner"} |->
     CASE b = "section" -> steps [] b = "outer" -> outer [] b = "inner" -> inner]]

RepeatPrograms ==
  { Section(TRUE, <<Rep(2, "outer", TRUE), StopLoad("gen")>>,
            <<Load("gen"), Check, StopLoad("gen")>>, <<>>),
    Section(FALSE, <<Load("net"), Rep(2, "outer", FALSE), Load("net"), StopLoad("net")>>,
            <<Load("gen"), Act, StopLoad("gen")>>, <<>>),
    Section(FALSE, <<Rep(2, "outer", TRUE), Rep(0, "inner", FALSE), Check>>,
            <<Load("gen"), Rep(2, "inner", FALSE), StopLoad("gen")>>, <<Load("net"), StopLoad("net")>>) }

(* The body stops a background of the section and starts it again.         *)
RestartPrograms ==
  { Section(FALSE, <<Load("gen"), Rep(2, "outer", TRUE), StopLoad("gen")>>,
            <<StopLoad("gen"), Load("gen"), Check>>, <<>>) }
=============================================================================
