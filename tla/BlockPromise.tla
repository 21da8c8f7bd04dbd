---------------------------- MODULE BlockPromise ----------------------------
(***************************************************************************)
(* What docs/content/reference/builtins.md promises of a section with      *)
(* parallel blocks: that it is deterministic.  Its outcome is the one of   *)
(* running the branches of a block one after the other, each from the      *)
(* captures the block started with, then putting together their events,    *)
(* results, captures and handles in branch order.  It comes in one step.   *)
(*                                                                         *)
(* The one freedom is the cap on live branches: a block with more branches *)
(* than that, those in branches counted, may have some of them refused.    *)
(***************************************************************************)
EXTENDS Journal, FiniteSets, SequencesExt

CONSTANTS Runners, Root, Names, BgNames, maxLiveBranches

VARIABLES prog, outcome

Unbound == <<>>

Start(outputs) ==
  [events |-> <<>>, outputs |-> outputs, bound |-> {},
   res |-> [steps |-> <<>>, findings |-> <<>>, injected |-> <<>>, held |-> <<>>],
   bg |-> [n \in BgNames |-> Unbound], tasks |-> {}, failed |-> "no"]

(* S with one more step ended.                                             *)
Note(S, at, verdict, events) ==
  LET sr == [at |-> at, verdict |-> verdict, timedOut |-> FALSE]
  IN [S EXCEPT !.events = @ \o events \o <<StepEnded(sr)>>,
               !.res.steps = Append(@, sr),
               !.failed = IF verdict = "FAIL" THEN "step" ELSE @]

LeafDone(S, at, st) ==
  LET started == <<StepStarted(at)>>
      finding == [at |-> at, nowPasses |-> FALSE, detail |-> "failed"]
      value == IF st.reads = "nothing" THEN at ELSE S.outputs[st.reads]
      bound == IF st.binds = "nothing" THEN S
               ELSE [S EXCEPT !.outputs[st.binds] = value, !.bound = @ \cup {st.binds}]
      counted == IF st.adds = "nothing" THEN bound
                 ELSE [bound EXCEPT !.res[st.adds] = Append(@, at)]
      fault == IF st.adds = "injected" THEN <<FaultInjected(at)>> ELSE <<>>
  IN CASE st.outcome = "PASS" -> Note(counted, at, "PASS", started \o fault)
       [] st.outcome = "FAIL" -> Note(S, at, "FAIL", started)
       [] st.outcome = "FINDING" ->
            Note([S EXCEPT !.res.findings = Append(@, finding)], at, "FINDING",
                 started \o <<FindingEvent(finding)>>)
       [] st.outcome = "panic" -> [S EXCEPT !.events = @ \o started, !.failed = "panic"]

HandleDone(S, at, st) ==
  LET h == S.bg[st.name] IN
  IF st.op = "background"
  THEN IF h = Unbound
       THEN Note([S EXCEPT !.bg[st.name] = at, !.tasks = @ \cup {at}], at, "PASS", <<StepStarted(at)>>)
       ELSE Note(S, at, "FAIL", <<StepStarted(at)>>)
  ELSE IF h = Unbound
       THEN Note(S, at, "FAIL", <<StepStarted(at)>>)
       ELSE Note([S EXCEPT !.bg[st.name] = Unbound, !.tasks = @ \ {h}], at, "PASS", <<StepStarted(at)>>)

(* The outcome of one branch put on top of what precedes it.               *)
Over(S, B) ==
  [S EXCEPT !.events = @ \o B.events,
            !.res = [f \in DOMAIN @ |-> @[f] \o B.res[f]],
            !.outputs = [n \in Names |-> IF n \in B.bound THEN B.outputs[n] ELSE @[n]],
            !.bound = @ \cup B.bound,
            !.bg = [n \in BgNames |-> IF B.bg[n] # Unbound THEN B.bg[n] ELSE @[n]],
            !.tasks = @ \cup B.tasks]

(* The section or branch r from its step i on; refused are the branches    *)
(* the cap turns away, which run nothing.                                  *)
RECURSIVE Meaning(_, _, _, _, _)
Meaning(p, refused, r, i, S) ==
  LET stops == (r # Root \/ p.stopOnFail) /\ S.failed = "step"
  IN IF stops \/ S.failed = "panic" \/ i > Len(p.steps[r]) THEN S
     ELSE LET st == p.steps[r][i]
              at == <<r, i>>
              began == [S EXCEPT !.events = Append(@, StepStarted(at))]
              branches == [k \in DOMAIN st.branches |->
                 IF st.branches[k] \in refused THEN [Start(S.outputs) EXCEPT !.failed = "cap"]
                 ELSE Meaning(p, refused, st.branches[k], 1, Start(S.outputs))]
              malformed == st.branches = <<>> \/ (\E k \in DOMAIN st.branches : p.steps[st.branches[k]] = <<>>)
              verdict == IF \E k \in DOMAIN branches : branches[k].failed # "no"
                         THEN "FAIL" ELSE "PASS"
          IN Meaning(p, refused, r, i + 1,
               CASE st.op = "leaf" -> LeafDone(S, at, st)
                 [] st.op = "parallel" /\ malformed -> Note(began, at, "FAIL", <<>>)
                 [] st.op = "parallel" /\ ~malformed -> Note(FoldLeft(Over, began, branches), at, verdict, <<>>)
                 [] OTHER -> HandleDone(S, at, st))

RECURSIVE Under(_, _)
Under(p, steps) ==
  UNION {{b} \cup Under(p, p.steps[b]) : b \in UNION {Range(steps[i].branches) : i \in DOMAIN steps}}

(* As many branches of a block as the cap allows are never turned away.    *)
MayRefuse(p, refused) ==
  \A i \in DOMAIN p.steps[Root] :
    LET block == Under(p, <<p.steps[Root][i]>>)
    IN block \cap refused = {}
       \/ Cardinality(block \cap refused) + maxLiveBranches <= Cardinality(block)

Promised(p, refused) ==
  LET S == Meaning(p, refused, Root, 1, Start([n \in Names |-> Unbound]))
  IN [events |-> S.events, res |-> S.res, outputs |-> S.outputs, bg |-> S.bg,
      failed |-> S.failed, tasks |-> S.tasks]

NotYet == [events |-> <<>>]

Init == outcome = NotYet

Next ==
  /\ outcome = NotYet
  /\ \E refused \in SUBSET (Runners \ {Root}) :
       MayRefuse(prog, refused) /\ outcome' = Promised(prog, refused)
  /\ UNCHANGED prog

Spec == Init /\ [][Next]_<<prog, outcome>>
=============================================================================
