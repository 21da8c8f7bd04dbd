------------------------------ MODULE Parallel ------------------------------
(***************************************************************************)
(* The parallel block (core/engine/parallel.go): a section run by a tree   *)
(* of runners.  A runner that meets a parallel step forks one runner per   *)
(* branch and waits at the barrier; each branch is a goroutine that works  *)
(* on its own captures, handles, result and event buffer, and the parent   *)
(* merges those in branch order once all have come to an end.  Two things  *)
(* are shared by the whole tree while branches run: the limiter that caps  *)
(* live branches, and the goroutines of background steps.                  *)
(*                                                                         *)
(* What a leaf's verb does is part of the program: the order in which      *)
(* goroutines are scheduled is the only nondeterminism here.               *)
(***************************************************************************)
EXTENDS Journal, FiniteSets, Integers, SequencesExt, Functions

CONSTANTS Runners,   \* one per branch of the program, and Root
          Root,      \* the scenario's own runner
          Names,     \* names of captures
          BgNames,   \* names of background handles
          Programs,  \* the sections Init may choose from
          maxLiveBranches

None == <<>>         \* an unbound capture, a handle that is not there

(* A step of a block.  A leaf copies the capture it reads, or its own      *)
(* place, to the name it binds; what it adds to the result besides its     *)
(* verdict is a fault injected or an assertion held.                       *)
Step == [op : {"leaf", "parallel", "background", "stop_background"},
         outcome : {"PASS", "FAIL", "FINDING", "panic"},
         adds  : {"nothing", "injected", "held"},
         reads : Names \cup {"nothing"},
         binds : Names \cup {"nothing"},
         name  : BgNames,
         branches : Seq(Runners)]

Program == [stopOnFail : BOOLEAN, steps : [Runners -> Seq(Step)]]

(* b is a branch of the parallel step i of r.                              *)
BranchOf(p, b, r, i) ==
  /\ i \in DOMAIN p.steps[r] /\ p.steps[r][i].op = "parallel"
  /\ b \in Range(p.steps[r][i].branches)

(* A runner is made for one branch of one step.                            *)
TreeShaped(p) ==
  \A b, q, r \in Runners : \A i \in DOMAIN p.steps[q], j \in DOMAIN p.steps[r] :
    BranchOf(p, b, q, i) /\ BranchOf(p, b, r, j) => q = r /\ i = j /\ b # Root

ASSUME ParallelAssumption ==
  /\ Root \in Runners /\ IsFiniteSet(Runners)
  /\ Programs \subseteq Program /\ (\A p \in Programs : TreeShaped(p))
  /\ maxLiveBranches \in Nat \ {0}

VARIABLES
  prog,     \* the section's program, fixed by Init
  pc,       \* where each runner's goroutine is
  next,     \* the index of its current step
  runner,   \* the runner structs: see Fresh
  limiter,  \* live branches of the whole tree
  tasks     \* background goroutines, by the place of their step: not yet joined

vars == <<prog, pc, next, runner, limiter, tasks>>

EmptyCounts == [steps |-> <<>>, findings |-> <<>>, injected |-> <<>>, held |-> <<>>]

(* branchRunner: a runner with a copy of the parent's captures and nothing *)
(* else of its own yet.                                                    *)
Fresh(outputs) ==
  [outputs |-> outputs, writes |-> {}, bg |-> [n \in BgNames |-> None],
   res |-> EmptyCounts, events |-> <<>>, failed |-> "no"]

Init ==
  /\ prog \in Programs
  /\ pc = [r \in Runners |-> IF r = Root THEN "running" ELSE "idle"]
  /\ next = [r \in Runners |-> 1]
  /\ runner = [r \in Runners |-> Fresh([n \in Names |-> None])]
  /\ limiter = 0
  /\ tasks = {}

Steps(r) == prog.steps[r]
Current(r) == Steps(r)[next[r]]
Here(r) == <<r, next[r]>>

(* Branches stop at their first failure; Root as its section says.         *)
StopOnFail(r) == r # Root \/ prog.stopOnFail

SectionOver(r) ==
  \/ next[r] > Len(Steps(r))
  \/ runner[r].failed = "panic"
  \/ runner[r].failed = "step" /\ StopOnFail(r)

At(r, op) ==
  /\ pc[r] = "running" /\ ~SectionOver(r)
  /\ Current(r).op = op

(* The end of a step that leaves R behind: finish's event, runSection's    *)
(* record.  before: the events the step emits ahead of its last one.       *)
EndStep(r, R, verdict, before) ==
  LET sr == [at |-> Here(r), verdict |-> verdict, timedOut |-> FALSE]
  IN /\ next' = [next EXCEPT ![r] = @ + 1]
     /\ runner' = [runner EXCEPT ![r] =
          [R EXCEPT !.events = @ \o before \o <<StepEnded(sr)>>,
                    !.res.steps = Append(@, sr),
                    !.failed = IF verdict = "FAIL" THEN "step" ELSE @]]

(* Mutant of Bind: the branch does not note what it wrote.                 *)
BindUnnoted(R, r, st) ==
  IF st.binds = "nothing" THEN R
  ELSE [R EXCEPT !.outputs[st.binds] = IF st.reads = "nothing" THEN Here(r) ELSE R.outputs[st.reads]]

(* A leaf's bindings go to the runner's captures; a branch notes the name. *)
Bind(R, r, st) ==
  IF st.binds = "nothing" THEN R
  ELSE [R EXCEPT !.outputs[st.binds] = IF st.reads = "nothing" THEN Here(r) ELSE R.outputs[st.reads],
                 !.writes = IF r = Root THEN @ ELSE @ \cup {st.binds}]

Record(R, field, entry) == [R EXCEPT !.res[field] = Append(@, entry)]

LeafPasses(r) ==
  /\ At(r, "leaf") /\ Current(r).outcome = "PASS"
  /\ LET st == Current(r)
         bound == Bind(runner[r], r, st)
         counted == IF st.adds = "nothing" THEN bound ELSE Record(bound, st.adds, Here(r))
         fault == IF st.adds = "injected" THEN <<FaultInjected(Here(r))>> ELSE <<>>
     IN EndStep(r, counted, "PASS", <<StepStarted(Here(r))>> \o fault)
  /\ UNCHANGED <<prog, pc, limiter, tasks>>

LeafFails(r) ==
  /\ At(r, "leaf") /\ Current(r).outcome = "FAIL"
  /\ EndStep(r, runner[r], "FAIL", <<StepStarted(Here(r))>>)
  /\ UNCHANGED <<prog, pc, limiter, tasks>>

LeafFinds(r) ==
  /\ At(r, "leaf") /\ Current(r).outcome = "FINDING"
  /\ LET f == [at |-> Here(r), nowPasses |-> FALSE, detail |-> "failed"]
     IN EndStep(r, Record(runner[r], "findings", f), "FINDING",
                <<StepStarted(Here(r)), FindingEvent(f)>>)
  /\ UNCHANGED <<prog, pc, limiter, tasks>>

(* The step's end is never recorded; the branch's goroutine recovers.      *)
LeafPanics(r) ==
  /\ At(r, "leaf") /\ Current(r).outcome = "panic"
  /\ runner' = [runner EXCEPT ![r].events = Append(@, StepStarted(Here(r))),
                              ![r].failed = "panic"]
  /\ UNCHANGED <<prog, pc, next, limiter, tasks>>

(* background: refused under a name this runner has a handle for.          *)
StartBackground(r) ==
  /\ At(r, "background")
  /\ LET n == Current(r).name
         free == runner[r].bg[n] = None
         R == IF free THEN [runner[r] EXCEPT !.bg[n] = Here(r)] ELSE runner[r]
     IN /\ EndStep(r, R, IF free THEN "PASS" ELSE "FAIL", <<StepStarted(Here(r))>>)
        /\ tasks' = IF free THEN tasks \cup {Here(r)} ELSE tasks
  /\ UNCHANGED <<prog, pc, limiter>>

(* stop_background looks in this runner's handles only.                    *)
StopBackground(r) ==
  /\ At(r, "stop_background")
  /\ LET n == Current(r).name
         h == runner[r].bg[n]
     IN /\ EndStep(r, [runner[r] EXCEPT !.bg[n] = None],
                   IF h = None THEN "FAIL" ELSE "PASS", <<StepStarted(Here(r))>>)
        /\ tasks' = tasks \ {h}
  /\ UNCHANGED <<prog, pc, limiter>>

-----------------------------------------------------------------------------
(* runParallel refuses a block without branches or with an empty one.      *)
Malformed(r) == LET bs == Current(r).branches IN bs = <<>> \/ (\E b \in Range(bs) : Steps(b) = <<>>)

RefuseBlock(r) ==
  /\ At(r, "parallel") /\ Malformed(r)
  /\ EndStep(r, runner[r], "FAIL", <<StepStarted(Here(r))>>)
  /\ UNCHANGED <<prog, pc, limiter, tasks>>

(* runParallel up to wg.Wait: one goroutine per branch.                    *)
Fork(r) ==
  /\ At(r, "parallel") /\ ~Malformed(r)
  /\ LET branches == Range(Current(r).branches) IN
     /\ pc' = [q \in Runners |-> IF q = r THEN "joining"
                                 ELSE IF q \in branches THEN "forked" ELSE pc[q]]
     /\ next' = [q \in Runners |-> IF q \in branches THEN 1 ELSE next[q]]
     /\ runner' = [q \in Runners |->
          IF q = r THEN [runner[r] EXCEPT !.events = Append(@, StepStarted(Here(r)))]
          ELSE IF q \in branches THEN Fresh(runner[r].outputs) ELSE runner[q]]
  /\ UNCHANGED <<prog, limiter, tasks>>

(* Mutant of Acquire: one branch more than the cap.                        *)
AcquireOneMore(b) ==
  /\ pc[b] = "forked"
  /\ limiter' = limiter + 1
  /\ pc' = [pc EXCEPT ![b] = IF limiter > maxLiveBranches THEN "overCap" ELSE "running"]
  /\ UNCHANGED <<prog, next, runner, tasks>>

(* A branch counts itself, and backs out when it is one too many: the two  *)
(* atomic operations are steps of their own.                               *)
Acquire(b) ==
  /\ pc[b] = "forked"
  /\ limiter' = limiter + 1
  /\ pc' = [pc EXCEPT ![b] = IF limiter' > maxLiveBranches THEN "overCap" ELSE "running"]
  /\ UNCHANGED <<prog, next, runner, tasks>>

BackOut(b) ==
  /\ pc[b] = "overCap"
  /\ limiter' = limiter - 1
  /\ pc' = [pc EXCEPT ![b] = "done"]
  /\ runner' = [runner EXCEPT ![b].failed = "cap"]
  /\ UNCHANGED <<prog, next, tasks>>

(* Mutants of Release: a panic keeps its slot; a panic is never released.  *)
ReleaseUnlessPanic(b) ==
  /\ b # Root
  /\ pc[b] = "running" /\ SectionOver(b)
  /\ limiter' = IF runner[b].failed = "panic" THEN limiter ELSE limiter - 1
  /\ pc' = [pc EXCEPT ![b] = "done"]
  /\ UNCHANGED <<prog, next, runner, tasks>>

PanicNeverDone(b) ==
  /\ b # Root /\ runner[b].failed # "panic"
  /\ pc[b] = "running" /\ SectionOver(b)
  /\ limiter' = limiter - 1
  /\ pc' = [pc EXCEPT ![b] = "done"]
  /\ UNCHANGED <<prog, next, runner, tasks>>

(* The deferred calls of the branch's goroutine.                           *)
Release(b) ==
  /\ b # Root
  /\ pc[b] = "running" /\ SectionOver(b)
  /\ limiter' = limiter - 1
  /\ pc' = [pc EXCEPT ![b] = "done"]
  /\ UNCHANGED <<prog, next, runner, tasks>>

(* Mutants of Merge: handles are not adopted; results go in front; the     *)
(* first branch to bind a name wins.                                       *)
MergeNoHandles(R, B) ==
  [R EXCEPT !.events = @ \o B.events,
            !.res = [f \in DOMAIN @ |-> @[f] \o B.res[f]],
            !.outputs = [n \in Names |-> IF n \in B.writes THEN B.outputs[n] ELSE @[n]]]

MergeInFront(R, B) ==
  [R EXCEPT !.events = @ \o B.events,
            !.res = [f \in DOMAIN @ |-> B.res[f] \o @[f]],
            !.outputs = [n \in Names |-> IF n \in B.writes THEN B.outputs[n] ELSE @[n]],
            !.bg = [n \in BgNames |-> IF B.bg[n] # None THEN B.bg[n] ELSE @[n]]]

MergeFirstWins(R, B) ==
  [R EXCEPT !.events = @ \o B.events,
            !.res = [f \in DOMAIN @ |-> @[f] \o B.res[f]],
            !.outputs = [n \in Names |->
                           IF n \in B.writes /\ @[n] = None THEN B.outputs[n] ELSE @[n]],
            !.bg = [n \in BgNames |-> IF B.bg[n] # None THEN B.bg[n] ELSE @[n]]]

(* The merge of one branch into its parent.                                *)
Merge(R, B) ==
  [R EXCEPT !.events = @ \o B.events,
            !.res = [f \in DOMAIN @ |-> @[f] \o B.res[f]],
            !.outputs = [n \in Names |-> IF n \in B.writes THEN B.outputs[n] ELSE @[n]],
            !.bg = [n \in BgNames |-> IF B.bg[n] # None THEN B.bg[n] ELSE @[n]]]

(* The merges of the branches bs, in their order.                          *)
Merged(R, bs) ==
  LET upTo[n \in 0..Len(bs)] == IF n = 0 THEN R ELSE Merge(upTo[n - 1], bs[n])
  IN upTo[Len(bs)]

(* Mutant of Barrier: a failed branch lifts it.                            *)
FailureLiftsBarrier(r) ==
  \/ \A b \in Range(Current(r).branches) : pc[b] = "done"
  \/ \E b \in Range(Current(r).branches) : runner[b].failed = "step"

(* wg.Wait returns: every branch is done.                                  *)
Barrier(r) == \A b \in Range(Current(r).branches) : pc[b] = "done"

(* The branches are merged in branch order, and the step ends.             *)
Join(r) ==
  /\ pc[r] = "joining" /\ Barrier(r)
  /\ LET bs == [i \in DOMAIN Current(r).branches |-> runner[Current(r).branches[i]]]
         failed == \E i \in DOMAIN bs : bs[i].failed # "no"
     IN EndStep(r, Merged(runner[r], bs), IF failed THEN "FAIL" ELSE "PASS", <<>>)
  /\ pc' = [pc EXCEPT ![r] = "running"]
  /\ UNCHANGED <<prog, limiter, tasks>>

FinishRoot ==
  /\ pc[Root] = "running" /\ SectionOver(Root)
  /\ pc' = [pc EXCEPT ![Root] = "done"]
  /\ UNCHANGED <<prog, next, runner, limiter, tasks>>

Goroutine(r) ==
  \/ LeafPasses(r) \/ LeafFails(r) \/ LeafFinds(r) \/ LeafPanics(r)
  \/ StartBackground(r) \/ StopBackground(r)
  \/ RefuseBlock(r) \/ Fork(r) \/ Join(r)
  \/ Acquire(r) \/ BackOut(r) \/ Release(r)

Next == (\E r \in Runners : Goroutine(r)) \/ FinishRoot

Spec == Init /\ [][Next]_vars

(* Go schedules every goroutine that can run.                              *)
FairSpec == Spec /\ (\A r \in Runners : WF_vars(Goroutine(r))) /\ WF_vars(FinishRoot)

-----------------------------------------------------------------------------
(* Branches that execute steps, and those counted by the limiter.          *)
Live == {b \in Runners \ {Root} : pc[b] \in {"running", "joining"}}
Counted == Live \cup {b \in Runners \ {Root} : pc[b] = "overCap"}

(* The cap holds although a branch counts itself before it looks: however  *)
(* the increments and the back-outs of a nested tree interleave, no more   *)
(* branches than the cap ever execute steps.                               *)
LiveBranchesCapped == Cardinality(Live) <= maxLiveBranches

(* Every count is given back exactly once, also by a branch that panics or *)
(* was over the cap: a later block starts from a limiter that is right.    *)
LimiterCountsBranches == limiter = Cardinality(Counted)

(* r waits at the barrier of the block that b is a branch of.              *)
Awaits(r, b) == pc[r] = "joining" /\ BranchOf(prog, b, r, next[r])

(* No goroutine of a branch survives the barrier of its block.             *)
BarrierHolds ==
  \A b \in Runners \ {Root} :
    pc[b] \notin {"idle", "done"} => \E r \in Runners : Awaits(r, b)

(* A runner whose state still counts: not yet merged into its parent.      *)
Attached(r) == r = Root \/ \E q \in Runners : Awaits(q, r)

(* Every background goroutine of the section can be found by a later       *)
(* stop_background or by the scenario's end: a runner that is still to be  *)
(* merged, or Root, holds its handle.                                      *)
HandlesReachable ==
  \A t \in tasks : \E r \in Runners, n \in BgNames : Attached(r) /\ runner[r].bg[n] = t

(* Whatever was merged so far and in whatever order goroutines ran, a      *)
(* runner's result is the reduction of its events.                         *)
ResultIsReduction ==
  \A r \in Runners : Attached(r) =>
    LET R == Reduce(runner[r].events) IN
    /\ R.steps = runner[r].res.steps
    /\ R.findings = runner[r].res.findings
    /\ R.injected = runner[r].res.injected

(* The result is of a leaf that bound a name to a value of its own.        *)
StepAt(p, at) == p.steps[at[1]][at[2]]

BindsAfresh(p, sr) ==
  LET st == StepAt(p, sr.at)
  IN st.op = "leaf" /\ sr.verdict = "PASS" /\ st.reads = "nothing" /\ st.binds # "nothing"

(* builtins.md on parallel: a name bound in a branch is visible to steps   *)
(* after the block.                                                        *)
CapturesVisible ==
  \A r \in Runners : \A i \in DOMAIN runner[r].res.steps :
    LET sr == runner[r].res.steps[i]
    IN BindsAfresh(prog, sr) => runner[r].outputs[StepAt(prog, sr.at).binds] # None

(* No tree of blocks blocks on its own cap: the section comes to its end.  *)
EventuallyOver == <>(pc[Root] = "done")

(* What the section leaves behind once it is over.                         *)
Outcome ==
  [events |-> runner[Root].events, res |-> runner[Root].res,
   outputs |-> runner[Root].outputs, bg |-> runner[Root].bg,
   failed |-> runner[Root].failed, tasks |-> tasks]

-----------------------------------------------------------------------------
(* What makes the cap and the barrier inductive.  Root is never a branch;  *)
(* a runner that has not been forked is at its first step; and a block     *)
(* that has not been forked has idle branches, so that a fork never        *)
(* restarts a goroutine that is still counted.                             *)
UnstartedIdle ==
  \A r, b \in Runners : \A i \in DOMAIN Steps(r) :
    /\ BranchOf(prog, b, r, i)
    /\ i > next[r] \/ (i = next[r] /\ pc[r] # "joining")
    => pc[b] = "idle"

Control ==
  /\ prog \in Programs
  /\ pc \in [Runners -> {"idle", "forked", "overCap", "running", "joining", "done"}]
  /\ next \in [Runners -> Nat \ {0}]
  /\ limiter \in Nat
  /\ pc[Root] \in {"running", "joining", "done"}
  /\ \A r \in Runners : pc[r] = "idle" => next[r] = 1

IInv ==
  /\ Control /\ UnstartedIdle /\ BarrierHolds
  /\ LimiterCountsBranches /\ LiveBranchesCapped

-----------------------------------------------------------------------------
(* What makes ResultIsReduction inductive: the types of what a runner      *)
(* keeps, and the same of every runner, merged or not.                     *)
Spot == Runners \X Nat

BlockResult == [at : Spot, verdict : Verdicts, timedOut : BOOLEAN]

BlockFinding == [at : Spot, nowPasses : BOOLEAN, detail : Outcomes]

Emitted ==
  [type : {"step.started", "fault.injected"}, at : Spot]
  \cup [type : StepEndTypes, result : BlockResult]
  \cup [type : {"finding.recorded"}, record : BlockFinding]

RunnerState ==
  [outputs : [Names -> Spot \cup {None}], writes : SUBSET Names,
   bg : [BgNames -> Spot \cup {None}],
   res : [steps : Seq(BlockResult), findings : Seq(BlockFinding),
          injected : Seq(Spot), held : Seq(Spot)],
   events : Seq(Emitted), failed : {"no", "step", "panic", "cap"}]

Reduced(R) ==
  LET q == Reduce(R.events)
  IN q.steps = R.res.steps /\ q.findings = R.res.findings /\ q.injected = R.res.injected

Records ==
  /\ runner \in [Runners -> RunnerState]
  /\ \A r \in Runners : Reduced(runner[r])

(* A runner that waits at a barrier is at the block it forked.             *)
JoinsABlock ==
  \A r \in Runners : pc[r] = "joining" =>
    next[r] \in DOMAIN Steps(r) /\ Current(r).op = "parallel"

-----------------------------------------------------------------------------
(* A section whose background steps all have names of their own.  The      *)
(* merge adopts handles by name, so one of two equal names would be lost   *)
(* (see RestartPrograms).                                                  *)
HandlesNamedApart(p) ==
  \A q, r \in Runners : \A i \in DOMAIN p.steps[q], j \in DOMAIN p.steps[r] :
    /\ p.steps[q][i].op = "background" /\ p.steps[r][j].op = "background"
    /\ p.steps[q][i].name = p.steps[r][j].name
    => q = r /\ i = j

(* at is the place of a background step of the name n.                     *)
Starts(at, n) ==
  /\ at[2] \in DOMAIN Steps(at[1])
  /\ Steps(at[1])[at[2]].op = "background" /\ Steps(at[1])[at[2]].name = n

(* A handle is that of the background step of its name.                    *)
HandlesOfTheirName ==
  /\ tasks \subseteq Spot
  /\ \A r \in Runners, n \in BgNames : runner[r].bg[n] # None => Starts(runner[r].bg[n], n)

(* A leaf that, once it has passed, has bound n to a value of its own.     *)
BindsNew(st, n) ==
  /\ st.op = "leaf" /\ st.outcome = "PASS" /\ st.reads = "nothing"
  /\ st.binds = n /\ n # "nothing"

BoundAfresh(p) ==
  {n \in Names : \E r \in Runners : \E i \in DOMAIN p.steps[r] : BindsNew(p.steps[r][i], n)}

(* The names bound before r is at its step i: by an earlier step of its    *)
(* section, or by Root before the block that r is a branch of.             *)
BoundBefore(p, r, i) ==
  {n \in Names :
     \/ \E j \in DOMAIN p.steps[r] : j < i /\ BindsNew(p.steps[r][j], n)
     \/ \E k \in DOMAIN p.steps[Root] : BranchOf(p, r, Root, k)
          /\ \E j \in DOMAIN p.steps[Root] : j < k /\ BindsNew(p.steps[Root][j], n)}

(* A section in which a branch of a branch binds nothing (see DeepPrograms) *)
(* and what a name is rebound to was bound itself.                         *)
BindsInOuterBlocks(p) ==
  /\ \A b, q \in Runners : \A i \in DOMAIN p.steps[q] :
       q # Root /\ BranchOf(p, b, q, i) =>
         \A j \in DOMAIN p.steps[b] : p.steps[b][j].binds = "nothing"
  /\ \A r \in Runners : \A i \in DOMAIN p.steps[r] :
       LET st == p.steps[r][i]
       IN st.reads # "nothing" /\ st.binds \in BoundAfresh(p) => st.reads \in BoundBefore(p, r, i)

(* The results that r may have while it has R's captures: of its own steps *)
(* or of ones below it, and what one bound afresh is bound, and noted for  *)
(* the merge.                                                              *)
KeptBy(p, r, R) ==
  {sr \in BlockResult :
     LET q == sr.at[1]
         n == StepAt(p, sr.at).binds
     IN /\ sr.at[2] \in DOMAIN p.steps[q]
        /\ q = r \/ \E a \in Runners : \E k \in DOMAIN p.steps[a] :
                      BranchOf(p, q, a, k) /\ (r # Root => a # Root)
        /\ BindsAfresh(p, sr) =>
             n \in BoundAfresh(p) /\ R.outputs[n] # None /\ (r # Root => n \in R.writes)}

Keeping(p, r, R) ==
  /\ R.res.steps \in Seq(KeptBy(p, r, R))
  /\ \A n \in R.writes \cap BoundAfresh(p) : R.outputs[n] # None

(* What was bound when the runner forked or since then is bound; what a    *)
(* branch has bound is noted for the merge.                                *)
BindingsKept ==
  \A r \in Runners :
    /\ Keeping(prog, r, runner[r])
    /\ pc[r] # "idle" => \A n \in BoundBefore(prog, r, next[r]) : runner[r].outputs[n] # None
=============================================================================
