------------------------------- MODULE Repeat -------------------------------
(***************************************************************************)
(* A section of one runner with repeat blocks (core/engine/repeat.go) and  *)
(* background handles (execBuiltin, stopBackgrounds and flushBackground in *)
(* executor.go).  Repeats nest; every frame of the stack is one call of    *)
(* runSection, the ones above the first inside a call of runRepeat.        *)
(*                                                                         *)
(* A background goroutine buffers the events it emits (a wait_until in it  *)
(* emits gate.observed); whoever joins it decides what becomes of them.    *)
(***************************************************************************)
EXTENDS Naturals, Sequences, FiniteSets, SequencesExt

CONSTANTS Bodies,    \* the step lists of the program: one per do: block, and Root
          Root,      \* the section itself
          BgNames, Programs,
          MaxGates   \* bound on the events one background emits

Step == [op : {"leaf", "background", "stop_background", "repeat"},
         kind : {"action", "assertion"},
         name : BgNames, body : Bodies, times : Nat, stopOnFail : BOOLEAN]

Program == [steps : [Bodies -> Seq(Step)], stopOnFail : BOOLEAN]

ASSUME RepeatAssumption ==
  Root \in Bodies /\ Programs \subseteq Program /\ MaxGates \in Nat

VARIABLES
  prog, dryRun, \* the program and the option, fixed by Init
  pc,       \* "stepping", "joining", "cleaning", "cleaned", "ending" or "over"
  stack,    \* the frames, the innermost last
  bg,       \* runner.bg: the goroutine of a live name, or 0
  awaited,  \* the name whose goroutine has been cancelled and is being awaited
  tasks,    \* the background goroutines, in the order they were started
  results,  \* the steps ended so far, each at the path that led to it
  gates     \* gate.observed events in the journal: the goroutines they came from

vars == <<prog, dryRun, pc, stack, bg, awaited, tasks, results, gates>>

NoName == "none"

(* One call of runSection; in runRepeat also what the loop keeps: the      *)
(* iteration, whether an earlier one failed, and the names live before it. *)
(* earlier is the number of goroutines started before the iteration.       *)
Frame(body, iter, failed) ==
  [body |-> body, next |-> 1, iter |-> iter, broke |-> FALSE, failed |-> failed,
   before |-> {n \in BgNames : bg[n] # 0}, earlier |-> Len(tasks)]

Init ==
  /\ prog \in Programs /\ dryRun \in BOOLEAN
  /\ pc = "stepping"
  /\ bg = [n \in BgNames |-> 0] /\ awaited = NoName
  /\ tasks = <<>> /\ results = <<>> /\ gates = <<>>
  /\ stack = <<[body |-> Root, next |-> 1, iter |-> 1, broke |-> FALSE,
                failed |-> FALSE, before |-> {}, earlier |-> 0]>>

Depth == Len(stack)
Top == stack[Depth]
StepOf(frame) == prog.steps[frame.body][frame.next]
Path == [d \in 1..Depth |-> <<stack[d].body, stack[d].iter, stack[d].next>>]

(* Mutant of Times: one iteration short.                                   *)
OneShort == IF dryRun THEN 1 ELSE StepOf(stack[Depth - 1]).times - 1

(* The repeat step whose body runs, and how often it is to run: dry-run    *)
(* previews the body once.                                                 *)
Loop == StepOf(stack[Depth - 1])
Times == IF dryRun THEN 1 ELSE Loop.times

(* Mutant of StopOnFail: the section's mode also within a repeat.          *)
SectionMode == prog.stopOnFail

StopOnFail == IF Depth = 1 THEN prog.stopOnFail ELSE Loop.stopOnFail
SectionOver == Top.next > Len(prog.steps[Top.body]) \/ (Top.broke /\ StopOnFail)

At(op) == pc = "stepping" /\ ~SectionOver /\ StepOf(Top).op = op

(* frames after the step of the innermost one has ended.                   *)
Ended(frames, verdict) ==
  [frames EXCEPT ![Len(frames)].next = @ + 1,
                 ![Len(frames)].broke = @ \/ verdict = "FAIL"]

EndStep(verdict) ==
  /\ stack' = Ended(stack, verdict)
  /\ results' = Append(results, [path |-> Path, verdict |-> verdict])

SkippedInDryRun == dryRun /\ StepOf(Top).kind = "action"

-----------------------------------------------------------------------------
Skip ==
  /\ \E op \in {"leaf", "background", "stop_background"} : At(op)
  /\ SkippedInDryRun
  /\ EndStep("SKIP")
  /\ UNCHANGED <<prog, dryRun, pc, bg, awaited, tasks, gates>>

Leaf(verdict) ==
  /\ At("leaf") /\ ~SkippedInDryRun
  /\ EndStep(verdict)
  /\ UNCHANGED <<prog, dryRun, pc, bg, awaited, tasks, gates>>

(* A panicking verb unwinds every loop; RunScenario recovers.              *)
LeafPanics ==
  /\ At("leaf") /\ ~SkippedInDryRun
  /\ pc' = "ending" /\ stack' = <<stack[1]>>
  /\ UNCHANGED <<prog, dryRun, bg, awaited, tasks, results, gates>>

(* Mutant of StartBackground: a live name is taken over.                   *)
Overwrites ==
  /\ At("background") /\ ~SkippedInDryRun
  /\ EndStep("PASS")
  /\ tasks' = Append(tasks, [state |-> "running", buffered |-> 0])
  /\ bg' = [bg EXCEPT ![StepOf(Top).name] = Len(tasks')]
  /\ UNCHANGED <<prog, dryRun, pc, awaited, gates>>

StartBackground ==
  /\ At("background") /\ ~SkippedInDryRun
  /\ LET n == StepOf(Top).name IN
     IF bg[n] # 0
     THEN EndStep("FAIL") /\ UNCHANGED <<bg, tasks>>
     ELSE /\ EndStep("PASS")
          /\ tasks' = Append(tasks, [state |-> "running", buffered |-> 0])
          /\ bg' = [bg EXCEPT ![n] = Len(tasks')]
  /\ UNCHANGED <<prog, dryRun, pc, awaited, gates>>

StopUnknown ==
  /\ At("stop_background") /\ ~SkippedInDryRun
  /\ bg[StepOf(Top).name] = 0
  /\ EndStep("FAIL")
  /\ UNCHANGED <<prog, dryRun, pc, bg, awaited, tasks, gates>>

-----------------------------------------------------------------------------
(* Mutant of Cancel: the goroutine is awaited but not cancelled.           *)
AwaitOnly(n) == awaited = NoName /\ awaited' = n /\ UNCHANGED tasks

(* h.cancel(), then <-h.done.                                              *)
Cancel(n) ==
  /\ awaited = NoName /\ awaited' = n
  /\ tasks' = [tasks EXCEPT ![bg[n]].state = IF @ = "running" THEN "cancelling" ELSE @]

Joinable == awaited # NoName /\ tasks[bg[awaited]].state \in {"ended", "died"}

(* The handle is forgotten and its goroutine gone.                         *)
Forget ==
  /\ Joinable
  /\ bg' = [bg EXCEPT ![awaited] = 0]
  /\ tasks' = [tasks EXCEPT ![bg[awaited]].state = "joined"]
  /\ awaited' = NoName

(* Mutant of Flush: the last observation is dropped.                       *)
FlushAllButLast == gates' = gates \o [i \in 1..(tasks[bg[awaited]].buffered - 1) |-> bg[awaited]]

Flush == gates' = gates \o [i \in 1..tasks[bg[awaited]].buffered |-> bg[awaited]]

StopBackground ==
  /\ At("stop_background") /\ ~SkippedInDryRun
  /\ bg[StepOf(Top).name] # 0
  /\ Cancel(StepOf(Top).name)
  /\ pc' = "joining"
  /\ UNCHANGED <<prog, dryRun, stack, bg, results, gates>>

(* The step fails if the goroutine died of an error of its own.            *)
StopReturns ==
  /\ pc = "joining" /\ pc' = "stepping"
  /\ EndStep(IF tasks[bg[awaited]].state = "died" THEN "FAIL" ELSE "PASS")
  /\ Forget /\ Flush
  /\ UNCHANGED <<prog, dryRun>>

-----------------------------------------------------------------------------
(* runRepeat refuses a count below one and an empty body.                  *)
Malformed == StepOf(Top).times < 1 \/ prog.steps[StepOf(Top).body] = <<>>

RefuseRepeat ==
  /\ At("repeat") /\ Malformed
  /\ EndStep("FAIL")
  /\ UNCHANGED <<prog, dryRun, pc, bg, awaited, tasks, gates>>

EnterRepeat ==
  /\ At("repeat") /\ ~Malformed
  /\ stack' = Append(stack, Frame(StepOf(Top).body, 1, FALSE))
  /\ UNCHANGED <<prog, dryRun, pc, bg, awaited, tasks, results, gates>>

(* The loop's head: another iteration, or the end of the repeat step.      *)
Continue(failed) ==
  LET outer == SubSeq(stack, 1, Depth - 1)
      verdict == IF failed THEN "FAIL" ELSE "PASS"
      more == Top.iter < Times /\ ~(Top.broke /\ StopOnFail)
  IN IF more
     THEN stack' = Append(outer, Frame(Top.body, Top.iter + 1, failed)) /\ UNCHANGED results
     ELSE /\ stack' = Ended(outer, verdict)
          /\ results' = Append(results, [path |-> SubSeq(Path, 1, Depth - 1), verdict |-> verdict])

IterationHolds ==
  /\ pc = "stepping" /\ Depth > 1 /\ SectionOver /\ ~Top.broke
  /\ Continue(Top.failed)
  /\ UNCHANGED <<prog, dryRun, pc, bg, awaited, tasks, gates>>

IterationFails ==
  /\ pc = "stepping" /\ Depth > 1 /\ SectionOver /\ Top.broke
  /\ pc' = "cleaning"
  /\ UNCHANGED <<prog, dryRun, stack, bg, awaited, tasks, results, gates>>

(* Mutant of StartedSince: the snapshot is read the wrong way round.       *)
LiveBefore == {n \in BgNames : bg[n] # 0} \cap Top.before

(* cancelBackgroundsSince: the names that were not live before.            *)
StartedSince == {n \in BgNames : bg[n] # 0} \ Top.before

CancelSince(n) ==
  /\ pc = "cleaning" /\ n \in StartedSince
  /\ Cancel(n)
  /\ UNCHANGED <<prog, dryRun, pc, stack, bg, results, gates>>

JoinSince ==
  /\ pc = "cleaning" /\ Forget
  /\ UNCHANGED <<prog, dryRun, pc, stack, results, gates>>

Cleaned ==
  /\ pc = "cleaning" /\ StartedSince = {} /\ pc' = "cleaned"
  /\ UNCHANGED <<prog, dryRun, stack, bg, awaited, tasks, results, gates>>

AfterFailure ==
  /\ pc = "cleaned" /\ pc' = "stepping"
  /\ Continue(TRUE)
  /\ UNCHANGED <<prog, dryRun, bg, awaited, tasks, gates>>

-----------------------------------------------------------------------------
EndSection ==
  /\ pc = "stepping" /\ Depth = 1 /\ SectionOver /\ pc' = "ending"
  /\ UNCHANGED <<prog, dryRun, stack, bg, awaited, tasks, results, gates>>

(* stopBackgrounds, in map order.                                          *)
CancelLeft(n) ==
  /\ pc = "ending" /\ bg[n] # 0
  /\ Cancel(n)
  /\ UNCHANGED <<prog, dryRun, pc, stack, bg, results, gates>>

JoinLeft ==
  /\ pc = "ending" /\ Forget /\ Flush
  /\ UNCHANGED <<prog, dryRun, pc, stack, results>>

(* Mutant of Finish: cancelled is taken for stopped.                       *)
FinishCancelled ==
  /\ pc = "ending" /\ \A n \in BgNames : bg[n] # 0 => tasks[bg[n]].state # "running"
  /\ pc' = "over"
  /\ UNCHANGED <<prog, dryRun, stack, bg, awaited, tasks, results, gates>>

Finish ==
  /\ pc = "ending" /\ \A n \in BgNames : bg[n] = 0
  /\ pc' = "over"
  /\ UNCHANGED <<prog, dryRun, stack, bg, awaited, tasks, results, gates>>

-----------------------------------------------------------------------------
(* A goroutine emits into its buffer, comes to an end or fails by itself,  *)
(* or returns because it has been cancelled.                               *)
Observes(k) ==
  /\ tasks[k].state \in {"running", "cancelling"} /\ tasks[k].buffered < MaxGates
  /\ tasks' = [tasks EXCEPT ![k].buffered = @ + 1]
  /\ UNCHANGED <<prog, dryRun, pc, stack, bg, awaited, results, gates>>

Ends(k, how) ==
  /\ tasks[k].state = "running"
  /\ tasks' = [tasks EXCEPT ![k].state = how]
  /\ UNCHANGED <<prog, dryRun, pc, stack, bg, awaited, results, gates>>

Obeys(k, how) ==
  /\ tasks[k].state = "cancelling"
  /\ tasks' = [tasks EXCEPT ![k].state = how]
  /\ UNCHANGED <<prog, dryRun, pc, stack, bg, awaited, results, gates>>

Runner ==
  \/ Skip \/ (\E v \in {"PASS", "FAIL"} : Leaf(v)) \/ LeafPanics
  \/ StartBackground \/ StopUnknown \/ StopBackground \/ StopReturns
  \/ RefuseRepeat \/ EnterRepeat \/ IterationHolds \/ IterationFails \/ JoinSince \/ Cleaned \/ AfterFailure
  \/ EndSection \/ JoinLeft \/ Finish
  \/ \E n \in BgNames : CancelSince(n) \/ CancelLeft(n)

Environment ==
  \E k \in DOMAIN tasks :
    \/ Observes(k)
    \/ \E how \in {"ended", "died"} : Ends(k, how) \/ Obeys(k, how)

Next == Runner \/ Environment

Spec == Init /\ [][Next]_vars

(* The runner proceeds whenever it can, and a cancelled goroutine returns. *)
FairSpec ==
  /\ Spec /\ WF_vars(Runner)
  /\ WF_vars(\E k \in DOMAIN tasks, how \in {"ended", "died"} : Obeys(k, how))

-----------------------------------------------------------------------------
Unjoined(k) == tasks[k].state # "joined"

(* No goroutine is ever lost: each one that nobody has awaited is held     *)
(* under exactly one name, so that a later join can reach it; and no name  *)
(* holds one that is gone.                                                 *)
HandlesOwnTasks ==
  /\ \A k \in DOMAIN tasks : Unjoined(k) => \E n \in BgNames : bg[n] = k
  /\ \A m, n \in BgNames : bg[m] # 0 => /\ Unjoined(bg[m])
                                        /\ bg[m] = bg[n] => m = n

(* When the section is over no goroutine is left behind.                   *)
NothingOutlives == pc = "over" => \A k \in DOMAIN tasks : ~Unjoined(k)

(* repeat.go: a generator must not leak past an aborted iteration.         *)
NoLeakPastAbort ==
  pc = "cleaned" => \A k \in DOMAIN tasks : k > Top.earlier => ~Unjoined(k)

(* An iteration joins only names that were not live before it.             *)
StopsItsOwn == pc = "joining" => awaited \notin Top.before

(* What a goroutine observed reaches the journal as one block when it is   *)
(* joined, never before, and all of it; only an iteration that fails may   *)
(* lose what its backgrounds have observed.                                *)
CountOf(k) == Cardinality({i \in DOMAIN gates : gates[i] = k})

Failed == \E i \in DOMAIN results : results[i].verdict = "FAIL"

FlushedAtJoin ==
  /\ \A k \in DOMAIN tasks :
       \/ CountOf(k) = IF Unjoined(k) THEN 0 ELSE tasks[k].buffered
       \/ CountOf(k) = 0 /\ Failed
  /\ \A i, j \in DOMAIN gates : i < j /\ gates[i] = gates[j] => gates[i + 1] = gates[i]

(* The results of the steps of the iterations of the repeat at path p.     *)
Inside(p) == {i \in DOMAIN results :
                Len(results[i].path) = Len(p) + 1 /\ SubSeq(results[i].path, 1, Len(p)) = p}

RepeatAt(p) == StepOf([body |-> p[Len(p)][1], next |-> p[Len(p)][3]])

RanIn(p) == {results[k].path[Len(p) + 1] : k \in Inside(p)}

(* A refused count stays refused in dry-run.                               *)
AllOf(st) ==
  {<<st.body, t, s>> : t \in 1..(IF dryRun /\ st.times > 0 THEN 1 ELSE st.times),
                       s \in 1..Len(prog.steps[st.body])}

(* A repeat is green exactly if every step of every iteration ran and none *)
(* of them failed: it cannot come up short of its count.                   *)
RepeatIsHonest ==
  \A i \in DOMAIN results :
    LET p == results[i].path
        st == RepeatAt(p)
        clean == \A k \in Inside(p) : results[k].verdict # "FAIL"
    IN st.op = "repeat" =>
         (results[i].verdict = "PASS" <=> RanIn(p) = AllOf(st) /\ AllOf(st) # {} /\ clean)

(* With stopOnFail nothing of the repeat runs after a failing step; without *)
(* it a repeat that has ended ran every iteration in full, failing or not.  *)
FailFast ==
  \A i \in DOMAIN results :
    LET whole == results[i].path
        p == SubSeq(whole, 1, Len(whole) - 1)
    IN /\ p # <<>> /\ results[i].verdict = "FAIL" /\ RepeatAt(p).stopOnFail =>
            \A k \in Inside(p) : k <= i
       /\ RepeatAt(whole).op = "repeat" /\ ~RepeatAt(whole).stopOnFail =>
            RanIn(whole) = AllOf(RepeatAt(whole))

(* The section comes to its end provided that cancelled goroutines return. *)
EventuallyOver == <>(pc = "over")
=============================================================================
