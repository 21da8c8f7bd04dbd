---------------------------- MODULE Repeat_proofs ----------------------------
(***************************************************************************)
(* For every program of steps: no background goroutine of a section with   *)
(* repeats is ever lost, none outlives the section, and what one observed  *)
(* reaches the journal whole; a repeat's verdict is that of the steps of   *)
(* its iterations, and an aborted iteration leaves nothing running.        *)
(***************************************************************************)
EXTENDS Repeat, TLAPS, SequenceTheorems, FiniteSetTheorems

Tasks == [state : {"running", "cancelling", "ended", "died", "joined"}, buffered : Nat]

Frames == [body : Bodies, next : Nat \ {0}, iter : Nat, broke : BOOLEAN, failed : BOOLEAN,
           before : SUBSET BgNames, earlier : Nat]

(* The innermost frame always is of a step list, and a failed iteration is *)
(* one of a repeat.                                                        *)
StackInv ==
  /\ prog \in Program
  /\ stack \in Seq(Frames) /\ stack # <<>>
  /\ pc \in {"cleaning", "cleaned"} => Depth > 1

(* A live name holds a goroutine that was started; an awaited one is live. *)
BgInv ==
  /\ tasks \in Seq(Tasks)
  /\ bg \in [BgNames -> Nat]
  /\ \A n \in BgNames : bg[n] # 0 => bg[n] \in DOMAIN tasks
  /\ awaited \in BgNames \cup {NoName}
  /\ awaited # NoName => bg[awaited] # 0

OverInv == pc = "over" => \A n \in BgNames : bg[n] = 0

IInv == StackInv /\ BgInv /\ OverInv /\ HandlesOwnTasks

-----------------------------------------------------------------------------
(* The steps of a section and its frames.                                  *)

LEMMA NotEmpty == \A s \in Seq(Frames) : s # <<>> <=> Len(s) \in Nat \ {0}
  BY EmptySeq

LEMMA TopFrame == StackInv => Depth \in Nat \ {0} /\ Top \in Frames
  BY EmptySeq, LenProperties, ElementOfSeq DEF StackInv, Depth, Top

LEMMA StepTyped == ASSUME StackInv, ~SectionOver PROVE StepOf(Top) \in Step
  <1>1. Top.body \in Bodies /\ Top.next \in Nat \ {0}
    BY TopFrame DEF Frames
  <1>2. prog.steps[Top.body] \in Seq(Step)
    BY <1>1 DEF StackInv, Program
  <1>3. Top.next \in 1..Len(prog.steps[Top.body])
    BY <1>1, <1>2, LenProperties DEF SectionOver
  <1> QED
    BY <1>2, <1>3, ElementOfSeq DEF StepOf

LEMMA MovedFrame ==
  ASSUME NEW f \in Frames, NEW x \in Nat \ {0}
  PROVE  [f EXCEPT !.next = x] \in Frames
  BY SMT DEF Frames

LEMMA BrokenFrame ==
  ASSUME NEW f \in Frames, NEW b \in BOOLEAN
  PROVE  [f EXCEPT !.broke = b] \in Frames
  BY SMT DEF Frames

LEMMA AdvancedFrame ==
  ASSUME NEW f \in Frames, NEW b \in BOOLEAN
  PROVE  [f EXCEPT !.next = @ + 1, !.broke = b] \in Frames
  <1> DEFINE e == [f EXCEPT !.next = @ + 1]
  <1>1. f.next + 1 \in Nat \ {0}
    BY DEF Frames
  <1>2. e \in Frames
    BY <1>1, MovedFrame
  <1>3. [f EXCEPT !.next = @ + 1, !.broke = b] = [e EXCEPT !.broke = b]
    BY Zenon
  <1> HIDE DEF e
  <1>4. [e EXCEPT !.broke = b] \in Frames
    BY <1>2, BrokenFrame
  <1> QED
    BY <1>3, <1>4, Zenon

LEMMA EndedTyped ==
  ASSUME NEW frames \in Seq(Frames), frames # <<>>, NEW verdict
  PROVE  Ended(frames, verdict) \in Seq(Frames) /\ Len(Ended(frames, verdict)) = Len(frames)
  <1> DEFINE k == Len(frames)
             e == [frames[k] EXCEPT !.next = @ + 1, !.broke = @ \/ verdict = "FAIL"]
  <1>1. k \in 1..Len(frames) /\ frames[k] \in Frames
    BY EmptySeq, LenProperties, ElementOfSeq
  <1>2. e \in Frames
    <2>1. (frames[k].broke \/ verdict = "FAIL") \in BOOLEAN
      OBVIOUS
    <2> HIDE DEF k
    <2> QED
      BY <1>1, <2>1, AdvancedFrame
  <1>3. Ended(frames, verdict) = [frames EXCEPT ![k] = e]
    BY <1>1, LenProperties DEF Ended, Frames
  <1> QED
    BY <1>1, <1>2, <1>3, ExceptSeq

LEMMA FrameTyped ==
  ASSUME BgInv, NEW body \in Bodies, NEW iter \in Nat, NEW failed \in BOOLEAN
  PROVE  Frame(body, iter, failed) \in Frames
  <1>1. Len(tasks) \in Nat
    BY LenProperties DEF BgInv
  <1>2. {n \in BgNames : bg[n] # 0} \in SUBSET BgNames
    OBVIOUS
  <1> QED
    BY <1>1, <1>2 DEF Frame, Frames

LEMMA EndStepKeeps ==
  ASSUME StackInv, NEW verdict, EndStep(verdict), prog' = prog,
         pc' \in {"cleaning", "cleaned"} => pc' = pc
  PROVE  StackInv'
  <1>1. /\ stack' \in Seq(Frames) /\ Len(stack') = Len(stack)
    BY EndedTyped DEF StackInv, EndStep
  <1>2. stack' # <<>>
    BY <1>1, TopFrame, NotEmpty DEF Depth
  <1> QED
    BY <1>1, <1>2 DEF StackInv, Depth

LEMMA ContinueKeeps ==
  ASSUME StackInv, BgInv, Depth > 1, NEW failed \in BOOLEAN, Continue(failed),
         prog' = prog, pc' \notin {"cleaning", "cleaned"}
  PROVE  StackInv'
  <1> DEFINE outer == SubSeq(stack, 1, Depth - 1)
  <1>1. Depth \in Nat /\ \A i \in 1..(Depth - 1) : stack[i] \in Frames
    BY TopFrame, ElementOfSeq, LenProperties DEF StackInv, Depth
  <1>2. outer \in Seq(Frames) /\ Len(outer) = Depth - 1
    BY <1>1, SubSeqProperties
  <1>3. outer # <<>>
    <2> HIDE DEF outer
    <2> QED
      BY <1>1, <1>2, NotEmpty
  <1>4. CASE stack' = Append(outer, Frame(Top.body, Top.iter + 1, failed))
    <2>1. Frame(Top.body, Top.iter + 1, failed) \in Frames
      BY TopFrame, FrameTyped DEF Frames
    <2>2. stack' \in Seq(Frames) /\ Len(stack') = Len(outer) + 1
      BY <1>2, <1>4, <2>1, AppendProperties
    <2>3. stack' # <<>>
      BY <1>1, <1>2, <2>2, NotEmpty
    <2> QED
      BY <2>2, <2>3 DEF StackInv
  <1>5. ASSUME NEW verdict, stack' = Ended(outer, verdict) PROVE StackInv'
    <2>1. stack' \in Seq(Frames) /\ Len(stack') = Len(outer)
      BY <1>2, <1>3, <1>5, EndedTyped
    <2> QED
      BY <1>1, <1>2, <2>1, NotEmpty DEF StackInv
  <1> QED
    BY <1>4, <1>5 DEF Continue

LEMMA StackStep == IInv /\ [Next]_vars => StackInv'
  <1> SUFFICES ASSUME IInv, [Next]_vars PROVE StackInv'
    OBVIOUS
  <1> USE DEF IInv
  <1>1. CASE stack' = stack /\ prog' = prog /\ (pc' \in {"cleaning", "cleaned"} => pc' = pc)
    BY <1>1 DEF StackInv, Depth
  <1>2. CASE Skip \/ (\E v \in {"PASS", "FAIL"} : Leaf(v)) \/ StartBackground \/ StopUnknown
             \/ RefuseRepeat
    BY <1>2, EndStepKeeps DEF Skip, Leaf, StartBackground, StopUnknown, RefuseRepeat
  <1>3. CASE StopReturns
    BY <1>3, EndStepKeeps DEF StopReturns
  <1>4. CASE LeafPanics
    <2>1. stack[1] \in Frames
      BY TopFrame, ElementOfSeq DEF StackInv, Depth
    <2>2. stack' \in Seq(Frames) /\ Len(stack') = 1
      BY <1>4, <2>1 DEF LeafPanics
    <2> QED
      BY <1>4, <2>2, NotEmpty DEF LeafPanics, StackInv
  <1>5. CASE EnterRepeat
    <2>1. StepOf(Top) \in Step
      BY <1>5, StepTyped DEF EnterRepeat, At
    <2>2. Frame(StepOf(Top).body, 1, FALSE) \in Frames
      BY <2>1, FrameTyped DEF Step
    <2>3. stack' \in Seq(Frames) /\ Len(stack') = Len(stack) + 1
      BY <1>5, <2>2, AppendProperties DEF EnterRepeat, StackInv
    <2>4. stack' # <<>>
      BY <2>3, TopFrame, NotEmpty DEF Depth
    <2>5. pc' = "stepping" /\ prog' = prog
      BY <1>5 DEF EnterRepeat, At
    <2> QED
      BY <2>3, <2>4, <2>5 DEF StackInv
  <1>6. CASE IterationHolds
    <2>1. Top.failed \in BOOLEAN
      BY TopFrame DEF Frames
    <2> QED
      BY <1>6, <2>1, ContinueKeeps DEF IterationHolds
  <1>7. CASE IterationFails
    BY <1>7 DEF IterationFails, StackInv, Depth
  <1>8. CASE Cleaned
    BY <1>8 DEF Cleaned, StackInv, Depth
  <1>9. CASE AfterFailure
    BY <1>9, ContinueKeeps DEF AfterFailure, StackInv
  <1>10. CASE StopBackground \/ JoinSince \/ EndSection \/ JoinLeft \/ Finish
              \/ \E n \in BgNames : CancelSince(n) \/ CancelLeft(n)
    <2>1. CASE StopBackground \/ EndSection \/ Finish
      BY <2>1, <1>1 DEF StopBackground, EndSection, Finish
    <2>2. CASE JoinSince \/ JoinLeft
      BY <2>2, <1>1 DEF JoinSince, JoinLeft
    <2>3. ASSUME NEW n \in BgNames, CancelSince(n) \/ CancelLeft(n) PROVE StackInv'
      BY <2>3, <1>1 DEF CancelSince, CancelLeft
    <2> QED
      BY <1>10, <2>1, <2>2, <2>3
  <1>11. CASE Environment
    BY <1>11, <1>1 DEF Environment, Observes, Ends, Obeys
  <1>12. CASE UNCHANGED vars
    BY <1>12, <1>1 DEF vars
  <1> QED
    BY <1>2, <1>3, <1>4, <1>5, <1>6, <1>7, <1>8, <1>9, <1>10, <1>11, <1>12 DEF Next, Runner

-----------------------------------------------------------------------------
(* The goroutines and their names.                                         *)

LEMMA TaskAltered ==
  ASSUME BgInv, HandlesOwnTasks, NEW k \in DOMAIN tasks, NEW t \in Tasks,
         tasks[k].state # "joined", t.state # "joined",
         tasks' = [tasks EXCEPT ![k] = t], bg' = bg,
         awaited' = awaited \/ (awaited' \in BgNames /\ bg[awaited'] # 0)
  PROVE  BgInv' /\ HandlesOwnTasks'
  <1>1. tasks' \in Seq(Tasks) /\ DOMAIN tasks' = DOMAIN tasks
    BY ExceptSeq, LenProperties DEF BgInv
  <1>2. \A j \in DOMAIN tasks : Unjoined(j)' <=> Unjoined(j)
    BY DEF Unjoined, BgInv
  <1>3. BgInv'
    BY <1>1 DEF BgInv
  <1>4. HandlesOwnTasks'
    BY <1>1, <1>2 DEF HandlesOwnTasks, BgInv
  <1> QED
    BY <1>3, <1>4

LEMMA StateTyped ==
  ASSUME NEW t \in Tasks, NEW x \in {"running", "cancelling", "ended", "died", "joined"}
  PROVE  [t EXCEPT !.state = x] \in Tasks /\ [t EXCEPT !.state = x].state = x
  BY DEF Tasks

LEMMA Observed ==
  ASSUME NEW t \in Tasks
  PROVE  [t EXCEPT !.buffered = @ + 1] \in Tasks
         /\ [t EXCEPT !.buffered = @ + 1].state = t.state
  BY DEF Tasks

LEMMA CancelKeeps ==
  ASSUME BgInv, HandlesOwnTasks, NEW n \in BgNames, bg[n] # 0, Cancel(n), bg' = bg
  PROVE  BgInv' /\ HandlesOwnTasks'
  <1> DEFINE k == bg[n]
             x == IF tasks[k].state = "running" THEN "cancelling" ELSE tasks[k].state
             t == [tasks[k] EXCEPT !.state = x]
  <1>1. k \in DOMAIN tasks /\ tasks[k] \in Tasks /\ tasks[k].state # "joined"
    BY ElementOfSeq, LenProperties DEF BgInv, HandlesOwnTasks, Unjoined
  <1>2. x \in {"running", "cancelling", "ended", "died", "joined"} /\ x # "joined"
    BY <1>1 DEF Tasks
  <1>3. t \in Tasks /\ t.state # "joined"
    BY <1>1, <1>2, StateTyped
  <1>4. tasks' = [tasks EXCEPT ![k] = t]
    BY DEF Cancel
  <1>5. awaited' \in BgNames /\ bg[awaited'] # 0
    BY DEF Cancel
  <1> HIDE DEF k, t
  <1> QED
    BY <1>1, <1>3, <1>4, <1>5, TaskAltered

LEMMA EnvironmentKeeps ==
  ASSUME BgInv, HandlesOwnTasks, Environment
  PROVE  BgInv' /\ HandlesOwnTasks'
  <1>1. PICK k \in DOMAIN tasks :
          \/ Observes(k)
          \/ \E how \in {"ended", "died"} : Ends(k, how) \/ Obeys(k, how)
    BY DEF Environment
  <1>2. tasks[k] \in Tasks
    BY ElementOfSeq, LenProperties DEF BgInv
  <1>3. CASE Observes(k)
    <2> DEFINE t == [tasks[k] EXCEPT !.buffered = @ + 1]
    <2>1. t \in Tasks /\ t.state # "joined" /\ tasks[k].state # "joined"
      BY <1>2, <1>3, Observed DEF Observes
    <2>2. tasks' = [tasks EXCEPT ![k] = t] /\ bg' = bg /\ awaited' = awaited
      BY <1>3 DEF Observes
    <2> HIDE DEF t
    <2> QED
      BY <2>1, <2>2, TaskAltered
  <1>4. ASSUME NEW how \in {"ended", "died"}, Ends(k, how) \/ Obeys(k, how)
        PROVE  BgInv' /\ HandlesOwnTasks'
    <2> DEFINE t == [tasks[k] EXCEPT !.state = how]
    <2>1. t \in Tasks /\ t.state # "joined" /\ tasks[k].state # "joined"
      BY <1>2, <1>4, StateTyped DEF Ends, Obeys
    <2>2. tasks' = [tasks EXCEPT ![k] = t] /\ bg' = bg /\ awaited' = awaited
      BY <1>4 DEF Ends, Obeys
    <2> HIDE DEF t
    <2> QED
      BY <2>1, <2>2, TaskAltered
  <1> QED
    BY <1>1, <1>3, <1>4

LEMMA ForgetKeeps ==
  ASSUME BgInv, HandlesOwnTasks, Forget
  PROVE  BgInv' /\ HandlesOwnTasks'
  <1> DEFINE k == bg[awaited]
             t == [tasks[k] EXCEPT !.state = "joined"]
  <1>1. awaited \in BgNames /\ k # 0 /\ k \in DOMAIN tasks /\ tasks[k] \in Tasks
    BY ElementOfSeq, LenProperties DEF BgInv, Forget, Joinable
  <1>2. t \in Tasks /\ t.state = "joined"
    BY <1>1, StateTyped
  <1>3. tasks' = [tasks EXCEPT ![k] = t]
    BY DEF Forget
  <1>4. bg' = [bg EXCEPT ![awaited] = 0] /\ awaited' = NoName
    BY DEF Forget
  <1> HIDE DEF t
  <1>5. tasks' \in Seq(Tasks) /\ DOMAIN tasks' = DOMAIN tasks
    BY <1>1, <1>2, <1>3, ExceptSeq, LenProperties DEF BgInv
  <1>6. \A j \in DOMAIN tasks : Unjoined(j)' <=> (Unjoined(j) /\ j # k)
    BY <1>1, <1>2, <1>3 DEF Unjoined, BgInv
  <1>7. bg' \in [BgNames -> Nat]
    BY <1>4 DEF BgInv
  <1>8. \A n \in BgNames : bg'[n] = IF n = awaited THEN 0 ELSE bg[n]
    BY <1>4 DEF BgInv
  <1>9. BgInv'
    BY <1>4, <1>5, <1>7, <1>8 DEF BgInv
  <1>10. \A j \in DOMAIN tasks' : Unjoined(j)' => \E n \in BgNames : bg'[n] = j
    BY <1>5, <1>6, <1>8 DEF HandlesOwnTasks
  <1>11. ASSUME NEW m \in BgNames, bg'[m] # 0
         PROVE  /\ tasks'[bg'[m]].state # "joined"
                /\ \A n \in BgNames : bg'[m] = bg'[n] => m = n
    <2>1. m # awaited /\ bg'[m] = bg[m] /\ bg[m] # 0 /\ bg[m] \in DOMAIN tasks
      BY <1>8, <1>11 DEF BgInv
    <2>2. bg[m] # k
      BY <1>1, <2>1 DEF HandlesOwnTasks
    <2>3. Unjoined(bg[m])
      BY <2>1 DEF HandlesOwnTasks
    <2>4. tasks'[bg[m]].state # "joined"
      BY <1>6, <2>1, <2>2, <2>3 DEF Unjoined
    <2>5. \A n \in BgNames : bg'[m] = bg'[n] => m = n
      BY <1>8, <2>1 DEF HandlesOwnTasks
    <2> QED
      BY <2>1, <2>4, <2>5
  <1>12. HandlesOwnTasks'
    BY <1>10, <1>11 DEF HandlesOwnTasks, Unjoined
  <1> QED
    BY <1>9, <1>12

LEMMA StartKeeps ==
  ASSUME StackInv, BgInv, HandlesOwnTasks, StartBackground
  PROVE  BgInv' /\ HandlesOwnTasks'
  <1> DEFINE n == StepOf(Top).name
             t == [state |-> "running", buffered |-> 0]
             k == Len(tasks) + 1
  <1>1. n \in BgNames
    BY StepTyped DEF StartBackground, At, Step
  <1>2. CASE bg[n] # 0
    BY <1>2 DEF StartBackground, BgInv, HandlesOwnTasks, Unjoined
  <1>3. CASE bg[n] = 0
    <2>1. t \in Tasks
      BY DEF Tasks
    <2>2. /\ tasks' = Append(tasks, t) /\ bg' = [bg EXCEPT ![n] = Len(tasks')]
          /\ awaited' = awaited
      BY <1>3 DEF StartBackground
    <2> HIDE DEF n, t
    <2>3. /\ tasks' \in Seq(Tasks) /\ Len(tasks') = k /\ tasks'[k] = t
          /\ \A j \in 1..Len(tasks) : tasks'[j] = tasks[j]
      BY <2>1, <2>2, AppendProperties DEF BgInv
    <2>4. Len(tasks) \in Nat /\ DOMAIN tasks = 1..Len(tasks) /\ DOMAIN tasks' = 1..k
      BY <2>3, LenProperties DEF BgInv
    <2>5. t.state = "running"
      BY DEF t
    <2>6. bg' \in [BgNames -> Nat] /\ \A m \in BgNames : bg'[m] = IF m = n THEN k ELSE bg[m]
      BY <1>1, <2>2, <2>3, <2>4 DEF BgInv
    <2>7. BgInv'
      <3>1. \A m \in BgNames : bg'[m] # 0 => bg'[m] \in DOMAIN tasks'
        BY <2>4, <2>6 DEF BgInv
      <3>2. awaited # NoName => bg'[awaited] # 0
        BY <1>1, <2>4, <2>6 DEF BgInv
      <3> QED
        BY <2>2, <2>3, <2>6, <3>1, <3>2 DEF BgInv
    <2>8. ASSUME NEW j \in DOMAIN tasks', tasks'[j].state # "joined"
          PROVE  \E m \in BgNames : bg'[m] = j
      <3>1. CASE j = k
        BY <1>1, <2>6, <3>1
      <3>2. CASE j # k
        <4>1. j \in DOMAIN tasks /\ Unjoined(j)
          BY <2>3, <2>4, <2>8, <3>2 DEF Unjoined
        <4>2. PICK m \in BgNames : bg[m] = j
          BY <4>1 DEF HandlesOwnTasks
        <4>3. m # n
          BY <1>3, <2>4, <4>1, <4>2 DEF n
        <4> QED
          BY <2>6, <4>2, <4>3
      <3> QED
        BY <3>1, <3>2
    <2>9. ASSUME NEW m \in BgNames, bg'[m] # 0
          PROVE  /\ tasks'[bg'[m]].state # "joined"
                 /\ \A i \in BgNames : bg'[m] = bg'[i] => m = i
      <3>1. \A i \in BgNames : bg[i] # k
        BY <2>4 DEF BgInv
      <3>2. CASE m = n
        BY <1>1, <2>3, <2>5, <2>6, <3>1, <3>2
      <3>3. CASE m # n
        <4>1. bg'[m] = bg[m] /\ bg[m] # 0 /\ bg[m] \in DOMAIN tasks
          BY <2>6, <2>9, <3>3 DEF BgInv
        <4>2. Unjoined(bg[m]) /\ \A i \in BgNames : bg[m] = bg[i] => m = i
          BY <4>1 DEF HandlesOwnTasks
        <4> QED
          BY <2>3, <2>4, <2>6, <3>1, <4>1, <4>2 DEF Unjoined
      <3> QED
        BY <3>2, <3>3
    <2>10. HandlesOwnTasks'
      BY <2>8, <2>9 DEF HandlesOwnTasks, Unjoined
    <2> QED
      BY <2>7, <2>10
  <1> QED
    BY <1>2, <1>3

LEMMA BgStep == IInv /\ [Next]_vars => BgInv' /\ HandlesOwnTasks'
  <1> SUFFICES ASSUME IInv, [Next]_vars PROVE BgInv' /\ HandlesOwnTasks'
    OBVIOUS
  <1> USE DEF IInv
  <1>1. CASE UNCHANGED <<bg, tasks, awaited>>
    BY <1>1 DEF BgInv, HandlesOwnTasks, Unjoined
  <1>2. CASE Skip \/ (\E v \in {"PASS", "FAIL"} : Leaf(v)) \/ LeafPanics \/ StopUnknown
             \/ RefuseRepeat \/ EnterRepeat
    BY <1>1, <1>2 DEF Skip, Leaf, LeafPanics, StopUnknown, RefuseRepeat, EnterRepeat
  <1>3. CASE IterationHolds \/ IterationFails \/ Cleaned \/ AfterFailure \/ EndSection \/ Finish
    BY <1>1, <1>3 DEF IterationHolds, IterationFails, Cleaned, AfterFailure, EndSection, Finish
  <1>4. CASE StartBackground
    BY <1>4, StartKeeps
  <1>5. CASE StopBackground
    <2>1. StepOf(Top).name \in BgNames
      BY <1>5, StepTyped DEF StopBackground, At, Step
    <2> QED
      BY <1>5, <2>1, CancelKeeps DEF StopBackground
  <1>6. CASE StopReturns \/ JoinSince \/ JoinLeft
    BY <1>6, ForgetKeeps DEF StopReturns, JoinSince, JoinLeft
  <1>7. ASSUME NEW n \in BgNames, CancelSince(n) \/ CancelLeft(n)
        PROVE  BgInv' /\ HandlesOwnTasks'
    BY <1>7, CancelKeeps DEF CancelSince, CancelLeft, StartedSince
  <1>8. CASE Environment
    BY <1>8, EnvironmentKeeps
  <1>9. CASE UNCHANGED vars
    BY <1>1, <1>9 DEF vars
  <1> QED
    BY <1>2, <1>3, <1>4, <1>5, <1>6, <1>7, <1>8, <1>9 DEF Next, Runner

(* Only Finish ends the section, and nothing is started after it.          *)
LEMMA OverStep == IInv /\ [Next]_vars => OverInv'
  <1> SUFFICES ASSUME IInv, [Next]_vars, pc' = "over" PROVE \A n \in BgNames : bg'[n] = 0
    BY DEF OverInv
  <1>1. CASE pc # "over"
    <2>1. Finish
      BY <1>1 DEF Next, Runner, Environment, Observes, Ends, Obeys, vars, Skip, Leaf,
                  LeafPanics, StartBackground, StopUnknown, StopBackground, StopReturns,
                  RefuseRepeat, EnterRepeat, IterationHolds, IterationFails, JoinSince,
                  Cleaned, AfterFailure, EndSection, JoinLeft, CancelSince, CancelLeft, At
    <2> QED
      BY <2>1 DEF Finish
  <1>2. CASE pc = "over"
    <2>1. bg' = bg
      BY <1>2 DEF Next, Runner, Environment, Observes, Ends, Obeys, vars, Skip, Leaf,
                  LeafPanics, StartBackground, StopUnknown, StopBackground, StopReturns,
                  RefuseRepeat, EnterRepeat, IterationHolds, IterationFails, JoinSince,
                  Cleaned, AfterFailure, EndSection, JoinLeft, Finish, CancelSince,
                  CancelLeft, At
    <2> QED
      BY <1>2, <2>1 DEF IInv, OverInv
  <1> QED
    BY <1>1, <1>2

LEMMA Initially == Init => IInv
  <1> SUFFICES ASSUME Init PROVE IInv
    OBVIOUS
  <1> DEFINE root == [body |-> Root, next |-> 1, iter |-> 1, broke |-> FALSE,
                      failed |-> FALSE, before |-> {}, earlier |-> 0]
  <1>1. root \in Frames
    BY RepeatAssumption DEF Frames
  <1>2. stack \in Seq(Frames) /\ stack # <<>>
    BY <1>1 DEF Init
  <1>3. StackInv
    BY <1>2, RepeatAssumption DEF Init, StackInv
  <1>4. BgInv /\ HandlesOwnTasks
    BY EmptySeq DEF Init, BgInv, HandlesOwnTasks, NoName
  <1>5. OverInv
    BY DEF Init, OverInv
  <1> QED
    BY <1>3, <1>4, <1>5 DEF IInv

THEOREM Invariance == Spec => []IInv
  <1>1. IInv /\ [Next]_vars => IInv'
    BY StackStep, BgStep, OverStep DEF IInv
  <1> QED
    BY <1>1, Initially, PTL DEF Spec

(* Whatever the steps, the schedule and the panics, each goroutine that    *)
(* nobody has awaited is held under exactly one name of runner.bg.         *)
THEOREM NoTaskLost == Spec => []HandlesOwnTasks
  <1>1. IInv => HandlesOwnTasks
    BY DEF IInv
  <1> QED
    BY <1>1, Invariance, PTL

(* runSection and stopBackgrounds leave no goroutine behind.               *)
THEOREM NoneOutlives == Spec => []NothingOutlives
  <1>1. IInv => NothingOutlives
    BY LenProperties DEF IInv, BgInv, OverInv, HandlesOwnTasks, NothingOutlives
  <1> QED
    BY <1>1, Invariance, PTL
-----------------------------------------------------------------------------
(* What the steps record.  A place is a step of an iteration of a body.    *)
Places == Bodies \X Nat \X Nat

Result == [path : Seq(Places) \ {<<>>}, verdict : {"PASS", "FAIL", "SKIP"}]

PlaceOf(frame) == <<frame.body, frame.iter, frame.next>>

PathTo(s, d) == [e \in 1..d |-> PlaceOf(s[e])]

Before(x, y) == x[2] < y[2] \/ (x[2] = y[2] /\ x[3] < y[3])

(* The path leads to a step that the frames of s have passed.              *)
Past(path, s) ==
  \E d \in 1..Len(s) :
    /\ d <= Len(path) /\ Before(path[d], PlaceOf(s[d]))
    /\ \A e \in 1..(d - 1) : path[e] = PlaceOf(s[e])

Rounds(p, dry, st) == IF dry /\ st.times > 0 THEN 1 ELSE st.times

(* Whether a failure in the frame d ends its list.                         *)
StopsAt(p, s, d) ==
  IF d = 1 THEN p.stopOnFail ELSE p.steps[s[d - 1].body][s[d - 1].next].stopOnFail

(* Each frame above the first is that of the repeat step below it.         *)
Pushed(p, dry, s, d) ==
  LET st == p.steps[s[d - 1].body][s[d - 1].next]
  IN /\ s[d - 1].next <= Len(p.steps[s[d - 1].body])
     /\ st.op = "repeat" /\ st.times > 0 /\ p.steps[st.body] # <<>>
     /\ ~(s[d - 1].broke /\ StopsAt(p, s, d - 1))
     /\ s[d].body = st.body /\ s[d].iter \in 1..Rounds(p, dry, st)
     /\ s[d].failed => ~st.stopOnFail

Nested(p, dry, s) ==
  /\ \A d \in 1..Len(s) : s[d].next <= Len(p.steps[s[d].body]) + 1
  /\ \A d \in 2..Len(s) : Pushed(p, dry, s, d)

NestInv ==
  /\ dryRun \in BOOLEAN /\ Nested(prog, dryRun, stack)
  /\ pc \in {"cleaning", "cleaned"} => SectionOver /\ Top.broke
  /\ pc = "joining" => ~SectionOver /\ StepOf(Top).op = "stop_background"

Ran(R, p, x) == \E k \in DOMAIN R : R[k].path = Append(p, x)

Clean(R, p) == \A k \in DOMAIN R, x \in Places : R[k].path = Append(p, x) => R[k].verdict # "FAIL"

(* The step x of the frame's loop has been passed.                         *)
DoneBy(p, frame, x) ==
  /\ x[1] = frame.body /\ 1 <= x[2] /\ x[3] \in 1..Len(p.steps[frame.body])
  /\ x[2] < frame.iter \/ (x[2] = frame.iter /\ x[3] < frame.next)

(* What is recorded of the loop of frame d is what it has passed.          *)
LoopRecorded(p, s, R, d) ==
  /\ \A x \in Places : Ran(R, PathTo(s, d - 1), x) <=> DoneBy(p, s[d], x)
  /\ Clean(R, PathTo(s, d - 1)) <=> ~s[d].failed /\ ~s[d].broke

InAll(p, dry, st, x) ==
  x[1] = st.body /\ x[2] \in 1..Rounds(p, dry, st) /\ x[3] \in 1..Len(p.steps[st.body])

LastStep(p, path) == p.steps[path[Len(path)][1]][path[Len(path)][3]]

(* A result of a repeat tells the truth about the results inside it.       *)
Truthful(p, dry, R, r) ==
  LET st == LastStep(p, r.path)
  IN /\ st \in Step
     /\ st.op = "repeat" =>
          /\ r.verdict = "PASS" <=> /\ \A x \in Places : Ran(R, r.path, x) <=> InAll(p, dry, st, x)
                                    /\ \E x \in Places : InAll(p, dry, st, x)
                                    /\ Clean(R, r.path)
          /\ ~st.stopOnFail => \A x \in Places : Ran(R, r.path, x) <=> InAll(p, dry, st, x)

(* Nothing of a repeat that stops on a failure is recorded after one.      *)
StopsOnFailure(p, R, i) ==
  \A q \in Seq(Places) \ {<<>>}, x, y \in Places, k \in DOMAIN R :
    /\ R[i].path = Append(q, x) /\ R[i].verdict = "FAIL" /\ LastStep(p, q).stopOnFail
    /\ R[k].path = Append(q, y)
    => k <= i

LoopsRecorded(p, s, R) == \A d \in 2..Len(s) : LoopRecorded(p, s, R, d)

AllStop(p, R) == \A i \in DOMAIN R : StopsOnFailure(p, R, i)

Live == pc \in {"stepping", "joining", "cleaning", "cleaned"}

RecordInv ==
  /\ results \in Seq(Result)
  /\ Live => /\ \A i \in DOMAIN results : Past(results[i].path, stack)
             /\ LoopsRecorded(prog, stack, results)
  /\ \A i \in DOMAIN results : Truthful(prog, dryRun, results, results[i])
  /\ AllStop(prog, results)

LEMMA PlaceTyped == \A f \in Frames : PlaceOf(f) \in Places
  BY DEF Frames, PlaceOf, Places

LEMMA PathProperties ==
  ASSUME NEW s \in Seq(Frames), NEW d \in 0..Len(s)
  PROVE  /\ PathTo(s, d) \in Seq(Places) /\ Len(PathTo(s, d)) = d
         /\ \A e \in 1..d : PathTo(s, d)[e] = PlaceOf(s[e])
  <1>1. d \in Nat /\ Len(s) \in Nat /\ \A e \in 1..d : s[e] \in Frames
    BY LenProperties, ElementOfSeq
  <1>2. \A e \in 1..d : PlaceOf(s[e]) \in Places
    BY <1>1, PlaceTyped
  <1>3. PathTo(s, d) \in [1..d -> Places]
    BY <1>2 DEF PathTo
  <1>4. PathTo(s, d) \in Seq(Places)
    BY <1>1, <1>3, SeqDef
  <1>5. Len(PathTo(s, d)) = d
    BY <1>1, <1>3, <1>4, LenProperties
  <1> QED
    BY <1>4, <1>5 DEF PathTo

LEMMA PathExtended ==
  ASSUME NEW s \in Seq(Frames), NEW d \in 1..Len(s)
  PROVE  /\ PathTo(s, d - 1) \in Seq(Places) /\ PlaceOf(s[d]) \in Places
         /\ PathTo(s, d) = Append(PathTo(s, d - 1), PlaceOf(s[d]))
  <1>1. Len(s) \in Nat /\ d \in 0..Len(s) /\ d - 1 \in 0..Len(s) /\ s[d] \in Frames
    BY LenProperties, ElementOfSeq
  <1> DEFINE p == PathTo(s, d - 1)
             q == PathTo(s, d)
             x == PlaceOf(s[d])
  <1>2. /\ p \in Seq(Places) /\ Len(p) = d - 1 /\ \A e \in 1..(d - 1) : p[e] = PlaceOf(s[e])
        /\ q \in Seq(Places) /\ Len(q) = d /\ \A e \in 1..d : q[e] = PlaceOf(s[e])
    BY <1>1, PathProperties
  <1>3. x \in Places
    BY <1>1, PlaceTyped
  <1> HIDE DEF p, q
  <1>4. /\ Append(p, x) \in Seq(Places) /\ Len(Append(p, x)) = d /\ Append(p, x)[d] = x
        /\ \A e \in 1..(d - 1) : Append(p, x)[e] = p[e]
    <2>1. Len(p) + 1 = d
      BY <1>1, <1>2
    <2> QED
      BY <1>2, <1>3, <2>1, AppendProperties
  <1>5. \A e \in 1..Len(q) : q[e] = Append(p, x)[e]
    BY <1>1, <1>2, <1>4
  <1>6. q = Append(p, x)
    BY <1>2, <1>4, <1>5, SeqEqual
  <1> QED
    BY <1>2, <1>3, <1>6 DEF p, q

LEMMA PathShared ==
  ASSUME NEW s, NEW t, NEW d \in Nat, \A e \in 1..d : PlaceOf(t[e]) = PlaceOf(s[e])
  PROVE  PathTo(t, d) = PathTo(s, d)
  BY DEF PathTo

LEMMA PathNow ==
  ASSUME StackInv
  PROVE  /\ Path = PathTo(stack, Depth)
         /\ SubSeq(Path, 1, Depth - 1) = PathTo(stack, Depth - 1)
  <1>1. Path = PathTo(stack, Depth)
    BY DEF Path, PathTo, PlaceOf
  <1>2. Depth \in Nat \ {0} /\ Depth = Len(stack) /\ stack \in Seq(Frames)
    BY TopFrame DEF StackInv, Depth
  <1> DEFINE p == PathTo(stack, Depth)
             q == PathTo(stack, Depth - 1)
  <1>3. /\ p \in Seq(Places) /\ Len(p) = Depth
        /\ q \in Seq(Places) /\ Len(q) = Depth - 1
        /\ \A e \in 1..(Depth - 1) : p[e] = q[e]
    <2>1. Depth \in 0..Len(stack) /\ Depth - 1 \in 0..Len(stack)
      BY <1>2
    <2> QED
      BY <1>2, <2>1, PathProperties
  <1> HIDE DEF p, q
  <1>4. \A e \in 1..(Depth - 1) : p[e] \in Places
    BY <1>2, <1>3, ElementOfSeq
  <1>5. /\ SubSeq(p, 1, Depth - 1) \in Seq(Places) /\ Len(SubSeq(p, 1, Depth - 1)) = Depth - 1
        /\ \A e \in 1..(Depth - 1) : SubSeq(p, 1, Depth - 1)[e] = p[e]
    BY <1>2, <1>4, SubSeqProperties
  <1>6. SubSeq(p, 1, Depth - 1) = q
    BY <1>2, <1>3, <1>5, SeqEqual
  <1> QED
    BY <1>1, <1>6 DEF p, q

(* The frames s2 are the first m of s, the last of which moved on.         *)
Advanced(s, s2, m, failed) ==
  /\ s2 \in Seq(Frames) /\ Len(s2) = m
  /\ \A e \in 1..(m - 1) : s2[e] = s[e]
  /\ s2[m] = [s[m] EXCEPT !.next = @ + 1, !.broke = @ \/ failed]

LEMMA EndedAdvances ==
  ASSUME NEW s \in Seq(Frames), NEW m \in 1..Len(s), NEW v
  PROVE  /\ Advanced(s, Ended(SubSeq(s, 1, m), v), m, v = "FAIL")
         /\ m = Len(s) => SubSeq(s, 1, m) = s
  <1> DEFINE t == SubSeq(s, 1, m)
             e == [s[m] EXCEPT !.next = @ + 1, !.broke = @ \/ v = "FAIL"]
  <1>1. m \in Nat \ {0} /\ Len(s) \in Nat /\ \A i \in 1..m : s[i] \in Frames
    BY LenProperties, ElementOfSeq
  <1>2. t \in Seq(Frames) /\ Len(t) = m /\ \A i \in 1..m : t[i] = s[i]
    BY <1>1, SubSeqProperties
  <1>3. e \in Frames
    <2>1. (s[m].broke \/ v = "FAIL") \in BOOLEAN
      OBVIOUS
    <2>2. s[m] \in Frames
      BY <1>1
    <2> QED
      BY <2>1, <2>2, AdvancedFrame
  <1>4. m \in 1..Len(t)
    BY <1>1, <1>2
  <1> HIDE DEF t
  <1>5. Ended(t, v) = [t EXCEPT ![m] = e]
    <2>1. t[m] = s[m] /\ t \in [1..m -> Frames]
      BY <1>1, <1>2, LenProperties
    <2> QED
      BY <1>2, <2>1 DEF Ended, Frames
  <1> HIDE DEF e
  <1>6. /\ Ended(t, v) \in Seq(Frames) /\ Len(Ended(t, v)) = m
        /\ \A i \in 1..m : Ended(t, v)[i] = IF i = m THEN e ELSE s[i]
    BY <1>2, <1>3, <1>4, <1>5, ExceptSeq
  <1>7. Advanced(s, Ended(t, v), m, v = "FAIL")
    BY <1>1, <1>6 DEF Advanced, e
  <1> QED
    BY <1>7, SubSeqFull DEF t

LEMMA AdvancedFields ==
  ASSUME NEW s \in Seq(Frames), NEW m \in 1..Len(s), NEW s2, NEW failed \in BOOLEAN,
         Advanced(s, s2, m, failed)
  PROVE  /\ s2[m].body = s[m].body /\ s2[m].iter = s[m].iter /\ s2[m].next = s[m].next + 1
         /\ s2[m].broke = (s[m].broke \/ failed) /\ s2[m].failed = s[m].failed
         /\ s2[m].before = s[m].before /\ s2[m].earlier = s[m].earlier
         /\ s[m] \in Frames /\ s2[m] \in Frames
  <1>1. s[m] \in Frames /\ m \in Nat \ {0}
    BY LenProperties, ElementOfSeq
  <1>2. s2[m] \in Frames
    BY <1>1, ElementOfSeq DEF Advanced
  <1> QED
    BY <1>1, <1>2 DEF Advanced, Frames

LEMMA BeforeTransitive ==
  ASSUME NEW x \in Places, NEW y \in Places, NEW z \in Places, Before(x, y), Before(y, z)
  PROVE  Before(x, z)
  <1>1. /\ x[2] \in Nat /\ y[2] \in Nat /\ z[2] \in Nat
        /\ x[3] \in Nat /\ y[3] \in Nat /\ z[3] \in Nat
    BY DEF Places
  <1>2. QED
    BY <1>1 DEF Before

(* A path that lies in the past stays there while the frames move on.      *)
LEMMA PastMoves ==
  ASSUME NEW s \in Seq(Frames), NEW t \in Seq(Frames), NEW m \in 1..Len(s), Len(t) = m,
         \A e \in 1..(m - 1) : PlaceOf(t[e]) = PlaceOf(s[e]),
         Before(PlaceOf(s[m]), PlaceOf(t[m])),
         NEW path \in Seq(Places), Past(path, s) \/ path = PathTo(s, m)
  PROVE  Past(path, t)
  <1>1. /\ Len(s) \in Nat /\ m \in Nat \ {0} /\ Len(path) \in Nat
        /\ \A e \in 1..Len(s) : PlaceOf(s[e]) \in Places
        /\ \A e \in 1..Len(t) : PlaceOf(t[e]) \in Places
        /\ \A e \in 1..Len(path) : path[e] \in Places
    BY LenProperties, ElementOfSeq, PlaceTyped
  <1>2. CASE Past(path, s)
    <2>1. PICK d \in 1..Len(s) :
            /\ d <= Len(path) /\ Before(path[d], PlaceOf(s[d]))
            /\ \A e \in 1..(d - 1) : path[e] = PlaceOf(s[e])
      BY <1>2 DEF Past
    <2>2. CASE d < m
      BY <1>1, <2>1, <2>2 DEF Past
    <2>3. CASE d = m
      <3>1. Before(path[m], PlaceOf(t[m]))
        <4>1. m \in 1..Len(path) /\ m \in 1..Len(s) /\ m \in 1..Len(t)
          BY <1>1, <2>1, <2>3
        <4>2. path[m] \in Places /\ PlaceOf(s[m]) \in Places /\ PlaceOf(t[m]) \in Places
          BY <1>1, <4>1
        <4>3. Before(path[m], PlaceOf(s[m]))
          BY <2>1, <2>3
        <4> QED
          BY <4>2, <4>3, BeforeTransitive
      <3>2. \A e \in 1..(m - 1) : path[e] = PlaceOf(t[e])
        BY <1>1, <2>1, <2>3
      <3> QED
        BY <1>1, <2>1, <2>3, <3>1, <3>2 DEF Past
    <2>4. CASE m < d
      <3>1. path[m] = PlaceOf(s[m]) /\ m <= Len(path)
        BY <1>1, <2>1, <2>4
      <3>2. \A e \in 1..(m - 1) : path[e] = PlaceOf(t[e])
        BY <1>1, <2>1, <2>4
      <3> QED
        BY <1>1, <3>1, <3>2 DEF Past
    <2> QED
      BY <1>1, <2>1, <2>2, <2>3, <2>4
  <1>3. CASE path = PathTo(s, m)
    <2>1. Len(path) = m /\ \A e \in 1..m : path[e] = PlaceOf(s[e])
      BY SMTT(20), <1>1, <1>3, PathProperties
    <2> QED
      BY <1>1, <2>1 DEF Past
  <1> QED
    BY <1>2, <1>3

LEMMA PastGrows ==
  ASSUME NEW s \in Seq(Frames), NEW f \in Frames, NEW path, Past(path, s)
  PROVE  Past(path, Append(s, f))
  <1>1. /\ Len(s) \in Nat /\ Len(Append(s, f)) = Len(s) + 1
        /\ \A e \in 1..Len(s) : Append(s, f)[e] = s[e]
    BY LenProperties, AppendProperties
  <1>2. PICK d \in 1..Len(s) :
          /\ d <= Len(path) /\ Before(path[d], PlaceOf(s[d]))
          /\ \A e \in 1..(d - 1) : path[e] = PlaceOf(s[e])
    BY DEF Past
  <1>3. d \in 1..Len(Append(s, f)) /\ Append(s, f)[d] = s[d]
    BY <1>1
  <1>4. \A e \in 1..(d - 1) : path[e] = PlaceOf(Append(s, f)[e])
    BY <1>1, <1>2
  <1> QED
    BY <1>2, <1>3, <1>4 DEF Past

(* Nothing that lies in the past is on the way to the present, or inside.  *)
LEMMA PastIsApart ==
  ASSUME NEW s \in Seq(Frames), NEW path \in Seq(Places), Past(path, s)
  PROVE  /\ \A d \in 0..Len(s) : path # PathTo(s, d)
         /\ \A x \in Places : path # Append(PathTo(s, Len(s)), x)
  <1>1. Len(s) \in Nat /\ Len(path) \in Nat /\ \A e \in 1..Len(s) : PlaceOf(s[e]) \in Places
    BY LenProperties, ElementOfSeq, PlaceTyped
  <1>2. PICK d \in 1..Len(s) :
          /\ d <= Len(path) /\ Before(path[d], PlaceOf(s[d]))
          /\ \A e \in 1..(d - 1) : path[e] = PlaceOf(s[e])
    BY DEF Past
  <1>3. path[d] # PlaceOf(s[d])
    BY <1>1, <1>2 DEF Before, Places
  <1>4. ASSUME NEW e \in 0..Len(s) PROVE path # PathTo(s, e)
    <2>1. Len(PathTo(s, e)) = e /\ \A i \in 1..e : PathTo(s, e)[i] = PlaceOf(s[i])
      BY PathProperties
    <2> QED
      BY <1>1, <1>2, <1>3, <2>1
  <1>5. ASSUME NEW x \in Places PROVE path # Append(PathTo(s, Len(s)), x)
    <2> DEFINE p == PathTo(s, Len(s))
    <2>1. p \in Seq(Places) /\ Len(p) = Len(s) /\ \A i \in 1..Len(s) : p[i] = PlaceOf(s[i])
      BY <1>1, PathProperties
    <2> HIDE DEF p
    <2>2. \A i \in 1..Len(s) : Append(p, x)[i] = PlaceOf(s[i])
      BY <2>1, AppendProperties
    <2> QED
      BY <1>1, <1>2, <1>3, <2>2 DEF p
  <1> QED
    BY <1>4, <1>5

(* What one more result changes: only the loop that it is in.              *)
Recorded(R, R2, p, x, failed) ==
  /\ \A q \in Seq(Places), y \in Places : Ran(R2, q, y) <=> Ran(R, q, y) \/ (q = p /\ y = x)
  /\ \A q \in Seq(Places) : Clean(R2, q) <=> Clean(R, q) /\ (q = p => ~failed)

LEMMA OneMoreResult ==
  ASSUME NEW R \in Seq(Result), NEW p \in Seq(Places), NEW x \in Places,
         NEW r \in Result, r.path = Append(p, x),
         NEW failed \in BOOLEAN, failed <=> r.verdict = "FAIL"
  PROVE  Recorded(R, Append(R, r), p, x, failed)
  <1> DEFINE R2 == Append(R, r)
  <1>1. r \in Result /\ r.path = Append(p, x)
    OBVIOUS
  <1>2. /\ R2 \in Seq(Result) /\ DOMAIN R2 = 1..(Len(R) + 1) /\ DOMAIN R = 1..Len(R)
        /\ \A k \in 1..Len(R) : R2[k] = R[k]
        /\ R2[Len(R) + 1] = r /\ Len(R) \in Nat
    <2>1. /\ R2 \in Seq(Result) /\ Len(R2) = Len(R) + 1 /\ R2[Len(R) + 1] = r
          /\ \A k \in 1..Len(R) : R2[k] = R[k]
      BY <1>1, AppendProperties
    <2> QED
      BY <2>1, LenProperties
  <1>3. \A q \in Seq(Places), y \in Places : Append(p, x) = Append(q, y) <=> q = p /\ y = x
    BY AppendInjective
  <1> HIDE DEF R2
  <1>3a. \A k : k \in DOMAIN R2 <=> k \in DOMAIN R \/ k = Len(R) + 1
    BY <1>2
  <1>3b. (\A k \in DOMAIN R : R2[k] = R[k]) /\ Len(R) + 1 \notin DOMAIN R
    BY <1>2
  <1>4. ASSUME NEW q \in Seq(Places), NEW y \in Places
        PROVE  Ran(R2, q, y) <=> Ran(R, q, y) \/ (q = p /\ y = x)
    <2>1. Ran(R2, q, y) <=> Ran(R, q, y) \/ r.path = Append(q, y)
      BY <1>2, <1>3a, <1>3b, Zenon DEF Ran
    <2> QED
      BY <1>1, <1>3, <2>1
  <1>5. ASSUME NEW q \in Seq(Places)
        PROVE  Clean(R2, q) <=> Clean(R, q) /\ (q = p => ~failed)
    <2>1. Clean(R2, q) <=> Clean(R, q) /\ \A y \in Places : r.path = Append(q, y) => r.verdict # "FAIL"
      <3>1. ASSUME Clean(R2, q), NEW k \in DOMAIN R, NEW y \in Places, R[k].path = Append(q, y)
            PROVE  R[k].verdict # "FAIL"
        BY <1>3a, <1>3b, <3>1 DEF Clean
      <3>2. ASSUME Clean(R2, q), NEW y \in Places, r.path = Append(q, y) PROVE r.verdict # "FAIL"
        BY <1>2, <1>3a, <3>2 DEF Clean
      <3>3. ASSUME Clean(R, q), \A y \in Places : r.path = Append(q, y) => r.verdict # "FAIL",
                   NEW k \in DOMAIN R2, NEW y \in Places, R2[k].path = Append(q, y)
            PROVE  R2[k].verdict # "FAIL"
        BY ZenonT(30), <1>2, <1>3a, <1>3b, <3>3 DEF Clean
      <3> QED
        BY <3>1, <3>2, <3>3 DEF Clean
    <2>2. (\A y \in Places : r.path = Append(q, y) => r.verdict # "FAIL") <=> (q = p => ~failed)
      <3>1. \A y \in Places : r.path = Append(q, y) <=> q = p /\ y = x
        BY <1>1, <1>3
      <3> QED
        BY <3>1, Zenon
    <2> QED
      BY <2>1, <2>2
  <1> QED
    BY <1>4, <1>5 DEF Recorded, R2

-----------------------------------------------------------------------------
LEMMA LastOfPath ==
  ASSUME NEW s \in Seq(Frames), NEW d \in 1..Len(s), NEW p
  PROVE  LastStep(p, PathTo(s, d)) = p.steps[s[d].body][s[d].next]
  <1>1. Len(s) \in Nat /\ d \in 0..Len(s) /\ d \in 1..d
    BY LenProperties
  <1>2. Len(PathTo(s, d)) = d /\ PathTo(s, d)[d] = PlaceOf(s[d])
    BY <1>1, PathProperties
  <1> QED
    BY <1>2 DEF LastStep, PlaceOf

(* The moved frame has passed its step, and nothing else has changed.      *)
LEMMA PassedOne ==
  ASSUME NEW p \in Program, NEW s \in Seq(Frames), NEW m \in 1..Len(s), NEW s2,
         NEW failed \in BOOLEAN, Advanced(s, s2, m, failed),
         s[m].next <= Len(p.steps[s[m].body]), s[m].iter >= 1
  PROVE  \A x \in Places : DoneBy(p, s2[m], x) <=> DoneBy(p, s[m], x) \/ x = PlaceOf(s[m])
  <1>1. /\ s2[m].body = s[m].body /\ s2[m].iter = s[m].iter /\ s2[m].next = s[m].next + 1
        /\ s[m] \in Frames /\ s2[m] \in Frames
    BY AdvancedFields
  <1>2. Len(p.steps[s[m].body]) \in Nat
    <2>1. p.steps[s[m].body] \in Seq(Step)
      BY <1>1 DEF Program, Frames
    <2> QED
      BY <2>1, LenProperties
  <1>3. SUFFICES ASSUME NEW x \in Places
                 PROVE  DoneBy(p, s2[m], x) <=> DoneBy(p, s[m], x) \/ x = PlaceOf(s[m])
    OBVIOUS
  <1>4. x = PlaceOf(s[m]) <=> x[1] = s[m].body /\ x[2] = s[m].iter /\ x[3] = s[m].next
    BY DEF PlaceOf, Places
  <1>5. x[2] \in Nat /\ x[3] \in Nat /\ s[m].iter \in Nat /\ s[m].next \in Nat \ {0}
    BY <1>1 DEF Places, Frames
  <1> QED
    BY <1>1, <1>2, <1>4, <1>5 DEF DoneBy

(* LoopRecorded depends on the places below the frame and its own fields.  *)
LEMMA LoopsBelow ==
  ASSUME NEW p, NEW s \in Seq(Frames), NEW m \in 1..Len(s), NEW s2,
         Len(s2) >= m, \A e \in 1..(m - 1) : s2[e] = s[e],
         NEW d \in 2..(m - 1)
  PROVE  \A R : LoopRecorded(p, s2, R, d) <=> LoopRecorded(p, s, R, d)
  <1>1. m \in Nat /\ d \in Nat /\ d - 1 \in Nat /\ s2[d] = s[d]
    BY LenProperties
  <1>2. \A e \in 1..(d - 1) : PlaceOf(s2[e]) = PlaceOf(s[e])
    BY <1>1
  <1>3. PathTo(s2, d - 1) = PathTo(s, d - 1)
    BY <1>1, <1>2, PathShared
  <1> QED
    BY <1>1, <1>3 DEF LoopRecorded

LEMMA LoopsAdvance ==
  ASSUME NEW p \in Program, NEW s \in Seq(Frames), NEW m \in 1..Len(s), NEW s2,
         NEW f \in BOOLEAN, Advanced(s, s2, m, f), s[m].next <= Len(p.steps[s[m].body]), m > 1 => s[m].iter >= 1,
         NEW R \in Seq(Result), NEW R2,
         Recorded(R, R2, PathTo(s, m - 1), PlaceOf(s[m]), f),
         LoopsRecorded(p, s, R)
  PROVE  LoopsRecorded(p, s2, R2)
  <1>1. /\ Len(s) \in Nat /\ m \in Nat \ {0} /\ Len(s2) = m /\ s2 \in Seq(Frames)
        /\ \A e \in 1..(m - 1) : s2[e] = s[e]
    BY LenProperties DEF Advanced
  <1>2. SUFFICES ASSUME NEW d \in 2..m PROVE LoopRecorded(p, s2, R2, d)
    BY <1>1 DEF LoopsRecorded
  <1>3. LoopRecorded(p, s, R, d)
    BY <1>1 DEF LoopsRecorded
  <1>4. /\ PathTo(s, d - 1) \in Seq(Places) /\ Len(PathTo(s, d - 1)) = d - 1
        /\ PathTo(s, m - 1) \in Seq(Places) /\ Len(PathTo(s, m - 1)) = m - 1
    <2>1. d - 1 \in 0..Len(s) /\ m - 1 \in 0..Len(s)
      BY <1>1
    <2> QED
      BY <2>1, PathProperties
  <1>5. PlaceOf(s[m]) \in Places
    BY PathExtended
  <1>6. CASE d < m
    <2>1. PathTo(s, d - 1) # PathTo(s, m - 1)
      BY <1>1, <1>4, <1>6
    <2>2. LoopRecorded(p, s, R2, d)
      BY <1>3, <1>4, <2>1 DEF LoopRecorded, Recorded
    <2>3. d \in 2..(m - 1)
      BY <1>1, <1>6
    <2> QED
      BY <1>1, <2>2, <2>3, LoopsBelow
  <1>7. CASE d = m
    <2>1. PathTo(s2, m - 1) = PathTo(s, m - 1)
      BY SMTT(20), <1>1, PathShared
    <2>2. \A x \in Places : DoneBy(p, s2[m], x) <=> DoneBy(p, s[m], x) \/ x = PlaceOf(s[m])
      <3>1. s[m].iter >= 1
        BY <1>1, <1>7
      <3> QED
        BY <3>1, PassedOne
    <2>3. s2[m].broke = (s[m].broke \/ f) /\ s2[m].failed = s[m].failed
      BY AdvancedFields
    <2>4. \A x \in Places : Ran(R2, PathTo(s, m - 1), x) <=> DoneBy(p, s2[m], x)
      BY <1>3, <1>4, <1>7, <2>2 DEF LoopRecorded, Recorded
    <2>5. Clean(R2, PathTo(s, m - 1)) <=> ~s2[m].failed /\ ~s2[m].broke
      BY <1>3, <1>4, <1>7, <2>3 DEF LoopRecorded, Recorded
    <2> QED
      BY <1>7, <2>1, <2>4, <2>5 DEF LoopRecorded
  <1> QED
    BY <1>1, <1>6, <1>7

LEMMA NestAdvances ==
  ASSUME NEW p \in Program, NEW dry \in BOOLEAN, NEW s \in Seq(Frames), NEW m \in 1..Len(s),
         NEW s2, NEW failed \in BOOLEAN, Advanced(s, s2, m, failed),
         s[m].next <= Len(p.steps[s[m].body]), Nested(p, dry, s)
  PROVE  Nested(p, dry, s2)
  <1>1. /\ Len(s) \in Nat /\ m \in Nat \ {0} /\ Len(s2) = m
        /\ \A e \in 1..(m - 1) : s2[e] = s[e]
    BY LenProperties DEF Advanced
  <1>2. /\ s2[m].body = s[m].body /\ s2[m].iter = s[m].iter /\ s2[m].next = s[m].next + 1
        /\ s2[m].failed = s[m].failed /\ s[m] \in Frames
    BY AdvancedFields
  <1>3. Len(p.steps[s[m].body]) \in Nat /\ s[m].next \in Nat
    <2>1. p.steps[s[m].body] \in Seq(Step)
      BY <1>2 DEF Program, Frames
    <2> QED
      BY <1>2, <2>1, LenProperties DEF Frames
  <1>4. ASSUME NEW d \in 1..m PROVE s2[d].next <= Len(p.steps[s2[d].body]) + 1
    <2>1. CASE d = m
      BY SMTT(20), <1>2, <1>3, <2>1
    <2>2. CASE d < m
      <3>1. s2[d] = s[d] /\ d \in 1..Len(s)
        BY <1>1, <2>2
      <3> QED
        BY <3>1 DEF Nested
    <2> QED
      BY <1>1, <2>1, <2>2
  <1>5. ASSUME NEW d \in 2..m PROVE Pushed(p, dry, s2, d)
    <2>1. Pushed(p, dry, s, d)
      BY <1>1 DEF Nested
    <2>2. s2[d].body = s[d].body /\ s2[d].iter = s[d].iter /\ s2[d].failed = s[d].failed
      BY <1>1, <1>2
    <2>3. s2[d - 1] = s[d - 1]
      BY <1>1
    <2>4. StopsAt(p, s2, d - 1) = StopsAt(p, s, d - 1)
      BY SMTT(20), <1>1 DEF StopsAt
    <2> QED
      BY <2>1, <2>2, <2>3, <2>4 DEF Pushed
  <1> QED
    BY <1>1, <1>4, <1>5 DEF Nested

(* What is recorded inside a loop that is over does not change any more.   *)
LEMMA TruthKept ==
  ASSUME NEW p, NEW dry, NEW R, NEW R2, NEW q \in Seq(Places), NEW x \in Places, NEW v,
         Recorded(R, R2, q, x, v), NEW r, r.path \in Seq(Places), r.path # q
  PROVE  Truthful(p, dry, R2, r) <=> Truthful(p, dry, R, r)
  <1>1. \A y \in Places : Ran(R2, r.path, y) <=> Ran(R, r.path, y)
    BY DEF Recorded
  <1>2. Clean(R2, r.path) <=> Clean(R, r.path)
    BY DEF Recorded
  <1> QED
    BY <1>1, <1>2, Zenon DEF Truthful

LEMMA FailuresStop ==
  ASSUME NEW p \in Program, NEW dry \in BOOLEAN, NEW s \in Seq(Frames), NEW m \in 1..Len(s),
         NEW r \in Result, r.path = PathTo(s, m), NEW R \in Seq(Result), NEW R2,
         R2 = Append(R, r), Nested(p, dry, s), ~(s[m].broke /\ StopsAt(p, s, m)),
         LoopsRecorded(p, s, R), AllStop(p, R)
  PROVE  AllStop(p, R2)
  <1> DEFINE q0 == PathTo(s, m - 1)
             x0 == PlaceOf(s[m])
  <1>1. q0 \in Seq(Places) /\ x0 \in Places /\ PathTo(s, m) = Append(q0, x0)
    BY PathExtended
  <1>2. r \in Result /\ r.path = Append(q0, x0)
    BY <1>1
  <1>3. R2 = Append(R, r)
    OBVIOUS
  <1>4. /\ DOMAIN R2 = 1..(Len(R) + 1) /\ DOMAIN R = 1..Len(R) /\ Len(R) \in Nat
        /\ \A k \in 1..Len(R) : R2[k] = R[k]
        /\ R2[Len(R) + 1] = r
    <2>1. /\ R2 \in Seq(Result) /\ Len(R2) = Len(R) + 1 /\ R2[Len(R) + 1] = r
          /\ \A k \in 1..Len(R) : R2[k] = R[k]
      BY <1>2, <1>3, AppendProperties
    <2> QED
      BY <2>1, LenProperties
  <1>5. SUFFICES ASSUME NEW i \in DOMAIN R2,
                        NEW q \in Seq(Places) \ {<<>>}, NEW x \in Places, NEW y \in Places,
                        NEW k \in DOMAIN R2,
                        R2[i].path = Append(q, x), R2[i].verdict = "FAIL",
                        LastStep(p, q).stopOnFail, R2[k].path = Append(q, y), k > i
                 PROVE  FALSE
    <2>1. \A i, k \in DOMAIN R2 : i \in Nat /\ k \in Nat /\ (k <= i \/ k > i)
      BY <1>4
    <2> QED
      BY <2>1 DEF StopsOnFailure, AllStop
  <1>6. i \in DOMAIN R /\ R2[i] = R[i]
    BY <1>4, <1>5
  <1>7. k = Len(R) + 1
    <2>1. SUFFICES ASSUME k \in DOMAIN R PROVE FALSE
      BY <1>4
    <2>2. StopsOnFailure(p, R, i) /\ R2[k] = R[k]
      BY <1>4, <1>6, <2>1 DEF AllStop
    <2>3. k <= i
      BY <1>5, <1>6, <2>1, <2>2 DEF StopsOnFailure
    <2> QED
      BY <1>4, <1>5, <2>3
  <1>8. q = q0
    <2>1. Append(q0, x0) = Append(q, y)
      BY <1>2, <1>4, <1>5, <1>7
    <2> HIDE DEF q0, x0
    <2> QED
      BY <1>1, <2>1, AppendInjective
  <1>9. m \in 2..Len(s)
    <2>1. q0 = <<>> <=> m = 1
      <3>1. m - 1 \in 0..Len(s) /\ Len(s) \in Nat /\ m \in Nat
        BY LenProperties
      <3>2. Len(q0) = m - 1 /\ q0 \in Seq(Places)
        BY <3>1, PathProperties
      <3> HIDE DEF q0
      <3> QED
        BY <3>1, <3>2, EmptySeq
    <2> QED
      BY <1>5, <1>8, <2>1, LenProperties
  <1>10. ~Clean(R, q0)
    BY <1>1, <1>5, <1>6, <1>8 DEF Clean
  <1>11. s[m].failed \/ s[m].broke
    <2>1. s[m] \in Frames
      BY ElementOfSeq
    <2>2. LoopRecorded(p, s, R, m)
      BY <1>9 DEF LoopsRecorded
    <2> HIDE DEF q0
    <2>3. Clean(R, q0) <=> ~s[m].failed /\ ~s[m].broke
      BY <2>2, Zenon DEF LoopRecorded, q0
    <2> QED
      BY <1>10, <2>1, <2>3 DEF Frames
  <1>12. LastStep(p, q0) = p.steps[s[m - 1].body][s[m - 1].next]
    <2>1. m - 1 \in 1..Len(s)
      BY <1>9, LenProperties
    <2> QED
      BY <2>1, LastOfPath
  <1>13. Pushed(p, dry, s, m)
    BY <1>9 DEF Nested
  <1>14. m - 1 # 0 /\ m # 1
    BY <1>9, LenProperties
  <1>15. StopsAt(p, s, m) = LastStep(p, q0).stopOnFail
    BY <1>12, <1>14 DEF StopsAt
  <1>16. CASE s[m].failed
    BY <1>5, <1>8, <1>12, <1>13, <1>16 DEF Pushed
  <1>17. CASE s[m].broke
    BY <1>5, <1>8, <1>15, <1>17
  <1> QED
    BY <1>11, <1>16, <1>17

LEMMA BeforeNext ==
  ASSUME NEW s \in Seq(Frames), NEW m \in 1..Len(s), NEW s2, NEW failed \in BOOLEAN,
         Advanced(s, s2, m, failed)
  PROVE  Before(PlaceOf(s[m]), PlaceOf(s2[m]))
  <1>1. /\ s2[m].iter = s[m].iter /\ s2[m].next = s[m].next + 1
        /\ s[m] \in Frames
    BY AdvancedFields
  <1> QED
    BY <1>1 DEF Before, PlaceOf, Frames

(* A step ends in frame m: what is recorded stays true of what is past.    *)
LEMMA ResultAdded ==
  ASSUME StackInv, NestInv, RecordInv, Live, NEW m \in 1..Len(stack),
         NEW v \in {"PASS", "FAIL", "SKIP"},
         stack' = Ended(SubSeq(stack, 1, m), v), prog' = prog, dryRun' = dryRun,
         results' = Append(results, [path |-> PathTo(stack, m), verdict |-> v]),
         stack[m].next <= Len(prog.steps[stack[m].body]),
         ~(stack[m].broke /\ StopsAt(prog, stack, m)),
         Truthful(prog, dryRun, results, [path |-> PathTo(stack, m), verdict |-> v])
  PROVE  RecordInv' /\ Nested(prog, dryRun, stack)'
  <1> DEFINE q == PathTo(stack, m - 1)
             x == PlaceOf(stack[m])
             r == [path |-> PathTo(stack, m), verdict |-> v]
             s2 == stack'
             R2 == results'
  <1>1. /\ prog \in Program /\ dryRun \in BOOLEAN /\ stack \in Seq(Frames) /\ results \in Seq(Result)
        /\ Nested(prog, dryRun, stack)
        /\ LoopsRecorded(prog, stack, results) /\ AllStop(prog, results)
        /\ \A i \in DOMAIN results : /\ Past(results[i].path, stack)
                                      /\ Truthful(prog, dryRun, results, results[i])
    BY DEF StackInv, NestInv, RecordInv
  <1>2. /\ q \in Seq(Places) /\ x \in Places /\ PathTo(stack, m) = Append(q, x)
        /\ Append(q, x) \in Seq(Places) \ {<<>>}
    <2>1. q \in Seq(Places) /\ x \in Places /\ PathTo(stack, m) = Append(q, x)
      BY <1>1, PathExtended
    <2> HIDE DEF q, x
    <2> QED
      BY <2>1, AppendProperties
  <1>3. PICK f \in BOOLEAN : f <=> v = "FAIL"
    OBVIOUS
  <1>4. /\ r \in Result /\ r.path = PathTo(stack, m) /\ r.path = Append(q, x)
        /\ f <=> r.verdict = "FAIL"
    BY <1>2, <1>3 DEF Result
  <1>5. R2 = Append(results, r) /\ Truthful(prog, dryRun, results, r)
    OBVIOUS
  <1>6. Advanced(stack, s2, m, f)
    <2>1. Advanced(stack, Ended(SubSeq(stack, 1, m), v), m, v = "FAIL")
      BY <1>1, EndedAdvances
    <2> QED
      BY <1>3, <2>1 DEF Advanced
  <1>7. stack[m].next <= Len(prog.steps[stack[m].body]) /\ ~(stack[m].broke /\ StopsAt(prog, stack, m))
    OBVIOUS
  <1> HIDE DEF q, x, r, s2, R2
  <1>8. Recorded(results, R2, q, x, f)
    BY <1>1, <1>2, <1>4, <1>5, OneMoreResult
  <1>9. Nested(prog, dryRun, s2)
    BY <1>1, <1>6, <1>7, NestAdvances
  <1>10. /\ R2 \in Seq(Result) /\ DOMAIN R2 = 1..(Len(results) + 1)
         /\ DOMAIN results = 1..Len(results) /\ Len(results) \in Nat
         /\ R2[Len(results) + 1] = r
         /\ \A k \in 1..Len(results) : R2[k] = results[k] /\ results[k] \in Result
    <2>1. /\ R2 \in Seq(Result) /\ Len(R2) = Len(results) + 1 /\ R2[Len(results) + 1] = r
          /\ \A k \in 1..Len(results) : R2[k] = results[k]
      BY <1>1, <1>4, <1>5, AppendProperties
    <2> QED
      BY <1>1, <2>1, LenProperties, ElementOfSeq
  <1>11. ASSUME NEW i \in DOMAIN R2 PROVE R2[i] = r \/ (i \in DOMAIN results /\ R2[i] = results[i])
    BY <1>10
  <1>12. \A i \in DOMAIN R2 : R2[i].path \in Seq(Places)
    <2>1. r.path \in Seq(Places) /\ \A k \in DOMAIN results : results[k].path \in Seq(Places)
      BY <1>4, <1>10 DEF Result
    <2> QED
      BY <1>11, <2>1
  <1>13. ASSUME NEW i \in DOMAIN R2 PROVE Past(R2[i].path, s2)
    <2> DEFINE path == R2[i].path
    <2>1. path \in Seq(Places) /\ (Past(path, stack) \/ path = PathTo(stack, m))
      BY <1>1, <1>4, <1>11, <1>12
    <2>2. Before(PlaceOf(stack[m]), PlaceOf(s2[m]))
      BY <1>1, <1>6, BeforeNext
    <2>3. /\ s2 \in Seq(Frames) /\ Len(s2) = m
          /\ \A e \in 1..(m - 1) : PlaceOf(s2[e]) = PlaceOf(stack[e])
      BY <1>6 DEF Advanced, PlaceOf
    <2> HIDE DEF path
    <2>4. Past(path, s2)
      BY <1>1, <2>1, <2>2, <2>3, PastMoves
    <2> QED
      BY <2>4 DEF path
  <1>14. m > 1 => stack[m].iter >= 1
    <2>1. SUFFICES ASSUME m > 1 PROVE stack[m].iter >= 1
      OBVIOUS
    <2>2. Pushed(prog, dryRun, stack, m)
      BY <1>1, <2>1, LenProperties DEF Nested
    <2>3. stack[m].iter \in 1..Rounds(prog, dryRun, prog.steps[stack[m - 1].body][stack[m - 1].next])
      BY <2>2 DEF Pushed
    <2> QED
      BY <2>3
  <1>15. LoopsRecorded(prog, s2, R2)
    BY <1>1, <1>6, <1>7, <1>8, <1>14, LoopsAdvance DEF q, x
  <1>16. ASSUME NEW i \in DOMAIN R2 PROVE Truthful(prog, dryRun, R2, R2[i])
    <2> DEFINE t == R2[i]
    <2>1. t.path # q
      <3>1. CASE i \in DOMAIN results /\ t = results[i]
        <4>1. Past(t.path, stack) /\ t.path \in Seq(Places) /\ m - 1 \in 0..Len(stack)
          BY <1>1, <1>12, <3>1, LenProperties
        <4> QED
          BY <1>1, <4>1, PastIsApart DEF q
      <3>2. CASE t = r
        <4>1. Len(q) \in Nat /\ Len(Append(q, x)) = Len(q) + 1
          BY <1>2, AppendProperties, LenProperties
        <4> QED
          BY <1>4, <3>2, <4>1
      <3> QED
        BY <1>11, <3>1, <3>2
    <2>2. t.path \in Seq(Places) /\ Truthful(prog, dryRun, results, t)
      BY <1>1, <1>5, <1>11, <1>12
    <2> HIDE DEF t
    <2>3. Truthful(prog, dryRun, R2, t)
      BY <1>2, <1>8, <2>1, <2>2, TruthKept
    <2> QED
      BY <2>3 DEF t
  <1>17. AllStop(prog, R2)
    BY <1>1, <1>4, <1>5, <1>7, FailuresStop
  <1> QED
    BY <1>9, <1>10, <1>13, <1>15, <1>16, <1>17 DEF RecordInv, s2, R2

-----------------------------------------------------------------------------
(* The steps of the runner.                                                *)

LEMMA StopsHere == StackInv => (StopsAt(prog, stack, Depth) = StopOnFail)
  BY TopFrame DEF StopsAt, StopOnFail, Loop, StepOf

LEMMA ListLength == StackInv => \A b \in Bodies : Len(prog.steps[b]) \in Nat
  BY LenProperties DEF StackInv, Program

LEMMA Running ==
  ASSUME StackInv, ~SectionOver
  PROVE  Top.next <= Len(prog.steps[Top.body]) /\ ~(Top.broke /\ StopsAt(prog, stack, Depth))
  <1>1. Top.next \in Nat /\ Len(prog.steps[Top.body]) \in Nat
    BY TopFrame, ListLength DEF Frames
  <1> QED
    BY <1>1, StopsHere DEF SectionOver

(* Nothing is recorded yet of the step that the innermost frame is at.     *)
LEMMA NothingYet ==
  ASSUME StackInv, RecordInv, Live, NEW x \in Places
  PROVE  ~Ran(results, PathTo(stack, Depth), x)
  <1>1. stack \in Seq(Frames) /\ \A k \in DOMAIN results : results[k].path \in Seq(Places)
    <2>1. results \in Seq(Result) /\ stack \in Seq(Frames)
      BY DEF RecordInv, StackInv
    <2>2. \A k \in DOMAIN results : results[k] \in Result
      BY <2>1, LenProperties, ElementOfSeq
    <2> QED
      BY <2>1, <2>2 DEF Result
  <1>2. \A k \in DOMAIN results : Past(results[k].path, stack)
    BY DEF RecordInv
  <1> QED
    BY <1>1, <1>2, PastIsApart DEF Ran, Depth

LEMMA EndStepRecords ==
  ASSUME StackInv, NestInv, RecordInv, Live, ~SectionOver, NEW v \in {"PASS", "FAIL", "SKIP"},
         EndStep(v), prog' = prog, dryRun' = dryRun, pc' = "stepping",
         Truthful(prog, dryRun, results, [path |-> Path, verdict |-> v])
  PROVE  RecordInv' /\ NestInv'
  <1>1. Depth \in 1..Len(stack) /\ Depth = Len(stack) /\ stack \in Seq(Frames) /\ Top = stack[Depth]
    BY TopFrame DEF Depth, StackInv, Top
  <1>2. SubSeq(stack, 1, Depth) = stack /\ Path = PathTo(stack, Depth)
    BY <1>1, SubSeqFull, PathNow
  <1>3. /\ stack' = Ended(SubSeq(stack, 1, Depth), v)
        /\ results' = Append(results, [path |-> PathTo(stack, Depth), verdict |-> v])
    BY <1>2 DEF EndStep
  <1>4. RecordInv' /\ Nested(prog, dryRun, stack)'
    BY <1>1, <1>2, <1>3, Running, ResultAdded
  <1> QED
    BY <1>4 DEF NestInv

(* A step that is no repeat has nothing inside it to tell of.              *)
LEMMA LeafRecords ==
  ASSUME StackInv, NestInv, RecordInv, Live, ~SectionOver, StepOf(Top).op # "repeat",
         NEW v \in {"PASS", "FAIL", "SKIP"},
         EndStep(v), prog' = prog, dryRun' = dryRun, pc' = "stepping"
  PROVE  RecordInv' /\ NestInv'
  <1>1. Depth \in 1..Len(stack) /\ Path = PathTo(stack, Depth) /\ stack \in Seq(Frames)
    BY TopFrame, PathNow DEF Depth, StackInv
  <1>2. LastStep(prog, Path) = StepOf(Top)
    BY <1>1, LastOfPath DEF StepOf, Top
  <1>3. StepOf(Top) \in Step
    BY StepTyped
  <1>4. Truthful(prog, dryRun, results, [path |-> Path, verdict |-> v])
    BY <1>2, <1>3 DEF Truthful
  <1> QED
    BY <1>4, EndStepRecords

LEMMA RefuseRecords ==
  ASSUME StackInv, NestInv, RecordInv, RefuseRepeat
  PROVE  RecordInv' /\ NestInv'
  <1>1. Depth \in 1..Len(stack) /\ Path = PathTo(stack, Depth) /\ stack \in Seq(Frames)
    BY TopFrame, PathNow DEF Depth, StackInv
  <1>2. Live /\ ~SectionOver
    BY DEF RefuseRepeat, At, Live
  <1> DEFINE st == StepOf(Top)
  <1>3. LastStep(prog, Path) = st
    BY <1>1, LastOfPath DEF StepOf, Top
  <1>4. st \in Step
    BY <1>2, StepTyped
  <1>5. \A x \in Places : ~InAll(prog, dryRun, st, x)
    <2>1. st.times = 0 \/ Len(prog.steps[st.body]) = 0
      BY <1>4, EmptySeq DEF RefuseRepeat, Malformed, Step
    <2>2. st.times = 0 => Rounds(prog, dryRun, st) = 0
      BY DEF Rounds
    <2> HIDE DEF st
    <2> QED
      BY <2>1, <2>2 DEF InAll, Places
  <1>6. \A x \in Places : ~Ran(results, Path, x)
    BY <1>1, <1>2, NothingYet
  <1>7. Truthful(prog, dryRun, results, [path |-> Path, verdict |-> "FAIL"])
    <2> HIDE DEF st
    <2> QED
      BY <1>3, <1>4, <1>5, <1>6 DEF Truthful
  <1>8. EndStep("FAIL") /\ prog' = prog /\ dryRun' = dryRun /\ pc' = "stepping"
    BY DEF RefuseRepeat, At
  <1> QED
    BY <1>2, <1>7, <1>8, EndStepRecords

(* Where nothing ends and no frame comes or goes.                          *)
LEMMA Unmoved ==
  ASSUME NestInv, RecordInv, stack' = stack, results' = results, prog' = prog, dryRun' = dryRun,
         Live' => Live
  PROVE  RecordInv' /\ Nested(prog, dryRun, stack)' /\ dryRun' \in BOOLEAN
  BY DEF RecordInv, NestInv

LEMMA EnterRecords ==
  ASSUME StackInv, BgInv, NestInv, RecordInv, EnterRepeat
  PROVE  RecordInv' /\ NestInv'
  <1> DEFINE st == StepOf(Top)
             f == Frame(st.body, 1, FALSE)
             s2 == Append(stack, f)
  <1>1. /\ Depth = Len(stack) /\ Depth \in Nat \ {0} /\ stack \in Seq(Frames) /\ Top = stack[Depth]
        /\ prog \in Program
    BY TopFrame DEF Depth, StackInv, Top
  <1>2. Live /\ ~SectionOver /\ st.op = "repeat" /\ ~Malformed
    BY DEF EnterRepeat, At, Live
  <1>3. st \in Step
    BY <1>2, StepTyped
  <1>4. /\ f \in Frames /\ f.body = st.body /\ f.next = 1 /\ f.iter = 1 /\ f.broke = FALSE
        /\ f.failed = FALSE
    <2>1. st.body \in Bodies
      BY <1>3 DEF Step
    <2> HIDE DEF st
    <2>2. f \in Frames
      BY <2>1, FrameTyped
    <2> QED
      BY <2>2 DEF Frame
  <1>5. /\ st.times > 0 /\ prog.steps[st.body] # <<>> /\ 1 \in 1..Rounds(prog, dryRun, st)
        /\ Len(prog.steps[st.body]) \in Nat
    <2>1. st.times \in Nat /\ st.body \in Bodies /\ st.times > 0 /\ prog.steps[st.body] # <<>>
      BY <1>2, <1>3 DEF Step, Malformed
    <2>2. Rounds(prog, dryRun, st) >= 1 /\ Rounds(prog, dryRun, st) \in Nat
      BY <2>1 DEF Rounds
    <2> QED
      BY <2>1, <2>2, ListLength
  <1>6. /\ Top.next <= Len(prog.steps[Top.body]) /\ ~(Top.broke /\ StopsAt(prog, stack, Depth))
        /\ st = prog.steps[Top.body][Top.next]
    BY <1>2, Running DEF StepOf
  <1>7. stack' = s2 /\ prog' = prog /\ dryRun' = dryRun /\ results' = results /\ pc' = pc
    BY DEF EnterRepeat
  <1> HIDE DEF st, f
  <1>8. /\ s2 \in Seq(Frames) /\ Len(s2) = Depth + 1 /\ s2[Depth + 1] = f
        /\ \A d \in 1..Depth : s2[d] = stack[d]
    BY <1>1, <1>4, AppendProperties
  <1> HIDE DEF s2
  <1>9. Nested(prog, dryRun, s2)
    <2>1. Nested(prog, dryRun, stack)
      BY DEF NestInv
    <2>2. ASSUME NEW d \in 1..(Depth + 1) PROVE s2[d].next <= Len(prog.steps[s2[d].body]) + 1
      <3>1. CASE d = Depth + 1
        BY <1>4, <1>5, <1>8, <3>1
      <3>2. CASE d \in 1..Depth
        BY <1>1, <1>8, <2>1, <3>2 DEF Nested
      <3> QED
        BY <1>1, <3>1, <3>2
    <2>3. ASSUME NEW d \in 2..(Depth + 1) PROVE Pushed(prog, dryRun, s2, d)
      <3>1. CASE d = Depth + 1
        <4>1. d - 1 = Depth /\ s2[d - 1] = Top /\ s2[d] = f
          BY <1>1, <1>8, <3>1
        <4>2. StopsAt(prog, s2, d - 1) = StopsAt(prog, stack, Depth)
          BY <1>1, <1>8, <4>1 DEF StopsAt
        <4> QED
          BY <1>2, <1>4, <1>5, <1>6, <4>1, <4>2 DEF Pushed
      <3>2. CASE d \in 2..Depth
        <4>1. Pushed(prog, dryRun, stack, d) /\ s2[d - 1] = stack[d - 1] /\ s2[d] = stack[d]
          BY <1>1, <1>8, <2>1, <3>2 DEF Nested
        <4>2. StopsAt(prog, s2, d - 1) = StopsAt(prog, stack, d - 1)
          BY <1>1, <1>8, <3>2 DEF StopsAt
        <4> QED
          BY <4>1, <4>2 DEF Pushed
      <3> QED
        BY <1>1, <3>1, <3>2
    <2> QED
      BY <1>8, <2>2, <2>3 DEF Nested
  <1>10. \A i \in DOMAIN results : Past(results[i].path, s2)
    <2>1. \A i \in DOMAIN results : Past(results[i].path, stack)
      BY <1>2 DEF RecordInv
    <2> QED
      BY <1>1, <1>4, <2>1, PastGrows DEF s2
  <1>11. LoopsRecorded(prog, s2, results)
    <2>1. SUFFICES ASSUME NEW d \in 2..(Depth + 1) PROVE LoopRecorded(prog, s2, results, d)
      BY <1>8 DEF LoopsRecorded
    <2>2. PathTo(s2, d - 1) = PathTo(stack, d - 1)
      <3>1. d - 1 \in Nat /\ \A e \in 1..(d - 1) : PlaceOf(s2[e]) = PlaceOf(stack[e])
        BY <1>1, <1>8 DEF PlaceOf
      <3> QED
        BY <3>1, PathShared
    <2>3. CASE d \in 2..Depth
      <3>1. LoopRecorded(prog, stack, results, d) /\ s2[d] = stack[d]
        BY <1>1, <1>2, <1>8, <2>3 DEF RecordInv, LoopsRecorded
      <3> QED
        BY <2>2, <3>1 DEF LoopRecorded
    <2>4. CASE d = Depth + 1
      <3>1. \A x \in Places : ~Ran(results, PathTo(stack, Depth), x)
        BY <1>2, NothingYet
      <3>2. \A x \in Places : ~DoneBy(prog, f, x)
        BY <1>4 DEF DoneBy, Places
      <3>3. Clean(results, PathTo(stack, Depth))
        BY <3>1 DEF Clean, Ran
      <3>4. PathTo(s2, d - 1) = PathTo(stack, Depth) /\ s2[d] = f
        BY <1>1, <1>8, <2>2, <2>4
      <3> QED
        BY <1>4, <3>1, <3>2, <3>3, <3>4 DEF LoopRecorded
    <2> QED
      BY <1>1, <2>3, <2>4
  <1>12. RecordInv'
    BY <1>7, <1>10, <1>11 DEF RecordInv
  <1>13. pc' = "stepping" /\ dryRun' \in BOOLEAN
    BY <1>7 DEF EnterRepeat, At, NestInv
  <1> QED
    BY <1>7, <1>9, <1>12, <1>13 DEF NestInv

(* The loop's frame of the next iteration.                                 *)
Renewed(s, s2, d) ==
  /\ s2 \in Seq(Frames) /\ Len(s2) = d
  /\ \A e \in 1..(d - 1) : s2[e] = s[e]
  /\ s2[d].body = s[d].body /\ s2[d].next = 1 /\ s2[d].iter = s[d].iter + 1
  /\ s2[d].broke = FALSE /\ (s2[d].failed <=> s[d].failed \/ s[d].broke)

(* The iteration that the frame d is in has run to its end.                *)
RanOut(p, s, d) == s[d].next = Len(p.steps[s[d].body]) + 1

LEMMA RenewedPast ==
  ASSUME NEW s \in Seq(Frames), NEW s2, NEW d \in 1..Len(s), Renewed(s, s2, d),
         NEW path \in Seq(Places), Past(path, s)
  PROVE  Past(path, s2)
  <1>1. s2 \in Seq(Frames) /\ Len(s2) = d /\ s[d] \in Frames
    BY ElementOfSeq DEF Renewed
  <1>2. \A e \in 1..(d - 1) : PlaceOf(s2[e]) = PlaceOf(s[e])
    BY DEF Renewed, PlaceOf
  <1>3. Before(PlaceOf(s[d]), PlaceOf(s2[d]))
    <2>1. s2[d].iter = s[d].iter + 1 /\ s[d].iter \in Nat
      BY <1>1 DEF Renewed, Frames
    <2> QED
      BY <2>1 DEF Before, PlaceOf
  <1> QED
    BY <1>1, <1>2, <1>3, PastMoves

LEMMA RenewedNests ==
  ASSUME NEW p \in Program, NEW dry \in BOOLEAN, NEW s \in Seq(Frames), NEW s2,
         NEW d \in 2..Len(s), Renewed(s, s2, d), Nested(p, dry, s),
         NEW st \in Step, st = p.steps[s[d - 1].body][s[d - 1].next],
         s[d].iter < Rounds(p, dry, st), ~(s[d].broke /\ st.stopOnFail)
  PROVE  Nested(p, dry, s2)
  <1>1. /\ d \in Nat /\ Len(s) \in Nat /\ s[d] \in Frames /\ Len(s2) = d
        /\ \A e \in 1..(d - 1) : s2[e] = s[e]
    BY LenProperties, ElementOfSeq DEF Renewed
  <1>2. ASSUME NEW e \in 1..d PROVE s2[e].next <= Len(p.steps[s2[e].body]) + 1
    <2>1. CASE e = d
      <3>1. s2[d].next = 1 /\ s2[d].body = s[d].body
        BY DEF Renewed
      <3>2. p.steps[s[d].body] \in Seq(Step)
        BY <1>1 DEF Frames, Program
      <3>3. Len(p.steps[s[d].body]) \in Nat
        BY <3>2, LenProperties
      <3> QED
        BY <2>1, <3>1, <3>3
    <2>2. CASE e \in 1..(d - 1)
      <3>1. s2[e] = s[e] /\ e \in 1..Len(s)
        BY SMTT(20), <1>1, <2>2
      <3> QED
        BY <3>1 DEF Nested
    <2> QED
      BY <1>1, <2>1, <2>2
  <1>3. ASSUME NEW e \in 2..d PROVE Pushed(p, dry, s2, e)
    <2>1. Pushed(p, dry, s, e) /\ s2[e - 1] = s[e - 1]
      BY <1>1 DEF Nested
    <2>2. StopsAt(p, s2, e - 1) = StopsAt(p, s, e - 1)
      BY SMTT(20), <1>1 DEF StopsAt
    <2>3. CASE e = d
      <3>1. s2[d].body = s[d].body /\ s2[d].iter = s[d].iter + 1
        BY DEF Renewed
      <3>2. s2[d].failed => ~st.stopOnFail
        BY <1>1, <2>1, <2>3 DEF Pushed, Renewed, Frames
      <3>3. s2[d].iter \in 1..Rounds(p, dry, st)
        <4>1. Rounds(p, dry, st) \in Nat /\ s[d].iter \in Nat
          BY <1>1 DEF Rounds, Step, Frames
        <4> QED
          BY SMTT(20), <3>1, <4>1
      <3> QED
        BY <2>1, <2>2, <2>3, <3>1, <3>2, <3>3 DEF Pushed
    <2>4. CASE e \in 2..(d - 1)
      <3>1. s2[e] = s[e]
        BY <1>1, <2>4
      <3> QED
        BY <2>1, <2>2, <3>1 DEF Pushed
    <2> QED
      BY <1>1, <2>3, <2>4
  <1> QED
    BY <1>1, <1>2, <1>3 DEF Nested

LEMMA RenewedLoops ==
  ASSUME NEW p \in Program, NEW s \in Seq(Frames), NEW s2, NEW d \in 2..Len(s),
         Renewed(s, s2, d), NEW R, LoopsRecorded(p, s, R), RanOut(p, s, d)
  PROVE  LoopsRecorded(p, s2, R)
  <1>1. /\ d \in Nat /\ Len(s) \in Nat /\ s[d] \in Frames /\ Len(s2) = d
        /\ \A e \in 1..(d - 1) : s2[e] = s[e]
    BY LenProperties, ElementOfSeq DEF Renewed
  <1>2. SUFFICES ASSUME NEW e \in 2..d PROVE LoopRecorded(p, s2, R, e)
    BY <1>1 DEF LoopsRecorded
  <1>3. PathTo(s2, e - 1) = PathTo(s, e - 1)
    <2>1. e - 1 \in Nat /\ \A i \in 1..(e - 1) : PlaceOf(s2[i]) = PlaceOf(s[i])
      BY <1>1 DEF PlaceOf
    <2> QED
      BY <2>1, PathShared
  <1>4. LoopRecorded(p, s, R, e)
    BY <1>1 DEF LoopsRecorded
  <1>5. CASE e \in 2..(d - 1)
    <2>1. s2[e] = s[e]
      BY <1>1, <1>5
    <2> QED
      BY <1>3, <1>4, <2>1 DEF LoopRecorded
  <1>6. CASE e = d
    <2>1. Len(p.steps[s[d].body]) \in Nat
      <3>1. p.steps[s[d].body] \in Seq(Step)
        BY <1>1 DEF Frames, Program
      <3> QED
        BY <3>1, LenProperties
    <2>2. ASSUME NEW x \in Places PROVE DoneBy(p, s2[d], x) <=> DoneBy(p, s[d], x)
      <3>1. /\ s2[d].body = s[d].body /\ s2[d].next = 1 /\ s2[d].iter = s[d].iter + 1
            /\ s[d].next = Len(p.steps[s[d].body]) + 1 /\ s[d].iter \in Nat
            /\ x[2] \in Nat /\ x[3] \in Nat
        <4>1. s[d].iter \in Nat /\ x[2] \in Nat /\ x[3] \in Nat
          BY <1>1 DEF Frames, Places
        <4> QED
          BY <4>1 DEF Renewed, RanOut
      <3> DEFINE L == Len(p.steps[s[d].body])
                 i == s[d].iter
                 b == s[d].body
      <3>2. DoneBy(p, s2[d], x) <=> /\ x[1] = b /\ 1 <= x[2] /\ x[3] \in 1..L
                                    /\ x[2] < i + 1 \/ (x[2] = i + 1 /\ x[3] < 1)
        BY <3>1 DEF DoneBy
      <3>3. DoneBy(p, s[d], x) <=> /\ x[1] = b /\ 1 <= x[2] /\ x[3] \in 1..L
                                   /\ x[2] < i \/ (x[2] = i /\ x[3] < L + 1)
        BY <3>1 DEF DoneBy
      <3>4. L \in Nat /\ i \in Nat /\ x[2] \in Nat /\ x[3] \in Nat
        BY <2>1, <3>1
      <3> HIDE DEF L, i, b
      <3> QED
        BY <3>2, <3>3, <3>4
    <2>3. (~s2[d].failed /\ ~s2[d].broke) <=> (~s[d].failed /\ ~s[d].broke)
      BY <1>1 DEF Renewed, Frames
    <2> QED
      BY <1>3, <1>4, <1>6, <2>2, <2>3 DEF LoopRecorded
  <1> QED
    BY <1>1, <1>5, <1>6

(* What the end of a repeat says of its results.                           *)
LEMMA LoopTruth ==
  ASSUME NEW p \in Program, NEW dry \in BOOLEAN, NEW f \in Frames, NEW st \in Step, NEW R,
         NEW path, LastStep(p, path) = st,
         f.body = st.body, f.iter \in 1..Rounds(p, dry, st), p.steps[st.body] # <<>>,
         f.next <= Len(p.steps[st.body]) + 1,
         f.next > Len(p.steps[st.body]) \/ (f.broke /\ st.stopOnFail),
         ~(f.iter < Rounds(p, dry, st) /\ ~(f.broke /\ st.stopOnFail)),
         \A x \in Places : Ran(R, path, x) <=> DoneBy(p, f, x),
         Clean(R, path) <=> ~f.failed /\ ~f.broke,
         NEW v, v = (IF f.failed \/ f.broke THEN "FAIL" ELSE "PASS")
  PROVE  Truthful(p, dry, R, [path |-> path, verdict |-> v])
  <1>1. p.steps[st.body] \in Seq(Step)
    BY DEF Program, Step
  <1>2. Len(p.steps[st.body]) \in Nat \ {0} /\ Rounds(p, dry, st) \in Nat
    BY <1>1, EmptySeq DEF Rounds, Step
  <1>3. f.iter \in Nat /\ f.next \in Nat
    BY DEF Frames
  <1>4. ASSUME ~(f.broke /\ st.stopOnFail), NEW x \in Places
        PROVE  Ran(R, path, x) <=> InAll(p, dry, st, x)
    <2>1. f.next = Len(p.steps[st.body]) + 1 /\ f.iter = Rounds(p, dry, st)
      BY <1>2, <1>3, <1>4
    <2>2. x[2] \in Nat /\ x[3] \in Nat
      BY DEF Places
    <2>3. DoneBy(p, f, x) <=> InAll(p, dry, st, x)
      BY SMTT(20), <1>2, <2>1, <2>2 DEF DoneBy, InAll
    <2> QED
      BY <2>3
  <1>5. \E x \in Places : InAll(p, dry, st, x)
    <2> DEFINE x == <<st.body, 1, 1>>
    <2>1. x \in Places /\ x[1] = st.body /\ x[2] = 1 /\ x[3] = 1
      BY DEF Places, Step
    <2>2. 1 \in 1..Len(p.steps[st.body]) /\ 1 \in 1..Rounds(p, dry, st)
      BY <1>2, <1>3
    <2> HIDE DEF x
    <2> QED
      BY <2>1, <2>2 DEF InAll
  <1>6. v = "PASS" <=> ~f.failed /\ ~f.broke
    BY DEF Frames
  <1> DEFINE r == [path |-> path, verdict |-> v]
  <1>7. r.path = path /\ r.verdict = v
    OBVIOUS
  <1>8. st.stopOnFail \in BOOLEAN
    BY DEF Step
  <1> HIDE DEF r
  <1>9. (r.verdict = "PASS") <=> /\ \A x \in Places : Ran(R, path, x) <=> InAll(p, dry, st, x)
                                 /\ \E x \in Places : InAll(p, dry, st, x)
                                 /\ Clean(R, path)
    BY <1>4, <1>5, <1>6, <1>7
  <1>10. ~st.stopOnFail => \A x \in Places : Ran(R, path, x) <=> InAll(p, dry, st, x)
    BY <1>4
  <1>11. Truthful(p, dry, R, r)
    BY <1>7, <1>9, <1>10 DEF Truthful
  <1> QED
    BY <1>11 DEF r

(* The innermost frame is in a loop of the repeat step below it.           *)
LEMMA LoopHead ==
  ASSUME StackInv, NestInv, Depth > 1
  PROVE  /\ Depth \in 2..Len(stack) /\ Depth - 1 \in 1..Len(stack)
         /\ Top = stack[Depth] /\ Top \in Frames
         /\ Len(prog.steps[Top.body]) \in Nat /\ Top.next <= Len(prog.steps[Top.body]) + 1
         /\ Pushed(prog, dryRun, stack, Depth) /\ Loop \in Step
         /\ Times = Rounds(prog, dryRun, Loop)
  <1>1. Depth = Len(stack) /\ Depth \in Nat /\ stack \in Seq(Frames) /\ Top = stack[Depth] /\ Top \in Frames
    BY TopFrame DEF Depth, StackInv, Top
  <1>2. Len(prog.steps[Top.body]) \in Nat /\ Top.next <= Len(prog.steps[Top.body]) + 1
    BY <1>1, ListLength DEF Frames, NestInv, Nested
  <1>3. Pushed(prog, dryRun, stack, Depth)
    BY <1>1 DEF NestInv, Nested
  <1>4. Loop \in Step
    <2> DEFINE o == stack[Depth - 1]
    <2>1. o \in Frames
      BY <1>1, ElementOfSeq
    <2>2. o.body \in Bodies /\ o.next \in Nat \ {0} /\ o.next <= Len(prog.steps[o.body])
      BY <1>3, <2>1 DEF Pushed, Frames
    <2>3. prog.steps[o.body] \in Seq(Step)
      BY <2>2 DEF StackInv, Program
    <2> HIDE DEF o
    <2>4. o.next \in 1..Len(prog.steps[o.body])
      BY <2>2, <2>3, LenProperties
    <2>5. prog.steps[o.body][o.next] \in Step
      BY <2>3, <2>4, ElementOfSeq
    <2> QED
      BY <2>5 DEF o, Loop, StepOf
  <1>5. Loop.times > 0 /\ Loop.times \in Nat
    BY <1>3, <1>4 DEF Pushed, Step, Loop, StepOf
  <1>6. Times = Rounds(prog, dryRun, Loop)
    BY <1>5 DEF Times, Rounds
  <1> QED
    BY <1>1, <1>2, <1>3, <1>4, <1>6

LEMMA ContinueRecords ==
  ASSUME StackInv, BgInv, NestInv, RecordInv, Live, Depth > 1, SectionOver,
         NEW failed \in BOOLEAN, failed <=> Top.failed \/ Top.broke, Continue(failed),
         UNCHANGED <<prog, dryRun>>, pc' = "stepping"
  PROVE  RecordInv' /\ NestInv'
  <1> DEFINE outer == SubSeq(stack, 1, Depth - 1)
             f == Frame(Top.body, Top.iter + 1, failed)
             v == IF failed THEN "FAIL" ELSE "PASS"
             p == PathTo(stack, Depth - 1)
  <1>1. /\ prog \in Program /\ dryRun \in BOOLEAN /\ stack \in Seq(Frames) /\ results \in Seq(Result)
        /\ Nested(prog, dryRun, stack) /\ LoopsRecorded(prog, stack, results)
        /\ \A i \in DOMAIN results : Past(results[i].path, stack)
    BY DEF StackInv, NestInv, RecordInv
  <1>2. /\ Depth \in 2..Len(stack) /\ Depth - 1 \in 1..Len(stack) /\ Depth = Len(stack)
        /\ Top = stack[Depth] /\ Top \in Frames
        /\ Len(prog.steps[Top.body]) \in Nat /\ Top.next <= Len(prog.steps[Top.body]) + 1
        /\ Pushed(prog, dryRun, stack, Depth) /\ Loop \in Step
        /\ Times = Rounds(prog, dryRun, Loop)
    BY LoopHead DEF Depth
  <1>3. Loop = prog.steps[stack[Depth - 1].body][stack[Depth - 1].next]
    BY DEF Loop, StepOf
  <1>4. StopOnFail <=> Loop.stopOnFail
    BY DEF StopOnFail
  <1>5. CASE Top.iter < Times /\ ~(Top.broke /\ StopOnFail)
    <2> DEFINE s2 == Append(outer, f)
    <2>1. stack' = s2 /\ results' = results
      BY <1>5 DEF Continue
    <2>2. RanOut(prog, stack, Depth)
      BY <1>2, <1>5 DEF RanOut, SectionOver, Frames
    <2>3. Renewed(stack, s2, Depth)
      <3>1. Top.body \in Bodies /\ Top.iter + 1 \in Nat
        BY <1>2 DEF Frames
      <3>2. f \in Frames
        BY <3>1, FrameTyped
      <3>3. /\ f.body = Top.body /\ f.next = 1 /\ f.iter = Top.iter + 1 /\ f.broke = FALSE
            /\ (f.failed <=> Top.failed \/ Top.broke)
        BY DEF Frame
      <3>4. \A i \in 1..(Depth - 1) : stack[i] \in Frames
        BY <1>1, <1>2, ElementOfSeq
      <3>5. outer \in Seq(Frames) /\ Len(outer) = Depth - 1 /\ \A i \in 1..(Depth - 1) : outer[i] = stack[i]
        BY <1>2, <3>4, SubSeqProperties
      <3> HIDE DEF outer, f
      <3>6. /\ s2 \in Seq(Frames) /\ Len(s2) = Depth /\ s2[Depth] = f
            /\ \A i \in 1..(Depth - 1) : s2[i] = stack[i]
        BY <1>2, <3>2, <3>5, AppendProperties
      <3> HIDE DEF s2
      <3> QED
        BY <1>2, <3>3, <3>6 DEF Renewed
    <2> HIDE DEF s2
    <2>4. Nested(prog, dryRun, s2)
      <3>1. Top.iter < Rounds(prog, dryRun, Loop) /\ ~(Top.broke /\ Loop.stopOnFail)
        BY <1>2, <1>4, <1>5
      <3> QED
        BY <1>1, <1>2, <1>3, <2>3, <3>1, RenewedNests
    <2>5. LoopsRecorded(prog, s2, results)
      BY <1>1, <1>2, <2>2, <2>3, RenewedLoops
    <2>6. \A i \in DOMAIN results : Past(results[i].path, s2)
      <3>1. \A i \in DOMAIN results : results[i].path \in Seq(Places)
        <4>1. \A i \in DOMAIN results : results[i] \in Result
          BY <1>1, LenProperties, ElementOfSeq
        <4> QED
          BY <4>1 DEF Result
      <3>2. Depth \in 1..Len(stack)
        BY <1>2
      <3> QED
        BY <1>1, <2>3, <3>1, <3>2, RenewedPast
    <2>7. RecordInv'
      BY <2>1, <2>5, <2>6 DEF RecordInv
    <2> QED
      BY <2>1, <2>4, <2>7, <1>1 DEF NestInv
  <1>6. CASE ~(Top.iter < Times /\ ~(Top.broke /\ StopOnFail))
    <2>1. SubSeq(Path, 1, Depth - 1) = p
      BY PathNow
    <2>2. /\ stack' = Ended(outer, v)
          /\ results' = Append(results, [path |-> p, verdict |-> v])
      BY <1>6, <2>1 DEF Continue
    <2>3. /\ stack[Depth - 1].next <= Len(prog.steps[stack[Depth - 1].body])
          /\ ~(stack[Depth - 1].broke /\ StopsAt(prog, stack, Depth - 1))
          /\ Top.body = Loop.body /\ Top.iter \in 1..Rounds(prog, dryRun, Loop)
          /\ prog.steps[Loop.body] # <<>>
      BY <1>2, <1>3 DEF Pushed
    <2>4. LastStep(prog, p) = Loop
      BY <1>1, <1>2, <1>3, LastOfPath
    <2>5. /\ \A x \in Places : Ran(results, p, x) <=> DoneBy(prog, Top, x)
          /\ Clean(results, p) <=> ~Top.failed /\ ~Top.broke
      <3>1. LoopRecorded(prog, stack, results, Depth)
        BY <1>1, <1>2 DEF LoopsRecorded
      <3> HIDE DEF p
      <3> QED
        BY <1>2, <3>1 DEF LoopRecorded, p
    <2>6. v = (IF Top.failed \/ Top.broke THEN "FAIL" ELSE "PASS") /\ v \in {"PASS", "FAIL", "SKIP"}
      OBVIOUS
    <2>7. Top.next > Len(prog.steps[Loop.body]) \/ (Top.broke /\ Loop.stopOnFail)
      BY <1>4, <2>3 DEF SectionOver
    <2>8. ~(Top.iter < Rounds(prog, dryRun, Loop) /\ ~(Top.broke /\ Loop.stopOnFail))
      BY <1>2, <1>4, <1>6
    <2>9. Top.next <= Len(prog.steps[Loop.body]) + 1
      BY <1>2, <2>3
    <2> HIDE DEF p, v, outer, f
    <2>10. Truthful(prog, dryRun, results, [path |-> p, verdict |-> v])
      BY <1>1, <1>2, <2>3, <2>4, <2>5, <2>6, <2>7, <2>8, <2>9, LoopTruth
    <2>11. RecordInv' /\ Nested(prog, dryRun, stack)'
      BY <1>2, <2>2, <2>3, <2>6, <2>10, ResultAdded DEF p, outer
    <2> QED
      BY <1>1, <2>11 DEF NestInv
  <1> QED
    BY <1>5, <1>6

LEMMA RecordStep == IInv /\ NestInv /\ RecordInv /\ [Next]_vars => NestInv' /\ RecordInv'
  <1> SUFFICES ASSUME IInv, NestInv, RecordInv, [Next]_vars PROVE NestInv' /\ RecordInv'
    OBVIOUS
  <1>1. StackInv /\ BgInv
    BY DEF IInv
  <1>2. ASSUME stack' = stack, results' = results, prog' = prog, dryRun' = dryRun, pc' = pc
        PROVE  NestInv' /\ RecordInv'
    <2>1. RecordInv' /\ Nested(prog, dryRun, stack)' /\ dryRun' \in BOOLEAN
      BY <1>2, Unmoved DEF Live
    <2>2. /\ pc \in {"cleaning", "cleaned"} => SectionOver /\ Top.broke
          /\ pc = "joining" => ~SectionOver /\ StepOf(Top).op = "stop_background"
      BY DEF NestInv
    <2>3. (SectionOver' <=> SectionOver) /\ Top' = Top /\ StepOf(Top)' = StepOf(Top)
      BY <1>2 DEF SectionOver, StopOnFail, Loop, StepOf, Top, Depth
    <2> QED
      BY <1>2, <2>1, <2>2, <2>3 DEF NestInv
  <1>3. CASE Skip \/ (\E v \in {"PASS", "FAIL"} : Leaf(v)) \/ StartBackground \/ StopUnknown
    <2>1. \E v \in {"PASS", "FAIL", "SKIP"} : EndStep(v)
      BY <1>3 DEF Skip, Leaf, StartBackground, StopUnknown
    <2>2. /\ Live /\ ~SectionOver /\ StepOf(Top).op # "repeat"
          /\ prog' = prog /\ dryRun' = dryRun /\ pc' = "stepping"
      BY <1>3 DEF Skip, Leaf, StartBackground, StopUnknown, At, Live
    <2> QED
      BY <1>1, <2>1, <2>2, LeafRecords
  <1>4. CASE StopReturns
    <2>1. \E v \in {"PASS", "FAIL", "SKIP"} : EndStep(v)
      BY <1>4 DEF StopReturns
    <2>2. /\ Live /\ ~SectionOver /\ StepOf(Top).op # "repeat"
          /\ prog' = prog /\ dryRun' = dryRun /\ pc' = "stepping"
      BY <1>4 DEF StopReturns, NestInv, Live
    <2> QED
      BY <1>1, <2>1, <2>2, LeafRecords
  <1>5. CASE RefuseRepeat
    BY <1>1, <1>5, RefuseRecords
  <1>6. CASE EnterRepeat
    BY <1>1, <1>6, EnterRecords
  <1>7. CASE LeafPanics
    <2>1. /\ stack' = <<stack[1]>> /\ pc' = "ending" /\ results' = results
          /\ prog' = prog /\ dryRun' = dryRun
      BY <1>7 DEF LeafPanics
    <2>2. Depth \in Nat \ {0} /\ Depth = Len(stack)
      BY <1>1, TopFrame DEF Depth
    <2>3. Nested(prog, dryRun, stack')
      <3>1. Len(stack') = 1 /\ stack'[1] = stack[1]
        BY <2>1
      <3>2. stack[1].next <= Len(prog.steps[stack[1].body]) + 1
        BY <2>2 DEF NestInv, Nested
      <3> QED
        BY <3>1, <3>2 DEF Nested
    <2>4. RecordInv'
      BY <2>1 DEF RecordInv, Live
    <2> QED
      BY <2>1, <2>3, <2>4 DEF NestInv
  <1>8. CASE IterationHolds
    <2>2. Top.failed \in BOOLEAN
      BY <1>1, TopFrame DEF Frames
    <2>3. /\ Live /\ Depth > 1 /\ SectionOver /\ (Top.failed <=> Top.failed \/ Top.broke)
          /\ Continue(Top.failed) /\ UNCHANGED <<prog, dryRun>> /\ pc' = "stepping"
      BY <1>8 DEF IterationHolds, Live
    <2> QED
      BY <1>1, <2>2, <2>3, ContinueRecords
  <1>9. CASE AfterFailure
    <2>1. /\ Live /\ Depth > 1 /\ SectionOver /\ (TRUE <=> Top.failed \/ Top.broke)
          /\ Continue(TRUE) /\ UNCHANGED <<prog, dryRun>> /\ pc' = "stepping"
      BY <1>1, <1>9 DEF AfterFailure, Live, NestInv, StackInv
    <2> QED
      BY <1>1, <2>1, ContinueRecords
  <1>10. CASE StopBackground \/ IterationFails \/ Cleaned \/ EndSection \/ Finish
    <2>1. stack' = stack /\ results' = results /\ prog' = prog /\ dryRun' = dryRun
      BY <1>10 DEF StopBackground, IterationFails, Cleaned, EndSection, Finish
    <2>2. Live' => Live
      BY <1>10 DEF StopBackground, IterationFails, Cleaned, EndSection, Finish, Live, At
    <2>3. RecordInv' /\ Nested(prog, dryRun, stack)' /\ dryRun' \in BOOLEAN
      BY <2>1, <2>2, Unmoved
    <2>4. (SectionOver' <=> SectionOver) /\ Top' = Top /\ StepOf(Top)' = StepOf(Top)
      BY <2>1 DEF SectionOver, StopOnFail, Loop, StepOf, Top, Depth
    <2>5. pc' \in {"cleaning", "cleaned"} => SectionOver /\ Top.broke
      BY <1>10 DEF StopBackground, IterationFails, Cleaned, EndSection, Finish, NestInv
    <2>6. pc' = "joining" => ~SectionOver /\ StepOf(Top).op = "stop_background"
      BY <1>10 DEF StopBackground, IterationFails, Cleaned, EndSection, Finish, NestInv, At
    <2> QED
      BY <2>3, <2>4, <2>5, <2>6 DEF NestInv
  <1>11. CASE JoinSince \/ JoinLeft \/ \E n \in BgNames : CancelSince(n) \/ CancelLeft(n)
    BY <1>2, <1>11 DEF JoinSince, JoinLeft, CancelSince, CancelLeft
  <1>12. CASE Environment
    BY <1>2, <1>12 DEF Environment, Observes, Ends, Obeys
  <1>13. CASE UNCHANGED vars
    BY <1>2, <1>13 DEF vars
  <1> QED
    BY <1>3, <1>4, <1>5, <1>6, <1>7, <1>8, <1>9, <1>10, <1>11, <1>12, <1>13 DEF Next, Runner

LEMMA RecordInitially == Init => NestInv /\ RecordInv
  <1> SUFFICES ASSUME Init PROVE NestInv /\ RecordInv
    OBVIOUS
  <1>1. /\ Len(stack) = 1 /\ stack[1].body = Root /\ stack[1].next = 1 /\ results = <<>>
        /\ pc = "stepping" /\ dryRun \in BOOLEAN /\ prog \in Program
    BY RepeatAssumption DEF Init
  <1>2. Len(prog.steps[Root]) \in Nat
    <2>1. prog.steps[Root] \in Seq(Step)
      BY <1>1, RepeatAssumption DEF Program
    <2> QED
      BY <2>1, LenProperties
  <1>3. NestInv
    BY <1>1, <1>2 DEF NestInv, Nested
  <1>4. results \in Seq(Result) /\ DOMAIN results = {}
    BY <1>1, EmptySeq
  <1>5. RecordInv
    BY <1>1, <1>4 DEF RecordInv, LoopsRecorded, AllStop
  <1> QED
    BY <1>3, <1>5

THEOREM Recording == Spec => [](NestInv /\ RecordInv)
  <1>1. IInv /\ NestInv /\ RecordInv /\ [Next]_vars => (NestInv /\ RecordInv)'
    BY RecordStep
  <1>2. Init => NestInv /\ RecordInv
    BY RecordInitially
  <1> QED
    BY <1>1, <1>2, Invariance, PTL DEF Spec

LEMMA InsideMeans ==
  ASSUME NEW path \in Seq(Places), NEW p \in Seq(Places)
  PROVE  /\ (Len(path) = Len(p) + 1 /\ SubSeq(path, 1, Len(p)) = p) <=>
               \E x \in Places : path = Append(p, x)
         /\ \A x \in Places : path = Append(p, x) => path[Len(p) + 1] = x
  <1>1. Len(path) \in Nat /\ Len(p) \in Nat
    BY LenProperties
  <1>2. ASSUME NEW x \in Places, path = Append(p, x)
        PROVE  /\ Len(path) = Len(p) + 1 /\ SubSeq(path, 1, Len(p)) = p
               /\ path[Len(p) + 1] = x
    <2>1. /\ Len(path) = Len(p) + 1 /\ path[Len(p) + 1] = x
          /\ \A i \in 1..Len(p) : path[i] = p[i]
      BY <1>2, AppendProperties
    <2>2. \A i \in 1..Len(p) : path[i] \in Places
      BY <2>1, ElementOfSeq
    <2>3. /\ SubSeq(path, 1, Len(p)) \in Seq(Places) /\ Len(SubSeq(path, 1, Len(p))) = Len(p)
          /\ \A i \in 1..Len(p) : SubSeq(path, 1, Len(p))[i] = path[i]
      BY <1>1, <2>2, SubSeqProperties
    <2>4. SubSeq(path, 1, Len(p)) = p
      BY <2>1, <2>3, SeqEqual
    <2> QED
      BY <2>1, <2>4
  <1>3. ASSUME Len(path) = Len(p) + 1, SubSeq(path, 1, Len(p)) = p
        PROVE  \E x \in Places : path = Append(p, x)
    <2>1. path # <<>>
      BY <1>1, <1>3, EmptySeq
    <2>2. PICK q \in Seq(Places), x \in Places : path = Append(q, x)
      BY <2>1, SequenceEmptyOrAppend
    <2>3. /\ Len(q) \in Nat /\ Len(q) = Len(p) /\ \A i \in 1..Len(q) : path[i] = q[i]
      BY <1>1, <1>3, <2>2, AppendProperties, LenProperties
    <2>4. \A i \in 1..Len(p) : path[i] \in Places
      BY <2>3, ElementOfSeq
    <2>5. \A i \in 1..Len(p) : SubSeq(path, 1, Len(p))[i] = path[i]
      BY <1>1, <2>4, SubSeqProperties
    <2>6. q = p
      BY <1>3, <2>3, <2>5, SeqEqual
    <2> QED
      BY <2>2, <2>6
  <1> QED
    BY <1>2, <1>3

(* RepeatIsHonest and FailFast speak of sets of places.                    *)
LEMMA SetsOfPlaces ==
  ASSUME RecordInv, NEW p \in Seq(Places)
  PROVE  /\ \A k : k \in Inside(p) <=> k \in DOMAIN results /\ \E x \in Places : results[k].path = Append(p, x)
         /\ RanIn(p) = {x \in Places : Ran(results, p, x)}
         /\ \A st \in Step : AllOf(st) = {x \in Places : InAll(prog, dryRun, st, x)}
  <1>1. \A k \in DOMAIN results : results[k].path \in Seq(Places)
    <2>1. results \in Seq(Result)
      BY DEF RecordInv
    <2>2. \A k \in DOMAIN results : results[k] \in Result
      BY <2>1, LenProperties, ElementOfSeq
    <2> QED
      BY <2>2 DEF Result
  <1>2. ASSUME NEW k
        PROVE  k \in Inside(p) <=> k \in DOMAIN results /\ \E x \in Places : results[k].path = Append(p, x)
    BY <1>1, InsideMeans DEF Inside
  <1>3. ASSUME NEW y PROVE y \in RanIn(p) <=> y \in Places /\ Ran(results, p, y)
    <2>1. y \in RanIn(p) <=> \E k \in Inside(p) : y = results[k].path[Len(p) + 1]
      BY DEF RanIn
    <2>2. \A k \in DOMAIN results, x \in Places :
            results[k].path = Append(p, x) => results[k].path[Len(p) + 1] = x
      BY <1>1, InsideMeans
    <2> QED
      BY <1>2, <2>1, <2>2 DEF Ran
  <1>4. ASSUME NEW st \in Step, NEW y PROVE y \in AllOf(st) <=> y \in Places /\ InAll(prog, dryRun, st, y)
    <2>1. y \in AllOf(st) <=> \E t \in 1..Rounds(prog, dryRun, st), i \in 1..Len(prog.steps[st.body]) :
                                y = <<st.body, t, i>>
      BY DEF AllOf, Rounds
    <2>2. st.body \in Bodies /\ Rounds(prog, dryRun, st) \in Nat
      BY DEF Step, Rounds
    <2> QED
      BY <2>1, <2>2 DEF InAll, Places
  <1>5. RanIn(p) = {x \in Places : Ran(results, p, x)}
    BY <1>3
  <1>6. \A st \in Step : AllOf(st) = {x \in Places : InAll(prog, dryRun, st, x)}
    BY <1>4
  <1> QED
    BY <1>2, <1>5, <1>6

(* The verdict of a repeat step is right: it is green exactly if each step *)
(* of each of its iterations has run and none has failed.                  *)
THEOREM Honesty == Spec => []RepeatIsHonest
  <1>1. RecordInv => RepeatIsHonest
    <2> SUFFICES ASSUME RecordInv, NEW i \in DOMAIN results,
                        RepeatAt(results[i].path).op = "repeat"
                 PROVE  LET p == results[i].path
                            st == RepeatAt(p)
                            clean == \A k \in Inside(p) : results[k].verdict # "FAIL"
                        IN results[i].verdict = "PASS" <=> RanIn(p) = AllOf(st) /\ AllOf(st) # {} /\ clean
      BY DEF RepeatIsHonest
    <2> DEFINE p == results[i].path
               st == LastStep(prog, p)
    <2>1. p \in Seq(Places)
      <3>1. results[i] \in Result
        BY LenProperties, ElementOfSeq DEF RecordInv
      <3> QED
        BY <3>1 DEF Result
    <2>2. RepeatAt(p) = st
      BY DEF RepeatAt, StepOf, LastStep
    <2>3. Truthful(prog, dryRun, results, results[i])
      BY DEF RecordInv
    <2>4. st \in Step
      BY <2>3 DEF Truthful
    <2>5. (results[i].verdict = "PASS") <=>
            /\ \A x \in Places : Ran(results, p, x) <=> InAll(prog, dryRun, st, x)
            /\ \E x \in Places : InAll(prog, dryRun, st, x)
            /\ Clean(results, p)
      BY <2>2, <2>3 DEF Truthful
    <2> HIDE DEF p, st
    <2>6. /\ RanIn(p) = {x \in Places : Ran(results, p, x)}
          /\ AllOf(st) = {x \in Places : InAll(prog, dryRun, st, x)}
          /\ \A k : k \in Inside(p) <=> k \in DOMAIN results /\ \E x \in Places : results[k].path = Append(p, x)
      BY <2>1, <2>4, SetsOfPlaces
    <2>7. (\A x \in Places : Ran(results, p, x) <=> InAll(prog, dryRun, st, x)) <=> RanIn(p) = AllOf(st)
      BY <2>6
    <2>8. (\E x \in Places : InAll(prog, dryRun, st, x)) <=> AllOf(st) # {}
      BY <2>6
    <2>9. Clean(results, p) <=> \A k \in Inside(p) : results[k].verdict # "FAIL"
      BY <2>6 DEF Clean
    <2>10. (results[i].verdict = "PASS") <=>
             /\ RanIn(p) = AllOf(st) /\ AllOf(st) # {}
             /\ \A k \in Inside(p) : results[k].verdict # "FAIL"
      BY <2>5, <2>7, <2>8, <2>9
    <2> QED
      BY <2>2, <2>10 DEF p
  <1> QED
    BY <1>1, Recording, PTL

(* With stopOnFail nothing of a repeat runs after a step of it has failed; *)
(* without, every iteration runs in full.                                  *)
THEOREM FailsFast == Spec => []FailFast
  <1>1. RecordInv => FailFast
    <2> SUFFICES ASSUME RecordInv, NEW i \in DOMAIN results
                 PROVE  LET whole == results[i].path
                            p == SubSeq(whole, 1, Len(whole) - 1)
                        IN /\ p # <<>> /\ results[i].verdict = "FAIL" /\ RepeatAt(p).stopOnFail =>
                                \A k \in Inside(p) : k <= i
                           /\ RepeatAt(whole).op = "repeat" /\ ~RepeatAt(whole).stopOnFail =>
                                RanIn(whole) = AllOf(RepeatAt(whole))
      BY DEF FailFast
    <2> DEFINE whole == results[i].path
               p == SubSeq(whole, 1, Len(whole) - 1)
               st == LastStep(prog, whole)
    <2>1. whole \in Seq(Places) /\ whole # <<>>
      <3>1. results[i] \in Result
        BY LenProperties, ElementOfSeq DEF RecordInv
      <3> QED
        BY <3>1 DEF Result
    <2>2. PICK q \in Seq(Places), x \in Places : whole = Append(q, x)
      BY <2>1, SequenceEmptyOrAppend
    <2>3. p = q
      <3>1. Len(whole) = Len(q) + 1 /\ SubSeq(whole, 1, Len(q)) = q /\ Len(q) \in Nat
        BY <2>1, <2>2, InsideMeans, LenProperties
      <3> HIDE DEF whole
      <3>2. Len(whole) - 1 = Len(q)
        BY <3>1
      <3> QED
        BY <3>1, <3>2
    <2>4. RepeatAt(whole) = st /\ RepeatAt(q) = LastStep(prog, q)
      BY DEF RepeatAt, StepOf, LastStep
    <2>5. ASSUME q # <<>>, results[i].verdict = "FAIL", RepeatAt(q).stopOnFail,
                 NEW k \in Inside(q)
          PROVE  k <= i
      <3>1. PICK y \in Places : k \in DOMAIN results /\ results[k].path = Append(q, y)
        BY <2>5, SetsOfPlaces
      <3>2. StopsOnFailure(prog, results, i)
        BY DEF RecordInv, AllStop
      <3>3. q \in Seq(Places) \ {<<>>} /\ results[i].path = Append(q, x)
        BY <2>2, <2>5
      <3> QED
        BY <2>4, <2>5, <3>1, <3>2, <3>3 DEF StopsOnFailure
    <2>6. Truthful(prog, dryRun, results, results[i])
      BY DEF RecordInv
    <2>7. ASSUME st.op = "repeat", ~st.stopOnFail PROVE RanIn(whole) = AllOf(st)
      <3>1. st \in Step /\ \A y \in Places : Ran(results, whole, y) <=> InAll(prog, dryRun, st, y)
        BY <2>6, <2>7 DEF Truthful
      <3> HIDE DEF st, whole
      <3>2. /\ RanIn(whole) = {y \in Places : Ran(results, whole, y)}
            /\ AllOf(st) = {y \in Places : InAll(prog, dryRun, st, y)}
        BY <2>1, <3>1, SetsOfPlaces
      <3> QED
        BY <3>1, <3>2
    <2> HIDE DEF st
    <2> QED
      BY <2>3, <2>4, <2>5, <2>7
  <1> QED
    BY <1>1, Recording, PTL

-----------------------------------------------------------------------------
(* What is observed in the background reaches the journal when it is       *)
(* joined: as one block, the whole of it, or not at all.                   *)
Absent(g, k) == \A i \in DOMAIN g : g[i] # k

Block(g, k, n) ==
  \E m \in Nat : /\ m + n <= Len(g)
                 /\ \A i \in DOMAIN g : g[i] = k <=> m < i /\ i <= m + n

FlushInv ==
  /\ gates \in Seq(Nat) /\ \A i \in DOMAIN gates : gates[i] \in DOMAIN tasks
  /\ \A k \in DOMAIN tasks :
       Absent(gates, k) \/ (tasks[k].state = "joined" /\ Block(gates, k, tasks[k].buffered))

LEMMA JoinedStays ==
  IInv /\ [Next]_vars =>
    \A k \in DOMAIN tasks : k \in DOMAIN tasks' /\ (tasks[k].state = "joined" => tasks'[k] = tasks[k])
  <1> SUFFICES ASSUME IInv, [Next]_vars, NEW k \in DOMAIN tasks
               PROVE  k \in DOMAIN tasks' /\ (tasks[k].state = "joined" => tasks'[k] = tasks[k])
    OBVIOUS
  <1>1. StackInv /\ BgInv /\ HandlesOwnTasks
    BY DEF IInv
  <1>2. tasks \in Seq(Tasks) /\ DOMAIN tasks = 1..Len(tasks) /\ Len(tasks) \in Nat
    BY <1>1, LenProperties DEF BgInv
  <1>3. CASE tasks' = tasks
    BY <1>3
  <1>4. ASSUME NEW j, NEW t, tasks' = [tasks EXCEPT ![j] = t], tasks[j].state # "joined"
        PROVE  k \in DOMAIN tasks' /\ (tasks[k].state = "joined" => tasks'[k] = tasks[k])
    BY <1>2, <1>4
  <1>5. \A n \in BgNames : bg[n] # 0 => tasks[bg[n]].state # "joined"
    BY <1>1 DEF HandlesOwnTasks, Unjoined
  <1>6. CASE Skip \/ (\E v \in {"PASS", "FAIL"} : Leaf(v)) \/ LeafPanics \/ StopUnknown
             \/ RefuseRepeat \/ EnterRepeat
    BY <1>3, <1>6 DEF Skip, Leaf, LeafPanics, StopUnknown, RefuseRepeat, EnterRepeat
  <1>7. CASE IterationHolds \/ IterationFails \/ Cleaned \/ AfterFailure \/ EndSection \/ Finish
    BY <1>3, <1>7 DEF IterationHolds, IterationFails, Cleaned, AfterFailure, EndSection, Finish
  <1>8. CASE StartBackground
    <2> DEFINE t == [state |-> "running", buffered |-> 0]
    <2>1. t \in Tasks
      BY DEF Tasks
    <2>2. tasks' = tasks \/ tasks' = Append(tasks, t)
      BY <1>8 DEF StartBackground
    <2> HIDE DEF t
    <2>3. CASE tasks' = Append(tasks, t)
      BY <1>2, <2>1, <2>3, AppendProperties, LenProperties
    <2> QED
      BY <1>3, <2>2, <2>3
  <1>9. ASSUME NEW n \in BgNames, bg[n] # 0, Cancel(n)
        PROVE  k \in DOMAIN tasks' /\ (tasks[k].state = "joined" => tasks'[k] = tasks[k])
    <2> DEFINE t == [tasks[bg[n]] EXCEPT !.state = IF @ = "running" THEN "cancelling" ELSE @]
    <2>1. tasks' = [tasks EXCEPT ![bg[n]] = t] /\ tasks[bg[n]].state # "joined"
      BY <1>5, <1>9 DEF Cancel
    <2> HIDE DEF t
    <2> QED
      BY <1>4, <2>1
  <1>10. CASE StopBackground
    <2>1. StepOf(Top).name \in BgNames
      BY <1>1, <1>10, StepTyped DEF StopBackground, At, Step
    <2> QED
      BY <1>9, <1>10, <2>1 DEF StopBackground
  <1>11. ASSUME NEW n \in BgNames, CancelSince(n) \/ CancelLeft(n)
         PROVE  k \in DOMAIN tasks' /\ (tasks[k].state = "joined" => tasks'[k] = tasks[k])
    BY <1>9, <1>11 DEF CancelSince, CancelLeft, StartedSince
  <1>12. CASE StopReturns \/ JoinSince \/ JoinLeft
    <2>1. Forget
      BY <1>12 DEF StopReturns, JoinSince, JoinLeft
    <2> DEFINE t == [tasks[bg[awaited]] EXCEPT !.state = "joined"]
    <2>2. tasks' = [tasks EXCEPT ![bg[awaited]] = t] /\ tasks[bg[awaited]].state # "joined"
      BY <2>1 DEF Forget, Joinable
    <2> HIDE DEF t
    <2> QED
      BY <1>4, <2>2
  <1>13. CASE Environment
    <2>1. PICK j \in DOMAIN tasks :
            \/ Observes(j)
            \/ \E how \in {"ended", "died"} : Ends(j, how) \/ Obeys(j, how)
      BY <1>13 DEF Environment
    <2>2. CASE Observes(j)
      <3> DEFINE t == [tasks[j] EXCEPT !.buffered = @ + 1]
      <3>1. tasks' = [tasks EXCEPT ![j] = t] /\ tasks[j].state # "joined"
        BY <2>2 DEF Observes
      <3> HIDE DEF t
      <3> QED
        BY <1>4, <3>1
    <2>3. ASSUME NEW how \in {"ended", "died"}, Ends(j, how) \/ Obeys(j, how)
          PROVE  k \in DOMAIN tasks' /\ (tasks[k].state = "joined" => tasks'[k] = tasks[k])
      <3> DEFINE t == [tasks[j] EXCEPT !.state = how]
      <3>1. tasks' = [tasks EXCEPT ![j] = t] /\ tasks[j].state # "joined"
        BY <2>3 DEF Ends, Obeys
      <3> HIDE DEF t
      <3> QED
        BY <1>4, <3>1
    <2> QED
      BY <2>1, <2>2, <2>3
  <1>14. CASE UNCHANGED vars
    BY <1>3, <1>14 DEF vars
  <1> QED
    BY <1>6, <1>7, <1>8, <1>10, <1>11, <1>12, <1>13, <1>14 DEF Next, Runner

(* A goroutine is joined by a join.                                        *)
LEMMA JoinedBy ==
  ASSUME IInv, [Next]_vars, NEW k \in DOMAIN tasks', tasks'[k].state = "joined",
         ~(k \in DOMAIN tasks /\ tasks[k].state = "joined")
  PROVE  /\ StopReturns \/ JoinSince \/ JoinLeft
         /\ k = bg[awaited] /\ tasks'[k].buffered = tasks[k].buffered
  <1>1. StackInv /\ BgInv
    BY DEF IInv
  <1>2. tasks \in Seq(Tasks) /\ DOMAIN tasks = 1..Len(tasks) /\ Len(tasks) \in Nat
    BY <1>1, LenProperties DEF BgInv
  <1>3. tasks' # tasks
    OBVIOUS
  <1>4. ASSUME NEW j, NEW t, tasks' = [tasks EXCEPT ![j] = t], t.state # "joined" PROVE FALSE
    BY <1>2, <1>4
  <1>5. CASE StartBackground
    <2> DEFINE t == [state |-> "running", buffered |-> 0]
    <2>1. t \in Tasks /\ t.state # "joined"
      BY DEF Tasks
    <2>2. tasks' = Append(tasks, t)
      BY <1>3, <1>5 DEF StartBackground
    <2> HIDE DEF t
    <2>3. (k \in DOMAIN tasks /\ tasks'[k] = tasks[k]) \/ tasks'[k] = t
      BY <1>2, <2>1, <2>2, AppendProperties, LenProperties
    <2> QED
      BY <2>1, <2>3
  <1>s. ASSUME NEW f \in Tasks, NEW s PROVE [f EXCEPT !.state = s].state = s
    BY <1>s DEF Tasks
  <1>6. ASSUME NEW n \in BgNames, bg[n] # 0, Cancel(n) PROVE FALSE
    <2> DEFINE u == tasks[bg[n]]
               t == [u EXCEPT !.state = IF @ = "running" THEN "cancelling" ELSE @]
    <2>1. bg[n] \in DOMAIN tasks /\ u \in Tasks
      BY <1>1, <1>2, <1>6, ElementOfSeq DEF BgInv
    <2>2. u.state # "joined"
      BY <1>6 DEF IInv, HandlesOwnTasks, Unjoined
    <2>3. tasks' = [tasks EXCEPT ![bg[n]] = t]
      BY <1>6 DEF Cancel
    <2> HIDE DEF u
    <2>4. t.state # "joined"
      BY <2>1, <2>2 DEF Tasks
    <2> HIDE DEF t
    <2> QED
      BY <1>4, <2>3, <2>4
  <1>7. ~StopBackground /\ \A n \in BgNames : ~CancelSince(n) /\ ~CancelLeft(n)
    <2>1. StopBackground => StepOf(Top).name \in BgNames
      BY <1>1, StepTyped DEF StopBackground, At, Step
    <2> QED
      BY <1>6, <2>1 DEF StopBackground, CancelSince, CancelLeft, StartedSince
  <1>8. ~Environment
    <2> SUFFICES ASSUME Environment PROVE FALSE
      OBVIOUS
    <2>1. PICK j \in DOMAIN tasks :
            \/ Observes(j)
            \/ \E how \in {"ended", "died"} : Ends(j, how) \/ Obeys(j, how)
      BY DEF Environment
    <2>j. tasks[j] \in Tasks
      BY <1>2, ElementOfSeq
    <2>2. CASE Observes(j)
      <3> DEFINE t == [tasks[j] EXCEPT !.buffered = @ + 1]
      <3>1. tasks' = [tasks EXCEPT ![j] = t] /\ t.state # "joined"
        BY <2>2, <2>j DEF Observes, Tasks
      <3> HIDE DEF t
      <3> QED
        BY <1>4, <3>1
    <2>3. ASSUME NEW how \in {"ended", "died"}, Ends(j, how) \/ Obeys(j, how) PROVE FALSE
      <3> DEFINE t == [tasks[j] EXCEPT !.state = how]
      <3>1. tasks' = [tasks EXCEPT ![j] = t] /\ t.state # "joined"
        BY <1>s, <2>3, <2>j DEF Ends, Obeys
      <3> HIDE DEF t
      <3> QED
        BY <1>4, <3>1
    <2> QED
      BY <2>1, <2>2, <2>3
  <1>9. StopReturns \/ JoinSince \/ JoinLeft
    BY <1>3, <1>5, <1>7, <1>8 DEF Next, Runner, Skip, Leaf, LeafPanics, StopUnknown, RefuseRepeat,
       EnterRepeat, IterationHolds, IterationFails, Cleaned, AfterFailure, EndSection, Finish, vars
  <1>10. k = bg[awaited] /\ tasks'[k].buffered = tasks[k].buffered
    <2> DEFINE t == [tasks[bg[awaited]] EXCEPT !.state = "joined"]
    <2>1. Forget
      BY <1>9 DEF StopReturns, JoinSince, JoinLeft
    <2>2. tasks' = [tasks EXCEPT ![bg[awaited]] = t]
      BY <2>1 DEF Forget
    <2>3. bg[awaited] \in DOMAIN tasks /\ tasks[bg[awaited]] \in Tasks
      BY <1>1, <1>2, <2>1, ElementOfSeq DEF BgInv, Forget, Joinable
    <2>4. t.buffered = tasks[bg[awaited]].buffered
      BY <2>3 DEF Tasks
    <2> HIDE DEF t
    <2> QED
      BY <1>2, <2>2, <2>3, <2>4
  <1> QED
    BY <1>9, <1>10

LEMMA BlockFrom ==
  ASSUME NEW g, NEW k, NEW n, NEW m \in Nat, m + n <= Len(g),
         \A i \in DOMAIN g : g[i] = k <=> m < i /\ i <= m + n
  PROVE  Block(g, k, n)
  BY Zenon DEF Block

(* The journal grows by the whole buffer.                                  *)
LEMMA FlushGrows ==
  ASSUME IInv, FlushInv, Forget, Flush
  PROVE  LET k == bg[awaited]
             n == tasks[k].buffered
         IN /\ k \in DOMAIN tasks /\ tasks[k] \in Tasks /\ tasks[k].state # "joined" /\ n \in Nat
            /\ DOMAIN gates = 1..Len(gates) /\ Len(gates) \in Nat
            /\ gates' \in Seq(Nat) /\ Len(gates') = Len(gates) + n /\ DOMAIN gates' = 1..(Len(gates) + n)
            /\ \A i \in 1..(Len(gates) + n) : gates'[i] = IF i <= Len(gates) THEN gates[i] ELSE k
  <1> DEFINE k == bg[awaited]
             n == tasks[k].buffered
             tail == [i \in 1..n |-> k]
  <1>1. k \in DOMAIN tasks /\ tasks[k] \in Tasks /\ tasks[k].state # "joined" /\ k \in Nat
    <2>1. awaited \in BgNames /\ bg[awaited] # 0
      BY DEF IInv, BgInv, Forget, Joinable
    <2> QED
      BY <2>1, ElementOfSeq, LenProperties DEF IInv, BgInv, Forget, Joinable
  <1>2. n \in Nat
    BY <1>1 DEF Tasks
  <1>3. tail \in Seq(Nat) /\ Len(tail) = n /\ \A i \in 1..n : tail[i] = k
    <2> HIDE DEF n, k
    <2>1. tail \in [1..n -> Nat]
      BY <1>1
    <2>2. tail \in Seq(Nat)
      BY <1>2, <2>1, SeqDef
    <2> QED
      BY <1>2, <2>1, <2>2, LenProperties
  <1>4. gates \in Seq(Nat) /\ gates' = gates \o tail /\ DOMAIN gates = 1..Len(gates) /\ Len(gates) \in Nat
    BY LenProperties DEF FlushInv, Flush
  <1> HIDE DEF tail
  <1>5. /\ gates' \in Seq(Nat) /\ Len(gates') = Len(gates) + n /\ DOMAIN gates' = 1..(Len(gates) + n)
        /\ \A i \in 1..(Len(gates) + n) : gates'[i] = IF i <= Len(gates) THEN gates[i] ELSE k
    <2>1. /\ gates' \in Seq(Nat) /\ Len(gates') = Len(gates) + n
          /\ \A i \in 1..(Len(gates) + n) :
               gates'[i] = IF i <= Len(gates) THEN gates[i] ELSE tail[i - Len(gates)]
      BY SMTT(20), <1>3, <1>4, ConcatProperties
    <2>2. \A i \in 1..(Len(gates) + n) : i > Len(gates) => tail[i - Len(gates)] = k
      BY <1>2, <1>3, <1>4
    <2> HIDE DEF k, n
    <2> QED
      BY <1>2, <1>4, <2>1, <2>2, LenProperties
  <1> QED
    BY <1>1, <1>2, <1>4, <1>5

LEMMA FlushesWhole ==
  ASSUME IInv, FlushInv, Forget, Flush
  PROVE  FlushInv'
  <1> DEFINE k == bg[awaited]
             n == tasks[k].buffered
             t == [tasks[k] EXCEPT !.state = "joined"]
  <1>1. k \in DOMAIN tasks /\ tasks[k] \in Tasks /\ tasks[k].state # "joined"
    BY FlushGrows
  <1>2. n \in Nat
    BY FlushGrows
  <1>4. DOMAIN gates = 1..Len(gates) /\ Len(gates) \in Nat
    BY FlushGrows
  <1>5. /\ gates' \in Seq(Nat) /\ Len(gates') = Len(gates) + n /\ DOMAIN gates' = 1..(Len(gates) + n)
        /\ \A i \in 1..(Len(gates) + n) : gates'[i] = IF i <= Len(gates) THEN gates[i] ELSE k
    BY FlushGrows
  <1>6. /\ tasks \in Seq(Tasks) /\ tasks' = [tasks EXCEPT ![k] = t]
        /\ t.state = "joined" /\ t.buffered = n
    BY <1>1, StateTyped DEF IInv, BgInv, Forget, Tasks
  <1>7. DOMAIN tasks' = DOMAIN tasks /\ tasks'[k] = t /\ \A j \in DOMAIN tasks : j # k => tasks'[j] = tasks[j]
    <2> HIDE DEF t, k
    <2> QED
      BY <1>1, <1>6
  <1>8. Absent(gates, k)
    BY <1>1 DEF FlushInv
  <1> HIDE DEF k, n, t
  <1>9. Block(gates', k, n)
    <2>1. \A i \in DOMAIN gates' : gates'[i] = k <=> Len(gates) < i /\ i <= Len(gates) + n
      BY <1>2, <1>4, <1>5, <1>8 DEF Absent
    <2>2. Len(gates) \in Nat /\ Len(gates) + n <= Len(gates')
      BY <1>2, <1>4, <1>5
    <2> QED
      BY <2>1, <2>2, BlockFrom, Zenon
  <1>10. ASSUME NEW j \in DOMAIN tasks, j # k
         PROVE  Absent(gates', j) \/ (tasks'[j].state = "joined" /\ Block(gates', j, tasks'[j].buffered))
    <2>1. CASE Absent(gates, j)
      BY <1>2, <1>4, <1>5, <1>10, <2>1 DEF Absent
    <2>2. CASE tasks[j].state = "joined" /\ Block(gates, j, tasks[j].buffered)
      <3> DEFINE b == tasks[j].buffered
      <3>1. b \in Nat
        <4>1. tasks[j] \in Tasks
          BY <1>6, <1>10, ElementOfSeq, LenProperties
        <4> QED
          BY <4>1 DEF Tasks
      <3>2. PICK m \in Nat : m + b <= Len(gates) /\ \A i \in DOMAIN gates : gates[i] = j <=> m < i /\ i <= m + b
        BY <2>2 DEF Block
      <3> HIDE DEF b
      <3>3. \A i \in DOMAIN gates' : gates'[i] = j <=> m < i /\ i <= m + b
        BY <1>2, <1>4, <1>5, <1>10, <3>1, <3>2
      <3>4. Block(gates', j, b)
        <4>1. m + b <= Len(gates')
          BY <1>2, <1>4, <1>5, <3>1, <3>2
        <4> QED
          BY <3>3, <4>1, BlockFrom, Zenon
      <3> QED
        BY <1>7, <1>10, <2>2, <3>4 DEF b
    <2> QED
      BY <1>10, <2>1, <2>2 DEF FlushInv
  <1>11. \A i \in DOMAIN gates' : gates'[i] \in DOMAIN tasks
    BY <1>1, <1>2, <1>4, <1>5 DEF FlushInv
  <1>12. Absent(gates', k) \/ (tasks'[k].state = "joined" /\ Block(gates', k, tasks'[k].buffered))
    BY <1>6, <1>7, <1>9
  <1> QED
    BY <1>5, <1>7, <1>10, <1>11, <1>12 DEF FlushInv

LEMMA FlushStep == IInv /\ FlushInv /\ [Next]_vars => FlushInv'
  <1> SUFFICES ASSUME IInv, FlushInv, [Next]_vars PROVE FlushInv'
    OBVIOUS
  <1>1. CASE gates' = gates
    <2>1. \A k \in DOMAIN tasks : k \in DOMAIN tasks' /\ (tasks[k].state = "joined" => tasks'[k] = tasks[k])
      BY JoinedStays
    <2>2. ASSUME NEW k \in DOMAIN tasks'
          PROVE  Absent(gates, k) \/ (tasks'[k].state = "joined" /\ Block(gates, k, tasks'[k].buffered))
      <3>1. CASE k \in DOMAIN tasks
        BY <2>1, <3>1 DEF FlushInv
      <3>2. CASE k \notin DOMAIN tasks
        BY <3>2 DEF FlushInv, Absent
      <3> QED
        BY <3>1, <3>2
    <2> QED
      BY <1>1, <2>1, <2>2 DEF FlushInv
  <1>2. CASE StopReturns \/ JoinLeft
    BY <1>2, FlushesWhole DEF StopReturns, JoinLeft
  <1>3. CASE Skip \/ (\E v \in {"PASS", "FAIL"} : Leaf(v)) \/ LeafPanics \/ StopUnknown
             \/ RefuseRepeat \/ EnterRepeat \/ StartBackground
    BY <1>1, <1>3 DEF Skip, Leaf, LeafPanics, StopUnknown, RefuseRepeat, EnterRepeat, StartBackground
  <1>4. CASE IterationHolds \/ IterationFails \/ Cleaned \/ AfterFailure \/ EndSection \/ Finish
    BY <1>1, <1>4 DEF IterationHolds, IterationFails, Cleaned, AfterFailure, EndSection, Finish
  <1>5. CASE StopBackground \/ JoinSince \/ \E n \in BgNames : CancelSince(n) \/ CancelLeft(n)
    BY <1>1, <1>5 DEF StopBackground, JoinSince, CancelSince, CancelLeft
  <1>6. CASE Environment
    BY <1>1, <1>6 DEF Environment, Observes, Ends, Obeys
  <1>7. CASE UNCHANGED vars
    BY <1>1, <1>7 DEF vars
  <1> QED
    BY <1>2, <1>3, <1>4, <1>5, <1>6, <1>7 DEF Next, Runner

(* Of a goroutine that has been joined nothing is missing, unless a step   *)
(* has failed.                                                             *)
LossInv ==
  \A k \in DOMAIN tasks :
    tasks[k].state = "joined" /\ Absent(gates, k) => tasks[k].buffered = 0 \/ Failed

(* An iteration that is cleaned up after has recorded a failure.           *)
LEMMA FailureBehind ==
  ASSUME StackInv, NestInv, RecordInv, pc = "cleaning"
  PROVE  Failed
  <1>1. Top.broke /\ Depth \in 2..Len(stack) /\ Depth \in Nat
    BY TopFrame DEF NestInv, StackInv, Depth
  <1>2. LoopRecorded(prog, stack, results, Depth)
    BY <1>1 DEF RecordInv, Live, LoopsRecorded
  <1>3. ~Clean(results, PathTo(stack, Depth - 1))
    BY <1>1, <1>2 DEF LoopRecorded, Top
  <1>4. QED
    BY <1>3 DEF Clean, Failed

LEMMA FailureStays ==
  ASSUME RecordInv, Failed, [Next]_vars
  PROVE  Failed'
  <1>1. results' = results \/ \E x : results' = Append(results, x)
    <2>1. CASE Skip \/ (\E v \in {"PASS", "FAIL"} : Leaf(v)) \/ LeafPanics \/ StopUnknown
               \/ RefuseRepeat \/ EnterRepeat \/ StartBackground \/ StopReturns
      BY <2>1 DEF Skip, Leaf, LeafPanics, StopUnknown, RefuseRepeat, EnterRepeat, StartBackground,
                  StopReturns, EndStep
    <2>2. CASE IterationHolds \/ IterationFails \/ Cleaned \/ AfterFailure \/ EndSection \/ Finish
      BY <2>2 DEF IterationHolds, IterationFails, Cleaned, AfterFailure, EndSection, Finish, Continue
    <2>3. CASE StopBackground \/ JoinSince \/ JoinLeft \/ \E n \in BgNames : CancelSince(n) \/ CancelLeft(n)
      BY <2>3 DEF StopBackground, JoinSince, JoinLeft, CancelSince, CancelLeft
    <2>4. CASE Environment \/ UNCHANGED vars
      BY <2>4 DEF Environment, Observes, Ends, Obeys, vars
    <2>5. QED
      BY <2>1, <2>2, <2>3, <2>4 DEF Next, Runner
  <1>2. PICK i \in DOMAIN results : results[i].verdict = "FAIL"
    BY DEF Failed
  <1>3. ASSUME NEW x, results' = Append(results, x) PROVE i \in DOMAIN results' /\ results'[i] = results[i]
    <2>1. DOMAIN results = 1..Len(results) /\ Len(results) \in Nat
      BY LenProperties DEF RecordInv
    <2> DEFINE T == Result \cup {x}
    <2>2. results \in Seq(Result) /\ x \in T
      BY DEF RecordInv
    <2>3. results \in Seq(T)
      BY <2>2, SMT
    <2> HIDE DEF T
    <2>4. results' \in Seq(T) /\ Len(results') = Len(results) + 1 /\ results'[i] = results[i]
      BY <1>2, <1>3, <2>1, <2>2, <2>3, AppendProperties
    <2>5. DOMAIN results' = 1..Len(results')
      BY <2>4, LenProperties
    <2>6. QED
      BY <1>2, <2>1, <2>4, <2>5
  <1>4. QED
    BY <1>1, <1>2, <1>3 DEF Failed

LEMMA OnlyJoinsFlush ==
  ASSUME [Next]_vars
  PROVE  gates' = gates \/ (Forget /\ Flush)
  <1>1. CASE Skip \/ (\E v \in {"PASS", "FAIL"} : Leaf(v)) \/ LeafPanics \/ StopUnknown
             \/ RefuseRepeat \/ EnterRepeat \/ StartBackground
    BY <1>1 DEF Skip, Leaf, LeafPanics, StopUnknown, RefuseRepeat, EnterRepeat, StartBackground
  <1>2. CASE IterationHolds \/ IterationFails \/ Cleaned \/ AfterFailure \/ EndSection \/ Finish
    BY <1>2 DEF IterationHolds, IterationFails, Cleaned, AfterFailure, EndSection, Finish
  <1>3. CASE StopBackground \/ JoinSince \/ \E n \in BgNames : CancelSince(n) \/ CancelLeft(n)
    BY <1>3 DEF StopBackground, JoinSince, CancelSince, CancelLeft
  <1>4. CASE StopReturns \/ JoinLeft
    BY <1>4 DEF StopReturns, JoinLeft
  <1>5. CASE Environment \/ UNCHANGED vars
    BY <1>5 DEF Environment, Observes, Ends, Obeys, vars
  <1> QED
    BY <1>1, <1>2, <1>3, <1>4, <1>5 DEF Next, Runner

LEMMA LossStep ==
  IInv /\ NestInv /\ RecordInv /\ FlushInv /\ LossInv /\ [Next]_vars => LossInv'
  <1> SUFFICES ASSUME IInv, NestInv, RecordInv, FlushInv, LossInv, [Next]_vars,
                      NEW k \in DOMAIN tasks', tasks'[k].state = "joined", Absent(gates', k)
               PROVE  tasks'[k].buffered = 0 \/ Failed'
    BY DEF LossInv, Absent, Failed
  <1>1. FlushInv' /\ (Failed => Failed')
    BY FlushStep, FailureStays
  <1>g. DOMAIN gates = 1..Len(gates) /\ Len(gates) \in Nat
    BY LenProperties DEF FlushInv
  <1>2. CASE k \in DOMAIN tasks /\ tasks[k].state = "joined"
    <2>1. tasks'[k] = tasks[k]
      BY <1>2, JoinedStays
    <2>2. Absent(gates, k)
      <3>1. gates' = gates \/ (Forget /\ Flush)
        BY OnlyJoinsFlush
      <3>2. CASE gates' = gates
        BY <3>2
      <3>3. CASE Forget /\ Flush
        <4> DEFINE n == tasks[bg[awaited]].buffered
        <4>1. /\ n \in Nat /\ DOMAIN gates' = 1..(Len(gates) + n)
              /\ \A i \in 1..(Len(gates) + n) : i <= Len(gates) => gates'[i] = gates[i]
          BY <3>3, FlushGrows
        <4> HIDE DEF n
        <4> QED
          BY <1>g, <4>1 DEF Absent
      <3>4. QED
        BY <3>1, <3>2, <3>3
    <2>3. QED
      BY <1>1, <1>2, <2>1, <2>2 DEF LossInv
  <1>3. CASE ~(k \in DOMAIN tasks /\ tasks[k].state = "joined")
    <2>1. /\ StopReturns \/ JoinSince \/ JoinLeft
          /\ k = bg[awaited] /\ tasks'[k].buffered = tasks[k].buffered
      BY <1>3, JoinedBy
    <2>2. CASE JoinSince
      <3>1. Failed
        BY <2>2, FailureBehind DEF JoinSince, IInv
      <3> QED
        BY <1>1, <3>1
    <2>3. CASE StopReturns \/ JoinLeft
      <3>1. /\ tasks[k].buffered \in Nat
            /\ DOMAIN gates' = 1..(Len(gates) + tasks[k].buffered)
            /\ \A i \in 1..(Len(gates) + tasks[k].buffered) :
                 gates'[i] = IF i <= Len(gates) THEN gates[i] ELSE k
        BY <2>1, <2>3, FlushGrows DEF StopReturns, JoinLeft
      <3> DEFINE n == tasks[k].buffered
      <3>2. n \in Nat /\ DOMAIN gates' = 1..(Len(gates) + n)
            /\ \A i \in 1..(Len(gates) + n) : gates'[i] = IF i <= Len(gates) THEN gates[i] ELSE k
        BY <3>1
      <3> HIDE DEF n
      <3>3. ASSUME n # 0 PROVE FALSE
        <4>1. Len(gates) + n \in DOMAIN gates' /\ ~(Len(gates) + n <= Len(gates))
          BY <1>g, <3>2, <3>3
        <4> QED
          BY <3>2, <4>1 DEF Absent
      <3> QED
        BY <2>1, <3>3 DEF n
    <2> QED
      BY <2>1, <2>2, <2>3
  <1> QED
    BY <1>2, <1>3

(* flushBackground: what a goroutine observed is in the journal as one     *)
(* block once it has been joined, nothing of it before and, unless a step  *)
(* of the section has failed, all of it after.                             *)
THEOREM FlushedWhole == Spec => []FlushedAtJoin
  <1>1. Init => FlushInv /\ LossInv
    BY EmptySeq DEF Init, FlushInv, LossInv, Absent
  <1>2. IInv /\ NestInv /\ RecordInv /\ FlushInv /\ LossInv /\ [Next]_vars => FlushInv' /\ LossInv'
    BY FlushStep, LossStep
  <1>3. IInv /\ FlushInv /\ LossInv => FlushedAtJoin
    <2> SUFFICES ASSUME IInv, FlushInv, LossInv PROVE FlushedAtJoin
      OBVIOUS
    <2>1. DOMAIN gates = 1..Len(gates) /\ Len(gates) \in Nat
      BY LenProperties DEF FlushInv
    <2>2. \A k \in DOMAIN tasks : tasks[k].buffered \in Nat
      <3>1. \A k \in DOMAIN tasks : tasks[k] \in Tasks
        BY ElementOfSeq, LenProperties DEF IInv, BgInv
      <3> QED
        BY <3>1 DEF Tasks
    <2>3. ASSUME NEW k \in DOMAIN tasks
          PROVE  \/ CountOf(k) = IF Unjoined(k) THEN 0 ELSE tasks[k].buffered
                 \/ CountOf(k) = 0 /\ Failed
      <3> DEFINE b == tasks[k].buffered
      <3>1. CASE Absent(gates, k)
        <4>1. {i \in DOMAIN gates : gates[i] = k} = {}
          BY <3>1 DEF Absent
        <4>2. CountOf(k) = 0
          BY <4>1, FS_EmptySet DEF CountOf
        <4>3. ~Unjoined(k) => tasks[k].buffered = 0 \/ Failed
          BY <3>1 DEF Unjoined, LossInv
        <4> QED
          BY <4>2, <4>3
      <3>2. CASE tasks[k].state = "joined" /\ Block(gates, k, b)
        <4>1. PICK m \in Nat : m + b <= Len(gates) /\ \A i \in DOMAIN gates : gates[i] = k <=> m < i /\ i <= m + b
          BY <3>2 DEF Block
        <4>2. b \in Nat
          BY <2>2
        <4> HIDE DEF b
        <4>3. {i \in DOMAIN gates : gates[i] = k} = (m + 1)..(m + b)
          BY <2>1, <4>1, <4>2
        <4>4. Cardinality((m + 1)..(m + b)) = b
          <5>1. Cardinality((m + 1)..(m + b)) = IF m + 1 > m + b THEN 0 ELSE (m + b) - (m + 1) + 1
            BY <4>2, FS_Interval
          <5> QED
            BY <4>2, <5>1
        <4> QED
          BY <3>2, <4>3, <4>4 DEF CountOf, Unjoined, b
      <3> QED
        BY <3>1, <3>2 DEF FlushInv
    <2>4. ASSUME NEW i \in DOMAIN gates, NEW j \in DOMAIN gates, i < j, gates[i] = gates[j]
          PROVE  gates[i + 1] = gates[i]
      <3> DEFINE k == gates[i]
                 b == tasks[k].buffered
      <3>1. k \in DOMAIN tasks /\ ~Absent(gates, k)
        BY DEF FlushInv, Absent
      <3>2. Block(gates, k, b) /\ b \in Nat
        BY <2>2, <3>1 DEF FlushInv
      <3> HIDE DEF b
      <3>3. PICK m \in Nat : m + b <= Len(gates) /\ \A e \in DOMAIN gates : gates[e] = k <=> m < e /\ e <= m + b
        BY <3>2 DEF Block
      <3> QED
        BY <2>1, <2>4, <3>2, <3>3
    <2> QED
      BY <2>3, <2>4 DEF FlushedAtJoin
  <1> QED
    BY <1>1, <1>2, <1>3, Invariance, Recording, PTL DEF Spec
-----------------------------------------------------------------------------
(* What an aborted iteration leaves behind.  The names live before an      *)
(* iteration are those whose goroutine was started before it.              *)
Scoped(s, b, t) ==
  /\ s[1].earlier = 0
  /\ \A d \in 1..Len(s) :
       /\ s[d].earlier \in Nat /\ s[d].earlier <= t
       /\ \A n \in BgNames : n \in s[d].before <=> b[n] # 0 /\ b[n] <= s[d].earlier
  /\ \A d \in 1..Len(s), e \in 1..Len(s) : d <= e => s[d].earlier <= s[e].earlier

LeakInv ==
  /\ Scoped(stack, bg, Len(tasks))
  /\ pc \in {"ending", "over"} => Len(stack) = 1
  /\ pc \in {"stepping", "cleaned"} => awaited = NoName
  /\ pc = "cleaning" /\ awaited # NoName => awaited \notin Top.before
  /\ pc = "cleaned" => StartedSince = {}

(* The first frames of s, whatever steps they have moved on to.            *)
SameScopes(s, s2, m) ==
  \A d \in 1..m : s2[d].before = s[d].before /\ s2[d].earlier = s[d].earlier

LEMMA ScopesKept ==
  ASSUME NEW s, NEW s2, NEW b, NEW t, Len(s) \in Nat, Len(s2) \in 1..Len(s),
         SameScopes(s, s2, Len(s2)), Scoped(s, b, t)
  PROVE  Scoped(s2, b, t)
  <1> DEFINE m == Len(s2)
  <1>1. /\ m \in Nat \ {0} /\ \A d \in 1..m : d \in 1..Len(s)
        /\ \A d \in 1..m : s2[d].before = s[d].before /\ s2[d].earlier = s[d].earlier
    BY DEF SameScopes
  <1> HIDE DEF m
  <1>2. s2[1].earlier = 0
    BY <1>1 DEF Scoped
  <1>3. \A d \in 1..m : /\ s2[d].earlier \in Nat /\ s2[d].earlier <= t
                       /\ \A n \in BgNames : n \in s2[d].before <=> b[n] # 0 /\ b[n] <= s2[d].earlier
    BY <1>1 DEF Scoped
  <1>4. \A d \in 1..m, e \in 1..m : d <= e => s2[d].earlier <= s2[e].earlier
    BY <1>1 DEF Scoped
  <1> QED
    BY <1>2, <1>3, <1>4 DEF Scoped, m

LEMMA ScopeEntered ==
  ASSUME NEW s, NEW s2, NEW b, NEW t \in Nat, Len(s) \in Nat, NEW m \in 1..Len(s),
         SameScopes(s, s2, m), Scoped(s, b, t), Len(s2) = m + 1,
         s2[m + 1].earlier = t, s2[m + 1].before = {n \in BgNames : b[n] # 0},
         \A n \in BgNames : b[n] \in 0..t
  PROVE  Scoped(s2, b, t)
  <1>1. \A d \in 1..m : s2[d].before = s[d].before /\ s2[d].earlier = s[d].earlier
    BY DEF SameScopes
  <1>2. \A d \in 1..(m + 1) : d \in 1..m \/ d = m + 1
    OBVIOUS
  <1>3. s2[1].earlier = 0
    BY <1>1 DEF Scoped
  <1>4. ASSUME NEW d \in 1..(m + 1)
        PROVE  /\ s2[d].earlier \in Nat /\ s2[d].earlier <= t
               /\ \A n \in BgNames : n \in s2[d].before <=> b[n] # 0 /\ b[n] <= s2[d].earlier
    <2>1. CASE d \in 1..m
      BY <1>1, <2>1 DEF Scoped
    <2>2. CASE d = m + 1
      BY <2>2
    <2> QED
      BY <1>2, <2>1, <2>2
  <1>5. ASSUME NEW d \in 1..(m + 1), NEW e \in 1..(m + 1), d <= e
        PROVE  s2[d].earlier <= s2[e].earlier
    <2>1. CASE e \in 1..m
      <3>1. d \in 1..m
        BY <1>5, <2>1
      <3> QED
        BY <1>1, <1>5, <2>1, <3>1 DEF Scoped
    <2>2. CASE e = m + 1
      BY <1>4, <2>2
    <2> QED
      BY <1>2, <2>1, <2>2
  <1> QED
    BY <1>3, <1>4, <1>5 DEF Scoped

LEMMA ScopeStarted ==
  ASSUME NEW s, NEW b, NEW b2, NEW t \in Nat, Scoped(s, b, t),
         NEW n \in BgNames, b[n] = 0,
         \A x \in BgNames : b2[x] = IF x = n THEN t + 1 ELSE b[x]
  PROVE  Scoped(s, b2, t + 1)
  <1>1. \A d \in 1..Len(s) : s[d].earlier \in Nat /\ s[d].earlier <= t /\ s[d].earlier <= t + 1
    BY DEF Scoped
  <1>2. ASSUME NEW d \in 1..Len(s), NEW x \in BgNames
        PROVE  x \in s[d].before <=> b2[x] # 0 /\ b2[x] <= s[d].earlier
    <2>1. x \in s[d].before <=> b[x] # 0 /\ b[x] <= s[d].earlier
      BY DEF Scoped
    <2>2. CASE x = n
      BY <1>1, <2>1, <2>2
    <2>3. CASE x # n
      BY <2>1, <2>3
    <2> QED
      BY <2>2, <2>3
  <1> QED
    BY <1>1, <1>2 DEF Scoped

LEMMA ScopeForgot ==
  ASSUME NEW s, NEW b, NEW b2, NEW t, Scoped(s, b, t), NEW n,
         \A d \in 1..Len(s) : n \notin s[d].before,
         \A x \in BgNames : b2[x] = IF x = n THEN 0 ELSE b[x]
  PROVE  Scoped(s, b2, t)
  BY DEF Scoped

(* A name that was not live before the innermost iteration was not live    *)
(* before any that contains it.                                            *)
LEMMA OuterScopes ==
  ASSUME NEW s, NEW b, NEW t, Len(s) \in Nat \ {0}, Scoped(s, b, t), NEW n \in BgNames,
         b[n] \in Nat, b[n] # 0, n \notin s[Len(s)].before
  PROVE  \A d \in 1..Len(s) : n \notin s[d].before
  BY DEF Scoped

LEMMA EndedScopes ==
  ASSUME NEW s \in Seq(Frames), NEW m \in 1..Len(s), NEW s2, NEW v, s2 = Ended(SubSeq(s, 1, m), v)
  PROVE  Len(s2) = m /\ SameScopes(s, s2, m)
  <1>1. Advanced(s, s2, m, v = "FAIL")
    BY EndedAdvances
  <1> DEFINE f == v = "FAIL"
  <1>2. f \in BOOLEAN /\ Advanced(s, s2, m, f)
    BY <1>1
  <1> HIDE DEF f
  <1>3. s2[m].before = s[m].before /\ s2[m].earlier = s[m].earlier
    BY <1>2, AdvancedFields
  <1>4. m \in Nat /\ Len(s2) = m /\ \A e \in 1..(m - 1) : s2[e] = s[e]
    BY <1>2, LenProperties DEF Advanced
  <1> QED
    BY <1>3, <1>4 DEF SameScopes

LEMMA Started == BgInv => Len(tasks) \in Nat /\ \A n \in BgNames : bg[n] \in 0..Len(tasks)
  BY LenProperties DEF BgInv

(* A frame for a further iteration, on the first m frames.                 *)
LEMMA FrameScoped ==
  ASSUME BgInv, stack \in Seq(Frames), NEW m \in 1..Len(stack), Scoped(stack, bg, Len(tasks)),
         NEW body, NEW iter, NEW failed,
         stack' = Append(SubSeq(stack, 1, m), Frame(body, iter, failed)),
         Frame(body, iter, failed) \in Frames
  PROVE  Scoped(stack', bg, Len(tasks))
  <1> DEFINE f == Frame(body, iter, failed)
             outer == SubSeq(stack, 1, m)
  <1>1. f.before = {n \in BgNames : bg[n] # 0} /\ f.earlier = Len(tasks)
    BY DEF Frame
  <1>2. m \in Nat /\ Len(stack) \in Nat /\ outer \in Seq(Frames) /\ Len(outer) = m
        /\ \A i \in 1..m : outer[i] = stack[i]
    BY LenProperties, ElementOfSeq, SubSeqProperties
  <1> HIDE DEF f, outer
  <1>3. /\ Len(stack') = m + 1 /\ stack'[m + 1] = f
        /\ \A i \in 1..m : stack'[i] = stack[i]
    BY <1>2, AppendProperties DEF f, outer
  <1>4. SameScopes(stack, stack', m)
    BY <1>3 DEF SameScopes
  <1> QED
    BY <1>1, <1>2, <1>3, <1>4, Started, ScopeEntered

LEMMA EndScoped ==
  ASSUME StackInv, NEW v, NEW b, NEW t, Scoped(stack, b, t), EndStep(v)
  PROVE  Scoped(stack', b, t)
  <1>1. Len(stack) \in Nat \ {0} /\ stack \in Seq(Frames)
    BY NotEmpty, LenProperties DEF StackInv
  <1>2. SubSeq(stack, 1, Len(stack)) = stack
    BY <1>1, SubSeqFull
  <1>3. stack' = Ended(SubSeq(stack, 1, Len(stack)), v)
    BY <1>2 DEF EndStep
  <1>4. Len(stack') = Len(stack) /\ SameScopes(stack, stack', Len(stack))
    BY <1>1, <1>3, EndedScopes
  <1> QED
    BY <1>1, <1>4, ScopesKept

LEMMA ContinueScoped ==
  ASSUME StackInv, BgInv, Depth > 1, Scoped(stack, bg, Len(tasks)), NEW failed \in BOOLEAN, Continue(failed)
  PROVE  Scoped(stack', bg, Len(tasks))
  <1> DEFINE m == Depth - 1
             more == Top.iter < Times /\ ~(Top.broke /\ StopOnFail)
  <1>1. Len(stack) \in Nat /\ stack \in Seq(Frames) /\ m \in 1..Len(stack) /\ Top \in Frames
    BY TopFrame DEF StackInv, Depth
  <1>2. CASE more
    <2>1. stack' = Append(SubSeq(stack, 1, m), Frame(Top.body, Top.iter + 1, failed))
      BY <1>2 DEF Continue
    <2>2. Frame(Top.body, Top.iter + 1, failed) \in Frames
      <3>1. Top.body \in Bodies /\ Top.iter + 1 \in Nat
        BY SMTT(20), <1>1 DEF Frames
      <3> QED
        BY <3>1, FrameTyped
    <2> HIDE DEF m
    <2> QED
      BY <1>1, <2>1, <2>2, FrameScoped
  <1>3. CASE ~more
    <2> DEFINE v == IF failed THEN "FAIL" ELSE "PASS"
    <2>1. stack' = Ended(SubSeq(stack, 1, m), v)
      BY <1>3 DEF Continue
    <2> HIDE DEF v, m, more
    <2>2. Len(stack') = m /\ SameScopes(stack, stack', m)
      BY <1>1, <2>1, EndedScopes
    <2> QED
      BY <1>1, <2>2, ScopesKept
  <1> QED
    BY <1>2, <1>3

LEMMA SameLength ==
  ASSUME BgInv, BgInv', DOMAIN tasks' = DOMAIN tasks
  PROVE  Len(tasks') = Len(tasks)
  <1>1. /\ Len(tasks) \in Nat /\ DOMAIN tasks = 1..Len(tasks)
        /\ Len(tasks') \in Nat /\ DOMAIN tasks' = 1..Len(tasks')
    BY LenProperties DEF BgInv
  <1> QED
    BY <1>1

(* The joined name was live before no frame.                               *)
LEMMA ForgetScoped ==
  ASSUME IInv, BgInv', Forget, Scoped(stack, bg, Len(tasks)), awaited \notin Top.before
  PROVE  Scoped(stack, bg', Len(tasks'))
  <1>1. awaited \in BgNames /\ bg[awaited] # 0 /\ bg[awaited] \in Nat
    BY DEF IInv, BgInv, Forget, Joinable
  <1>2. Len(stack) \in Nat \ {0} /\ awaited \notin stack[Len(stack)].before
    BY NotEmpty DEF IInv, StackInv, Top, Depth
  <1>3. \A d \in 1..Len(stack) : awaited \notin stack[d].before
    BY <1>1, <1>2, OuterScopes
  <1>4. Len(tasks') = Len(tasks)
    BY SameLength DEF IInv, Forget
  <1>5. \A x \in BgNames : bg'[x] = IF x = awaited THEN 0 ELSE bg[x]
    BY DEF Forget, IInv, BgInv
  <1> QED
    BY <1>3, <1>4, <1>5, ScopeForgot

LEMMA LeakStep == IInv /\ LeakInv /\ StopsItsOwn /\ [Next]_vars => LeakInv'
  <1> SUFFICES ASSUME IInv, LeakInv, StopsItsOwn, [Next]_vars PROVE LeakInv'
    OBVIOUS
  <1>1. StackInv /\ BgInv /\ BgInv' /\ Scoped(stack, bg, Len(tasks))
    BY BgStep DEF IInv, LeakInv
  <1>2. Depth = Len(stack) /\ Depth \in Nat \ {0} /\ stack \in Seq(Frames) /\ Top \in Frames
    BY <1>1, TopFrame DEF Depth, StackInv
  <1>3. CASE Skip \/ (\E v \in {"PASS", "FAIL"} : Leaf(v)) \/ StopUnknown \/ RefuseRepeat
    <2>1. PICK v : EndStep(v)
      BY <1>3 DEF Skip, Leaf, StopUnknown, RefuseRepeat
    <2>2. /\ pc = "stepping" /\ pc' = pc /\ bg' = bg /\ tasks' = tasks /\ awaited' = awaited
      BY <1>3 DEF Skip, Leaf, StopUnknown, RefuseRepeat, At
    <2>3. Scoped(stack', bg, Len(tasks))
      BY <1>1, <2>1, EndScoped
    <2> QED
      BY <2>2, <2>3 DEF LeakInv
  <1>4. CASE StartBackground
    <2> DEFINE n == StepOf(Top).name
    <2>1. PICK v : EndStep(v)
      BY <1>4 DEF StartBackground
    <2>2. pc = "stepping" /\ pc' = pc /\ awaited' = awaited
      BY <1>4 DEF StartBackground, At
    <2>3. CASE bg' = bg /\ tasks' = tasks
      BY <1>1, <2>1, <2>2, <2>3, EndScoped DEF LeakInv
    <2>4. CASE ~(bg' = bg /\ tasks' = tasks)
      <3>1. /\ bg[n] = 0 /\ tasks' = Append(tasks, [state |-> "running", buffered |-> 0])
            /\ bg' = [bg EXCEPT ![n] = Len(tasks')]
        BY <1>4, <2>4 DEF StartBackground
      <3>2. n \in BgNames
        BY <1>1, <1>4, StepTyped DEF StartBackground, At, Step
      <3> HIDE DEF n
      <3>3. Len(tasks') = Len(tasks) + 1 /\ Len(tasks) \in Nat
        <4>1. [state |-> "running", buffered |-> 0] \in Tasks
          BY DEF Tasks
        <4> QED
          BY <1>1, <3>1, <4>1, AppendProperties, LenProperties DEF BgInv
      <3>4. \A x \in BgNames : bg'[x] = IF x = n THEN Len(tasks) + 1 ELSE bg[x]
        BY <1>1, <3>1, <3>2, <3>3 DEF BgInv
      <3> DEFINE t == Len(tasks)
                 b2 == bg'
      <3>5. t \in Nat /\ Scoped(stack, bg, t) /\ bg[n] = 0
        BY <1>1, <3>1, <3>3
      <3>6. \A x \in BgNames : b2[x] = IF x = n THEN t + 1 ELSE bg[x]
        BY <3>4
      <3>7. bg' = b2 /\ Len(tasks') = t + 1
        BY <3>3
      <3> HIDE DEF t, b2
      <3>8. Scoped(stack, b2, t + 1)
        BY <3>2, <3>5, <3>6, ScopeStarted
      <3>9. Scoped(stack', bg', Len(tasks'))
        BY <1>1, <2>1, <3>7, <3>8, EndScoped
      <3> QED
        BY <2>2, <3>9 DEF LeakInv
    <2> QED
      BY <2>3, <2>4
  <1>5. CASE LeafPanics
    <2>1. Len(stack') = 1 /\ stack'[1] = stack[1] /\ pc' = "ending" /\ bg' = bg /\ tasks' = tasks
      BY <1>5 DEF LeafPanics
    <2>2. SameScopes(stack, stack', Len(stack')) /\ Len(stack) \in Nat /\ Len(stack') \in 1..Len(stack)
      BY <1>2, <2>1 DEF SameScopes
    <2>3. Scoped(stack', bg, Len(tasks))
      BY <1>1, <2>2, ScopesKept, Zenon
    <2> QED
      BY <2>1, <2>3 DEF LeakInv
  <1>6. CASE EnterRepeat
    <2>1. /\ stack' = Append(stack, Frame(StepOf(Top).body, 1, FALSE)) /\ pc = "stepping"
          /\ pc' = pc /\ bg' = bg /\ tasks' = tasks /\ awaited' = awaited
      BY <1>6 DEF EnterRepeat, At
    <2>2. Frame(StepOf(Top).body, 1, FALSE) \in Frames
      <3>1. StepOf(Top).body \in Bodies
        BY <1>1, <1>6, StepTyped DEF EnterRepeat, At, Step
      <3> QED
        BY <1>1, <3>1, FrameTyped
    <2>3. SubSeq(stack, 1, Len(stack)) = stack /\ Len(stack) \in 1..Len(stack)
      BY <1>2, SubSeqFull
    <2>4. stack' = Append(SubSeq(stack, 1, Len(stack)), Frame(StepOf(Top).body, 1, FALSE))
      BY <2>1, <2>3
    <2>5. Scoped(stack', bg, Len(tasks))
      BY <1>1, <1>2, <2>2, <2>3, <2>4, FrameScoped, Zenon
    <2> QED
      BY <2>1, <2>5 DEF LeakInv
  <1>7. CASE IterationHolds \/ AfterFailure
    <2>1. /\ pc \in {"stepping", "cleaned"} /\ pc' = "stepping" /\ Depth > 1
          /\ bg' = bg /\ tasks' = tasks /\ awaited' = awaited
      BY <1>1, <1>7 DEF IterationHolds, AfterFailure, StackInv
    <2>2. PICK failed \in BOOLEAN : Continue(failed)
      BY <1>2, <1>7 DEF IterationHolds, AfterFailure, Frames
    <2>3. Scoped(stack', bg, Len(tasks))
      BY <1>1, <2>1, <2>2, ContinueScoped
    <2> QED
      BY <2>1, <2>3 DEF LeakInv
  <1>8. CASE IterationFails \/ Cleaned \/ EndSection \/ Finish
    <2>1. stack' = stack /\ bg' = bg /\ tasks' = tasks /\ awaited' = awaited
      BY <1>8 DEF IterationFails, Cleaned, EndSection, Finish
    <2>2. CASE IterationFails
      BY <2>1, <2>2 DEF IterationFails, LeakInv
    <2>3. CASE Cleaned
      <3>1. pc = "cleaning" /\ pc' = "cleaned" /\ StartedSince = {}
        BY <2>3 DEF Cleaned
      <3>2. awaited = NoName
        BY <1>1, <3>1 DEF LeakInv, StartedSince, BgInv
      <3>3. StartedSince' = {}
        BY <2>1, <3>1 DEF StartedSince, Top, Depth
      <3> QED
        BY <2>1, <3>1, <3>2, <3>3 DEF LeakInv
    <2>4. CASE EndSection \/ Finish
      BY <1>2, <2>1, <2>4 DEF EndSection, Finish, LeakInv
    <2> QED
      BY <1>8, <2>2, <2>3, <2>4
  <1>9. ASSUME stack' = stack, bg' = bg, DOMAIN tasks' = DOMAIN tasks
        PROVE  Scoped(stack', bg', Len(tasks')) /\ Top' = Top
    <2>1. Len(tasks') = Len(tasks)
      BY <1>1, <1>9, SameLength
    <2> QED
      BY <1>1, <1>9, <2>1 DEF Top, Depth
  <1>10. ASSUME NEW n \in BgNames, Cancel(n), stack' = stack, bg' = bg,
                \/ pc' = "joining"
                \/ pc' = "ending" /\ pc = "ending"
                \/ pc' = "cleaning" /\ n \notin Top.before
         PROVE  LeakInv'
    <2>1. DOMAIN tasks' = DOMAIN tasks /\ awaited' = n
      BY <1>10 DEF Cancel
    <2> QED
      BY <1>9, <1>10, <2>1 DEF LeakInv
  <1>11. CASE StopBackground
    <2>1. StepOf(Top).name \in BgNames
      BY <1>1, <1>11, StepTyped DEF StopBackground, At, Step
    <2> QED
      BY <1>10, <1>11, <2>1 DEF StopBackground
  <1>12. ASSUME NEW n \in BgNames, CancelSince(n) \/ CancelLeft(n)
         PROVE  LeakInv'
    BY <1>10, <1>12 DEF CancelSince, CancelLeft, StartedSince
  <1>13. CASE JoinSince \/ JoinLeft
    <2>1. Forget /\ stack' = stack /\ pc' = pc /\ awaited' = NoName /\ pc \in {"cleaning", "ending"}
      BY <1>13 DEF JoinSince, JoinLeft, Forget
    <2>2. awaited # NoName /\ awaited \in BgNames /\ bg[awaited] \in Nat
      BY <1>1, <2>1 DEF Forget, Joinable, BgInv
    <2>3. awaited \notin Top.before
      <3>1. CASE pc = "ending"
        <4>1. Top = stack[1] /\ stack[1].earlier = 0 /\ 1 \in 1..Len(stack)
          BY <1>1, <1>2, <3>1 DEF LeakInv, Top, Scoped
        <4> QED
          BY <1>1, <2>2, <4>1 DEF Scoped
      <3>2. CASE pc = "cleaning"
        BY <2>2, <3>2 DEF LeakInv
      <3> QED
        BY <2>1, <3>1, <3>2
    <2>4. Scoped(stack, bg', Len(tasks'))
      BY <1>1, <2>1, <2>3, ForgetScoped
    <2> QED
      BY <2>1, <2>4 DEF LeakInv
  <1>14. CASE StopReturns
    <2>1. Forget /\ pc = "joining" /\ pc' = "stepping" /\ awaited' = NoName
      BY <1>14 DEF StopReturns, Forget
    <2>2. Scoped(stack, bg', Len(tasks'))
      BY <1>1, <2>1, ForgetScoped DEF StopsItsOwn
    <2>3. PICK v : EndStep(v)
      BY <1>14 DEF StopReturns
    <2>4. Scoped(stack', bg', Len(tasks'))
      BY <1>1, <2>2, <2>3, EndScoped
    <2> QED
      BY <2>1, <2>4 DEF LeakInv
  <1>15. CASE Environment \/ UNCHANGED vars
    <2>1. stack' = stack /\ bg' = bg /\ awaited' = awaited /\ pc' = pc
      BY <1>15 DEF Environment, Observes, Ends, Obeys, vars
    <2>2. DOMAIN tasks' = DOMAIN tasks
      BY <1>15 DEF Environment, Observes, Ends, Obeys, vars
    <2>3. Scoped(stack', bg', Len(tasks')) /\ Top' = Top
      BY <1>9, <2>1, <2>2
    <2>4. StartedSince' = StartedSince
      BY <2>1, <2>3 DEF StartedSince
    <2> QED
      BY <2>1, <2>3, <2>4 DEF LeakInv
  <1> QED
    BY <1>3, <1>4, <1>5, <1>6, <1>7, <1>8, <1>11, <1>12, <1>13, <1>14, <1>15 DEF Next, Runner

LEMMA LeakInitially == Init => LeakInv
  <1> SUFFICES ASSUME Init PROVE LeakInv
    OBVIOUS
  <1>1. /\ Len(stack) = 1 /\ stack[1].earlier = 0 /\ stack[1].before = {} /\ pc = "stepping"
        /\ Len(tasks) = 0 /\ awaited = NoName /\ \A n \in BgNames : bg[n] = 0
    BY DEF Init
  <1> QED
    BY <1>1 DEF LeakInv, Scoped

(* cancelBackgroundsSince: a failed iteration leaves no goroutine running  *)
(* that was started in it, provided that iterations join only names that   *)
(* were not live before them: a name joined and started again counts as    *)
(* live before, and then it is missed.                                     *)
THEOREM NoLeak == Spec /\ []StopsItsOwn => []NoLeakPastAbort
  <1>1. IInv /\ LeakInv /\ StopsItsOwn /\ [Next]_vars => LeakInv'
    BY LeakStep
  <1>2. IInv /\ LeakInv => NoLeakPastAbort
    <2> SUFFICES ASSUME IInv, LeakInv, pc = "cleaned", NEW k \in DOMAIN tasks, k > Top.earlier, Unjoined(k)
                 PROVE  FALSE
      BY DEF NoLeakPastAbort
    <2>1. Depth = Len(stack) /\ Len(stack) \in Nat \ {0} /\ Top = stack[Len(stack)]
      BY TopFrame DEF Depth, IInv, Top
    <2>2. PICK n \in BgNames : bg[n] = k
      BY DEF IInv, HandlesOwnTasks
    <2>3. bg[n] # 0 /\ k \in Nat
      <3>1. DOMAIN tasks = 1..Len(tasks) /\ Len(tasks) \in Nat
        BY LenProperties DEF IInv, BgInv
      <3> QED
        BY <2>2, <3>1
    <2>4. n \notin Top.before
      <3>1. Top.earlier \in Nat /\ (n \in Top.before <=> bg[n] # 0 /\ bg[n] <= Top.earlier)
        BY <2>1 DEF LeakInv, Scoped
      <3> QED
        BY <2>2, <2>3, <3>1
    <2> QED
      BY <2>3, <2>4 DEF LeakInv, StartedSince
  <1> QED
    BY <1>1, <1>2, LeakInitially, Invariance, PTL DEF Spec
=============================================================================
