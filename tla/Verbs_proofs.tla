------------------------------ MODULE Verbs_proofs ------------------------------
(***************************************************************************)
(* For any number of branches and calls, whatever the systems answer and   *)
(* whenever the run is cancelled: a gate opens on what it asks for, in     *)
(* time; a window of samples that is returned is whole; a command that is  *)
(* cut off leaves nothing that holds its output; and a fault or restore    *)
(* that answers without an error is in force.                              *)
(***************************************************************************)
EXTENDS Verbs, TLAPS, SequenceTheorems, FiniteSetTheorems

(* The least-number principle, from the well-ordering of Nat.              *)
LEMMA LeastNumber ==
  ASSUME NEW T \in SUBSET Nat, T # {}
  PROVE  \E m \in T : \A k \in T : m <= k
  <1> DEFINE R == OpToRel(<, Nat)
  <1>1. IsWellFoundedOn(R, Nat)
    BY NatLessThanWellFounded
  <1>2. \A x, y \in Nat : x < y => <<x, y>> \in R
    BY DEF OpToRel
  <1> HIDE DEF R
  <1>3. PICK m \in T : \A k \in T : <<k, m>> \notin R
    BY <1>1, WFMin
  <1>4. \A k \in T : ~ k < m
    BY <1>2, <1>3
  <1>5. \A k \in T : k \in Nat /\ m \in Nat
    OBVIOUS
  <1>6. QED
    BY <1>4, <1>5

(* What the model's Min returns.                                           *)
LEMMA MinOf ==
  ASSUME NEW S \in SUBSET Nat, S # {}
  PROVE  Min(S) \in S /\ \A y \in S : Min(S) <= y
  <1>1. \E m \in S : \A k \in S : m <= k
    BY LeastNumber
  <1>2. QED
    BY <1>1 DEF Min

LEMMA MinOfTwo ==
  ASSUME NEW a \in Nat, NEW b \in Nat
  PROVE  /\ Min({a, b}) \in Nat
         /\ Min({a, b}) <= a /\ Min({a, b}) <= b
         /\ Min({a, b}) = a \/ Min({a, b}) = b
  <1>1. Min({a, b}) \in {a, b} /\ \A y \in {a, b} : Min({a, b}) <= y
    BY MinOf
  <1>2. QED
    BY <1>1

LEMMA MinOfFour ==
  ASSUME NEW a \in Nat, NEW b \in Nat, NEW d \in Nat, NEW e \in Nat
  PROVE  /\ Min({a, b, d, e}) \in Nat /\ Min({a, b, d, e}) \in {a, b, d, e}
         /\ Min({a, b, d, e}) <= a /\ Min({a, b, d, e}) <= b
         /\ Min({a, b, d, e}) <= d /\ Min({a, b, d, e}) <= e
  <1> DEFINE S == {a, b, d, e}
  <1>1. S \in SUBSET Nat /\ S # {} /\ a \in S /\ b \in S /\ d \in S /\ e \in S
    OBVIOUS
  <1> HIDE DEF S
  <1>2. Min(S) \in S /\ \A y \in S : Min(S) <= y
    BY <1>1, MinOf
  <1>3. Min(S) <= a /\ Min(S) <= b /\ Min(S) <= d /\ Min(S) <= e
    BY <1>1, <1>2
  <1>4. Min(S) \in Nat
    BY <1>1, <1>2
  <1>5. QED
    BY <1>2, <1>3, <1>4 DEF S

-----------------------------------------------------------------------------
(* Callers and their control points.                                       *)

FaultPoints ==
  {"proxy", "addToxic", "disable", "toxics", "removeToxic", "enable", "notEnabled", "resetState",
   "writeConf", "removeConf", "reload", "compose", "ps", "networkToggle", "updateCPUs",
   "held", "unanswered"}

(* A verb of this kind has this control point.                             *)
PointOf(kind, p) ==
  \/ kind = "fault" /\ p \in FaultPoints
  \/ kind = "request" /\ p \in {"ask", "asking", "got"}
  \/ kind = "wait" /\ p \in {"ask", "asking", "got", "pause"}
  \/ kind = "sample" /\ p \in {"window", "ask", "asking", "got", "pause"}
  \/ kind \in Spans /\ p \in {"waits", "spans"}
  \/ kind = "assert" /\ p = "assert"
  \/ kind = "exec" /\ p \in {"command", "dying"}

(* The frames are functions of the callers.                                *)
FramesInv ==
  /\ now \in 0..Horizon
  /\ script \in [Callers -> Seq(AllCalls)]
  /\ at = [c \in Callers |-> at[c]]
  /\ start \in [Callers -> Nat]
  /\ wake = [c \in Callers |-> wake[c]]
  /\ mem = [c \in Callers |-> mem[c]]
  /\ answer = [c \in Callers |-> answer[c]]

(* A caller between two calls waits for nothing; within one it is at a     *)
(* point of its verb.                                                      *)
CallInv(c) ==
  /\ at[c] = "idle" => wake[c] = 0
  /\ at[c] # "idle" => script[c] # <<>> /\ start[c] <= now /\ PointOf(Call(c).kind, at[c])

ControlInv == FramesInv /\ \A c \in Callers : CallInv(c)

(* What a step does to the frames of the one that takes it: its call goes  *)
(* on at another point, or ends.                                           *)
Enters(c, p) ==
  \E m, w, s :
    /\ at' = [at EXCEPT ![c] = p]
    /\ mem' = [mem EXCEPT ![c] = m]
    /\ wake' = [wake EXCEPT ![c] = w]
    /\ start' = [start EXCEPT ![c] = s]
    /\ s = now \/ (s = start[c] /\ at[c] # "idle")
    /\ UNCHANGED <<script, answer>>

Leaves(c) ==
  \E a, m :
    /\ answer' = [answer EXCEPT ![c] = a]
    /\ a.call = Call(c)
    /\ script' = [script EXCEPT ![c] = Tail(@)]
    /\ at' = [at EXCEPT ![c] = "idle"]
    /\ wake' = [wake EXCEPT ![c] = 0]
    /\ mem' = [mem EXCEPT ![c] = m]
    /\ UNCHANGED start

LEMMA CallType ==
  ASSUME FramesInv, NEW c \in Callers, script[c] # <<>>
  PROVE  /\ Call(c) \in AllCalls /\ Call(c).timeout \in Nat
         /\ Tail(script[c]) \in Seq(AllCalls)
  <1>1. script[c] \in Seq(AllCalls)
    BY DEF FramesInv
  <1>2. Call(c) \in AllCalls /\ Tail(script[c]) \in Seq(AllCalls)
    BY <1>1, HeadTailProperties DEF Call
  <1>3. QED
    BY <1>2, ScriptsAssumption

LEMMA GotoEnters ==
  ASSUME FramesInv, NEW c \in Callers, NEW p, NEW w, NEW m, at[c] # "idle", Goto(c, p, w, m)
  PROVE  Enters(c, p)
  <1>1. start = [start EXCEPT ![c] = start[c]]
    BY DEF FramesInv
  <1>2. QED
    BY <1>1 DEF Goto, Enters

LEMMA BeginEnters ==
  ASSUME FramesInv, NEW c \in Callers, NEW kind, NEW p, NEW m, Begin(c, kind, p, m)
  PROVE  Enters(c, p) /\ script[c] # <<>> /\ Call(c).kind = kind /\ at[c] = "idle"
  <1>1. wake = [wake EXCEPT ![c] = wake[c]]
    BY DEF FramesInv
  <1>2. QED
    BY <1>1 DEF Begin, Enters, Idle

LEMMA ReturnLeaves ==
  ASSUME NEW c \in Callers, NEW ok, NEW why, NEW value, Return(c, ok, why, value)
  PROVE  Leaves(c)
  <1> DEFINE a == [call |-> Call(c), ok |-> ok, why |-> why, value |-> value, start |-> start[c],
                   end |-> now, cancelled |-> cancelled, mem |-> mem[c]]
  <1>1. answer' = [answer EXCEPT ![c] = a] /\ a.call = Call(c)
    BY DEF Return
  <1> HIDE DEF a
  <1>2. QED
    BY <1>1 DEF Return, Leaves

Goes(c, kind, points) ==
  /\ script[c] # <<>> /\ Call(c).kind = kind
  /\ Leaves(c) \/ \E p \in points : Enters(c, p)

LEMMA FaultPoint ==
  ASSUME NEW c, CallInv(c), at[c] \in FaultPoints
  PROVE  at[c] # "idle" /\ script[c] # <<>> /\ Call(c).kind = "fault"
  BY DEF CallInv, PointOf, FaultPoints, Spans

LEMMA FaultMoves ==
  ASSUME ControlInv, NEW c \in Callers, FaultStep(c)
  PROVE  Goes(c, "fault", FaultPoints)
  <1> CallInv(c) /\ FramesInv
    BY DEF ControlInv
  <1>b. ASSUME NEW verbs, NEW p \in FaultPoints, NEW todo, BeginFault(c, verbs, p, todo)
        PROVE  Goes(c, "fault", FaultPoints)
    <2>1. Enters(c, p) /\ script[c] # <<>> /\ Call(c).kind = "fault"
      BY <1>b, BeginEnters DEF BeginFault
    <2>2. QED
      BY <2>1 DEF Goes
  <1>g. ASSUME NEW p \in FaultPoints, NEW w, NEW m, at[c] \in FaultPoints, Goto(c, p, w, m)
        PROVE  Goes(c, "fault", FaultPoints)
    <2>1. Enters(c, p)
      BY <1>g, FaultPoint, GotoEnters
    <2>2. QED
      BY <2>1, <1>g, FaultPoint DEF Goes
  <1>r. ASSUME at[c] \in FaultPoints, Answered(c) \/ Fails(c)
        PROVE  Goes(c, "fault", FaultPoints)
    <2>1. Leaves(c)
      BY <1>r, ReturnLeaves DEF Answered, Fails
    <2>2. QED
      BY <2>1, <1>r, FaultPoint DEF Goes
  <1>h. ASSUME at[c] \in FaultPoints,
               Goto(c, "held", Never, mem[c]) \/ Goto(c, "unanswered", Deadline(c), mem[c])
        PROVE  Goes(c, "fault", FaultPoints)
    <2>1. "held" \in FaultPoints /\ "unanswered" \in FaultPoints
      BY DEF FaultPoints
    <2>2. QED
      BY <2>1, <1>h, <1>g
  <1>1. CASE ToxiStep(c)
    <2>1. CASE BeginToxi(c)
      BY <2>1, <1>b DEF BeginToxi, FaultPoints
    <2>2. CASE GetProxy(c)
      <3> DEFINE p == CASE Call(c).verb \in Toxics -> "addToxic"
                        [] Call(c).verb = "partition" -> "disable" [] OTHER -> "toxics"
      <3>1. p \in FaultPoints /\ at[c] \in FaultPoints
        BY <2>2 DEF GetProxy, FaultPoints
      <3>2. Goto(c, p, 0, [mem[c] EXCEPT !.todo =
                             IF Call(c).verb \in Toxics THEN Call(c).streams ELSE <<>>])
            \/ Fails(c) \/ Goto(c, "held", Never, mem[c])
        BY <2>2 DEF GetProxy, Request, Attempt, Hangs
      <3> HIDE DEF p
      <3>3. QED
        BY <3>1, <3>2, <1>g, <1>h, <1>r
    <2>3. CASE AddToxic(c)
      <3>1. at[c] \in FaultPoints /\ "addToxic" \in FaultPoints
        BY <2>3 DEF AddToxic, FaultPoints
      <3>2. \/ Answered(c) \/ Fails(c)
            \/ \E m : Goto(c, "addToxic", 0, m)
            \/ Goto(c, "held", Never, mem[c])
        BY <2>3, Zenon DEF AddToxic, Request, Attempt, Hangs
      <3>3. QED
        BY <3>1, <3>2, <1>g, <1>h, <1>r
    <2>4. CASE Disable(c)
      BY <2>4, <1>h, <1>r DEF Disable, Request, Attempt, Hangs, FaultPoints
    <2>5. CASE ListToxics(c)
      BY <2>5, <1>g, <1>h DEF ListToxics, Request, Attempt, Hangs, FaultPoints
    <2>6. CASE RemoveToxic(c)
      BY <2>6, <1>g, <1>h DEF RemoveToxic, Request, Attempt, Hangs, FaultPoints
    <2>7. CASE Removed(c)
      BY <2>7, <1>g DEF Removed, Then, FaultPoints
    <2>8. CASE Enable(c)
      <3>1. at[c] \in FaultPoints /\ "notEnabled" \in FaultPoints
        BY <2>8 DEF Enable, FaultPoints
      <3>2. \/ Answered(c) \/ Fails(c)
            \/ \E m : Goto(c, "notEnabled", 0, m)
            \/ Goto(c, "held", Never, mem[c])
        BY <2>8, Zenon DEF Enable, Request, Attempt, Hangs
      <3>3. QED
        BY <3>1, <3>2, <1>g, <1>h, <1>r
    <2>9. CASE NotEnabled(c)
      BY <2>9, <1>r DEF NotEnabled, FaultPoints
    <2>10. CASE ResetState(c)
      BY <2>10, <1>h, <1>r DEF ResetState, Request, Attempt, Hangs, FaultPoints
    <2>11. QED
      BY <1>1, <2>1, <2>2, <2>3, <2>4, <2>5, <2>6, <2>7, <2>8, <2>9, <2>10 DEF ToxiStep
  <1>2. CASE NetStep(c)
    <2>1. CASE BeginNet(c)
      BY <2>1, <1>b DEF BeginNet, FaultPoints
    <2>2. CASE WriteConf(c)
      BY <2>2, <1>g, <1>r DEF WriteConf, Then, Attempt, FaultPoints
    <2>3. CASE RemoveConf(c)
      BY <2>3, <1>g, <1>r DEF RemoveConf, Attempt, FaultPoints
    <2>4. CASE ConfRemoved(c)
      BY <2>4, <1>g DEF ConfRemoved, Then, FaultPoints
    <2>5. CASE Reload(c)
      BY <2>5, <1>h, <1>r DEF Reload, Command, Attempt, Hangs, FaultPoints
    <2>6. QED
      BY <1>2, <2>1, <2>2, <2>3, <2>4, <2>5 DEF NetStep
  <1>3. CASE DockerStep(c)
    <2>1. CASE BeginDocker(c)
      BY <2>1, <1>b DEF BeginDocker, FaultPoints
    <2>2. CASE Compose(c)
      BY <2>2, <1>h, <1>r DEF Compose, Command, Attempt, Hangs, FaultPoints
    <2>3. CASE containerIDs(c)
      <3> DEFINE p == IF Call(c).verb \in {"throttle", "unthrottle"} THEN "updateCPUs" ELSE "networkToggle"
      <3>1. p \in FaultPoints /\ at[c] \in FaultPoints
        BY <2>3 DEF containerIDs, FaultPoints
      <3>2. \/ (\E m : Goto(c, p, 0, m)) \/ Fails(c)
            \/ Goto(c, "unanswered", Deadline(c), mem[c])
        BY <2>3 DEF containerIDs, Command, Attempt, Hangs
      <3> HIDE DEF p
      <3>3. QED
        BY <3>1, <3>2, <1>g, <1>h, <1>r
    <2>4. CASE networkToggle(c)
      BY <2>4, <1>g, <1>h, <1>r DEF networkToggle, Command, Attempt, Hangs, FaultPoints
    <2>5. CASE updateCPUs(c)
      BY <2>5, <1>h, <1>r DEF updateCPUs, Command, Attempt, Hangs, FaultPoints
    <2>6. QED
      BY <1>3, <2>1, <2>2, <2>3, <2>4, <2>5 DEF DockerStep
  <1>4. CASE CutCommand(c)
    <2>1. at[c] \in FaultPoints /\ "held" \in FaultPoints
      BY <1>4 DEF CutCommand, FaultPoints
    <2>2. Fails(c) \/ Goto(c, "held", Never, mem[c])
      BY <1>4 DEF CutCommand
    <2>3. QED
      BY <2>1, <2>2, <1>g, <1>r
  <1>5. QED
    BY <1>1, <1>2, <1>3, <1>4 DEF FaultStep

LEMMA RequestMoves ==
  ASSUME ControlInv, NEW c \in Callers, RequestStep(c)
  PROVE  /\ script[c] # <<>> /\ Call(c).kind \in {"request", "wait", "sample"}
         /\ Leaves(c) \/ \E p \in {"ask", "asking", "got"} : Enters(c, p)
         /\ Call(c).kind = "request" \/ Arrives(c) \/ CutOff(c)
         /\ Leaves(c) => Call(c).kind = "request"
  <1> CallInv(c) /\ FramesInv
    BY DEF ControlInv
  <1>i. at[c] \in {"ask", "asking", "got"} =>
          script[c] # <<>> /\ Call(c).kind \in {"request", "wait", "sample"}
    BY DEF CallInv, PointOf, FaultPoints, Spans
  <1>1. CASE BeginRequest(c)
    <2>1. Enters(c, "ask") /\ script[c] # <<>> /\ Call(c).kind = "request"
      BY <1>1, BeginEnters DEF BeginRequest
    <2>2. QED
      BY <2>1
  <1>2. CASE SendRequest(c)
    <2>1. Call(c).kind = "request" /\ at[c] = "ask" /\ \E w, m : Goto(c, "asking", w, m)
      BY <1>2 DEF SendRequest, Ask
    <2>2. Enters(c, "asking")
      BY <2>1, GotoEnters
    <2>3. QED
      BY <2>1, <2>2, <1>i
  <1>3. CASE Arrives(c) \/ CutOff(c)
    <2>1. at[c] = "asking" /\ \E m : Goto(c, "got", 0, m)
      BY <1>3 DEF Arrives, CutOff
    <2>2. Enters(c, "got")
      BY <2>1, GotoEnters
    <2>3. ~Leaves(c)
      <3>1. at'[c] = "got"
        BY <2>2 DEF Enters, FramesInv
      <3>2. Leaves(c) => at'[c] = "idle"
        BY DEF Leaves, FramesInv
      <3>3. QED
        BY <3>1, <3>2
    <2>4. QED
      BY <2>1, <2>2, <2>3, <1>i, <1>3
  <1>4. CASE EndRequest(c)
    <2>1. Call(c).kind = "request" /\ at[c] = "got" /\ Leaves(c)
      BY <1>4, ReturnLeaves DEF EndRequest
    <2>2. QED
      BY <2>1, <1>i
  <1>5. QED
    BY <1>1, <1>2, <1>3, <1>4 DEF RequestStep

(* A step of a verb that waits, unless a request of it comes back.         *)
WaitAction(c) ==
  BeginWait(c) \/ Poll(c) \/ Inspect(c) \/ GiveUp(c) \/ PollAgain(c)

LEMMA PollMoves ==
  ASSUME ControlInv, NEW c \in Callers, PollStep(c)
  PROVE  /\ script[c] # <<>>
         /\ Leaves(c) \/ \E p : Enters(c, p) /\ PointOf(Call(c).kind, p)
         /\ Call(c).kind = "wait" => Refuse(c) \/ WaitAction(c)
         /\ Call(c).kind = "exec" => FALSE
  <1> CallInv(c) /\ FramesInv
    BY DEF ControlInv
  <1> USE DEF PointOf
  <1>g. ASSUME NEW p, at[c] # "idle", PointOf(Call(c).kind, p), \E w, m : Goto(c, p, w, m)
        PROVE  script[c] # <<>> /\ \E q : Enters(c, q) /\ PointOf(Call(c).kind, q)
    BY <1>g, GotoEnters DEF CallInv
  <1>r. ASSUME at[c] # "idle", \E ok, why, value : Return(c, ok, why, value)
        PROVE  script[c] # <<>> /\ Leaves(c)
    BY <1>r, ReturnLeaves DEF CallInv
  <1>b. ASSUME NEW kind, NEW p, PointOf(kind, p), \E m : Begin(c, kind, p, m)
        PROVE  /\ script[c] # <<>> /\ Call(c).kind = kind
               /\ \E q : Enters(c, q) /\ PointOf(Call(c).kind, q)
    BY <1>b, BeginEnters
  <1>1. CASE Refuse(c)
    <2>1. at[c] = "idle" /\ script[c] # <<>> /\ wake[c] = 0
      BY <1>1 DEF Refuse, Idle, CallInv
    <2>2. at = [at EXCEPT ![c] = "idle"] /\ wake = [wake EXCEPT ![c] = 0]
          /\ mem = [mem EXCEPT ![c] = mem[c]]
      BY <2>1 DEF FramesInv
    <2>3. Leaves(c)
      BY <1>1, <2>2 DEF Refuse, Leaves
    <2>4. Call(c).kind # "exec"
      BY <1>1 DEF Refuse, Unbuilt
    <2>5. QED
      BY <2>1, <2>3, <2>4, <1>1
  <1>2. CASE WaitAction(c)
    <2>1. CASE BeginWait(c)
      <3>1. \E m : Begin(c, "wait", "ask", m)
        BY <2>1 DEF BeginWait
      <3>2. QED
        BY SMTT(20), <3>1, <1>b, <1>2
    <2>2. CASE Poll(c)
      <3>1. at[c] # "idle" /\ Call(c).kind = "wait" /\ \E w, m : Goto(c, "asking", w, m)
        BY <2>2 DEF Poll, Ask
      <3>2. QED
        BY <3>1, <1>g, <1>2
    <2>3. CASE Inspect(c)
      <3>1. /\ at[c] # "idle" /\ Call(c).kind = "wait"
            /\ \/ \E w, m : Goto(c, "pause", w, m)
               \/ \E ok, why, value : Return(c, ok, why, value)
        BY <2>3 DEF Inspect, Unmet
      <3>2. QED
        BY <3>1, <1>g, <1>r, <1>2
    <2>4. CASE GiveUp(c)
      <3>1. at[c] # "idle" /\ Call(c).kind = "wait" /\ \E ok, why, value : Return(c, ok, why, value)
        BY <2>4 DEF GiveUp
      <3>2. QED
        BY <3>1, <1>r, <1>2
    <2>5. CASE PollAgain(c)
      <3>1. at[c] # "idle" /\ Call(c).kind = "wait" /\ \E w, m : Goto(c, "ask", w, m)
        BY <2>5 DEF PollAgain
      <3>2. QED
        BY <3>1, <1>g, <1>2
    <2>6. QED
      BY <1>2, <2>1, <2>2, <2>3, <2>4, <2>5 DEF WaitAction
  <1>3. CASE BeginSample(c) \/ NextSample(c) \/ SampleSlept(c) \/ SampleCut(c) \/ SendSample(c)
             \/ CountSample(c)
    <2>1. CASE BeginSample(c)
      <3>1. \E m : Begin(c, "sample", "window", m)
        BY <2>1 DEF BeginSample
      <3>2. PointOf("sample", "window")
        OBVIOUS
      <3> HIDE DEF PointOf
      <3>3. Call(c).kind = "sample" /\ script[c] # <<>> /\ \E q : Enters(c, q) /\ PointOf(Call(c).kind, q)
        BY <3>1, <3>2, <1>b
      <3>4. QED
        BY <3>3
    <2>2. CASE NextSample(c)
      <3>1. at[c] # "idle" /\ Call(c).kind = "sample"
        BY <2>2 DEF NextSample, CallInv, FaultPoints, Spans
      <3>2. \/ \E w, m : Goto(c, "pause", w, m)
            \/ \E w, m : Goto(c, "ask", w, m)
            \/ \E ok, why, value : Return(c, ok, why, value)
        BY <2>2 DEF NextSample
      <3>3. QED
        BY <3>1, <3>2, <1>g, <1>r
    <2>3. CASE SampleSlept(c) \/ SampleCut(c)
      <3>1. at[c] # "idle" /\ Call(c).kind = "sample"
        BY <2>3 DEF SampleSlept, SampleCut
      <3>2. \/ \E w, m : Goto(c, "ask", w, m)
            \/ \E ok, why, value : Return(c, ok, why, value)
        BY <2>3 DEF SampleSlept, SampleCut
      <3>3. QED
        BY <3>1, <3>2, <1>g, <1>r
    <2>4. CASE SendSample(c) \/ CountSample(c)
      <3>1. at[c] # "idle" /\ Call(c).kind = "sample"
        BY <2>4 DEF SendSample, CountSample
      <3>2. \/ \E w, m : Goto(c, "asking", w, m)
            \/ \E w, m : Goto(c, "window", w, m)
        BY <2>4 DEF SendSample, CountSample, Ask
      <3>3. QED
        BY <3>1, <3>2, <1>g
    <2>5. QED
      BY <1>3, <2>1, <2>2, <2>3, <2>4
  <1>4. CASE BeginSpan(c) \/ Sleeps(c) \/ SpanEnds(c)
    <2>1. CASE BeginSpan(c)
      <3>1. Call(c).kind \in Spans /\ \E m : Begin(c, Call(c).kind, "waits", m)
        BY <2>1 DEF BeginSpan
      <3>2. QED
        BY <3>1, <1>b DEF Spans
    <2>2. CASE Sleeps(c) \/ SpanEnds(c)
      <3>1. at[c] # "idle" /\ Call(c).kind \in Spans
        BY <2>2 DEF Sleeps, SpanEnds, CallInv, FaultPoints, Spans
      <3>2. \/ \E w, m : Goto(c, "spans", w, m)
            \/ \E ok, why, value : Return(c, ok, why, value)
        BY <2>2 DEF Sleeps, SpanEnds
      <3>3. QED
        BY <3>1, <3>2, <1>g, <1>r DEF Spans
    <2>3. QED
      BY <1>4, <2>1, <2>2
  <1>5. CASE BeginAssert(c) \/ EndAssert(c)
    <2>1. CASE BeginAssert(c)
      <3>1. \E m : Begin(c, "assert", "assert", m)
        BY <2>1 DEF BeginAssert
      <3>2. QED
        BY <3>1, <1>b
    <2>2. CASE EndAssert(c)
      <3>1. at[c] # "idle" /\ Call(c).kind = "assert"
        BY <2>2 DEF EndAssert, CallInv, FaultPoints, Spans
      <3>2. \E ok, why, value : Return(c, ok, why, value)
        BY <2>2 DEF EndAssert
      <3>3. QED
        BY <3>1, <3>2, <1>r
    <2>3. QED
      BY <1>5, <2>1, <2>2
  <1>6. QED
    BY <1>1, <1>2, <1>3, <1>4, <1>5 DEF PollStep, WaitAction

LEMMA ExecMoves ==
  ASSUME ControlInv, NEW c \in Callers, ExecStep(c)
  PROVE  Goes(c, "exec", {"command", "dying"})
  <1> CallInv(c) /\ FramesInv
    BY DEF ControlInv
  <1>i. at[c] \in {"command", "dying"} => at[c] # "idle" /\ script[c] # <<>> /\ Call(c).kind = "exec"
    BY DEF CallInv, PointOf, FaultPoints, Spans
  <1>1. CASE BeginExec(c)
    BY <1>1, BeginEnters DEF BeginExec, Goes
  <1>2. CASE Watch(c) \/ Terminate(c) \/ Kill(c)
    <2>1. at[c] \in {"command", "dying"} /\ \E p \in {"command", "dying"} : \E w, m : Goto(c, p, w, m)
      BY <1>2 DEF Watch, Terminate, Kill, Await
    <2>2. QED
      BY <2>1, <1>i, GotoEnters DEF Goes
  <1>3. CASE EndExec(c)
    BY <1>3, <1>i, ReturnLeaves DEF EndExec, Goes
  <1>4. QED
    BY <1>1, <1>2, <1>3 DEF ExecStep

(* Every step of a caller, by the kind of its call.                        *)
LEMMA Moves ==
  ASSUME ControlInv, NEW c \in Callers, Step(c)
  PROVE  /\ script[c] # <<>> /\ UNCHANGED <<now, cancelled, case>>
         /\ Leaves(c) \/ \E p : Enters(c, p) /\ PointOf(Call(c).kind, p)
         /\ Call(c).kind = "wait" => Refuse(c) \/ WaitAction(c) \/ Arrives(c) \/ CutOff(c)
         /\ Call(c).kind = "exec" => ExecStep(c)
  <1>1. CASE FaultStep(c)
    <2>1. Goes(c, "fault", FaultPoints)
      BY <1>1, FaultMoves
    <2>2. QED
      BY <2>1 DEF Goes, PointOf, Step
  <1>2. CASE RequestStep(c)
    <2>1. /\ script[c] # <<>> /\ Call(c).kind \in {"request", "wait", "sample"}
          /\ Leaves(c) \/ \E p \in {"ask", "asking", "got"} : Enters(c, p)
          /\ Call(c).kind = "request" \/ Arrives(c) \/ CutOff(c)
      BY <1>2, RequestMoves
    <2>2. QED
      BY <2>1 DEF PointOf, Step
  <1>3. CASE PollStep(c)
    <2>1. /\ script[c] # <<>>
          /\ Leaves(c) \/ \E p : Enters(c, p) /\ PointOf(Call(c).kind, p)
          /\ Call(c).kind = "wait" => Refuse(c) \/ WaitAction(c)
          /\ Call(c).kind = "exec" => FALSE
      BY <1>3, PollMoves
    <2>2. QED
      BY <2>1 DEF Step
  <1>4. CASE ExecStep(c)
    <2>1. Goes(c, "exec", {"command", "dying"})
      BY <1>4, ExecMoves
    <2>2. QED
      BY <2>1, <1>4 DEF Goes, PointOf, Step
  <1>5. QED
    BY <1>1, <1>2, <1>3, <1>4 DEF Step

(* The others keep their frames.                                           *)
Keeps(d) ==
  /\ script'[d] = script[d] /\ at'[d] = at[d] /\ start'[d] = start[d]
  /\ wake'[d] = wake[d] /\ mem'[d] = mem[d] /\ answer'[d] = answer[d]

LEMMA OthersKeep ==
  ASSUME ControlInv, NEW c \in Callers, NEW d \in Callers, d # c, Step(c)
  PROVE  Keeps(d)
  <1>1. Leaves(c) \/ \E p : Enters(c, p)
    BY Moves
  <1>2. FramesInv
    BY DEF ControlInv
  <1>3. CASE Leaves(c)
    BY <1>2, <1>3 DEF Leaves, FramesInv, Keeps
  <1>4. CASE \E p : Enters(c, p)
    BY <1>2, <1>4 DEF Enters, FramesInv, Keeps
  <1>5. QED
    BY <1>1, <1>3, <1>4

LEMMA StepFrames ==
  ASSUME ControlInv, NEW c \in Callers, Step(c)
  PROVE  FramesInv' /\ CallInv(c)'
  <1>1. /\ script[c] # <<>> /\ UNCHANGED <<now, cancelled, case>>
        /\ Leaves(c) \/ \E p : Enters(c, p) /\ PointOf(Call(c).kind, p)
    BY Moves
  <1>2. FramesInv
    BY DEF ControlInv
  <1>3. Tail(script[c]) \in Seq(AllCalls)
    BY <1>1, <1>2, CallType
  <1>4. now' \in 0..Horizon /\ now \in Nat
    BY <1>1, <1>2, HorizonAssumption DEF FramesInv
  <1>5. CASE Leaves(c)
    <2>1. PICK a, m :
            /\ answer' = [answer EXCEPT ![c] = a]
            /\ script' = [script EXCEPT ![c] = Tail(@)]
            /\ at' = [at EXCEPT ![c] = "idle"]
            /\ wake' = [wake EXCEPT ![c] = 0]
            /\ mem' = [mem EXCEPT ![c] = m]
            /\ UNCHANGED start
      BY <1>5 DEF Leaves
    <2>2. script' \in [Callers -> Seq(AllCalls)] /\ start' \in [Callers -> Nat]
      BY <1>2, <1>3, <2>1 DEF FramesInv
    <2>3. /\ at' = [d \in Callers |-> at'[d]] /\ wake' = [d \in Callers |-> wake'[d]]
          /\ mem' = [d \in Callers |-> mem'[d]] /\ answer' = [d \in Callers |-> answer'[d]]
      BY <1>2, <2>1 DEF FramesInv
    <2>4. at'[c] = "idle" /\ wake'[c] = 0
      BY <1>2, <2>1 DEF FramesInv
    <2>5. QED
      BY <1>4, <2>2, <2>3, <2>4 DEF FramesInv, CallInv
  <1>6. CASE \E p : Enters(c, p) /\ PointOf(Call(c).kind, p)
    <2>1. PICK p, m, w, s :
            /\ PointOf(Call(c).kind, p)
            /\ at' = [at EXCEPT ![c] = p]
            /\ mem' = [mem EXCEPT ![c] = m]
            /\ wake' = [wake EXCEPT ![c] = w]
            /\ start' = [start EXCEPT ![c] = s]
            /\ s = now \/ (s = start[c] /\ at[c] # "idle")
            /\ UNCHANGED <<script, answer>>
      BY <1>6 DEF Enters
    <2>2. start[c] \in Nat /\ s \in Nat /\ s <= now
      BY <1>2, <1>4, <2>1 DEF FramesInv, ControlInv, CallInv
    <2>3. script' \in [Callers -> Seq(AllCalls)] /\ start' \in [Callers -> Nat]
      BY <1>2, <2>1, <2>2 DEF FramesInv
    <2>4. /\ at' = [d \in Callers |-> at'[d]] /\ wake' = [d \in Callers |-> wake'[d]]
          /\ mem' = [d \in Callers |-> mem'[d]] /\ answer' = [d \in Callers |-> answer'[d]]
      BY <1>2, <2>1 DEF FramesInv
    <2>5. at'[c] = p /\ start'[c] = s /\ script'[c] = script[c]
      BY <1>2, <2>1 DEF FramesInv
    <2>6. Call(c)' = Call(c)
      BY <2>5 DEF Call
    <2>7. p # "idle"
      BY <2>1 DEF PointOf, FaultPoints, Spans
    <2>8. CallInv(c)'
      BY <1>1, <2>1, <2>2, <2>5, <2>6, <2>7 DEF CallInv
    <2>9. QED
      BY <1>4, <2>3, <2>4, <2>8 DEF FramesInv
  <1>7. QED
    BY <1>1, <1>5, <1>6

LEMMA ControlInit == Init => ControlInv
  <1> SUFFICES ASSUME Init PROVE ControlInv
    OBVIOUS
  <1>1. PICK i \in DOMAIN Families : case \in Families[i]
    BY DEF Init, CallsInit
  <1>2. case \in Cases
    BY <1>1 DEF Cases
  <1>3. script \in [Callers -> Seq(AllCalls)]
    BY <1>2, ScriptsAssumption DEF Init, CallsInit
  <1>4. FramesInv
    BY <1>3, HorizonAssumption DEF Init, CallsInit, FramesInv
  <1>5. \A c \in Callers : CallInv(c)
    BY DEF Init, CallsInit, CallInv
  <1>6. QED
    BY <1>4, <1>5 DEF ControlInv

LEMMA ControlStep == ControlInv /\ [Next]_vars => ControlInv'
  <1> SUFFICES ASSUME ControlInv, [Next]_vars PROVE ControlInv'
    OBVIOUS
  <1>1. FramesInv /\ \A c \in Callers : CallInv(c)
    BY DEF ControlInv
  <1>2. ASSUME NEW c \in Callers, Step(c) PROVE ControlInv'
    <2>1. FramesInv' /\ CallInv(c)' /\ UNCHANGED now
      BY <1>2, StepFrames, Moves
    <2>2. ASSUME NEW d \in Callers PROVE CallInv(d)'
      <3>1. CASE d = c
        BY <2>1, <3>1
      <3>2. CASE d # c
        <4>1. Keeps(d)
          BY <1>2, <3>2, OthersKeep
        <4>2. Call(d)' = Call(d)
          BY <4>1 DEF Keeps, Call
        <4>3. QED
          BY <1>1, <2>1, <4>1, <4>2 DEF CallInv, Keeps
      <3>3. QED
        BY <3>1, <3>2
    <2>3. QED
      BY <2>1, <2>2 DEF ControlInv
  <1>3. ASSUME now' \in 0..Horizon, now' >= now, UNCHANGED frames PROVE ControlInv'
    <2>1. FramesInv'
      BY <1>1, <1>3 DEF FramesInv, frames
    <2>2. ASSUME NEW c \in Callers PROVE CallInv(c)'
      <3>1. Call(c)' = Call(c) /\ start[c] \in Nat /\ now \in Nat /\ now' \in Nat
        BY <1>1, <1>3, HorizonAssumption DEF Call, frames, FramesInv
      <3>2. QED
        BY <1>1, <1>3, <3>1 DEF CallInv, frames
    <2>3. QED
      BY <2>1, <2>2 DEF ControlInv
  <1>4. now \in 0..Horizon /\ Horizon \in Nat
    BY <1>1, HorizonAssumption DEF FramesInv
  <1>5. CASE Tick
    BY <1>3, <1>4, <1>5 DEF Tick
  <1>6. CASE Cancel
    BY <1>3, <1>4, <1>6 DEF Cancel
  <1>7. CASE UNCHANGED vars
    BY <1>3, <1>4, <1>7 DEF vars, vars0
  <1>8. QED
    BY <1>2, <1>5, <1>6, <1>7 DEF Next

-----------------------------------------------------------------------------
(* Commands.                                                               *)

(* What a running command has in hand: once SIGTERM is sent, SIGKILL       *)
(* follows when the grace is over, if the command still runs by then.      *)
ExecInv(c) ==
  Call(c).kind = "exec" /\ at[c] # "idle" =>
    /\ mem[c] = [term |-> mem[c].term, killed |-> mem[c].killed]
    /\ mem[c].term \in Nat /\ mem[c].killed \in Nat
    /\ at[c] = "command" => mem[c].term = Never /\ mem[c].killed = Never
    /\ mem[c].term # Never =>
         /\ mem[c].term <= now /\ mem[c].term <= start[c] + Call(c).shell.runs
         /\ mem[c].killed = Never =>
              /\ now <= mem[c].term + termGrace
              /\ wake[c] \in Nat /\ wake[c] <= mem[c].term + termGrace
    /\ mem[c].killed # Never =>
         /\ mem[c].term # Never /\ mem[c].killed <= now
         /\ mem[c].term + termGrace <= mem[c].killed

LEMMA ExecTypes ==
  ASSUME FramesInv, NEW c \in Callers, script[c] # <<>>, Call(c).kind = "exec"
  PROVE  /\ now \in Nat /\ now < Never /\ start[c] \in Nat
         /\ Never \in Nat /\ termGrace \in Nat /\ WaitDelay \in Nat
         /\ Call(c).shell.runs \in Nat /\ Call(c).child.runs \in Nat
         /\ Call(c).shell.reverts \in Nat /\ Call(c).child.reverts \in Nat
         /\ Call(c).shell.obeys \in BOOLEAN /\ Call(c).child.obeys \in BOOLEAN
         /\ Call(c).shell.pipe \in BOOLEAN /\ Call(c).child.pipe \in BOOLEAN
         /\ Deadline(c) \in Nat
  <1>1. now \in Nat /\ now < Never /\ start[c] \in Nat
    BY HorizonAssumption DEF FramesInv
  <1>2. Call(c) \in AllCalls /\ Call(c).timeout \in Nat
    BY CallType
  <1>3. Call(c).shell \in Process /\ Call(c).child \in Process
    BY <1>2, GroupsAssumption
  <1>4. Deadline(c) \in Nat
    BY <1>1, <1>2, HorizonAssumption DEF Deadline
  <1>5. QED
    BY <1>1, <1>3, <1>4, HorizonAssumption, GraceAssumption DEF Process

(* When a process is gone.                                                 *)
LEMMA GoneBounds ==
  ASSUME FramesInv, NEW c \in Callers, script[c] # <<>>, Call(c).kind = "exec",
         mem[c].term \in Nat, mem[c].killed \in Nat, NEW p \in Group
  PROVE  /\ GoneAt(c, p) \in Nat
         /\ GoneAt(c, p) <= start[c] + Proc(c, p).runs
         /\ GoneAt(c, p) <= mem[c].killed
         /\ (/\ mem[c].term # Never /\ mem[c].term <= Never
             /\ mem[c].term <= start[c] + Proc(c, p).runs /\ mem[c].term <= mem[c].killed)
            => mem[c].term <= GoneAt(c, p)
  <1> DEFINE T == mem[c].term
             byTerm == IF T # Never /\ Proc(c, p).obeys THEN T + Proc(c, p).reverts ELSE Never
             byDelay == IF T # Never /\ p = "shell" THEN T + WaitDelay ELSE Never
             self == start[c] + Proc(c, p).runs
  <1>1. Proc(c, p).runs \in Nat /\ Proc(c, p).reverts \in Nat /\ Proc(c, p).obeys \in BOOLEAN
    BY ExecTypes DEF Proc
  <1>2. start[c] \in Nat /\ Never \in Nat /\ WaitDelay \in Nat
    BY ExecTypes
  <1> HIDE DEF T
  <1>t. T \in Nat /\ T + Proc(c, p).reverts \in Nat /\ T <= T + Proc(c, p).reverts
        /\ T + WaitDelay \in Nat /\ T <= T + WaitDelay
    BY SMTT(20), <1>1, <1>2 DEF T
  <1>3. self \in Nat /\ byTerm \in Nat /\ byDelay \in Nat
    <2>1. self \in Nat
      BY <1>1, <1>2
    <2>2. byTerm \in Nat
      BY <1>2, <1>t
    <2>3. byDelay \in Nat
      BY <1>2, <1>t
    <2>4. QED
      BY <2>1, <2>2, <2>3
  <1>4. T # Never /\ T <= Never => T <= byTerm /\ T <= byDelay
    <2>1. T <= Never => T <= byTerm
      BY <1>t
    <2>2. T <= Never => T <= byDelay
      BY <1>t
    <2>3. QED
      BY <2>1, <2>2
  <1> DEFINE K == mem[c].killed
             gone == Min({self, byTerm, byDelay, K})
  <1>5. GoneAt(c, p) = gone
    BY DEF GoneAt, T
  <1> HIDE DEF self, byTerm, byDelay, K
  <1>6. /\ gone \in Nat /\ gone <= self /\ gone <= K
        /\ gone \in {self, byTerm, byDelay, K}
    <2>1. K \in Nat
      BY DEF K
    <2>2. QED
      BY <2>1, <1>3, MinOfFour
  <1> HIDE DEF gone
  <1>7. T # Never /\ T <= Never /\ T <= self /\ T <= K => T <= gone
    BY <1>4, <1>6
  <1>8. QED
    BY <1>5, <1>6, <1>7 DEF self, T, K

(* The next time is one of those that something happens at.                *)
LEMMA NextTimeBound ==
  ASSUME FramesInv, NEW c \in Callers, script[c] # <<>>, Call(c).kind = "exec",
         mem[c].term \in Nat, mem[c].killed \in Nat
  PROVE  /\ NextTime(c, mem[c]) \in Nat
         /\ mem[c].term # Never /\ now < mem[c].term + termGrace =>
              NextTime(c, mem[c]) <= mem[c].term + termGrace
  <1> DEFINE m == mem[c]
             times == {start[c] + Call(c).shell.runs, start[c] + Call(c).child.runs}
                      \cup (IF m.term = Never THEN {Deadline(c)}
                            ELSE {m.term + Call(c).shell.reverts, m.term + Call(c).child.reverts,
                                  m.term + termGrace, m.term + WaitDelay})
                      \cup {GoneAt(c, "shell") + WaitDelay}
             later == {t \in times : t > now}
  <1>1. GoneAt(c, "shell") \in Nat
    BY GoneBounds DEF Group
  <1>2. times \subseteq Nat
    <2> DEFINE ends == {start[c] + Call(c).shell.runs, start[c] + Call(c).child.runs}
               sent == {m.term + Call(c).shell.reverts, m.term + Call(c).child.reverts,
                        m.term + termGrace, m.term + WaitDelay}
    <2>1. ends \subseteq Nat
      BY SMTT(20), ExecTypes
    <2>2. sent \subseteq Nat
      <3>1. m.term \in Nat
        OBVIOUS
      <3> HIDE DEF m
      <3>2. m.term + Call(c).shell.reverts \in Nat /\ m.term + Call(c).child.reverts \in Nat
        BY SMTT(20), <3>1, ExecTypes
      <3>3. m.term + termGrace \in Nat /\ m.term + WaitDelay \in Nat
        BY <3>1, ExecTypes
      <3>4. QED
        BY <3>2, <3>3
    <2>3. {GoneAt(c, "shell") + WaitDelay} \subseteq Nat /\ {Deadline(c)} \subseteq Nat
      BY <1>1, ExecTypes
    <2>4. times \subseteq ends \cup sent \cup {Deadline(c)} \cup {GoneAt(c, "shell") + WaitDelay}
      OBVIOUS
    <2> HIDE DEF ends, sent, times
    <2>5. QED
      BY <2>1, <2>2, <2>3, <2>4
  <1>3. m.term # Never /\ now < m.term + termGrace => m.term + termGrace \in later
    BY ExecTypes
  <1>4. NextTime(c, m) = IF later = {} THEN Never ELSE Min(later)
    BY DEF NextTime
  <1>5. later \in SUBSET Nat
    BY <1>2
  <1> HIDE DEF times, later
  <1>6. later # {} => Min(later) \in Nat /\ \A t \in later : Min(later) <= t
    BY <1>5, MinOf
  <1>7. QED
    BY <1>3, <1>4, <1>6, ExecTypes

(* A returning command answers as it should.                               *)
LEMMA EndsGone ==
  ASSUME ControlInv, NEW c \in Callers, ExecInv(c), script[c] # <<>>, Call(c).kind = "exec",
         at[c] # "idle", Waited(c), NEW a, a.call = Call(c), a.mem = mem[c],
         a.ok = (mem[c].term = Never /\ ~Call(c).fails /\ Released(c)),
         a.value = {p \in Group : Runs(c, p)}
  PROVE  CutIsGone(a)
  <1> SUFFICES ASSUME mem[c].term # Never PROVE CutIsGone(a)
    BY DEF CutIsGone
  <1> DEFINE T == mem[c].term
             K == mem[c].killed
  <1>1. FramesInv
    BY DEF ControlInv
  <1>2. /\ T \in Nat /\ K \in Nat /\ T <= now /\ T <= start[c] + Call(c).shell.runs
        /\ K = Never => now <= T + termGrace
        /\ K # Never => T + termGrace <= K /\ K <= now
    BY DEF ExecInv
  <1>3. /\ now \in Nat /\ now < Never /\ start[c] \in Nat /\ Never \in Nat /\ termGrace \in Nat
        /\ WaitDelay \in Nat /\ termGrace < WaitDelay
    BY <1>1, ExecTypes, GraceAssumption
  <1>4. T <= Never /\ T <= K
    BY <1>2, <1>3
  <1>5. T <= GoneAt(c, "shell") /\ GoneAt(c, "shell") \in Nat
    BY <1>1, <1>2, <1>4, GoneBounds DEF Group, Proc
  <1>6. Min({T, GoneAt(c, "shell")}) = T
    <2>1. Min({T, GoneAt(c, "shell")}) <= T /\ Min({T, GoneAt(c, "shell")}) \in {T, GoneAt(c, "shell")}
          /\ Min({T, GoneAt(c, "shell")}) \in Nat
      BY <1>2, <1>5, MinOfTwo
    <2>2. QED
      BY <1>2, <1>5, <2>1
  (* A child that is waited for no more is gone, or has let go of the pipe. *)
  <1>7. Runs(c, "child") => ~Call(c).child.pipe
    <2> SUFFICES ASSUME Runs(c, "child"), ~Released(c) PROVE FALSE
      BY DEF Released
    <2>1. now >= T + WaitDelay
      BY <1>6 DEF Waited, GivesUpAt
    <2>2. K # Never
      BY <1>2, <1>3, <2>1
    <2>3. GoneAt(c, "child") <= K /\ GoneAt(c, "child") \in Nat
      BY <1>1, <1>2, GoneBounds DEF Group
    <2>4. QED
      BY <1>2, <1>3, <2>2, <2>3 DEF Runs
  <1>8. ~Runs(c, "shell")
    BY DEF Waited
  <1>9. ~a.ok
    OBVIOUS
  <1>10. \A p \in a.value : p = "child" /\ ~Call(c).child.pipe
    BY <1>7, <1>8 DEF Group
  <1>11. \A r \in Nat : r <= termGrace => K = Never \/ K >= T + r
    BY <1>2, <1>3
  <1>12. Call(c).shell.reverts \in Nat /\ Call(c).child.reverts \in Nat
    BY <1>1, ExecTypes
  <1>13. QED
    BY <1>9, <1>10, <1>11, <1>12 DEF CutIsGone, Group

(* The steps of a command.                                                 *)
LEMMA ExecOwnStep ==
  ASSUME ControlInv, NEW c \in Callers, ExecInv(c), Call(c).kind = "exec", script[c] # <<>>,
         ExecStep(c), UNCHANGED now
  PROVE  \/ at'[c] = "idle" /\ (CutIsGone(answer[c]))'
         \/ ExecInv(c)' /\ answer'[c] = answer[c]
  <1>1. FramesInv /\ CallInv(c)
    BY DEF ControlInv
  <1>2. /\ now \in Nat /\ now < Never /\ start[c] \in Nat /\ Never \in Nat /\ termGrace \in Nat
        /\ Call(c).shell.runs \in Nat
    BY <1>1, ExecTypes
  (* A call that goes on, with what it has in hand then.                   *)
  <1>g. ASSUME NEW p, NEW w, NEW T, NEW K, Goto(c, p, w, [term |-> T, killed |-> K]),
               T \in Nat, K \in Nat, p = "command" => T = Never /\ K = Never,
               T # Never => /\ T <= now /\ T <= start[c] + Call(c).shell.runs
                            /\ K = Never => now <= T + termGrace /\ w \in Nat /\ w <= T + termGrace,
               K # Never => T # Never /\ K <= now /\ T + termGrace <= K
        PROVE  ExecInv(c)' /\ answer'[c] = answer[c]
    <2> DEFINE m == [term |-> T, killed |-> K]
    <2>1. m.term = T /\ m.killed = K /\ m = [term |-> m.term, killed |-> m.killed]
      OBVIOUS
    <2>2. /\ at'[c] = p /\ wake'[c] = w /\ mem'[c] = m /\ start'[c] = start[c]
          /\ script'[c] = script[c] /\ answer'[c] = answer[c]
      BY <1>1, <1>g DEF Goto, FramesInv
    <2>3. Call(c)' = Call(c)
      BY <2>2 DEF Call
    <2> HIDE DEF m
    <2>4. ExecInv(c)'
      BY <1>g, <2>1, <2>2, <2>3 DEF ExecInv
    <2>5. QED
      BY <2>2, <2>4
  <1>i. at[c] # "idle" =>
          /\ mem[c] = [term |-> mem[c].term, killed |-> mem[c].killed]
          /\ mem[c].term \in Nat /\ mem[c].killed \in Nat
          /\ at[c] = "command" => mem[c].term = Never /\ mem[c].killed = Never
          /\ mem[c].term # Never =>
               /\ mem[c].term <= now /\ mem[c].term <= start[c] + Call(c).shell.runs
               /\ mem[c].killed = Never =>
                    /\ now <= mem[c].term + termGrace
                    /\ wake[c] \in Nat /\ wake[c] <= mem[c].term + termGrace
          /\ mem[c].killed # Never =>
               /\ mem[c].term # Never /\ mem[c].killed <= now
               /\ mem[c].term + termGrace <= mem[c].killed
    BY DEF ExecInv
  <1>3. CASE BeginExec(c)
    <2> DEFINE m == [term |-> Never, killed |-> Never]
    <2>1. m.term = Never /\ m.killed = Never /\ m = [term |-> m.term, killed |-> m.killed]
      OBVIOUS
    <2>2. /\ at'[c] = "command" /\ mem'[c] = m /\ script'[c] = script[c] /\ answer'[c] = answer[c]
      BY <1>1, <1>3 DEF BeginExec, Begin, FramesInv
    <2>3. Call(c)' = Call(c)
      BY <2>2 DEF Call
    <2> HIDE DEF m
    <2>4. QED
      BY <1>2, <2>1, <2>2, <2>3 DEF ExecInv
  <1>4. CASE Watch(c)
    <2>1. at[c] # "idle" /\ (mem[c].term # Never => now < mem[c].term + termGrace \/ mem[c].killed # Never)
      BY <1>4 DEF Watch
    <2>2. PICK p : /\ Goto(c, p, NextTime(c, mem[c]), mem[c])
                   /\ p = "command" => mem[c].term = Never
      BY <1>4 DEF Watch, Await
    <2> DEFINE T == mem[c].term
               K == mem[c].killed
               w == NextTime(c, mem[c])
    <2>3. w \in Nat /\ (T # Never /\ now < T + termGrace => w <= T + termGrace)
      BY <1>1, <1>i, <2>1, NextTimeBound
    <2>4. Goto(c, p, w, [term |-> T, killed |-> K])
      BY <2>1, <2>2, <1>i
    <2>5. p = "command" => T = Never /\ K = Never
      BY <2>1, <2>2, <1>i
    <2>6. /\ T \in Nat /\ K \in Nat
          /\ T # Never => /\ T <= now /\ T <= start[c] + Call(c).shell.runs
                          /\ K = Never => now <= T + termGrace
          /\ K # Never => T # Never /\ K <= now /\ T + termGrace <= K
          /\ T # Never /\ K = Never => now < T + termGrace
      BY <2>1, <1>i
    <2> HIDE DEF T, K, w
    <2>7. QED
      BY <1>g, <2>3, <2>4, <2>5, <2>6
  <1>5. CASE Terminate(c)
    <2>1. /\ at[c] = "command" /\ now <= GoneAt(c, "shell")
          /\ Goto(c, "dying", 0, [mem[c] EXCEPT !.term = now])
      BY <1>5 DEF Terminate
    <2>2. mem[c] = [term |-> Never, killed |-> Never] /\ mem[c].term \in Nat /\ mem[c].killed \in Nat
      BY <2>1, <1>i, <1>2
    <2>3. [mem[c] EXCEPT !.term = now] = [term |-> now, killed |-> Never]
      BY <2>2
    <2>4. GoneAt(c, "shell") <= start[c] + Call(c).shell.runs /\ GoneAt(c, "shell") \in Nat
      BY <1>1, <2>2, GoneBounds DEF Group, Proc
    <2>5. now <= start[c] + Call(c).shell.runs
      BY <1>2, <2>1, <2>4
    <2>6. Goto(c, "dying", 0, [term |-> now, killed |-> Never])
      BY <2>1, <2>3
    <2>7. now <= now + termGrace /\ 0 \in Nat /\ 0 <= now + termGrace
      BY <1>2
    <2>8. QED
      BY <1>g, <1>2, <2>5, <2>6, <2>7
  <1>6. CASE Kill(c)
    <2> DEFINE T == mem[c].term
    <2>1. /\ at[c] = "dying" /\ mem[c].killed = Never /\ now >= T + termGrace
          /\ Goto(c, "dying", 0, [mem[c] EXCEPT !.killed = now])
      BY <1>6 DEF Kill
    <2>2. [mem[c] EXCEPT !.killed = now] = [term |-> T, killed |-> now]
      BY <2>1, <1>i
    <2>3. /\ T \in Nat
          /\ T # Never => T <= now /\ T <= start[c] + Call(c).shell.runs
      BY <2>1, <1>i
    <2> HIDE DEF T
    <2>4. T # Never
      BY <1>2, <2>1, <2>3
    <2>5. Goto(c, "dying", 0, [term |-> T, killed |-> now])
      BY <2>1, <2>2
    <2>6. T + termGrace <= now /\ now # Never /\ now <= now
      BY <1>2, <2>1, <2>3
    <2>7. QED
      BY <1>g, <1>2, <2>3, <2>4, <2>5, <2>6
  <1>7. CASE EndExec(c)
    <2> DEFINE a == [call |-> Call(c), ok |-> mem[c].term = Never /\ ~Call(c).fails /\ Released(c),
                     why |-> "exit", value |-> {p \in Group : Runs(c, p)}, start |-> start[c],
                     end |-> now, cancelled |-> cancelled, mem |-> mem[c]]
    <2>1. at[c] # "idle" /\ Waited(c)
      BY <1>7 DEF EndExec
    <2>2. answer'[c] = a /\ at'[c] = "idle"
      BY <1>1, <1>7 DEF EndExec, Return, FramesInv
    <2>3. CutIsGone(a)
      <3>1. /\ a.call = Call(c) /\ a.mem = mem[c] /\ a.value = {p \in Group : Runs(c, p)}
            /\ a.ok = (mem[c].term = Never /\ ~Call(c).fails /\ Released(c))
        OBVIOUS
      <3> HIDE DEF a
      <3>2. QED
        BY <2>1, <3>1, EndsGone
    <2>4. (CutIsGone(answer[c]))' <=> CutIsGone(a)
      BY <2>2 DEF CutIsGone
    <2>5. QED
      BY <2>2, <2>3, <2>4
  <1>8. QED
    BY <1>3, <1>4, <1>5, <1>6, <1>7 DEF ExecStep

CommandsInv ==
  /\ ControlInv
  /\ \A c \in Callers : ExecInv(c)
  /\ CutCommandsAreGone

(* The ways in which the callers move: one steps and the others keep what  *)
(* they have, all of them wait for a tick, or nobody does.                 *)
LEMMA Passage ==
  ASSUME ControlInv, [Next]_vars
  PROVE  \/ \E c \in Callers : /\ Step(c) /\ UNCHANGED <<now, cancelled>>
                               /\ \A d \in Callers : d # c => Keeps(d)
         \/ /\ \A d \in Callers : Keeps(d) /\ (script[d] # <<>> => ~(now >= wake[d]))
            /\ now' = now + 1 /\ now' <= Horizon /\ UNCHANGED cancelled
         \/ (\A d \in Callers : Keeps(d)) /\ now' = now
  <1>1. CASE \E c \in Callers : Step(c)
    BY <1>1, Moves, OthersKeep
  <1>2. CASE Tick
    <2>1. \A d \in Callers : Keeps(d)
      BY <1>2 DEF Tick, frames, Keeps
    <2>2. now \in Nat /\ now < Horizon /\ now' = now + 1 /\ Horizon \in Nat
      BY <1>2, HorizonAssumption DEF Tick, ControlInv, FramesInv
    <2>3. \A d \in Callers : script[d] # <<>> => ~(now >= wake[d])
      BY <1>2 DEF Tick, Due
    <2>4. QED
      BY <1>2, <2>1, <2>2, <2>3 DEF Tick
  <1>3. CASE Cancel
    BY <1>3 DEF Cancel, frames, Keeps
  <1>4. CASE UNCHANGED vars
    BY <1>4 DEF vars, vars0, frames, Keeps
  <1>5. QED
    BY <1>1, <1>2, <1>3, <1>4 DEF Next

LEMMA CommandsStep == CommandsInv /\ [Next]_vars => CommandsInv'
  <1> SUFFICES ASSUME CommandsInv, [Next]_vars PROVE CommandsInv'
    OBVIOUS
  <1>1. ControlInv /\ FramesInv
    BY DEF CommandsInv, ControlInv
  <1>2. ControlInv'
    BY <1>1, ControlStep
  <1>3. ASSUME NEW d \in Callers
        PROVE  ExecInv(d)' /\ (answer'[d] # NoAnswer => (CutIsGone(answer[d]))')
    <2>i. ExecInv(d) /\ CallInv(d) /\ (answer[d] # NoAnswer => CutIsGone(answer[d]))
      BY DEF CommandsInv, ControlInv, CutCommandsAreGone
    <2>k. ASSUME Keeps(d)
          PROVE  /\ Call(d)' = Call(d)
                 /\ answer'[d] # NoAnswer => (CutIsGone(answer[d]))'
      <3>1. (CutIsGone(answer[d]))' <=> CutIsGone(answer[d])
        BY <2>k DEF Keeps, CutIsGone
      <3>2. QED
        BY <2>i, <2>k, <3>1 DEF Keeps, Call
    <2>1. ASSUME Keeps(d), now' = now
          PROVE  ExecInv(d)'
      BY <2>1, <2>i, <2>k DEF Keeps, ExecInv
    <2>2. ASSUME Keeps(d), script[d] # <<>> => ~(now >= wake[d]), now' = now + 1
          PROVE  ExecInv(d)'
      <3> SUFFICES ASSUME Call(d)'.kind = "exec", at'[d] # "idle" PROVE ExecInv(d)'
        BY DEF ExecInv
      <3>1. Call(d).kind = "exec" /\ at[d] # "idle" /\ script[d] # <<>> /\ Call(d)' = Call(d)
        BY <2>2, <2>k, <2>i DEF Keeps, CallInv
      <3>2. now \in Nat /\ now < Never /\ termGrace \in Nat /\ Never \in Nat
        BY <1>1, <3>1, ExecTypes
      <3> DEFINE T == mem[d].term
                 K == mem[d].killed
                 R == start[d] + Call(d).shell.runs
      <3>3. /\ mem[d] = [term |-> T, killed |-> K] /\ T \in Nat /\ K \in Nat
            /\ at[d] = "command" => T = Never /\ K = Never
            /\ T # Never => /\ T <= now /\ T <= R
                            /\ K = Never => /\ now <= T + termGrace
                                            /\ wake[d] \in Nat /\ wake[d] <= T + termGrace
            /\ K # Never => T # Never /\ K <= now /\ T + termGrace <= K
        BY <2>i, <3>1 DEF ExecInv
      <3>4. ~(now >= wake[d])
        BY <2>2, <3>1
      <3>5. /\ mem'[d].term = T /\ mem'[d].killed = K /\ mem'[d] = mem[d] /\ wake'[d] = wake[d]
            /\ start'[d] + Call(d)'.shell.runs = R /\ at'[d] = at[d]
        BY <2>2, <3>1 DEF Keeps
      <3> HIDE DEF T, K, R
      <3>6. /\ T # Never => T <= now + 1 /\ (K = Never => now + 1 <= T + termGrace)
            /\ K # Never => K <= now + 1
        BY <3>2, <3>3, <3>4
      <3>7. QED
        BY <2>2, <3>3, <3>5, <3>6 DEF ExecInv
    <2>3. ASSUME Step(d), UNCHANGED <<now, cancelled>>
          PROVE  ExecInv(d)' /\ (answer'[d] # NoAnswer => (CutIsGone(answer[d]))')
      <3>1. /\ script[d] # <<>>
            /\ Leaves(d) \/ \E p : Enters(d, p)
            /\ Call(d).kind = "exec" => ExecStep(d)
        BY <1>1, <2>3, Moves
      <3>2. CASE Call(d).kind = "exec"
        <4>1. \/ at'[d] = "idle" /\ (CutIsGone(answer[d]))'
              \/ ExecInv(d)' /\ answer'[d] = answer[d]
          BY <1>1, <2>i, <2>3, <3>1, <3>2, ExecOwnStep
        <4>2. at'[d] = "idle" => ExecInv(d)'
          BY DEF ExecInv
        <4>3. answer'[d] = answer[d] => ((CutIsGone(answer[d]))' <=> CutIsGone(answer[d]))
          BY DEF CutIsGone
        <4>4. QED
          BY <2>i, <4>1, <4>2, <4>3
      <3>3. CASE Call(d).kind # "exec"
        <4>1. CASE Leaves(d)
          <5>1. at'[d] = "idle" /\ answer'[d].call = Call(d)
            BY <1>1, <4>1 DEF Leaves, FramesInv
          <5>2. QED
            BY <3>3, <5>1 DEF ExecInv, CutIsGone
        <4>2. CASE \E p : Enters(d, p)
          <5>1. script'[d] = script[d] /\ answer'[d] = answer[d]
            BY <1>1, <4>2 DEF Enters, FramesInv
          <5>2. Call(d)' = Call(d)
            BY <5>1 DEF Call
          <5>3. (CutIsGone(answer[d]))' <=> CutIsGone(answer[d])
            BY <5>1 DEF CutIsGone
          <5>4. QED
            BY <2>i, <3>3, <5>1, <5>2, <5>3 DEF ExecInv
        <4>3. QED
          BY <3>1, <4>1, <4>2
      <3>4. QED
        BY <3>2, <3>3
    <2>4. QED
      BY <1>1, <2>1, <2>2, <2>3, <2>k, Passage
  <1>4. QED
    BY <1>2, <1>3 DEF CommandsInv, CutCommandsAreGone

LEMMA CommandsInit == Init => CommandsInv
  <1> SUFFICES ASSUME Init PROVE CommandsInv
    OBVIOUS
  <1>1. \A c \in Callers : at[c] = "idle" /\ answer[c] = NoAnswer
    BY DEF Init, CallsInit
  <1>2. QED
    BY <1>1, ControlInit DEF CommandsInv, ExecInv, CutCommandsAreGone

(* exec.run, for any number of branches, any command and any moment at     *)
(* which its context ends: what holds the output of a command that was cut *)
(* off is gone when the verb returns, and whoever obeys SIGTERM within the *)
(* grace was given it (execp.go:72-120).  That the SIGKILL comes before    *)
(* the pipe is closed rests on WaitDelay outlasting termGrace.             *)
THEOREM CommandsGone == Spec => []CutCommandsAreGone
  <1>1. Init => CommandsInv
    BY CommandsInit
  <1>2. CommandsInv /\ [Next]_vars => CommandsInv'
    BY CommandsStep
  <1>3. CommandsInv => CutCommandsAreGone
    BY DEF CommandsInv
  <1>4. QED
    BY <1>1, <1>2, <1>3, PTL DEF Spec

-----------------------------------------------------------------------------
(* wait_until.                                                             *)

WaitFields == {"asked", "end", "bound", "obs", "part", "next", "lastErr", "seen"}
WaitMem(m) == m = [f \in WaitFields |-> m[f]]

(* What was observed so far does not meet the condition; the error at hand *)
(* is that of the last observation.                                        *)
Gathered(args, seen) ==
  /\ \E S : seen \in Seq(S)
  /\ \A i \in DOMAIN seen : ~Satisfies(args, seen[i])

LastError(args, seen, lastErr) == seen # <<>> /\ lastErr = Unclear(args, Last(seen))

WaitState(call, p, w, m, end, t, since) ==
  /\ t <= end
  /\ p \in {"ask", "got"} => w = 0
  /\ p \in {"asking", "pause"} => w \in Nat /\ (w <= end \/ Never <= end)
  /\ p \in {"asking", "got"} => m.asked \in Nat /\ since <= m.asked
  /\ WaitMem(m)
  /\ Gathered(call.args, m.seen)
  /\ p = "pause" => LastError(call.args, m.seen, m.lastErr)

(* A gate does not wait beyond its deadline.                               *)
WaitInv(c) ==
  Call(c).kind = "wait" /\ at[c] # "idle" =>
    /\ Call(c).limit # <<>> /\ Call(c).req # <<>>
    /\ WaitState(Call(c), at[c], wake[c], mem[c], WaitDeadline(c), now, start[c])

LEMMA WaitTypes ==
  ASSUME FramesInv, NEW c \in Callers, script[c] # <<>>, Call(c).kind = "wait",
         Call(c).limit # <<>>, Call(c).req # <<>>
  PROVE  /\ now \in Nat /\ now < Never /\ start[c] \in Nat /\ Never \in Nat
         /\ Call(c).timeout \in Nat /\ Call(c).limit[1] \in Nat /\ Interval(c) \in Nat
         /\ Requested(Call(c).req[1])
         /\ Deadline(c) \in Nat /\ WaitDeadline(c) \in Nat
         /\ WaitDeadline(c) <= Deadline(c) /\ WaitDeadline(c) <= start[c] + Call(c).limit[1]
         /\ WaitDeadline(c) = Deadline(c) \/ WaitDeadline(c) = start[c] + Call(c).limit[1]
  <1>1. now \in Nat /\ now < Never /\ start[c] \in Nat /\ Never \in Nat
    BY HorizonAssumption DEF FramesInv
  <1>2. Call(c) \in AllCalls /\ Call(c).timeout \in Nat
    BY CallType
  <1>3. /\ Call(c).interval \in Nat /\ (Call(c).req = <<>> \/ Requested(Call(c).req[1]))
        /\ Durations(Call(c).limit)
    BY <1>2, PollsAssumption
  <1>4. Interval(c) \in Nat
    BY <1>3 DEF Interval, minPollInterval
  <1>5. Call(c).limit[1] \in Nat
    BY <1>3 DEF Durations
  <1>6. Deadline(c) \in Nat
    BY <1>1, <1>2 DEF Deadline
  <1>7. /\ WaitDeadline(c) \in Nat
        /\ WaitDeadline(c) <= Deadline(c) /\ WaitDeadline(c) <= start[c] + Call(c).limit[1]
        /\ WaitDeadline(c) = Deadline(c) \/ WaitDeadline(c) = start[c] + Call(c).limit[1]
    <2> DEFINE x == Deadline(c)
               y == start[c] + Call(c).limit[1]
    <2>1. x \in Nat /\ y \in Nat
      BY <1>1, <1>5, <1>6
    <2>2. WaitDeadline(c) = Min({x, y})
      BY DEF WaitDeadline
    <2> HIDE DEF x, y
    <2>3. Min({x, y}) \in Nat /\ Min({x, y}) <= x /\ Min({x, y}) <= y /\ (Min({x, y}) = x \/ Min({x, y}) = y)
      BY <2>1, MinOfTwo
    <2>4. QED
      BY <2>2, <2>3 DEF x, y
  <1>8. QED
    BY <1>1, <1>2, <1>3, <1>4, <1>5, <1>6, <1>7

(* The context of a request does not outlast the one it is made under.     *)
LEMMA BoundWithin ==
  ASSUME NEW req, Requested(req), NEW deadline \in Nat, now \in Nat, Never \in Nat
  PROVE  /\ BoundCtx(req, deadline) \in Nat
         /\ BoundCtx(req, deadline) <= deadline \/ Never <= deadline
  <1>1. req.limit \in Nat /\ DefaultTimeout[req.provider] \in Nat
    BY TimesAssumption DEF Requested
  <1>2. now + req.limit \in Nat /\ now + DefaultTimeout[req.provider] \in Nat
    BY <1>1
  <1>3. Min({deadline, now + req.limit}) \in Nat /\ Min({deadline, now + req.limit}) <= deadline
    BY <1>2, MinOfTwo
  <1>4. CASE req.limit > 0
    <2>1. BoundCtx(req, deadline) = Min({deadline, now + req.limit})
      BY <1>1, <1>4 DEF BoundCtx
    <2>2. QED
      BY <1>3, <2>1
  <1>5. CASE ~(req.limit > 0) /\ deadline = Never
    <2>1. req.limit = 0
      BY <1>1, <1>5
    <2>2. BoundCtx(req, deadline) \in {now + DefaultTimeout[req.provider], deadline}
      BY <1>5, <2>1 DEF BoundCtx
    <2>3. QED
      BY <1>2, <1>5, <2>2
  <1>6. CASE ~(req.limit > 0) /\ deadline # Never
    <2>1. BoundCtx(req, deadline) = deadline
      BY <1>6 DEF BoundCtx
    <2>2. QED
      BY <2>1
  <1>7. QED
    BY <1>4, <1>5, <1>6

(* What a request leaves in the hands of the gate that makes it.           *)
LEMMA AskedFrom ==
  ASSUME NEW c \in Callers, NEW req, Requested(req), NEW deadline \in Nat, now \in Nat,
         Never \in Nat, NEW m, WaitMem(m), Ask(c, req, deadline, m)
  PROVE  \E w \in Nat : \E q :
           /\ Goto(c, "asking", w, q)
           /\ w <= deadline \/ Never <= deadline
           /\ WaitMem(q) /\ q.asked = now /\ q.seen = m.seen
  <1> DEFINE bound == BoundCtx(req, deadline)
             closes == On(req, {"timeout"})
             end == CASE Refuses(req) -> now
                      [] ~Refuses(req) /\ Swallows(req) -> Never
                      [] ~Refuses(req) /\ ~Swallows(req) /\ closes -> now + Hangup
                      [] OTHER -> now + (IF Slows(req) THEN Lag ELSE 0)
             obs == IF Refuses(req) \/ closes THEN Failed ELSE Judged(req, Says)
             silent == Refuses(req) \/ Swallows(req) \/ closes
             part == {Failed} \cup
                     (IF silent THEN {} ELSE {Judged(req, ans) : ans \in Torn(req, Says)})
             q == [m EXCEPT !.asked = now, !.end = end, !.bound = bound, !.obs = obs, !.part = part]
             w == Min({end, bound})
  <1>1. end \in Nat
    <2>1. now + Hangup \in Nat /\ now + Lag \in Nat /\ now + 0 \in Nat
      BY TimesAssumption
    <2>2. end \in {now, Never, now + Hangup, now + Lag, now + 0}
      OBVIOUS
    <2> HIDE DEF end
    <2>3. QED
      BY <2>1, <2>2
  <1>2. bound \in Nat /\ (bound <= deadline \/ Never <= deadline)
    BY BoundWithin
  <1>3. Goto(c, "asking", w, q)
    BY DEF Ask
  <1> HIDE DEF end, bound, obs, part
  <1>4. w \in Nat /\ w <= bound
    BY <1>1, <1>2, MinOfTwo
  <1>5. q = [m EXCEPT !.asked = now, !.end = end, !.bound = bound, !.obs = obs, !.part = part]
    OBVIOUS
  <1> HIDE DEF q
  <1>6. WaitMem(q) /\ q.asked = now /\ q.seen = m.seen
    BY <1>5 DEF WaitMem, WaitFields
  <1> HIDE DEF w, q
  <1>7. w <= deadline \/ Never <= deadline
    BY <1>2, <1>4
  <1>8. QED
    BY <1>3, <1>4, <1>6, <1>7

(* One more observation that does not meet the condition.                  *)
LEMMA GatherOne ==
  ASSUME NEW args, NEW seen, Gathered(args, seen), NEW obs, ~Satisfies(args, obs)
  PROVE  /\ Gathered(args, Append(seen, obs)) /\ Append(seen, obs) # <<>>
         /\ Last(Append(seen, obs)) = obs
  <1>1. PICK S : seen \in Seq(S)
    BY DEF Gathered
  <1> DEFINE T == S \cup {obs}
  <1>2. seen \in Seq(T) /\ obs \in T
    BY <1>1
  <1> HIDE DEF T
  <1>3. /\ Append(seen, obs) \in Seq(T) /\ Len(Append(seen, obs)) = Len(seen) + 1
        /\ Append(seen, obs)[Len(seen) + 1] = obs /\ Len(seen) \in Nat
        /\ \A i \in 1..Len(seen) : Append(seen, obs)[i] = seen[i]
    BY <1>2, AppendProperties
  <1>4. DOMAIN seen = 1..Len(seen) /\ DOMAIN Append(seen, obs) = 1..(Len(seen) + 1)
    BY <1>2, <1>3
  <1>5. ASSUME NEW i \in DOMAIN Append(seen, obs) PROVE ~Satisfies(args, Append(seen, obs)[i])
    <2>1. CASE i \in 1..Len(seen)
      BY <1>3, <1>4, <2>1 DEF Gathered
    <2>2. CASE i = Len(seen) + 1
      BY <1>3, <2>2
    <2>3. QED
      BY <1>3, <1>4, <2>1, <2>2
  <1>6. Last(Append(seen, obs)) = obs
    BY <1>3 DEF Last
  <1>7. QED
    BY <1>3, <1>5, <1>6 DEF Gathered

(* How a gate goes on.                                                     *)
LEMMA WaitGoes ==
  ASSUME FramesInv, NEW c \in Callers, Call(c).kind = "wait",
         Call(c).limit # <<>>, Call(c).req # <<>>, UNCHANGED now,
         NEW p, NEW w, NEW m, Goto(c, p, w, m),
         WaitState(Call(c), p, w, m, WaitDeadline(c), now, start[c])
  PROVE  WaitInv(c)' /\ answer'[c] = answer[c]
  <1>1. /\ at'[c] = p /\ wake'[c] = w /\ mem'[c] = m /\ start'[c] = start[c]
        /\ script'[c] = script[c] /\ answer'[c] = answer[c]
    BY DEF Goto, FramesInv
  <1>2. Call(c)' = Call(c)
    BY <1>1 DEF Call
  <1>3. WaitDeadline(c)' = WaitDeadline(c)
    BY <1>1, <1>2 DEF WaitDeadline, Deadline
  <1>4. QED
    BY <1>1, <1>2, <1>3 DEF WaitInv

(* The answer that a gate gives.                                           *)
AnswerOf(c, a, ok, why) ==
  /\ a.call = Call(c) /\ a.mem = mem[c] /\ a.start = start[c] /\ a.end = now
  /\ a.cancelled = cancelled /\ a.ok = ok /\ a.why = why

LEMMA ReturnAnswers ==
  ASSUME FramesInv, NEW c \in Callers, NEW ok, NEW why, NEW value, Return(c, ok, why, value)
  PROVE  AnswerOf(c, answer'[c], ok, why) /\ at'[c] = "idle"
  <1> DEFINE a == [call |-> Call(c), ok |-> ok, why |-> why, value |-> value, start |-> start[c],
                   end |-> now, cancelled |-> cancelled, mem |-> mem[c]]
  <1>1. answer'[c] = a /\ at'[c] = "idle"
    BY DEF Return, FramesInv
  <1>2. AnswerOf(c, a, ok, why)
    BY DEF AnswerOf
  <1>3. QED
    BY <1>1, <1>2

(* A gate that opens, and one that gives up.                               *)
LEMMA OpensHonestly ==
  ASSUME FramesInv, NEW c \in Callers, Call(c).kind = "wait", script[c] # <<>>,
         Call(c).limit # <<>>, Call(c).req # <<>>, at[c] = "got",
         WaitState(Call(c), at[c], wake[c], mem[c], WaitDeadline(c), now, start[c]),
         Satisfies(Call(c).args, mem[c].obs), NEW a, AnswerOf(c, a, TRUE, "observed")
  PROVE  HonestGate(a)
  <1> DEFINE parent == IF a.call.timeout = 0 THEN Never ELSE a.start + a.call.timeout
             limit == a.start + a.call.limit[1]
  <1>1. parent = Deadline(c) /\ limit = start[c] + Call(c).limit[1] /\ a.end = now
        /\ a.mem = mem[c] /\ a.call = Call(c) /\ a.start = start[c] /\ a.ok = TRUE /\ a.why = "observed"
    BY DEF AnswerOf, Deadline
  <1>2. a.end <= limit /\ a.end <= parent
    <2>1. now <= WaitDeadline(c)
      BY DEF WaitState
    <2>2. QED
      BY <1>1, <2>1, WaitTypes
  <1>3. \A i \in DOMAIN a.mem.seen : ~Satisfies(a.call.args, a.mem.seen[i])
    BY <1>1 DEF WaitState, Gathered
  <1>4. Satisfies(a.call.args, a.mem.obs) /\ a.mem.asked >= a.start
    <2>1. mem[c].asked \in Nat /\ start[c] <= mem[c].asked /\ start[c] \in Nat
      BY WaitTypes DEF WaitState
    <2>2. QED
      BY <1>1, <2>1
  <1>5. QED
    BY <1>1, <1>2, <1>3, <1>4 DEF HonestGate

LEMMA GivesUpHonestly ==
  ASSUME FramesInv, NEW c \in Callers, Call(c).kind = "wait", script[c] # <<>>,
         Call(c).limit # <<>>, Call(c).req # <<>>, at[c] = "pause", WaitDone(c),
         WaitState(Call(c), at[c], wake[c], mem[c], WaitDeadline(c), now, start[c]),
         NEW a, AnswerOf(c, a, FALSE, IF Done(c) THEN "context" ELSE "unmet")
  PROVE  HonestGate(a)
  <1> DEFINE parent == IF a.call.timeout = 0 THEN Never ELSE a.start + a.call.timeout
             limit == a.start + a.call.limit[1]
  <1>1. parent = Deadline(c) /\ limit = start[c] + Call(c).limit[1] /\ a.end = now
        /\ a.mem = mem[c] /\ a.call = Call(c) /\ a.start = start[c] /\ a.ok = FALSE
        /\ (a.cancelled <=> cancelled)
        /\ a.why = IF Done(c) THEN "context" ELSE "unmet"
    BY DEF AnswerOf, Deadline
  <1>2. now <= WaitDeadline(c)
    BY DEF WaitState
  <1>3. a.end <= limit /\ a.end <= parent
    BY <1>1, <1>2, WaitTypes
  <1>4. \A i \in DOMAIN a.mem.seen : ~Satisfies(a.call.args, a.mem.seen[i])
    BY <1>1 DEF WaitState, Gathered
  <1>5. a.mem.lastErr = Unclear(a.call.args, Last(a.mem.seen))
    BY <1>1 DEF WaitState, LastError
  <1>6. a.why = "unmet" => a.end = limit /\ limit < parent /\ ~a.cancelled
    <2> SUFFICES ASSUME a.why = "unmet" PROVE a.end = limit /\ limit < parent /\ ~a.cancelled
      OBVIOUS
    <2>1. ~Done(c)
      BY <1>1
    <2>2. ~cancelled /\ ~(now >= Deadline(c)) /\ now >= WaitDeadline(c)
      BY <2>1 DEF Done, WaitDone
    <2>3. now = start[c] + Call(c).limit[1] /\ start[c] + Call(c).limit[1] < Deadline(c)
      BY <1>2, <2>2, WaitTypes
    <2>4. QED
      BY <1>1, <2>2, <2>3
  <1>7. a.why = "context" => a.cancelled \/ a.end = parent
    <2> SUFFICES ASSUME a.why = "context", ~a.cancelled PROVE a.end = parent
      OBVIOUS
    <2>1. Done(c) /\ ~cancelled
      BY <1>1
    <2>2. now >= Deadline(c)
      BY <2>1 DEF Done
    <2>3. now = Deadline(c)
      BY <1>2, <2>2, WaitTypes
    <2>4. QED
      BY <1>1, <2>3
  <1>8. QED
    BY <1>1, <1>3, <1>4, <1>5, <1>6, <1>7 DEF HonestGate

LEMMA WaitBegins ==
  ASSUME ControlInv, NEW c \in Callers, BeginWait(c), UNCHANGED now
  PROVE  WaitInv(c)' /\ answer'[c] = answer[c]
  <1>1. FramesInv /\ CallInv(c)
    BY DEF ControlInv
  <1>2. /\ script[c] # <<>> /\ Call(c).kind = "wait" /\ at[c] = "idle"
        /\ Call(c).limit # <<>> /\ Call(c).req # <<>>
    BY DEF BeginWait, Idle, Unbuilt
  <1>3. /\ now \in Nat /\ now < Never /\ Never \in Nat
        /\ Call(c).timeout \in Nat /\ Call(c).limit[1] \in Nat
    BY <1>1, <1>2, WaitTypes
  <1> DEFINE m == [asked |-> 0, end |-> 0, bound |-> 0, obs |-> Failed, part |-> {Failed},
                   next |-> 0, lastErr |-> FALSE, seen |-> <<>>]
  <1>4. /\ at'[c] = "ask" /\ start'[c] = now /\ mem'[c] = m /\ wake'[c] = wake[c]
        /\ script'[c] = script[c] /\ answer'[c] = answer[c]
    BY <1>1 DEF BeginWait, Begin, FramesInv
  <1>5. Call(c)' = Call(c)
    BY <1>4 DEF Call
  <1>6. wake'[c] = 0
    BY <1>1, <1>2, <1>4 DEF CallInv
  <1>7. m.seen = <<>> /\ WaitMem(m)
    BY DEF WaitMem, WaitFields
  <1> HIDE DEF m
  <1>8. now <= WaitDeadline(c)'
    <2> DEFINE x == Deadline(c)'
               y == now + Call(c).limit[1]
    <2>1. x = IF Call(c).timeout = 0 THEN Never ELSE now + Call(c).timeout
      BY <1>4, <1>5 DEF Deadline
    <2>2. x \in Nat /\ now <= x /\ y \in Nat /\ now <= y
      BY <1>3, <2>1
    <2>3. WaitDeadline(c)' = Min({x, y})
      BY <1>4, <1>5 DEF WaitDeadline
    <2> HIDE DEF x, y
    <2>4. Min({x, y}) = x \/ Min({x, y}) = y
      BY <2>2, MinOfTwo
    <2>5. QED
      BY <2>2, <2>3, <2>4
  <1>9. Gathered(Call(c).args, <<>>)
    <2>1. <<>> \in Seq({}) /\ DOMAIN <<>> = {}
      BY EmptySeq
    <2>2. QED
      BY <2>1 DEF Gathered
  <1>10. WaitState(Call(c), "ask", 0, m, WaitDeadline(c)', now, now)
    BY <1>7, <1>8, <1>9 DEF WaitState
  <1>11. WaitInv(c)'
    BY <1>2, <1>4, <1>5, <1>6, <1>10 DEF WaitInv
  <1>12. QED
    BY <1>4, <1>11

(* The steps of a gate that has begun.                                     *)
LEMMA WaitOwnStep ==
  ASSUME ControlInv, NEW c \in Callers, WaitInv(c), Call(c).kind = "wait", at[c] # "idle",
         UNCHANGED now, Poll(c) \/ Inspect(c) \/ GiveUp(c) \/ PollAgain(c) \/ Arrives(c) \/ CutOff(c)
  PROVE  \/ at'[c] = "idle" /\ (HonestGate(answer[c]))'
         \/ WaitInv(c)' /\ answer'[c] = answer[c]
  <1>1. FramesInv /\ CallInv(c) /\ script[c] # <<>>
    BY DEF ControlInv, CallInv
  <1>2. /\ Call(c).limit # <<>> /\ Call(c).req # <<>>
        /\ WaitState(Call(c), at[c], wake[c], mem[c], WaitDeadline(c), now, start[c])
    BY DEF WaitInv
  <1> DEFINE D == WaitDeadline(c)
  <1>3. /\ now \in Nat /\ now < Never /\ start[c] \in Nat /\ Never \in Nat /\ D \in Nat
        /\ Interval(c) \in Nat /\ Requested(Call(c).req[1])
    BY <1>1, <1>2, WaitTypes
  <1>4. /\ now <= D /\ WaitMem(mem[c]) /\ Gathered(Call(c).args, mem[c].seen)
        /\ at[c] \in {"asking", "got"} => mem[c].asked \in Nat /\ start[c] <= mem[c].asked
    BY <1>2 DEF WaitState
  <1>5. start[c] <= now
    BY <1>1 DEF CallInv
  <1>g. ASSUME NEW p, NEW w, NEW m, Goto(c, p, w, m), WaitState(Call(c), p, w, m, D, now, start[c])
        PROVE  WaitInv(c)' /\ answer'[c] = answer[c]
    BY <1>1, <1>2, <1>g, WaitGoes
  <1> HIDE DEF D
  <1>6. CASE Poll(c)
    <2>1. Ask(c, Call(c).req[1], D, mem[c])
      BY <1>6 DEF Poll, D
    <2>2. PICK w \in Nat : \E q :
            /\ Goto(c, "asking", w, q) /\ (w <= D \/ Never <= D)
            /\ WaitMem(q) /\ q.asked = now /\ q.seen = mem[c].seen
      BY <1>3, <1>4, <2>1, AskedFrom
    <2>3. PICK q :
            /\ Goto(c, "asking", w, q) /\ (w <= D \/ Never <= D)
            /\ WaitMem(q) /\ q.asked = now /\ q.seen = mem[c].seen
      BY <2>2
    <2>4. WaitState(Call(c), "asking", w, q, D, now, start[c])
      BY <1>3, <1>4, <1>5, <2>3 DEF WaitState
    <2>5. QED
      BY <1>g, <2>3, <2>4
  <1>7. CASE Inspect(c)
    <2> DEFINE obs == mem[c].obs
               args == Call(c).args
               fails == obs.err \/ CheckFails(obs.value, Op(args), Operand(args))
    <2>1. at[c] = "got"
      BY <1>7 DEF Inspect
    <2>2. CASE ~fails /\ Passes(obs.value, Op(args), Operand(args))
      <3>1. Return(c, TRUE, "observed", obs.value)
        BY <1>7, <2>2 DEF Inspect
      <3>2. AnswerOf(c, answer'[c], TRUE, "observed") /\ at'[c] = "idle"
        BY <1>1, <3>1, ReturnAnswers
      <3>3. Satisfies(args, obs)
        BY <2>2 DEF Satisfies
      <3>4. HonestGate(answer'[c])
        BY <1>1, <1>2, <2>1, <3>2, <3>3, OpensHonestly
      <3>5. (HonestGate(answer[c]))' <=> HonestGate(answer'[c])
        BY DEF HonestGate
      <3>6. QED
        BY <3>2, <3>4, <3>5
    <2>3. CASE ~(~fails /\ Passes(obs.value, Op(args), Operand(args)))
      <3> DEFINE w == Min({now + Interval(c), D})
                 x == now + Interval(c)
                 q == [mem[c] EXCEPT !.next = x, !.lastErr = fails, !.seen = Append(@, obs)]
      <3>1. Goto(c, "pause", w, q)
        BY <1>7, <2>3 DEF Inspect, Unmet, D
      <3>2. ~Satisfies(args, obs)
        BY <2>3 DEF Satisfies
      <3>3. fails = Unclear(args, obs)
        BY DEF Unclear
      <3> HIDE DEF fails, obs
      <3>4. WaitMem(q) /\ q.asked = mem[c].asked /\ q.seen = Append(mem[c].seen, obs) /\ q.lastErr = fails
        BY <1>4 DEF WaitMem, WaitFields
      <3> HIDE DEF q
      <3>5. /\ Gathered(args, Append(mem[c].seen, obs)) /\ Append(mem[c].seen, obs) # <<>>
            /\ Last(Append(mem[c].seen, obs)) = obs
        BY <1>4, <3>2, GatherOne
      <3>6. LastError(args, q.seen, q.lastErr) /\ Gathered(args, q.seen)
        BY <3>3, <3>4, <3>5 DEF LastError
      <3>7. x \in Nat
        BY <1>3
      <3> HIDE DEF x
      <3>8. w \in Nat /\ w <= D
        BY <1>3, <3>7, MinOfTwo DEF x
      <3> HIDE DEF w
      <3>9. WaitState(Call(c), "pause", w, q, D, now, start[c])
        BY <1>4, <3>4, <3>6, <3>8 DEF WaitState
      <3>10. QED
        BY <1>g, <3>1, <3>9
    <2>4. QED
      BY <2>2, <2>3
  <1>8. CASE GiveUp(c)
    <2> DEFINE why == IF Done(c) THEN "context" ELSE "unmet"
    <2>1. at[c] = "pause" /\ WaitDone(c) /\ Return(c, FALSE, why, Null)
      BY <1>8 DEF GiveUp
    <2>2. AnswerOf(c, answer'[c], FALSE, why) /\ at'[c] = "idle"
      BY <1>1, <2>1, ReturnAnswers
    <2>3. HonestGate(answer'[c])
      BY <1>1, <1>2, <2>1, <2>2, GivesUpHonestly
    <2>4. (HonestGate(answer[c]))' <=> HonestGate(answer'[c])
      BY DEF HonestGate
    <2>5. QED
      BY <2>2, <2>3, <2>4
  <1>9. CASE PollAgain(c)
    <2>1. Goto(c, "ask", 0, mem[c])
      BY <1>9 DEF PollAgain
    <2>2. WaitState(Call(c), "ask", 0, mem[c], D, now, start[c])
      BY <1>4 DEF WaitState
    <2>3. QED
      BY <1>g, <2>1, <2>2
  <1>10. CASE Arrives(c) \/ CutOff(c)
    <2>1. at[c] = "asking"
      BY <1>10 DEF Arrives, CutOff
    <2>2. PICK q : Goto(c, "got", 0, q) /\ (q = mem[c] \/ \E obs : q = [mem[c] EXCEPT !.obs = obs])
      BY <1>10 DEF Arrives, CutOff
    <2>3. WaitMem(q) /\ q.asked = mem[c].asked /\ q.seen = mem[c].seen
      BY <1>4, <2>2 DEF WaitMem, WaitFields
    <2>4. WaitState(Call(c), "got", 0, q, D, now, start[c])
      BY <1>4, <2>1, <2>3 DEF WaitState
    <2>5. QED
      BY <1>g, <2>2, <2>4
  <1>11. QED
    BY <1>6, <1>7, <1>8, <1>9, <1>10

GatesInv ==
  /\ ControlInv
  /\ \A c \in Callers : WaitInv(c)
  /\ WaitIsHonest

LEMMA GatesStep == GatesInv /\ [Next]_vars => GatesInv'
  <1> SUFFICES ASSUME GatesInv, [Next]_vars PROVE GatesInv'
    OBVIOUS
  <1>1. ControlInv /\ FramesInv
    BY DEF GatesInv, ControlInv
  <1>2. ControlInv'
    BY <1>1, ControlStep
  <1>3. ASSUME NEW d \in Callers
        PROVE  WaitInv(d)' /\ (answer'[d] # NoAnswer => (HonestGate(answer[d]))')
    <2>i. WaitInv(d) /\ CallInv(d) /\ (answer[d] # NoAnswer => HonestGate(answer[d]))
      BY DEF GatesInv, ControlInv, WaitIsHonest
    <2>e. answer'[d] = answer[d] => ((HonestGate(answer[d]))' <=> HonestGate(answer[d]))
      BY DEF HonestGate
    <2>k. ASSUME Keeps(d)
          PROVE  /\ Call(d)' = Call(d) /\ WaitDeadline(d)' = WaitDeadline(d)
                 /\ answer'[d] # NoAnswer => (HonestGate(answer[d]))'
      <3>1. Call(d)' = Call(d)
        BY <2>k DEF Keeps, Call
      <3>2. WaitDeadline(d)' = WaitDeadline(d)
        BY <2>k, <3>1 DEF Keeps, WaitDeadline, Deadline
      <3>3. QED
        BY <2>i, <2>e, <2>k, <3>1, <3>2 DEF Keeps
    <2>1. ASSUME Keeps(d), now' = now
          PROVE  WaitInv(d)'
      BY <2>1, <2>i, <2>k DEF Keeps, WaitInv
    <2>2. ASSUME Keeps(d), script[d] # <<>> => ~(now >= wake[d]), now' = now + 1, now' <= Horizon
          PROVE  WaitInv(d)'
      <3> SUFFICES ASSUME Call(d)'.kind = "wait", at'[d] # "idle" PROVE WaitInv(d)'
        BY DEF WaitInv
      <3>1. Call(d).kind = "wait" /\ at[d] # "idle" /\ script[d] # <<>> /\ Call(d)' = Call(d)
        BY <2>2, <2>k, <2>i DEF Keeps, CallInv
      <3> DEFINE D == WaitDeadline(d)
      <3>2. /\ Call(d).limit # <<>> /\ Call(d).req # <<>>
            /\ WaitState(Call(d), at[d], wake[d], mem[d], D, now, start[d])
        BY <2>i, <3>1 DEF WaitInv
      <3>3. now \in Nat /\ now + 1 < Never /\ Never \in Nat /\ D \in Nat
        <4>1. now \in Nat /\ Never \in Nat /\ D \in Nat
          BY <1>1, <3>1, <3>2, WaitTypes
        <4>2. QED
          BY <2>2, <4>1, HorizonAssumption
      <3>4. at[d] \in {"ask", "asking", "got", "pause"}
        BY <2>i, <3>1 DEF CallInv, PointOf, Spans
      <3>5. ~(now >= wake[d])
        BY <2>2, <3>1
      <3>6. now + 1 <= D
        <4>1. at[d] \in {"asking", "pause"}
          BY <3>2, <3>3, <3>4, <3>5 DEF WaitState
        <4>2. wake[d] \in Nat /\ (wake[d] <= D \/ Never <= D)
          BY <3>2, <4>1 DEF WaitState
        <4> HIDE DEF D
        <4>3. QED
          BY <3>3, <3>5, <4>2
      <3> HIDE DEF D
      <3>7. WaitState(Call(d), at[d], wake[d], mem[d], D, now + 1, start[d])
        BY <3>2, <3>6 DEF WaitState
      <3>8. QED
        BY <2>2, <2>k, <3>1, <3>2, <3>7 DEF Keeps, WaitInv, D
    <2>3. ASSUME Step(d), UNCHANGED <<now, cancelled>>
          PROVE  WaitInv(d)' /\ (answer'[d] # NoAnswer => (HonestGate(answer[d]))')
      <3>1. /\ script[d] # <<>>
            /\ Leaves(d) \/ \E p : Enters(d, p)
            /\ Call(d).kind = "wait" => Refuse(d) \/ WaitAction(d) \/ Arrives(d) \/ CutOff(d)
        BY <1>1, <2>3, Moves
      <3>2. at'[d] = "idle" => WaitInv(d)'
        BY DEF WaitInv
      <3>3. CASE Call(d).kind # "wait"
        <4>1. CASE Leaves(d)
          <5>1. at'[d] = "idle" /\ answer'[d].call = Call(d)
            BY <1>1, <4>1 DEF Leaves, FramesInv
          <5>2. (HonestGate(answer[d]))'
            BY <3>3, <5>1 DEF HonestGate
          <5>3. QED
            BY <3>2, <5>1, <5>2
        <4>2. CASE \E p : Enters(d, p)
          <5>1. script'[d] = script[d] /\ answer'[d] = answer[d]
            BY <1>1, <4>2 DEF Enters, FramesInv
          <5>2. Call(d)' = Call(d)
            BY <5>1 DEF Call
          <5>3. QED
            BY <2>i, <2>e, <3>3, <5>1, <5>2 DEF WaitInv
        <4>3. QED
          BY <3>1, <4>1, <4>2
      <3>4. CASE Call(d).kind = "wait" /\ Refuse(d)
        <4>1. at'[d] = "idle" /\ answer'[d].why = "arguments"
          BY <1>1, <3>4 DEF Refuse, Idle, FramesInv
        <4>2. (HonestGate(answer[d]))'
          BY <4>1 DEF HonestGate
        <4>3. QED
          BY <3>2, <4>1, <4>2
      <3>5. CASE Call(d).kind = "wait" /\ BeginWait(d)
        <4>1. WaitInv(d)' /\ answer'[d] = answer[d]
          BY <1>1, <2>3, <3>5, WaitBegins
        <4>2. QED
          BY <2>i, <2>e, <4>1
      <3>6. CASE /\ Call(d).kind = "wait"
                 /\ Poll(d) \/ Inspect(d) \/ GiveUp(d) \/ PollAgain(d) \/ Arrives(d) \/ CutOff(d)
        <4>1. at[d] # "idle"
          BY <3>6 DEF Poll, Inspect, GiveUp, PollAgain, Arrives, CutOff
        <4>2. \/ at'[d] = "idle" /\ (HonestGate(answer[d]))'
              \/ WaitInv(d)' /\ answer'[d] = answer[d]
          BY <1>1, <2>i, <2>3, <3>6, <4>1, WaitOwnStep
        <4>3. QED
          BY <2>i, <2>e, <3>2, <4>2
      <3>7. QED
        BY <3>1, <3>3, <3>4, <3>5, <3>6 DEF WaitAction
    <2>4. QED
      BY <1>1, <2>1, <2>2, <2>3, <2>k, Passage
  <1>4. QED
    BY <1>2, <1>3 DEF GatesInv, WaitIsHonest

LEMMA GatesInit == Init => GatesInv
  <1> SUFFICES ASSUME Init PROVE GatesInv
    OBVIOUS
  <1>1. \A c \in Callers : at[c] = "idle" /\ answer[c] = NoAnswer
    BY DEF Init, CallsInit
  <1>2. QED
    BY <1>1, ControlInit DEF GatesInv, WaitInv, WaitIsHonest

(* wait_until, for any number of branches, any condition and any answers:  *)
(* a gate opens on an observation that meets its condition and on no       *)
(* other, within its limit and its step's timeout; one that gives up says  *)
(* whether its own limit ended it or its parent's end did, and reports the *)
(* error of its last poll only (executor.go:770-844).                      *)
THEOREM GatesHonest == Spec => []WaitIsHonest
  <1>1. Init => GatesInv
    BY GatesInit
  <1>2. GatesInv /\ [Next]_vars => GatesInv'
    BY GatesStep
  <1>3. GatesInv => WaitIsHonest
    BY DEF GatesInv
  <1>4. QED
    BY <1>1, <1>2, <1>3, PTL DEF Spec

-----------------------------------------------------------------------------
(* The statistics of a window: its samples in order and their nearest      *)
(* ranks.                                                                  *)

(* The samples that are not after the i-th one in the order.               *)
UpTo(xs, i) == {j \in DOMAIN xs : xs[j] < xs[i] \/ (xs[j] = xs[i] /\ j <= i)}

LEMMA PlaceOf ==
  ASSUME NEW xs \in Seq(Nat)
  PROVE  /\ DOMAIN xs = 1..Len(xs) /\ Len(xs) \in Nat
         /\ \A i \in 1..Len(xs) : xs[i] \in Nat
         /\ \A S \in SUBSET (1..Len(xs)) :
              IsFiniteSet(S) /\ Cardinality(S) \in Nat /\ Cardinality(S) <= Len(xs)
         /\ \A i \in 1..Len(xs) : Place(xs, i) = Cardinality(UpTo(xs, i)) /\ Place(xs, i) \in 1..Len(xs)
  <1>1. DOMAIN xs = 1..Len(xs) /\ Len(xs) \in Nat /\ \A i \in 1..Len(xs) : xs[i] \in Nat
    OBVIOUS
  <1>2. IsFiniteSet(1..Len(xs)) /\ Cardinality(1..Len(xs)) = Len(xs)
    <2>1. CASE Len(xs) = 0
      BY <1>1, <2>1, FS_Interval
    <2>2. CASE Len(xs) # 0
      BY <1>1, <2>2, FS_Interval
    <2>3. QED
      BY <2>1, <2>2
  <1>3. ASSUME NEW S \in SUBSET (1..Len(xs))
        PROVE  IsFiniteSet(S) /\ Cardinality(S) \in Nat /\ Cardinality(S) <= Len(xs)
    BY <1>2, FS_Subset, FS_CardinalityType
  <1>4. ASSUME NEW i \in 1..Len(xs)
        PROVE  Place(xs, i) = Cardinality(UpTo(xs, i)) /\ Place(xs, i) \in 1..Len(xs)
    <2>1. Place(xs, i) = Cardinality(UpTo(xs, i))
      BY DEF Place, UpTo
    <2>2. UpTo(xs, i) \in SUBSET (1..Len(xs)) /\ i \in UpTo(xs, i)
      BY <1>1 DEF UpTo
    <2>3. Cardinality(UpTo(xs, i)) # 0
      BY <1>3, <2>2, FS_EmptySet
    <2>4. Cardinality(UpTo(xs, i)) \in Nat /\ Cardinality(UpTo(xs, i)) <= Len(xs)
      BY <1>3, <2>2
    <2>5. QED
      BY <1>1, <2>1, <2>3, <2>4
  <1>5. QED
    BY <1>1, <1>3, <1>4

(* No two samples have the same place, so every place is taken.            *)
LEMMA PlacesApart ==
  ASSUME NEW xs \in Seq(Nat), NEW i \in 1..Len(xs), NEW j \in 1..Len(xs),
         Place(xs, i) = Place(xs, j)
  PROVE  i = j
  <1>1. /\ xs[i] \in Nat /\ xs[j] \in Nat /\ DOMAIN xs = 1..Len(xs) /\ Len(xs) \in Nat
        /\ \A k \in 1..Len(xs) : xs[k] \in Nat
    BY PlaceOf
  <1>2. ASSUME NEW a \in 1..Len(xs), NEW b \in 1..Len(xs), a # b, Place(xs, a) = Place(xs, b),
               xs[a] < xs[b] \/ (xs[a] = xs[b] /\ a <= b)
        PROVE  FALSE
    <2>1. UpTo(xs, a) \in SUBSET UpTo(xs, b)
      BY SMTT(20), <1>1, <1>2 DEF UpTo
    <2>2. b \in UpTo(xs, b) /\ b \notin UpTo(xs, a)
      BY SMTT(20), <1>1, <1>2 DEF UpTo
    <2>3. IsFiniteSet(UpTo(xs, b)) /\ Cardinality(UpTo(xs, a)) = Cardinality(UpTo(xs, b))
      <3>1. UpTo(xs, b) \in SUBSET (1..Len(xs))
        BY <1>1 DEF UpTo
      <3>2. QED
        BY <1>2, <3>1, PlaceOf
    <2>4. UpTo(xs, a) = UpTo(xs, b)
      BY <2>1, <2>3, FS_Subset
    <2>5. QED
      BY <2>2, <2>4
  <1>3. \/ xs[i] < xs[j] \/ (xs[i] = xs[j] /\ i <= j)
        \/ xs[j] < xs[i] \/ (xs[j] = xs[i] /\ j <= i)
    BY <1>1
  <1>4. QED
    BY <1>2, <1>3

LEMMA PlacesTaken ==
  ASSUME NEW xs \in Seq(Nat), NEW k \in 1..Len(xs)
  PROVE  \E i \in 1..Len(xs) : Place(xs, i) = k
  <1> SUFFICES ASSUME \A i \in 1..Len(xs) : Place(xs, i) # k PROVE FALSE
    OBVIOUS
  <1> DEFINE S == 1..Len(xs)
             T == S \ {k}
             f == [i \in S |-> Place(xs, i)]
  <1>1. Len(xs) \in Nat /\ \A i \in S : Place(xs, i) \in S
    BY PlaceOf
  <1>2. IsFiniteSet(S)
    BY PlaceOf
  <1>3. IsFiniteSet(T) /\ Cardinality(T) = Cardinality(S) - 1 /\ Cardinality(S) \in Nat
    BY <1>2, FS_RemoveElement, FS_CardinalityType
  <1>4. f \in [S -> T]
    BY <1>1
  <1> HIDE DEF S, T, f
  <1>5. PICK x \in S, y \in S : x # y /\ f[x] = f[y]
    BY <1>2, <1>3, <1>4, FS_PigeonHole
  <1>6. Place(xs, x) = Place(xs, y)
    BY <1>5 DEF f
  <1>7. QED
    BY <1>5, <1>6, PlacesApart DEF S

(* The samples in order: the k-th has k samples up to it, and fewer than k *)
(* below it.                                                               *)
LEMMA SortedAt ==
  ASSUME NEW xs \in Seq(Nat), NEW k \in 1..Len(xs)
  PROVE  /\ Sorted(xs)[k] \in Nat
         /\ \E i \in DOMAIN xs : xs[i] = Sorted(xs)[k]
         /\ Cardinality({j \in DOMAIN xs : xs[j] <= Sorted(xs)[k]}) \in Nat
         /\ Cardinality({j \in DOMAIN xs : xs[j] <= Sorted(xs)[k]}) >= k
         /\ Cardinality({j \in DOMAIN xs : xs[j] < Sorted(xs)[k]}) \in Nat
         /\ Cardinality({j \in DOMAIN xs : xs[j] < Sorted(xs)[k]}) < k
  <1> DEFINE i == CHOOSE i \in DOMAIN xs : Place(xs, i) = k
             v == Sorted(xs)[k]
             Le == {j \in DOMAIN xs : xs[j] <= v}
             Lt == {j \in DOMAIN xs : xs[j] < v}
  <1>1. /\ DOMAIN xs = 1..Len(xs) /\ Len(xs) \in Nat /\ \A j \in 1..Len(xs) : xs[j] \in Nat
    BY PlaceOf
  <1>2. i \in 1..Len(xs) /\ Place(xs, i) = k
    BY <1>1, PlacesTaken
  <1>3. v = xs[i]
    BY <1>1 DEF Sorted
  <1> HIDE DEF i, v
  <1>4. Cardinality(UpTo(xs, i)) = k
    BY <1>2, PlaceOf
  <1>5. UpTo(xs, i) \in SUBSET Le /\ Lt \in SUBSET UpTo(xs, i) /\ i \in UpTo(xs, i) /\ i \notin Lt
    BY <1>1, <1>2, <1>3 DEF UpTo
  <1>6. Le \in SUBSET (1..Len(xs)) /\ Lt \in SUBSET (1..Len(xs)) /\ UpTo(xs, i) \in SUBSET (1..Len(xs))
    BY <1>1 DEF UpTo
  <1> HIDE DEF Le, Lt
  <1>7. /\ IsFiniteSet(Le) /\ Cardinality(Le) \in Nat /\ Cardinality(Lt) \in Nat
        /\ IsFiniteSet(UpTo(xs, i))
    BY <1>6, PlaceOf
  <1>8. k <= Cardinality(Le)
    BY <1>4, <1>5, <1>7, FS_Subset
  <1>9. Cardinality(Lt) <= k /\ Cardinality(Lt) # k
    <2>1. Cardinality(Lt) <= Cardinality(UpTo(xs, i))
      BY <1>5, <1>7, FS_Subset
    <2>2. Cardinality(UpTo(xs, i)) = Cardinality(Lt) => UpTo(xs, i) = Lt
      BY <1>5, <1>7, FS_Subset
    <2>3. QED
      BY <1>4, <1>5, <2>1, <2>2
  <1>10. v \in Nat /\ xs[i] = v /\ i \in DOMAIN xs
    BY <1>1, <1>2, <1>3
  <1>11. QED
    BY <1>7, <1>8, <1>9, <1>10 DEF v, Le, Lt

(* The first is the least and the last the greatest.                       *)
LEMMA SortedEnds ==
  ASSUME NEW xs \in Seq(Nat), NEW k \in 1..Len(xs)
  PROVE  Sorted(xs)[1] <= Sorted(xs)[k] /\ Sorted(xs)[k] <= Sorted(xs)[Len(xs)]
  <1>1. /\ DOMAIN xs = 1..Len(xs) /\ Len(xs) \in Nat /\ \A j \in 1..Len(xs) : xs[j] \in Nat
    BY PlaceOf
  <1>2. PICK i \in DOMAIN xs : xs[i] = Sorted(xs)[k]
    BY SortedAt
  <1>3. 1 \in 1..Len(xs) /\ Len(xs) \in 1..Len(xs)
    BY <1>1
  <1>4. Sorted(xs)[1] <= xs[i]
    <2> DEFINE v == Sorted(xs)[1]
               Lt == {j \in DOMAIN xs : xs[j] < v}
    <2>1. v \in Nat /\ Cardinality(Lt) \in Nat /\ Cardinality(Lt) < 1
      BY <1>3, SortedAt
    <2>2. Lt \in SUBSET (1..Len(xs))
      BY <1>1
    <2>3. i \in Lt <=> xs[i] < v
      OBVIOUS
    <2> HIDE DEF v, Lt
    <2>4. Lt = {}
      <3>1. IsFiniteSet(Lt)
        BY <2>2, PlaceOf
      <3>2. Cardinality(Lt) = 0
        BY <2>1
      <3>3. QED
        BY <3>1, <3>2, FS_EmptySet
    <2>5. QED
      BY <1>1, <2>1, <2>3, <2>4 DEF v
  <1>5. xs[i] <= Sorted(xs)[Len(xs)]
    <2> DEFINE v == Sorted(xs)[Len(xs)]
               Le == {j \in DOMAIN xs : xs[j] <= v}
    <2>1. v \in Nat /\ Cardinality(Le) \in Nat /\ Cardinality(Le) >= Len(xs)
      BY <1>3, SortedAt
    <2>2. Le \in SUBSET (1..Len(xs))
      BY <1>1
    <2>3. i \in Le <=> xs[i] <= v
      OBVIOUS
    <2> HIDE DEF v, Le
    <2>4. Le = 1..Len(xs)
      <3>1. IsFiniteSet(1..Len(xs)) /\ Cardinality(1..Len(xs)) <= Len(xs)
            /\ Cardinality(Le) <= Len(xs) /\ Cardinality(1..Len(xs)) \in Nat
        BY <2>2, PlaceOf
      <3>2. Cardinality(Le) <= Cardinality(1..Len(xs))
        BY <2>2, <3>1, FS_Subset
      <3>3. Cardinality(Le) = Cardinality(1..Len(xs))
        BY <1>1, <2>1, <3>1, <3>2
      <3>4. QED
        BY <2>2, <3>1, <3>3, FS_Subset
    <2>5. QED
      BY <1>1, <2>1, <2>3, <2>4 DEF v
  <1>6. QED
    BY <1>2, <1>4, <1>5

(* The percentile of a window that has samples is their nearest rank.      *)
LEMMA PercentileRanks ==
  ASSUME NEW xs \in Seq(Nat), xs # <<>>, NEW p \in 1..100
  PROVE  /\ NearestRank(xs, p, Percentile(Sorted(xs), p))
         /\ \E k \in 1..Len(xs) : Percentile(Sorted(xs), p) = Sorted(xs)[k]
  <1> DEFINE N == Len(xs)
             idx == (p * N + 99) \div 100
             k == IF idx < 1 THEN 1 ELSE IF idx > N THEN N ELSE idx
  <1>1. N \in Nat /\ N >= 1 /\ DOMAIN xs = 1..N
    BY PlaceOf
  <1>2. Len(Sorted(xs)) = N /\ Sorted(xs) # <<>>
    <2>1. DOMAIN Sorted(xs) = 1..N
      BY <1>1 DEF Sorted
    <2>2. Sorted(xs) \in Seq(Nat)
      <3>1. \A j \in 1..N : Sorted(xs)[j] \in Nat
        BY SortedAt
      <3>2. Sorted(xs) = [j \in 1..N |-> Sorted(xs)[j]]
        BY <1>1 DEF Sorted
      <3>3. QED
        BY <1>1, <3>1, <3>2
    <2>3. QED
      BY <1>1, <2>1, <2>2
  <1>3. Percentile(Sorted(xs), p) = Sorted(xs)[k]
    BY <1>2 DEF Percentile
  <1>4. idx \in Nat /\ 100 * idx >= p * N /\ 100 * idx < p * N + 100 /\ idx >= 1 /\ idx <= N
    <2>1. p * N \in Nat /\ p * N >= 1 /\ p * N <= 100 * N
      BY <1>1
    <2> DEFINE x == p * N
    <2> HIDE DEF x
    <2>2. x \in Nat /\ x >= 1 /\ x <= 100 * N
      BY <2>1 DEF x
    <2>3. (x + 99) \div 100 \in Nat /\ 100 * ((x + 99) \div 100) <= x + 99
          /\ 100 * ((x + 99) \div 100) > x - 1
      BY <2>2
    <2>4. QED
      BY <1>1, <2>2, <2>3 DEF x
  <1>5. k = idx /\ k \in 1..N
    BY <1>1, <1>4
  <1> HIDE DEF k, idx
  <1> DEFINE v == Sorted(xs)[k]
             a == Cardinality({j \in DOMAIN xs : xs[j] <= v})
             b == Cardinality({j \in DOMAIN xs : xs[j] < v})
  <1>6. a \in Nat /\ a >= k /\ b \in Nat /\ b < k /\ \E i \in DOMAIN xs : xs[i] = v
    BY <1>5, SortedAt
  <1> HIDE DEF a, b
  <1>7. p * N \in Nat
    BY <1>1
  <1>8. 100 * a >= p * N /\ 100 * b < p * N
    BY <1>4, <1>5, <1>6, <1>7
  <1>9. QED
    BY <1>3, <1>5, <1>6, <1>8 DEF NearestRank, a, b

-----------------------------------------------------------------------------
(* sample and load.run.                                                    *)

SampleAction(c) ==
  BeginSample(c) \/ NextSample(c) \/ SampleSlept(c) \/ SampleCut(c) \/ SendSample(c) \/ CountSample(c)
SpanAction(c) == BeginSpan(c) \/ Sleeps(c) \/ SpanEnds(c)

(* Every step of a caller that samples or attacks.                         *)
LEMMA WindowMoves ==
  ASSUME ControlInv, NEW c \in Callers, Step(c)
  PROVE  /\ Call(c).kind = "sample" => Refuse(c) \/ SampleAction(c) \/ Arrives(c) \/ CutOff(c)
         /\ Call(c).kind = "load" => Refuse(c) \/ SpanAction(c)
  <1>1. CallInv(c)
    BY DEF ControlInv
  <1>2. CASE FaultStep(c)
    BY <1>2, FaultMoves DEF Goes
  <1>3. CASE RequestStep(c)
    BY <1>3, RequestMoves
  <1>4. CASE ExecStep(c)
    BY <1>4, ExecMoves DEF Goes
  <1>5. CASE PollStep(c)
    <2>1. WaitAction(c) => Call(c).kind = "wait"
      BY DEF WaitAction, BeginWait, Poll, Inspect, GiveUp, PollAgain
    <2>2. BeginAssert(c) \/ EndAssert(c) => Call(c).kind = "assert"
      BY <1>1 DEF BeginAssert, EndAssert, Begin, CallInv, PointOf, FaultPoints, Spans
    <2>3. SampleAction(c) => Call(c).kind = "sample"
      BY <1>1 DEF SampleAction, BeginSample, NextSample, SampleSlept, SampleCut, SendSample,
           CountSample, CallInv, PointOf, FaultPoints, Spans
    <2>4. SpanAction(c) => Call(c).kind \in Spans
      BY <1>1 DEF SpanAction, BeginSpan, Sleeps, SpanEnds, CallInv, PointOf, FaultPoints, Spans
    <2>5. Refuse(c) \/ WaitAction(c) \/ SampleAction(c) \/ SpanAction(c) \/ BeginAssert(c) \/ EndAssert(c)
      BY <1>5 DEF PollStep, WaitAction, SampleAction, SpanAction
    <2>6. QED
      BY <2>1, <2>2, <2>3, <2>4, <2>5 DEF Spans
  <1>6. QED
    BY <1>2, <1>3, <1>4, <1>5 DEF Step

SampleFields == {"asked", "end", "bound", "obs", "part", "next", "lats", "errs", "sent"}
SampleMem(m) == m = [f \in SampleFields |-> m[f]]

Gap(call) == IF call.interval < minPollInterval THEN minPollInterval ELSE call.interval

(* The samples so far: no more than were asked for, the errors among them, *)
(* each sent before the deadline and an interval after the one before.     *)
WindowOf(call, lats, errs, sent, since) ==
  /\ lats \in Seq(Nat) /\ sent \in Seq(Nat) /\ errs \in Nat
  /\ errs <= Len(lats) /\ Len(lats) <= Len(sent)
  /\ call.count > 0 => Len(lats) <= call.count
  /\ call.span > 0 => \A i \in 1..Len(sent) : sent[i] < since + call.span
  /\ \A i \in 2..Len(sent) : sent[i] >= sent[i - 1] + lats[i - 1] + Gap(call)

(* When the last sample was answered.                                      *)
LastEnd(m) == m.sent[Len(m.lats)] + m.lats[Len(m.lats)]

WindowState(call, p, w, m, t, since) ==
  /\ SampleMem(m)
  /\ WindowOf(call, m.lats, m.errs, m.sent, since)
  /\ p \in {"window", "ask"} => w = 0
  /\ p \in {"window", "pause", "ask"} => Len(m.sent) = Len(m.lats)
  /\ p \in {"asking", "got"} =>
       /\ Len(m.sent) = Len(m.lats) + 1 /\ m.sent[Len(m.lats) + 1] = m.asked /\ m.asked <= t
  /\ p # "window" /\ call.count > 0 => Len(m.lats) < call.count
  /\ p = "window" => IF Len(m.lats) = 0 THEN t = since ELSE LastEnd(m) <= t
  /\ p = "pause" => Len(m.lats) > 0 /\ m.next \in Nat /\ LastEnd(m) + Gap(call) <= m.next
  /\ p = "ask" => /\ Len(m.lats) > 0 => LastEnd(m) + Gap(call) <= t
                  /\ call.span > 0 => t < since + call.span

(* A sample keeps its count, its interval and its deadline.                *)
SampleInv(c) ==
  Call(c).kind = "sample" /\ at[c] # "idle" =>
    /\ Call(c).req # <<>> /\ (Call(c).count > 0 \/ Call(c).span > 0)
    /\ WindowState(Call(c), at[c], wake[c], mem[c], now, start[c])

LEMMA SampleTypes ==
  ASSUME FramesInv, NEW c \in Callers, script[c] # <<>>, Call(c).kind = "sample"
  PROVE  /\ now \in Nat /\ start[c] \in Nat
         /\ Call(c).count \in Nat /\ Call(c).span \in Nat /\ Call(c).interval \in Nat
         /\ Gap(Call(c)) \in Nat /\ Interval(c) = Gap(Call(c))
         /\ Max({Call(c).interval, minPollInterval}) = Gap(Call(c))
  <1>1. now \in Nat /\ start[c] \in Nat
    BY HorizonAssumption DEF FramesInv
  <1>2. Call(c) \in AllCalls
    BY CallType
  <1>3. Call(c).count \in Nat /\ Call(c).span \in Nat /\ Call(c).interval \in Nat
    BY <1>2, PollsAssumption
  <1>4. Gap(Call(c)) \in Nat /\ Interval(c) = Gap(Call(c))
    BY <1>3 DEF Gap, Interval, minPollInterval
  <1>5. Max({Call(c).interval, minPollInterval}) = Gap(Call(c))
    <2> DEFINE k == Call(c).interval
               g == Gap(Call(c))
    <2>1. k \in Nat /\ g \in {k, 1} /\ g >= k /\ g >= 1
      BY <1>3 DEF Gap, minPollInterval
    <2> HIDE DEF k, g
    <2>2. \E x \in {k, 1} : \A y \in {k, 1} : x >= y
      BY <2>1
    <2>3. Max({k, 1}) \in {k, 1} /\ \A y \in {k, 1} : Max({k, 1}) >= y
      BY <2>2 DEF Max
    <2>4. Max({k, 1}) = g
      BY <2>1, <2>3
    <2>5. QED
      BY <2>4 DEF k, g, minPollInterval
  <1>6. QED
    BY <1>1, <1>3, <1>4, <1>5

(* A sample is sent.                                                       *)
LEMMA SendOne ==
  ASSUME NEW call, NEW lats, NEW errs, NEW sent, NEW since \in Nat, NEW t \in Nat,
         WindowOf(call, lats, errs, sent, since), Len(sent) = Len(lats), Gap(call) \in Nat,
         call.span \in Nat,
         Len(lats) > 0 => sent[Len(lats)] + lats[Len(lats)] + Gap(call) <= t,
         call.span > 0 => t < since + call.span
  PROVE  /\ WindowOf(call, lats, errs, Append(sent, t), since)
         /\ Len(Append(sent, t)) = Len(lats) + 1 /\ Append(sent, t)[Len(lats) + 1] = t
  <1> DEFINE s == Append(sent, t)
             N == Len(lats)
             g == Gap(call)
             limit == since + call.span
  <1>1. lats \in Seq(Nat) /\ sent \in Seq(Nat) /\ errs \in Nat /\ N \in Nat /\ errs <= N
        /\ (call.count > 0 => N <= call.count)
    BY DEF WindowOf
  <1>2. s \in Seq(Nat) /\ Len(s) = N + 1 /\ s[N + 1] = t /\ \A i \in 1..N : s[i] = sent[i]
    BY <1>1, AppendProperties
  <1>3. (call.span > 0 => \A i \in 1..N : sent[i] < limit)
        /\ \A i \in 2..N : sent[i] >= sent[i - 1] + lats[i - 1] + g
    BY DEF WindowOf
  <1>4. /\ N > 0 => sent[N] + lats[N] + g <= t
        /\ call.span > 0 => t < limit
        /\ g \in Nat /\ \A i \in 1..N : sent[i] \in Nat /\ lats[i] \in Nat
    BY <1>1
  <1> HIDE DEF s, N, g, limit
  <1>5. ASSUME call.span > 0, NEW i \in 1..(N + 1) PROVE s[i] < limit
    <2>1. CASE i = N + 1
      BY <1>2, <1>4, <1>5, <2>1
    <2>2. CASE i # N + 1
      <3>1. i \in 1..N
        BY <1>1, <2>2
      <3>2. s[i] = sent[i] /\ sent[i] < limit
        BY <1>2, <1>3, <1>5, <3>1
      <3>3. QED
        BY <3>2
    <2>3. QED
      BY <2>1, <2>2
  <1>6. ASSUME NEW i \in 2..(N + 1) PROVE s[i] >= s[i - 1] + lats[i - 1] + g
    <2>1. i - 1 \in 1..N /\ s[i - 1] = sent[i - 1]
      BY <1>1, <1>2
    <2>2. CASE i = N + 1
      <3>1. i - 1 = N /\ N > 0 /\ N \in 1..N
        BY <1>1, <2>1, <2>2
      <3>2. sent[N] + lats[N] + g <= t /\ sent[N] \in Nat /\ lats[N] \in Nat /\ s[i] = t
        BY <1>2, <1>4, <2>2, <3>1
      <3>3. s[i - 1] = sent[N] /\ lats[i - 1] = lats[N]
        BY <2>1, <3>1
      <3> DEFINE x == sent[N]
                 y == lats[N]
      <3>4. x \in Nat /\ y \in Nat /\ x + y + g <= t /\ s[i] = t
            /\ s[i - 1] = x /\ lats[i - 1] = y
        BY <3>2, <3>3
      <3> HIDE DEF x, y
      <3>5. t >= x + y + g
        BY <1>4, <3>4
      <3>6. QED
        BY <3>4, <3>5
    <2>3. CASE i # N + 1
      <3>1. i \in 1..N /\ i \in 2..N
        BY <1>1, <2>3
      <3>2. s[i] = sent[i]
        BY <1>2, <3>1
      <3>3. QED
        BY <1>3, <2>1, <3>1, <3>2
    <2>4. QED
      BY <2>2, <2>3
  <1>7. Len(sent) = N
    BY DEF N
  <1>8. WindowOf(call, lats, errs, s, since)
    <2>1. N <= Len(s) /\ Len(lats) = N
      BY <1>1, <1>2 DEF N
    <2>2. /\ call.span > 0 => \A i \in 1..Len(s) : s[i] < since + call.span
          /\ \A i \in 2..Len(s) : s[i] >= s[i - 1] + lats[i - 1] + Gap(call)
      BY <1>2, <1>5, <1>6 DEF limit, g
    <2>3. QED
      BY <1>1, <1>2, <2>1, <2>2 DEF WindowOf
  <1>9. QED
    BY <1>2, <1>8 DEF s, N

(* And its answer, or its failure, is counted.                             *)
LEMMA CountOne ==
  ASSUME NEW call, NEW lats, NEW errs, NEW sent, NEW since \in Nat, NEW t \in Nat,
         NEW e \in Nat, NEW d \in Nat,
         WindowOf(call, lats, errs, sent, since), Len(sent) = Len(lats) + 1,
         sent[Len(lats) + 1] <= t, call.count \in Nat, call.count > 0 => Len(lats) < call.count,
         e = errs \/ e = errs + 1, sent[Len(lats) + 1] + d = t, Gap(call) \in Nat
  PROVE  /\ WindowOf(call, Append(lats, d), e, sent, since)
         /\ Len(Append(lats, d)) = Len(lats) + 1
         /\ sent[Len(lats) + 1] + Append(lats, d)[Len(lats) + 1] = t
  <1> DEFINE N == Len(lats)
             s == Append(lats, d)
  <1>1. lats \in Seq(Nat) /\ sent \in Seq(Nat) /\ errs \in Nat /\ N \in Nat /\ errs <= N
    BY DEF WindowOf
  <1>3. s \in Seq(Nat) /\ Len(s) = N + 1 /\ s[N + 1] = d /\ \A i \in 1..N : s[i] = lats[i]
    BY <1>1, AppendProperties
  <1> HIDE DEF s
  <1>4. (call.span > 0 => \A i \in 1..Len(sent) : sent[i] < since + call.span)
        /\ \A i \in 2..Len(sent) : sent[i] >= sent[i - 1] + lats[i - 1] + Gap(call)
    BY DEF WindowOf
  <1>5. ASSUME NEW i \in 2..Len(sent) PROVE sent[i] >= sent[i - 1] + s[i - 1] + Gap(call)
    <2>1. i - 1 \in 1..N
      BY <1>1
    <2>2. s[i - 1] = lats[i - 1]
      BY <1>3, <2>1
    <2>3. QED
      BY <1>4, <2>2
  <1>6. e \in Nat /\ e <= Len(s) /\ Len(s) <= Len(sent) /\ (call.count > 0 => Len(s) <= call.count)
    BY SMTT(20), <1>1, <1>3
  <1>7. WindowOf(call, s, e, sent, since)
    BY <1>1, <1>3, <1>4, <1>5, <1>6 DEF WindowOf
  <1>8. QED
    BY <1>3, <1>7 DEF s

(* What a window returns of its samples.                                   *)
LEMMA SummaryOf ==
  ASSUME NEW lats \in Seq(Nat), NEW errs, Len(lats) > 0
  PROVE  LET s == Summarize(lats, errs)
         IN  /\ s.n = Len(lats) /\ s.errors = errs
             /\ s.min <= s.p50 /\ s.p99 <= s.max
             /\ NearestRank(lats, 50, s.p50) /\ NearestRank(lats, 95, s.p95)
             /\ NearestRank(lats, 99, s.p99)
  <1> DEFINE sorted == Sorted(lats)
             N == Len(lats)
  <1>1. DOMAIN sorted = 1..N /\ N \in Nat /\ lats # <<>>
    BY DEF Sorted
  <1>2. At(sorted, 1) = sorted[1] /\ At(sorted, N) = sorted[N]
    BY <1>1 DEF At
  <1>3. ASSUME NEW p \in 1..100
        PROVE  /\ NearestRank(lats, p, Percentile(sorted, p))
               /\ sorted[1] <= Percentile(sorted, p) /\ Percentile(sorted, p) <= sorted[N]
    <2>1. NearestRank(lats, p, Percentile(sorted, p))
      BY <1>1, PercentileRanks
    <2>2. PICK k \in 1..N : Percentile(sorted, p) = sorted[k]
      BY <1>1, PercentileRanks
    <2>3. QED
      BY <2>1, <2>2, SortedEnds
  <1> HIDE DEF sorted
  <1> DEFINE s == Summarize(lats, errs)
  <1>4. /\ s.n = N /\ s.errors = errs /\ s.min = At(sorted, 1) /\ s.max = At(sorted, N)
        /\ s.p50 = Percentile(sorted, 50) /\ s.p95 = Percentile(sorted, 95)
        /\ s.p99 = Percentile(sorted, 99)
    BY DEF Summarize, sorted
  <1>5. 50 \in 1..100 /\ 95 \in 1..100 /\ 99 \in 1..100
    OBVIOUS
  <1> HIDE DEF s
  <1>6. QED
    <2>1. /\ NearestRank(lats, 50, Percentile(sorted, 50))
          /\ NearestRank(lats, 95, Percentile(sorted, 95))
          /\ NearestRank(lats, 99, Percentile(sorted, 99))
          /\ sorted[1] <= Percentile(sorted, 50) /\ Percentile(sorted, 99) <= sorted[N]
      BY <1>3, <1>5
    <2>2. /\ s.n = Len(lats) /\ s.errors = errs
          /\ s.min <= s.p50 /\ s.p99 <= s.max
          /\ NearestRank(lats, 50, s.p50) /\ NearestRank(lats, 95, s.p95)
          /\ NearestRank(lats, 99, s.p99)
      BY <1>2, <1>4, <2>1
    <2>3. QED
      BY <2>2 DEF s

(* How a sample goes on.                                                   *)
LEMMA SampleGoes ==
  ASSUME FramesInv, NEW c \in Callers, Call(c).kind = "sample", Call(c).req # <<>>,
         Call(c).count > 0 \/ Call(c).span > 0, UNCHANGED now,
         NEW p, NEW w, NEW m, Goto(c, p, w, m), WindowState(Call(c), p, w, m, now, start[c])
  PROVE  SampleInv(c)' /\ answer'[c] = answer[c]
  <1>1. /\ at'[c] = p /\ wake'[c] = w /\ mem'[c] = m /\ start'[c] = start[c]
        /\ script'[c] = script[c] /\ answer'[c] = answer[c]
    BY DEF Goto, FramesInv
  <1>2. Call(c)' = Call(c)
    BY <1>1 DEF Call
  <1>3. QED
    BY <1>1, <1>2 DEF SampleInv

LEMMA SampleBegins ==
  ASSUME ControlInv, NEW c \in Callers, BeginSample(c), UNCHANGED now
  PROVE  SampleInv(c)' /\ answer'[c] = answer[c]
  <1>1. FramesInv /\ CallInv(c)
    BY DEF ControlInv
  <1>2. /\ script[c] # <<>> /\ Call(c).kind = "sample" /\ at[c] = "idle" /\ Call(c).req # <<>>
        /\ ~(Call(c).count <= 0 /\ Call(c).span <= 0)
    BY DEF BeginSample, Idle, Unbuilt
  <1>3. /\ now \in Nat /\ Call(c).count \in Nat /\ Call(c).span \in Nat
    BY <1>1, <1>2, SampleTypes
  <1> DEFINE m == [asked |-> 0, end |-> 0, bound |-> 0, obs |-> Failed, part |-> {Failed},
                   next |-> 0, lats |-> <<>>, errs |-> 0, sent |-> <<>>]
  <1>4. /\ at'[c] = "window" /\ start'[c] = now /\ mem'[c] = m /\ wake'[c] = wake[c]
        /\ script'[c] = script[c] /\ answer'[c] = answer[c]
    BY <1>1 DEF BeginSample, Begin, FramesInv
  <1>5. Call(c)' = Call(c)
    BY <1>4 DEF Call
  <1>6. wake'[c] = 0
    BY <1>1, <1>2, <1>4 DEF CallInv
  <1>7. m.lats = <<>> /\ m.sent = <<>> /\ m.errs = 0 /\ SampleMem(m)
    BY DEF SampleMem, SampleFields
  <1> HIDE DEF m
  <1>8. WindowOf(Call(c), <<>>, 0, <<>>, now)
    <2>1. <<>> \in Seq(Nat) /\ Len(<<>>) = 0
      OBVIOUS
    <2>2. QED
      BY <1>3, <2>1 DEF WindowOf
  <1>9. WindowState(Call(c), "window", 0, m, now, now)
    BY <1>7, <1>8 DEF WindowState
  <1>10. SampleInv(c)'
    BY <1>2, <1>3, <1>4, <1>5, <1>6, <1>9 DEF SampleInv
  <1>11. QED
    BY <1>4, <1>10

(* What a request leaves in the hands of the window that makes it.         *)
LEMMA SampleAsked ==
  ASSUME NEW c \in Callers, NEW req, NEW deadline, NEW m, SampleMem(m), Ask(c, req, deadline, m)
  PROVE  \E w, q : /\ Goto(c, "asking", w, q) /\ SampleMem(q) /\ q.asked = now
                   /\ q.lats = m.lats /\ q.errs = m.errs /\ q.sent = m.sent
  <1>1. PICK w, end, bound, obs, part :
          Goto(c, "asking", w,
               [m EXCEPT !.asked = now, !.end = end, !.bound = bound, !.obs = obs, !.part = part])
    BY DEF Ask
  <1> DEFINE q == [m EXCEPT !.asked = now, !.end = end, !.bound = bound, !.obs = obs, !.part = part]
  <1>2. SampleMem(q) /\ q.asked = now /\ q.lats = m.lats /\ q.errs = m.errs /\ q.sent = m.sent
    BY DEF SampleMem, SampleFields
  <1> HIDE DEF q
  <1>3. Goto(c, "asking", w, q)
    BY <1>1 DEF q
  <1>4. QED
    BY <1>2, <1>3

(* A window that is over is returned whole.                                *)
LEMMA ReturnsWhole ==
  ASSUME FramesInv, NEW c \in Callers, script[c] # <<>>, Call(c).kind = "sample",
         WindowOf(Call(c), mem[c].lats, mem[c].errs, mem[c].sent, start[c]),
         Len(mem[c].sent) = Len(mem[c].lats), Len(mem[c].lats) > 0, WindowOver(c),
         NEW a, AnswerOf(c, a, TRUE, "window"), a.value = Summary(c)
  PROVE  WholeWindow(a)
  <1> DEFINE call == Call(c)
             lats == mem[c].lats
             errs == mem[c].errs
             sent == mem[c].sent
             s == Summarize(lats, errs)
  <1>1. /\ now \in Nat /\ start[c] \in Nat /\ call.count \in Nat /\ call.span \in Nat
        /\ Max({call.interval, minPollInterval}) = Gap(call)
    BY SampleTypes
  <1>2. /\ lats \in Seq(Nat) /\ sent \in Seq(Nat) /\ errs \in Nat /\ errs <= Len(lats)
        /\ call.count > 0 => Len(lats) <= call.count
        /\ call.span > 0 => \A i \in 1..Len(sent) : sent[i] < start[c] + call.span
        /\ \A i \in 2..Len(sent) : sent[i] >= sent[i - 1] + lats[i - 1] + Gap(call)
    BY DEF WindowOf
  <1>3. /\ s.n = Len(lats) /\ s.errors = errs
        /\ s.min <= s.p50 /\ s.p99 <= s.max
        /\ NearestRank(lats, 50, s.p50) /\ NearestRank(lats, 95, s.p95)
        /\ NearestRank(lats, 99, s.p99)
    BY <1>2, SummaryOf
  <1>4. a.value = s /\ a.call = call /\ a.start = start[c] /\ a.end = now /\ a.mem = mem[c]
    BY DEF AnswerOf, Summary
  <1>5. (call.count > 0 /\ Len(lats) >= call.count) \/ (call.span > 0 /\ now >= start[c] + call.span)
    BY DEF WindowOver, SpanPassed, n
  <1>6. DOMAIN sent = 1..Len(sent) /\ Len(sent) = Len(lats) /\ Len(lats) \in Nat
    BY <1>2
  <1> HIDE DEF s
  <1>7. /\ s.n = Len(sent) /\ s.n >= 1 /\ s.errors <= s.n
        /\ (call.count > 0 => s.n <= call.count)
        /\ (call.count > 0 /\ s.n = call.count) \/ (call.span > 0 /\ now >= start[c] + call.span)
    BY <1>1, <1>2, <1>3, <1>5, <1>6
  <1>8. call.span > 0 => \A i \in DOMAIN sent : sent[i] < start[c] + call.span
    BY <1>2, <1>6
  <1> HIDE DEF call, lats, errs, sent
  <1>9. a.mem.sent = sent /\ a.mem.lats = lats /\ call.kind = "sample"
    BY <1>4 DEF lats, sent, call
  <1>10. /\ a.value.n = Len(a.mem.sent) /\ a.value.n >= 1
         /\ \/ a.call.count > 0 /\ a.value.n = a.call.count
            \/ a.call.span > 0 /\ a.end >= a.start + a.call.span
         /\ a.call.count > 0 => a.value.n <= a.call.count
         /\ a.value.errors <= a.value.n
    BY <1>4, <1>7, <1>9
  <1>11. a.call.span > 0 => \A i \in DOMAIN a.mem.sent : a.mem.sent[i] < a.start + a.call.span
    BY <1>4, <1>8, <1>9
  <1>12. \A i \in 2..Len(a.mem.sent) :
           a.mem.sent[i] >= a.mem.sent[i - 1] + a.mem.lats[i - 1]
                              + Max({a.call.interval, minPollInterval})
    BY <1>1, <1>2, <1>4, <1>9
  <1>13. /\ a.value.min <= a.value.p50 /\ a.value.p99 <= a.value.max
         /\ NearestRank(a.mem.lats, 50, a.value.p50) /\ NearestRank(a.mem.lats, 95, a.value.p95)
         /\ NearestRank(a.mem.lats, 99, a.value.p99)
    BY <1>3, <1>4, <1>9
  <1>14. a.call.kind = "sample"
    BY <1>4, <1>9
  <1>15. QED
    BY <1>10, <1>11, <1>12, <1>13, <1>14 DEF WholeWindow

LEMMA ReturnsValue ==
  ASSUME FramesInv, NEW c \in Callers, NEW ok, NEW why, NEW value, Return(c, ok, why, value)
  PROVE  AnswerOf(c, answer'[c], ok, why) /\ at'[c] = "idle" /\ answer'[c].value = value
  <1>1. AnswerOf(c, answer'[c], ok, why) /\ at'[c] = "idle"
    BY ReturnAnswers
  <1>2. answer'[c].value = value
    BY DEF Return, FramesInv
  <1>3. QED
    BY <1>1, <1>2

(* The steps of a sample that has begun.                                   *)
LEMMA SampleOwnStep ==
  ASSUME ControlInv, NEW c \in Callers, SampleInv(c), Call(c).kind = "sample", at[c] # "idle",
         UNCHANGED now,
         \/ NextSample(c) \/ SampleSlept(c) \/ SampleCut(c) \/ SendSample(c) \/ CountSample(c)
         \/ Arrives(c) \/ CutOff(c)
  PROVE  \/ at'[c] = "idle" /\ (WholeWindow(answer[c]))'
         \/ SampleInv(c)' /\ answer'[c] = answer[c]
  <1>1. FramesInv /\ CallInv(c) /\ script[c] # <<>>
    BY DEF ControlInv, CallInv
  <1> DEFINE call == Call(c)
             m == mem[c]
             lats == mem[c].lats
             sent == mem[c].sent
             N == Len(lats)
             t == now
             s0 == start[c]
             g == Gap(call)
  <1>2. /\ call.req # <<>> /\ (call.count > 0 \/ call.span > 0)
        /\ WindowState(call, at[c], wake[c], m, t, s0)
    BY DEF SampleInv
  <1>3. /\ t \in Nat /\ s0 \in Nat /\ call.count \in Nat /\ call.span \in Nat
        /\ g \in Nat /\ Interval(c) = g
    BY <1>1, SampleTypes
  <1>4. SampleMem(m) /\ WindowOf(call, lats, m.errs, sent, s0)
        /\ (at[c] # "window" /\ call.count > 0 => N < call.count)
    BY <1>2 DEF WindowState
  <1>5. /\ lats \in Seq(Nat) /\ sent \in Seq(Nat) /\ N \in Nat /\ m.errs \in Nat
        /\ (call.count > 0 => N <= call.count)
    BY <1>4 DEF WindowOf
  <1>l. N > 0 /\ Len(sent) = N => LastEnd(m) \in Nat /\ LastEnd(m) = sent[N] + lats[N]
    <2>1. N > 0 /\ Len(sent) = N => N \in 1..N /\ sent[N] \in Nat /\ lats[N] \in Nat
      <3> HIDE DEF lats, sent
      <3>1. QED
        BY <1>5
    <2>2. LastEnd(m) = sent[N] + lats[N]
      BY DEF LastEnd
    <2> DEFINE x == sent[N]
               y == lats[N]
    <2>3. LastEnd(m) = x + y /\ (N > 0 /\ Len(sent) = N => x \in Nat /\ y \in Nat)
      BY <2>1, <2>2
    <2> HIDE DEF x, y
    <2>4. N > 0 /\ Len(sent) = N => LastEnd(m) \in Nat /\ LastEnd(m) = x + y
      BY <2>3
    <2>5. QED
      BY <2>4 DEF x, y
  <1>g. ASSUME NEW p, NEW w, NEW q, Goto(c, p, w, q), WindowState(call, p, w, q, t, s0)
        PROVE  SampleInv(c)' /\ answer'[c] = answer[c]
    BY <1>1, <1>2, <1>g, SampleGoes
  <1>r. ASSUME Return(c, TRUE, "window", Summary(c)), WindowOver(c), Len(sent) = N, N > 0
        PROVE  at'[c] = "idle" /\ (WholeWindow(answer[c]))'
    <2>1. AnswerOf(c, answer'[c], TRUE, "window") /\ at'[c] = "idle" /\ answer'[c].value = Summary(c)
      BY <1>1, <1>r, ReturnsValue
    <2>2. WholeWindow(answer'[c])
      BY <1>1, <1>4, <1>r, <2>1, ReturnsWhole
    <2>3. (WholeWindow(answer[c]))' <=> WholeWindow(answer'[c])
      BY DEF WholeWindow
    <2>4. QED
      BY <2>1, <2>2, <2>3
  <1>6. CASE NextSample(c)
    <2>1. at[c] = "window" /\ Len(sent) = N /\ wake[c] = 0
          /\ (IF N = 0 THEN t = s0 ELSE LastEnd(m) <= t)
      BY <1>2, <1>6 DEF NextSample, WindowState
    <2>2. CASE WindowOver(c)
      <3>1. Return(c, TRUE, "window", Summary(c))
        BY <1>6, <2>2 DEF NextSample
      <3>2. N > 0
        BY <1>3, <1>5, <2>1, <2>2 DEF WindowOver, SpanPassed, n
      <3>3. QED
        BY <1>r, <2>1, <2>2, <3>1, <3>2
    <2>3. CASE ~WindowOver(c) /\ N > 0
      <3> DEFINE w == Min({now + Interval(c), Deadline(c)})
                 q == [m EXCEPT !.next = t + g]
      <3>1. Goto(c, "pause", w, q)
        BY <1>3, <1>6, <2>3 DEF NextSample, n
      <3>2. SampleMem(q) /\ q.lats = lats /\ q.errs = m.errs /\ q.sent = sent /\ q.next = t + g
        BY <1>4 DEF SampleMem, SampleFields
      <3> HIDE DEF q, w
      <3>3. LastEnd(q) = LastEnd(m)
        BY <3>2 DEF LastEnd
      <3>4. LastEnd(m) + g <= t + g
        BY <1>3, <1>l, <2>1, <2>3
      <3>5. call.count > 0 => N < call.count
        BY <1>3, <1>5, <2>3 DEF WindowOver, n
      <3>6. /\ WindowOf(call, q.lats, q.errs, q.sent, s0) /\ Len(q.sent) = Len(q.lats)
            /\ (call.count > 0 => Len(q.lats) < call.count) /\ Len(q.lats) > 0
        BY <1>4, <2>1, <2>3, <3>2, <3>5
      <3>7. q.next \in Nat /\ LastEnd(q) + g <= q.next
        BY <1>3, <3>2, <3>3, <3>4
      <3>8. WindowState(call, "pause", w, q, t, s0)
        BY <3>2, <3>6, <3>7 DEF WindowState
      <3>9. QED
        BY <1>g, <3>1, <3>8
    <2>4. CASE ~WindowOver(c) /\ ~(N > 0)
      <3>1. Goto(c, "ask", 0, m)
        BY <1>6, <2>4 DEF NextSample, n
      <3>2. (call.count > 0 => N < call.count) /\ (call.span > 0 => t < s0 + call.span)
        BY <1>3, <1>5, <2>4 DEF WindowOver, SpanPassed, n
      <3>3. WindowState(call, "ask", 0, m, t, s0)
        BY <1>4, <2>1, <2>4, <3>2 DEF WindowState
      <3>4. QED
        BY <1>g, <3>1, <3>3
    <2>5. QED
      BY <2>2, <2>3, <2>4
  <1>7. CASE SampleSlept(c)
    <2>1. at[c] = "pause" /\ t >= m.next
      BY <1>7 DEF SampleSlept
    <2>2. Len(sent) = N /\ N > 0 /\ m.next \in Nat /\ LastEnd(m) + g <= m.next /\ (call.count > 0 => N < call.count)
      BY <1>2, <2>1 DEF WindowState
    <2>3. CASE SpanPassed(c)
      <3>1. Return(c, TRUE, "window", Summary(c)) /\ WindowOver(c)
        BY <1>7, <2>3 DEF SampleSlept, WindowOver
      <3>2. QED
        BY <1>r, <2>2, <3>1
    <2>4. CASE ~SpanPassed(c)
      <3>1. Goto(c, "ask", 0, m)
        BY <1>7, <2>4 DEF SampleSlept
      <3>2. call.span > 0 => t < s0 + call.span
        BY <1>3, <2>4 DEF SpanPassed
      <3>3. LastEnd(m) + g <= t
        BY <1>3, <1>l, <2>1, <2>2
      <3>4. WindowState(call, "ask", 0, m, t, s0)
        BY <1>4, <2>2, <3>2, <3>3 DEF WindowState
      <3>5. QED
        BY <1>g, <3>1, <3>4
    <2>5. QED
      BY <2>3, <2>4
  <1>8. CASE SampleCut(c)
    <2>1. Return(c, FALSE, "context", Null)
      BY <1>8 DEF SampleCut
    <2>2. AnswerOf(c, answer'[c], FALSE, "context") /\ at'[c] = "idle"
      BY <1>1, <2>1, ReturnsValue
    <2>3. (WholeWindow(answer[c]))'
      BY <2>2 DEF AnswerOf, WholeWindow
    <2>4. QED
      BY <2>2, <2>3
  <1>9. CASE SendSample(c)
    <2> DEFINE r == [m EXCEPT !.sent = Append(@, now)]
    <2>1. at[c] = "ask" /\ Ask(c, call.req[1], Deadline(c), r)
      BY <1>9 DEF SendSample
    <2>2. SampleMem(r) /\ r.lats = lats /\ r.errs = m.errs /\ r.sent = Append(sent, t)
      BY <1>4 DEF SampleMem, SampleFields
    <2> HIDE DEF r
    <2>3. PICK w, q : /\ Goto(c, "asking", w, q) /\ SampleMem(q) /\ q.asked = t
                      /\ q.lats = lats /\ q.errs = m.errs /\ q.sent = Append(sent, t)
      BY <2>1, <2>2, SampleAsked
    <2>4. /\ Len(sent) = N /\ (N > 0 => LastEnd(m) + g <= t) /\ (call.span > 0 => t < s0 + call.span)
          /\ (call.count > 0 => N < call.count)
      BY <1>2, <2>1 DEF WindowState
    <2>5. N > 0 => sent[N] + lats[N] + g <= t
      BY <1>l, <2>4
    <2>6. /\ WindowOf(call, lats, m.errs, Append(sent, t), s0)
          /\ Len(Append(sent, t)) = N + 1 /\ Append(sent, t)[N + 1] = t
      <3>1. /\ s0 \in Nat /\ t \in Nat /\ WindowOf(call, lats, m.errs, sent, s0)
            /\ Len(sent) = Len(lats) /\ Gap(call) \in Nat /\ call.span \in Nat
            /\ Len(lats) > 0 => sent[Len(lats)] + lats[Len(lats)] + Gap(call) <= t
            /\ call.span > 0 => t < s0 + call.span
        BY <1>3, <1>4, <2>4, <2>5
      <3> DEFINE errs == m.errs
      <3> HIDE DEF call, lats, sent, errs, t, s0
      <3>2. QED
        BY <3>1, SendOne DEF errs
    <2>7. /\ Len(q.sent) = Len(q.lats) + 1 /\ q.sent[Len(q.lats) + 1] = q.asked /\ q.asked <= t
          /\ WindowOf(call, q.lats, q.errs, q.sent, s0) /\ (call.count > 0 => Len(q.lats) < call.count)
      BY <1>3, <2>3, <2>4, <2>6
    <2>8. WindowState(call, "asking", w, q, t, s0)
      BY <2>3, <2>7 DEF WindowState
    <2>9. QED
      BY <1>g, <2>3, <2>8
  <1>10. CASE CountSample(c)
    <2> DEFINE d == now - m.asked
               e == IF m.obs.err THEN m.errs + 1 ELSE m.errs
               q == [m EXCEPT !.lats = Append(@, d), !.errs = e]
    <2>1. at[c] = "got" /\ Goto(c, "window", 0, q)
      BY <1>10 DEF CountSample
    <2>2. SampleMem(q) /\ q.lats = Append(lats, d) /\ q.errs = e /\ q.sent = sent
      BY <1>4 DEF SampleMem, SampleFields
    <2> HIDE DEF q
    <2>3. /\ Len(sent) = N + 1 /\ sent[N + 1] = m.asked /\ m.asked <= t
          /\ (call.count > 0 => N < call.count)
      BY <1>2, <2>1 DEF WindowState
    <2>4. d \in Nat /\ sent[N + 1] <= t /\ sent[N + 1] + d = t
      <3> DEFINE x == sent[N + 1]
      <3>1. x \in Nat /\ x = m.asked /\ x <= t
        <4> HIDE DEF sent, lats
        <4>1. QED
          BY <1>5, <2>3
      <3>2. d = t - x
        BY <3>1
      <3> HIDE DEF d, x, t
      <3>3. d \in Nat /\ x <= t /\ x + d = t
        BY <1>3, <3>1, <3>2
      <3>4. QED
        BY <3>3 DEF x
    <2>e. e \in Nat /\ (e = m.errs \/ e = m.errs + 1)
      <3> DEFINE errs == m.errs
      <3>1. errs \in Nat /\ (e = errs \/ e = errs + 1)
        BY <1>5
      <3> HIDE DEF errs, e
      <3>2. e \in Nat
        BY <3>1
      <3>3. QED
        BY <3>1, <3>2 DEF errs
    <2> HIDE DEF d, e
    <2>5. /\ WindowOf(call, Append(lats, d), e, sent, s0)
          /\ Len(Append(lats, d)) = N + 1 /\ sent[N + 1] + Append(lats, d)[N + 1] = t
      <3>1. /\ s0 \in Nat /\ t \in Nat /\ WindowOf(call, lats, m.errs, sent, s0)
            /\ Len(sent) = Len(lats) + 1 /\ Gap(call) \in Nat /\ call.count \in Nat
            /\ call.count > 0 => Len(lats) < call.count
            /\ sent[Len(lats) + 1] <= t /\ sent[Len(lats) + 1] + d = t
        BY <1>3, <1>4, <1>5, <2>3, <2>4
      <3> DEFINE errs == m.errs
      <3>2. WindowOf(call, lats, errs, sent, s0) /\ (e = errs \/ e = errs + 1) /\ e \in Nat /\ d \in Nat
        BY <3>1, <2>4, <2>e
      <3> HIDE DEF call, lats, sent, errs, t, s0
      <3>3. QED
        BY <3>1, <3>2, CountOne
    <2>6. Len(q.lats) = N + 1 /\ LastEnd(q) = t
      <3>1. Len(q.lats) = N + 1
        BY <2>2, <2>5
      <3>2. LastEnd(q) = q.sent[N + 1] + q.lats[N + 1]
        BY <3>1 DEF LastEnd
      <3>3. QED
        BY <2>2, <2>5, <3>1, <3>2
    <2>7. WindowState(call, "window", 0, q, t, s0)
      BY <1>3, <1>5, <2>2, <2>3, <2>5, <2>6 DEF WindowState
    <2>8. QED
      BY <1>g, <2>1, <2>7
  <1>11. CASE Arrives(c) \/ CutOff(c)
    <2>1. at[c] = "asking"
      BY <1>11 DEF Arrives, CutOff
    <2>2. PICK q : Goto(c, "got", 0, q) /\ (q = m \/ \E obs : q = [m EXCEPT !.obs = obs])
      BY <1>11 DEF Arrives, CutOff
    <2>3. SampleMem(q) /\ q.asked = m.asked /\ q.lats = lats /\ q.errs = m.errs /\ q.sent = sent
      BY <1>4, <2>2 DEF SampleMem, SampleFields
    <2>4. WindowState(call, "got", 0, q, t, s0)
      BY <1>2, <1>4, <2>1, <2>3 DEF WindowState
    <2>5. QED
      BY <1>g, <2>2, <2>4
  <1>12. QED
    BY <1>6, <1>7, <1>8, <1>9, <1>10, <1>11

(* The steps of an attack: it ends well only when its length is over.      *)
LEMMA LoadOwnStep ==
  ASSUME ControlInv, NEW c \in Callers, Call(c).kind = "load", UNCHANGED now, SpanAction(c)
  PROVE  \/ at'[c] = "idle" /\ (WholeWindow(answer[c]))'
         \/ Call(c)' = Call(c) /\ answer'[c] = answer[c]
  <1>1. FramesInv
    BY DEF ControlInv
  <1>2. CASE BeginSpan(c) \/ Sleeps(c)
    <2>1. script'[c] = script[c] /\ answer'[c] = answer[c]
      BY <1>2 DEF BeginSpan, Begin, Sleeps, Goto
    <2>2. QED
      BY <2>1 DEF Call
  <1>3. CASE SpanEnds(c)
    <2>1. (SpanOver(c) \/ Done(c)) /\ Return(c, ~Done(c), "attack", Null)
      BY <1>3 DEF SpanEnds
    <2>2. AnswerOf(c, answer'[c], ~Done(c), "attack") /\ at'[c] = "idle"
      BY <1>1, <2>1, ReturnsValue
    <2> DEFINE a == answer'[c]
    <2>3. /\ a.call = Call(c) /\ a.start = start[c] /\ a.end = now
          /\ (a.cancelled <=> cancelled) /\ (a.ok <=> ~Done(c))
      BY <2>2 DEF AnswerOf
    <2> HIDE DEF a
    <2>4. a.ok => a.end >= a.start + a.call.span /\ ~a.cancelled
      BY <2>1, <2>3 DEF Done, SpanOver
    <2>5. WholeWindow(a)
      BY <2>3, <2>4 DEF WholeWindow
    <2>6. (WholeWindow(answer[c]))' <=> WholeWindow(a)
      BY DEF WholeWindow, a
    <2>7. QED
      BY <2>2, <2>5, <2>6
  <1>4. QED
    BY <1>2, <1>3 DEF SpanAction

WindowsInv ==
  /\ ControlInv
  /\ \A c \in Callers : SampleInv(c)
  /\ WindowsAreWhole

LEMMA WindowsStep == WindowsInv /\ [Next]_vars => WindowsInv'
  <1> SUFFICES ASSUME WindowsInv, [Next]_vars PROVE WindowsInv'
    OBVIOUS
  <1>1. ControlInv /\ FramesInv
    BY DEF WindowsInv, ControlInv
  <1>2. ControlInv'
    BY <1>1, ControlStep
  <1>3. ASSUME NEW d \in Callers
        PROVE  SampleInv(d)' /\ (answer'[d] # NoAnswer => (WholeWindow(answer[d]))')
    <2>i. SampleInv(d) /\ CallInv(d) /\ (answer[d] # NoAnswer => WholeWindow(answer[d]))
      BY DEF WindowsInv, ControlInv, WindowsAreWhole
    <2>e. answer'[d] = answer[d] => ((WholeWindow(answer[d]))' <=> WholeWindow(answer[d]))
      BY DEF WholeWindow
    <2>k. ASSUME Keeps(d)
          PROVE  Call(d)' = Call(d) /\ (answer'[d] # NoAnswer => (WholeWindow(answer[d]))')
      <3>1. Call(d)' = Call(d)
        BY <2>k DEF Keeps, Call
      <3>2. QED
        BY <2>i, <2>e, <2>k, <3>1 DEF Keeps
    <2>1. ASSUME Keeps(d), now' = now
          PROVE  SampleInv(d)'
      BY <2>1, <2>i, <2>k DEF Keeps, SampleInv
    <2>2. ASSUME Keeps(d), script[d] # <<>> => ~(now >= wake[d]), now' = now + 1
          PROVE  SampleInv(d)'
      <3> SUFFICES ASSUME Call(d)'.kind = "sample", at'[d] # "idle" PROVE SampleInv(d)'
        BY DEF SampleInv
      <3>1. Call(d).kind = "sample" /\ at[d] # "idle" /\ script[d] # <<>> /\ Call(d)' = Call(d)
        BY <2>2, <2>k, <2>i DEF Keeps, CallInv
      <3>2. /\ Call(d).req # <<>> /\ (Call(d).count > 0 \/ Call(d).span > 0)
            /\ WindowState(Call(d), at[d], wake[d], mem[d], now, start[d])
        BY <2>i, <3>1 DEF SampleInv
      <3>3. now \in Nat
        BY <1>1, <3>1, SampleTypes
      <3>4. at[d] \in {"asking", "got", "pause"}
        <4>1. at[d] \in {"window", "ask", "asking", "got", "pause"}
          BY <2>i, <3>1 DEF CallInv, PointOf, Spans
        <4>2. at[d] \in {"window", "ask"} => now >= wake[d]
          BY <3>2, <3>3 DEF WindowState
        <4>3. QED
          BY <2>2, <3>1, <4>1, <4>2
      <3>5. at[d] \in {"asking", "got"} => mem[d].asked \in Nat /\ mem[d].asked <= now
        <4> SUFFICES ASSUME at[d] \in {"asking", "got"}
                     PROVE  mem[d].asked \in Nat /\ mem[d].asked <= now
          OBVIOUS
        <4>1. /\ Len(mem[d].sent) = Len(mem[d].lats) + 1 /\ mem[d].asked <= now
              /\ mem[d].sent[Len(mem[d].lats) + 1] = mem[d].asked
              /\ WindowOf(Call(d), mem[d].lats, mem[d].errs, mem[d].sent, start[d])
          BY <3>2 DEF WindowState
        <4>2. mem[d].sent \in Seq(Nat) /\ mem[d].lats \in Seq(Nat)
          BY <4>1 DEF WindowOf
        <4>3. mem[d].sent[Len(mem[d].lats) + 1] \in Nat
          BY <4>1, <4>2
        <4>4. QED
          BY <4>1, <4>3
      <3>6. WindowState(Call(d), at[d], wake[d], mem[d], now + 1, start[d])
        BY <3>2, <3>3, <3>4, <3>5 DEF WindowState
      <3>7. QED
        BY <2>2, <2>k, <3>1, <3>2, <3>6 DEF Keeps, SampleInv
    <2>3. ASSUME Step(d), UNCHANGED <<now, cancelled>>
          PROVE  SampleInv(d)' /\ (answer'[d] # NoAnswer => (WholeWindow(answer[d]))')
      <3>1. /\ script[d] # <<>>
            /\ Leaves(d) \/ \E p : Enters(d, p)
            /\ Call(d).kind = "sample" => Refuse(d) \/ SampleAction(d) \/ Arrives(d) \/ CutOff(d)
            /\ Call(d).kind = "load" => Refuse(d) \/ SpanAction(d)
        BY <1>1, <2>3, Moves, WindowMoves
      <3>2. at'[d] = "idle" => SampleInv(d)'
        BY DEF SampleInv
      <3>3. Call(d)' = Call(d) /\ Call(d).kind # "sample" => SampleInv(d)'
        BY DEF SampleInv
      <3>4. CASE Call(d).kind \notin {"sample", "load"}
        <4>1. CASE Leaves(d)
          <5>1. at'[d] = "idle" /\ answer'[d].call = Call(d)
            BY <1>1, <4>1 DEF Leaves, FramesInv
          <5>2. (WholeWindow(answer[d]))'
            BY <3>4, <5>1 DEF WholeWindow
          <5>3. QED
            BY <3>2, <5>1, <5>2
        <4>2. CASE \E p : Enters(d, p)
          <5>1. script'[d] = script[d] /\ answer'[d] = answer[d]
            BY <1>1, <4>2 DEF Enters, FramesInv
          <5>2. Call(d)' = Call(d)
            BY <5>1 DEF Call
          <5>3. QED
            BY <2>i, <2>e, <3>3, <3>4, <5>1, <5>2
        <4>3. QED
          BY <3>1, <4>1, <4>2
      <3>5. CASE Refuse(d)
        <4>1. at'[d] = "idle" /\ answer'[d].ok = FALSE
          BY <1>1, <3>5 DEF Refuse, Idle, FramesInv
        <4>2. (WholeWindow(answer[d]))'
          BY <4>1 DEF WholeWindow
        <4>3. QED
          BY <3>2, <4>1, <4>2
      <3>6. CASE Call(d).kind = "load" /\ SpanAction(d)
        <4>1. \/ at'[d] = "idle" /\ (WholeWindow(answer[d]))'
              \/ Call(d)' = Call(d) /\ answer'[d] = answer[d]
          BY <1>1, <2>3, <3>6, LoadOwnStep
        <4>2. QED
          BY <2>i, <2>e, <3>2, <3>3, <3>6, <4>1
      <3>7. CASE Call(d).kind = "sample" /\ BeginSample(d)
        <4>1. SampleInv(d)' /\ answer'[d] = answer[d]
          BY <1>1, <2>3, <3>7, SampleBegins
        <4>2. QED
          BY <2>i, <2>e, <4>1
      <3>8. CASE /\ Call(d).kind = "sample"
                 /\ \/ NextSample(d) \/ SampleSlept(d) \/ SampleCut(d) \/ SendSample(d)
                    \/ CountSample(d) \/ Arrives(d) \/ CutOff(d)
        <4>1. at[d] # "idle"
          BY <3>8 DEF NextSample, SampleSlept, SampleCut, SendSample, CountSample, Arrives, CutOff
        <4>2. \/ at'[d] = "idle" /\ (WholeWindow(answer[d]))'
              \/ SampleInv(d)' /\ answer'[d] = answer[d]
          BY <1>1, <2>i, <2>3, <3>8, <4>1, SampleOwnStep
        <4>3. QED
          BY <2>i, <2>e, <3>2, <4>2
      <3>9. QED
        BY <3>1, <3>4, <3>5, <3>6, <3>7, <3>8 DEF SampleAction
    <2>4. QED
      BY <1>1, <2>1, <2>2, <2>3, <2>k, Passage
  <1>4. QED
    BY <1>2, <1>3 DEF WindowsInv, WindowsAreWhole

LEMMA WindowsInit == Init => WindowsInv
  <1> SUFFICES ASSUME Init PROVE WindowsInv
    OBVIOUS
  <1>1. \A c \in Callers : at[c] = "idle" /\ answer[c] = NoAnswer
    BY DEF Init, CallsInit
  <1>2. QED
    BY <1>1, ControlInit DEF WindowsInv, SampleInv, WindowsAreWhole

(* sample and load.run, for any number of samples, any interval, and       *)
(* answers as slow as they come: a window that is returned has the samples *)
(* it was asked for or lasted as long as it was asked to, its samples      *)
(* follow each other at the interval, none is sent after the deadline, and *)
(* its percentiles are the nearest ranks of the latencies measured; an     *)
(* attack that was cut short is an error (executor.go:712-765,             *)
(* loadp.go:88-187, stats.go).                                             *)
THEOREM WindowsWhole == Spec => []WindowsAreWhole
  <1>1. Init => WindowsInv
    BY WindowsInit
  <1>2. WindowsInv /\ [Next]_vars => WindowsInv'
    BY WindowsStep
  <1>3. WindowsInv => WindowsAreWhole
    BY DEF WindowsInv
  <1>4. QED
    BY <1>1, <1>2, <1>3, PTL DEF Spec

-----------------------------------------------------------------------------
(* Faults and restores.                                                    *)

(* The sequence of a finite set has its elements.                          *)
LEMMA SetToSeqRange ==
  ASSUME NEW S, IsFiniteSet(S)
  PROVE  SetToSeq(S) \in Seq(S) /\ Range(SetToSeq(S)) = S
  <1> DEFINE m == Cardinality(S)
             f == SetToSeq(S)
  <1>1. m \in Nat /\ ExistsBijection(1..m, S)
    BY FS_CardinalityType
  <1>2. PICK b : b \in [1..m -> S] /\ IsInjective(b)
    BY <1>1 DEF ExistsBijection, Bijection, Injection
  <1>3. f \in [1..m -> S] /\ IsInjective(f)
    BY <1>2 DEF SetToSeq
  <1>4. IsFiniteSet(1..m) /\ Cardinality(1..m) = m
    BY <1>1, FS_Interval
  <1>5. f \in Injection(1..m, S)
    BY <1>3 DEF Injection
  <1> HIDE DEF f
  <1>6. f \in Surjection(1..m, S)
    BY <1>4, <1>5, FS_Injection
  <1>7. Range(f) = S
    BY <1>3, <1>6 DEF Surjection, Range
  <1>8. f \in Seq(S)
    BY <1>1, <1>3, SeqDef
  <1>9. QED
    BY <1>7, <1>8 DEF f

(* Induction, for the set of the numbers that have a property.             *)
LEMMA SetInduction ==
  ASSUME NEW T, 0 \in T, \A m \in Nat : m \in T => m + 1 \in T
  PROVE  Nat \subseteq T
  <1> SUFFICES ASSUME Nat \ T # {} PROVE FALSE
    OBVIOUS
  <1>1. PICK m \in Nat \ T : \A k \in Nat \ T : m <= k
    BY LeastNumber
  <1>2. m - 1 \in Nat /\ m - 1 \in T /\ (m - 1) + 1 = m
    BY <1>1
  <1>3. QED
    BY <1>1, <1>2

LEMMA RangeOfAppend ==
  ASSUME NEW S, NEW s \in Seq(S), NEW x \in S
  PROVE  Append(s, x) \in Seq(S) /\ Range(Append(s, x)) = Range(s) \cup {x}
  <1>1. /\ Append(s, x) \in Seq(S) /\ Len(Append(s, x)) = Len(s) + 1 /\ Len(s) \in Nat
        /\ \A i \in 1..Len(s) : Append(s, x)[i] = s[i]
        /\ Append(s, x)[Len(s) + 1] = x
        /\ DOMAIN s = 1..Len(s) /\ DOMAIN Append(s, x) = 1..(Len(s) + 1)
    BY AppendProperties, LenProperties
  <1>2. QED
    BY <1>1 DEF Range

(* f is the table of what is up of the first 0, 1, ..., m of s.            *)
UpTable(f, s, m) ==
  f = [i \in 0..m |->
         IF i = 0 THEN <<>> ELSE IF Up(s[i]) THEN Append(f[i - 1], s[i]) ELSE f[i - 1]]

LEMMA UpTableExists ==
  ASSUME NEW s, NEW L \in Nat
  PROVE  \E f : UpTable(f, s, L)
  <1> DEFINE T == {m \in Nat : \E f : UpTable(f, s, m)}
  <1>1. 0 \in T
    <2>1. UpTable([i \in 0..0 |-> <<>>], s, 0)
      BY DEF UpTable
    <2>2. QED
      BY <2>1
  <1>2. ASSUME NEW m \in Nat, m \in T PROVE m + 1 \in T
    <2>1. PICK f : UpTable(f, s, m)
      BY <1>2
    <2> DEFINE next == IF Up(s[m + 1]) THEN Append(f[m], s[m + 1]) ELSE f[m]
               g == [i \in 0..(m + 1) |-> IF i = m + 1 THEN next ELSE f[i]]
    <2>2. \A i \in 0..m : f[i] = IF i = 0 THEN <<>>
                                 ELSE IF Up(s[i]) THEN Append(f[i - 1], s[i]) ELSE f[i - 1]
      BY <2>1 DEF UpTable
    <2>3. (\A i \in 0..m : g[i] = f[i]) /\ g[m + 1] = next
      OBVIOUS
    <2>4. g = [i \in 0..(m + 1) |-> g[i]]
      OBVIOUS
    <2> HIDE DEF g
    <2>5. ASSUME NEW i \in 0..(m + 1)
          PROVE  g[i] = IF i = 0 THEN <<>>
                        ELSE IF Up(s[i]) THEN Append(g[i - 1], s[i]) ELSE g[i - 1]
      <3>1. CASE i = m + 1
        <4>1. i - 1 = m /\ i # 0 /\ g[m] = f[m]
          BY <3>1, <2>3
        <4>2. QED
          BY <3>1, <4>1, <2>3
      <3>2. CASE i = 0
        BY <3>2, <2>2, <2>3
      <3>3. CASE i # 0 /\ i # m + 1
        <4>1. i \in 0..m /\ i - 1 \in 0..m
          BY <3>3
        <4>2. QED
          BY <3>3, <4>1, <2>2, <2>3
      <3>4. QED
        BY <3>1, <3>2, <3>3
    <2>6. UpTable(g, s, m + 1)
      BY <2>4, <2>5 DEF UpTable
    <2>7. QED
      BY <2>6
  <1>3. Nat \subseteq T
    <2> HIDE DEF T
    <2>1. QED
      BY <1>1, <1>2, SetInduction
  <1>4. QED
    BY <1>3

LEMMA UpTableRange ==
  ASSUME NEW S, NEW s \in Seq(S), NEW f, UpTable(f, s, Len(s))
  PROVE  \A m \in 0..Len(s) :
           f[m] \in Seq(S) /\ Range(f[m]) = {s[i] : i \in {k \in 1..m : Up(s[k])}}
  <1> DEFINE Holding(m) == f[m] \in Seq(S) /\ Range(f[m]) = {s[i] : i \in {k \in 1..m : Up(s[k])}}
             T == {m \in Nat : m <= Len(s) => Holding(m)}
  <1>0. Len(s) \in Nat /\ \A i \in 1..Len(s) : s[i] \in S
    BY LenProperties, ElementOfSeq
  <1>t. \A i \in 0..Len(s) : f[i] = IF i = 0 THEN <<>>
                                    ELSE IF Up(s[i]) THEN Append(f[i - 1], s[i]) ELSE f[i - 1]
    BY DEF UpTable
  <1>1. 0 \in T
    <2>1. f[0] = <<>>
      BY <1>0, <1>t
    <2>2. f[0] \in Seq(S) /\ Range(f[0]) = {}
      BY <2>1 DEF Range
    <2>3. QED
      BY <2>2
  <1>2. ASSUME NEW m \in Nat, m \in T PROVE m + 1 \in T
    <2> SUFFICES ASSUME m + 1 <= Len(s) PROVE Holding(m + 1)
      OBVIOUS
    <2>1. Holding(m)
      BY <1>0, <1>2
    <2>2. m + 1 \in 1..Len(s) /\ (m + 1) - 1 = m /\ m + 1 \in 0..Len(s) /\ m + 1 # 0
          /\ s[m + 1] \in S
      BY <1>0
    <2>3. CASE ~Up(s[m + 1])
      <3>1. f[m + 1] = f[m]
        BY <1>t, <2>2, <2>3
      <3>2. {k \in 1..(m + 1) : Up(s[k])} = {k \in 1..m : Up(s[k])}
        BY <2>3
      <3>3. QED
        BY <2>1, <3>1, <3>2
    <2>4. CASE Up(s[m + 1])
      <3>1. f[m + 1] = Append(f[m], s[m + 1])
        BY <1>t, <2>2, <2>4
      <3>2. {k \in 1..(m + 1) : Up(s[k])} = {k \in 1..m : Up(s[k])} \cup {m + 1}
        BY <2>4
      <3>3. f[m + 1] \in Seq(S) /\ Range(f[m + 1]) = Range(f[m]) \cup {s[m + 1]}
        BY <2>1, <2>2, <3>1, RangeOfAppend
      <3>4. QED
        BY <2>1, <3>2, <3>3
    <2>5. QED
      BY <2>3, <2>4
  <1>3. Nat \subseteq T
    <2> HIDE DEF T
    <2>1. QED
      BY <1>1, <1>2, SetInduction
  <1>4. ASSUME NEW m \in 0..Len(s) PROVE Holding(m)
    <2>1. m \in T /\ m <= Len(s)
      <3> HIDE DEF T
      <3>1. QED
        BY <1>0, <1>3
    <2> HIDE DEF Holding
    <2>2. QED
      BY <2>1
  <1>5. QED
    BY <1>4

LEMMA ListedAreUp ==
  ASSUME NEW S, NEW s \in Seq(S)
  PROVE  Listed(s) \in Seq(S) /\ Range(Listed(s)) = {b \in Range(s) : Up(b)}
  <1> DEFINE f == CHOOSE g : UpTable(g, s, Len(s))
  <1>1. Len(s) \in Nat /\ DOMAIN s = 1..Len(s)
    BY LenProperties
  <1>2. UpTable(f, s, Len(s))
    BY <1>1, UpTableExists
  <1>3. Listed(s) = f[Len(s)]
    BY DEF Listed, UpTable
  <1> HIDE DEF f
  <1>4. f[Len(s)] \in Seq(S)
        /\ Range(f[Len(s)]) = {s[i] : i \in {k \in 1..Len(s) : Up(s[k])}}
    <2>1. Len(s) \in 0..Len(s)
      BY <1>1
    <2>2. \A m \in 0..Len(s) :
            f[m] \in Seq(S) /\ Range(f[m]) = {s[i] : i \in {k \in 1..m : Up(s[k])}}
      BY <1>2, UpTableRange
    <2>3. QED
      BY ONLY <2>1, <2>2, Zenon
  <1>5. QED
    BY <1>1, <1>3, <1>4 DEF Range

(* The systems, and what a step of one branch does to what another knows. *)
BoxStates == {"running", "paused", "exited", "absent"}

Typed(w) ==
  /\ w = [enabled |-> w.enabled, toxics |-> w.toxics, boxes |-> w.boxes, files |-> w.files,
          served |-> w.served]
  /\ w.enabled \in [Proxies -> BOOLEAN]
  /\ w.toxics \in [Proxies -> SUBSET (Toxics \X Streams)]
  /\ w.boxes \in [Boxes -> [state : BoxStates, joined : BOOLEAN, capped : BOOLEAN]]
  /\ w.files = [f \in Files |-> w.files[f]]

LEMMA SubjectOf ==
  ASSUME NEW a, NEW b, NEW d, NEW e
  PROVE  Subject(<<a, b, d>>) = <<a, b>> /\ Subject(<<a, b, d, e>>) = <<a, b, d>>
  <1>1. Subject(<<a, b, d>>) = <<a, b>>
    <2> DEFINE s == <<a, b, d>>
               S == {a, b, d}
    <2>1. s \in Seq(S) /\ Len(s) = 3 /\ s[1] = a /\ s[2] = b
      OBVIOUS
    <2> HIDE DEF s, S
    <2>a. 1 \in 1..Len(s) /\ 2 \in 1..Len(s)
      BY <2>1
    <2>b. /\ SubSeq(s, 1, 2) \in Seq(S)
          /\ Len(SubSeq(s, 1, 2)) = IF 1 <= 2 THEN 2 - 1 + 1 ELSE 0
          /\ \A i \in 1..(2 - 1 + 1) : SubSeq(s, 1, 2)[i] = s[1 + i - 1]
      BY <2>1, <2>a, SubSeqProperties
    <2>2. SubSeq(s, 1, 2) \in Seq(S) /\ Len(SubSeq(s, 1, 2)) = 2
          /\ SubSeq(s, 1, 2)[1] = a /\ SubSeq(s, 1, 2)[2] = b
      BY <2>1, <2>b
    <2>t. <<a, b>> \in Seq(S) /\ Len(<<a, b>>) = 2 /\ <<a, b>>[1] = a /\ <<a, b>>[2] = b
      BY DEF S
    <2>3. SubSeq(s, 1, 2) = <<a, b>>
      <3> DEFINE u == SubSeq(s, 1, 2)
                 t == <<a, b>>
      <3> HIDE DEF u, t
      <3>1. u \in Seq(S) /\ t \in Seq(S) /\ Len(u) = 2 /\ Len(t) = 2 /\ u[1] = t[1] /\ u[2] = t[2]
        BY <2>2, <2>t DEF u, t
      <3>2. Len(u) = Len(t) /\ \A i \in 1..Len(u) : u[i] = t[i]
        BY <3>1
      <3>3. u = t
        BY ONLY <3>1, <3>2, SeqEqual
      <3>4. QED
        BY <3>3 DEF u, t
    <2>4. QED
      BY <2>1, <2>3 DEF Subject, s
  <1>2. Subject(<<a, b, d, e>>) = <<a, b, d>>
    <2> DEFINE s == <<a, b, d, e>>
               S == {a, b, d, e}
    <2>1. s \in Seq(S) /\ Len(s) = 4 /\ s[1] = a /\ s[2] = b /\ s[3] = d
      OBVIOUS
    <2> HIDE DEF s, S
    <2>a. 1 \in 1..Len(s) /\ 3 \in 1..Len(s)
      BY <2>1
    <2>b. /\ SubSeq(s, 1, 3) \in Seq(S)
          /\ Len(SubSeq(s, 1, 3)) = IF 1 <= 3 THEN 3 - 1 + 1 ELSE 0
          /\ \A i \in 1..(3 - 1 + 1) : SubSeq(s, 1, 3)[i] = s[1 + i - 1]
      BY <2>1, <2>a, SubSeqProperties
    <2>2. SubSeq(s, 1, 3) \in Seq(S) /\ Len(SubSeq(s, 1, 3)) = 3
          /\ SubSeq(s, 1, 3)[1] = a /\ SubSeq(s, 1, 3)[2] = b /\ SubSeq(s, 1, 3)[3] = d
      BY <2>1, <2>b
    <2>t. <<a, b, d>> \in Seq(S) /\ Len(<<a, b, d>>) = 3
          /\ <<a, b, d>>[1] = a /\ <<a, b, d>>[2] = b /\ <<a, b, d>>[3] = d
      BY DEF S
    <2>3. SubSeq(s, 1, 3) = <<a, b, d>>
      <3> DEFINE u == SubSeq(s, 1, 3)
                 t == <<a, b, d>>
      <3> HIDE DEF u, t
      <3>1. u \in Seq(S) /\ t \in Seq(S) /\ Len(u) = 3 /\ Len(t) = 3
            /\ u[1] = t[1] /\ u[2] = t[2] /\ u[3] = t[3]
        BY <2>2, <2>t DEF u, t
      <3>2. Len(u) = Len(t) /\ \A i \in 1..Len(u) : u[i] = t[i]
        BY <3>1
      <3>3. u = t
        BY ONLY <3>1, <3>2, SeqEqual
      <3>4. QED
        BY <3>3 DEF u, t
    <2>4. QED
      BY <2>1, <2>3 DEF Subject, s
  <1>3. QED
    BY <1>1, <1>2

(* Which facts are true of a world.                                        *)
LEMMA TruthOf ==
  ASSUME NEW w
  PROVE  /\ \A p, v : <<"enabled", p, v>> \in Truth(w) <=> p \in Proxies /\ v = w.enabled[p]
         /\ \A p, x, v : <<"toxic", p, x, v>> \in Truth(w) <=>
              p \in Proxies /\ x \in Toxics \X Streams /\ v = (x \in w.toxics[p])
         /\ \A b, v : <<"state", b, v>> \in Truth(w) <=> b \in Boxes /\ v = w.boxes[b].state
         /\ \A b, v : <<"joined", b, v>> \in Truth(w) <=> b \in Boxes /\ v = w.boxes[b].joined
         /\ \A b, v : <<"capped", b, v>> \in Truth(w) <=> b \in Boxes /\ v = w.boxes[b].capped
         /\ \A h, v : <<"snippet", h, v>> \in Truth(w) <=> h \in Hosts /\ v = Names(w.files, h)
  <1> DEFINE X == Toxics \X Streams
             E == {<<"enabled", p, w.enabled[p]>> : p \in Proxies}
             T == UNION {{<<"toxic", p, x, x \in w.toxics[p]>> : x \in X} : p \in Proxies}
             S == {<<"state", b, w.boxes[b].state>> : b \in Boxes}
             J == {<<"joined", b, w.boxes[b].joined>> : b \in Boxes}
             C == {<<"capped", b, w.boxes[b].capped>> : b \in Boxes}
             F == {<<"snippet", h, Names(w.files, h)>> : h \in Hosts}
  <1>1. Truth(w) = E \cup T \cup S \cup J \cup C \cup F
    BY Zenon DEF Truth
  <1>2. /\ \A z \in E : Len(z) = 3 /\ z[1] = "enabled"
        /\ \A z \in T : Len(z) = 4 /\ z[1] = "toxic"
        /\ \A z \in S : Len(z) = 3 /\ z[1] = "state"
        /\ \A z \in J : Len(z) = 3 /\ z[1] = "joined"
        /\ \A z \in C : Len(z) = 3 /\ z[1] = "capped"
        /\ \A z \in F : Len(z) = 3 /\ z[1] = "snippet"
    <2> HIDE DEF X
    <2>1. QED
      OBVIOUS
  <1>3. /\ \A p, v : <<"enabled", p, v>> \in E <=> p \in Proxies /\ v = w.enabled[p]
        /\ \A b, v : <<"state", b, v>> \in S <=> b \in Boxes /\ v = w.boxes[b].state
        /\ \A b, v : <<"joined", b, v>> \in J <=> b \in Boxes /\ v = w.boxes[b].joined
        /\ \A b, v : <<"capped", b, v>> \in C <=> b \in Boxes /\ v = w.boxes[b].capped
        /\ \A h, v : <<"snippet", h, v>> \in F <=> h \in Hosts /\ v = Names(w.files, h)
    OBVIOUS
  <1>4. \A p, x, v : <<"toxic", p, x, v>> \in T <=>
              p \in Proxies /\ x \in X /\ v = (x \in w.toxics[p])
    <2> HIDE DEF X
    <2>1. QED
      OBVIOUS
  <1>5. /\ \A a, b, v : Len(<<a, b, v>>) = 3 /\ <<a, b, v>>[1] = a
        /\ \A a, b, d, v : Len(<<a, b, d, v>>) = 4 /\ <<a, b, d, v>>[1] = a
    OBVIOUS
  <1> HIDE DEF E, T, S, J, C, F
  <1>6. QED
    BY <1>1, <1>2, <1>3, <1>4, <1>5

(* What differs between two worlds is among the changes.                   *)
LEMMA Noticed ==
  ASSUME NEW w, NEW a
  PROVE  /\ \A p \in Proxies : w.enabled[p] # a.enabled[p] => <<"enabled", p>> \in Changes(w, a)
         /\ \A p \in Proxies, x \in Toxics \X Streams :
              ~(x \in w.toxics[p] <=> x \in a.toxics[p]) => <<"toxic", p, x>> \in Changes(w, a)
         /\ \A b \in Boxes : w.boxes[b].state # a.boxes[b].state => <<"state", b>> \in Changes(w, a)
         /\ \A b \in Boxes : w.boxes[b].joined # a.boxes[b].joined => <<"joined", b>> \in Changes(w, a)
         /\ \A h \in Hosts : Names(w.files, h) # Names(a.files, h) => <<"snippet", h>> \in Changes(w, a)
  <1>c. \A fact : fact \in Truth(a) /\ fact \notin Truth(w) => Subject(fact) \in Changes(w, a)
    BY DEF Changes
  <1>3. ASSUME NEW k, NEW p, NEW v, <<k, p, v>> \in Truth(a), <<k, p, v>> \notin Truth(w)
        PROVE  <<k, p>> \in Changes(w, a)
    <2>1. Subject(<<k, p, v>>) = <<k, p>>
      BY SubjectOf, Zenon
    <2>2. QED
      BY <1>3, <1>c, <2>1, Zenon
  <1>1. ASSUME NEW p \in Proxies, w.enabled[p] # a.enabled[p]
        PROVE  <<"enabled", p>> \in Changes(w, a)
    <2>1. <<"enabled", p, a.enabled[p]>> \in Truth(a) /\ <<"enabled", p, a.enabled[p]>> \notin Truth(w)
      BY <1>1, TruthOf
    <2>2. QED
      BY <1>3, <2>1, Zenon
  <1>2. ASSUME NEW p \in Proxies, NEW x \in Toxics \X Streams,
               ~(x \in w.toxics[p] <=> x \in a.toxics[p])
        PROVE  <<"toxic", p, x>> \in Changes(w, a)
    <2> DEFINE v == x \in a.toxics[p]
               u == x \in w.toxics[p]
    <2>0. v # u
      BY <1>2
    <2>t. \A z : (<<"toxic", p, x, z>> \in Truth(a) <=> z = v) /\ (<<"toxic", p, x, z>> \in Truth(w) <=> z = u)
      BY TruthOf
    <2> HIDE DEF v, u
    <2>1. <<"toxic", p, x, v>> \in Truth(a) /\ <<"toxic", p, x, v>> \notin Truth(w)
      BY <2>0, <2>t
    <2>2. Subject(<<"toxic", p, x, v>>) = <<"toxic", p, x>>
      BY SubjectOf
    <2>3. QED
      BY <2>1, <2>2, <1>c
  <1>4. ASSUME NEW b \in Boxes, w.boxes[b].state # a.boxes[b].state
        PROVE  <<"state", b>> \in Changes(w, a)
    <2>1. <<"state", b, a.boxes[b].state>> \in Truth(a) /\ <<"state", b, a.boxes[b].state>> \notin Truth(w)
      BY <1>4, TruthOf
    <2>2. QED
      BY <1>3, <2>1, Zenon
  <1>5. ASSUME NEW b \in Boxes, w.boxes[b].joined # a.boxes[b].joined
        PROVE  <<"joined", b>> \in Changes(w, a)
    <2>1. <<"joined", b, a.boxes[b].joined>> \in Truth(a) /\ <<"joined", b, a.boxes[b].joined>> \notin Truth(w)
      BY <1>5, TruthOf
    <2>2. QED
      BY <1>3, <2>1, Zenon
  <1>6. ASSUME NEW h \in Hosts, Names(w.files, h) # Names(a.files, h)
        PROVE  <<"snippet", h>> \in Changes(w, a)
    <2> DEFINE u == Names(w.files, h)
               v == Names(a.files, h)
    <2>1. <<"snippet", h, v>> \in Truth(a) /\ <<"snippet", h, v>> \notin Truth(w)
      <3>1. u # v
        BY <1>6
      <3>2. \A z : (<<"snippet", h, z>> \in Truth(a) <=> z = v) /\ (<<"snippet", h, z>> \in Truth(w) <=> z = u)
        BY TruthOf
      <3> HIDE DEF u, v
      <3>3. QED
        BY <3>1, <3>2
    <2> HIDE DEF u, v
    <2>2. QED
      BY <1>3, <2>1, Zenon
  <1>7. QED
    BY <1>1, <1>2, <1>4, <1>5, <1>6

(* From the world w and what is known to be touched, t, to a and u: what   *)
(* is not touched is as it was.                                            *)
Follows(w, t, a, u) ==
  /\ t \subseteq u
  /\ \A p \in Proxies, x \in Toxics \X Streams :
       <<"toxic", p, x>> \in u \/ (x \in a.toxics[p] <=> x \in w.toxics[p])
  /\ \A b \in Boxes : <<"state", b>> \in u \/ a.boxes[b].state = w.boxes[b].state
  /\ \A b \in Boxes : <<"joined", b>> \in u \/ a.boxes[b].joined = w.boxes[b].joined
  /\ \A h \in Hosts : <<"snippet", h>> \in u \/ Names(a.files, h) = Names(w.files, h)

(* From the world w to a, only what is in S is changed.                    *)
Within(w, a, S) ==
  /\ \A p \in Proxies : p \in S \/ a.toxics[p] = w.toxics[p]
  /\ \A b \in Boxes : b \in S \/ a.boxes[b] = w.boxes[b]
  /\ \A h \in Hosts : h \in S \/ Names(a.files, h) = Names(w.files, h)

LEMMA WithinSelf ==
  ASSUME NEW w, NEW S
  PROVE  Within(w, w, S)
  BY DEF Within

(* A request of c may lead to this world.                                  *)
Legal(c, after) == Typed(after) /\ Within(world, after, Named(Call(c)))

(* A request of c, carried out or not.                                     *)
Carried(c, after) == Carry(c, after) \/ (world' = world /\ touched' = touched)

LEMMA CarriedFollows ==
  ASSUME NEW c \in Callers, NEW after, touched = [d \in Callers |-> touched[d]],
         Legal(c, after), Carried(c, after)
  PROVE  /\ touched' = [d \in Callers |-> touched'[d]] /\ touched'[c] = touched[c]
         /\ \A d \in Callers : d # c => Follows(world, touched[d], world', touched'[d])
  <1>1. CASE world' = world /\ touched' = touched
    BY <1>1 DEF Follows
  <1>2. CASE Carry(c, after)
    <2> DEFINE S == Named(Call(c))
               H == Changes(world, after)
    <2>0. /\ world' = after
          /\ touched' = [d \in Callers |->
               IF d = c THEN touched[d] ELSE touched[d] \cup {s \in H : s[2] \in S}]
      BY <1>2 DEF Carry
    <2>w. Within(world, world', S)
      BY <2>0 DEF Legal
    <2>h. /\ \A p \in Proxies, x \in Toxics \X Streams :
               ~(x \in world.toxics[p] <=> x \in world'.toxics[p]) => <<"toxic", p, x>> \in H
          /\ \A b \in Boxes : world.boxes[b].state # world'.boxes[b].state => <<"state", b>> \in H
          /\ \A b \in Boxes : world.boxes[b].joined # world'.boxes[b].joined => <<"joined", b>> \in H
          /\ \A h \in Hosts : Names(world.files, h) # Names(world'.files, h) => <<"snippet", h>> \in H
      <3> HIDE DEF H
      <3>1. H = Changes(world, world')
        BY <2>0 DEF H
      <3>2. QED
        BY <3>1, Noticed
    <2> HIDE DEF S, H
    <2>1. touched' = [d \in Callers |-> touched'[d]] /\ touched'[c] = touched[c]
      BY <2>0
    <2>2. ASSUME NEW d \in Callers, d # c PROVE Follows(world, touched[d], world', touched'[d])
      <3> DEFINE t == touched[d]
                 u == touched'[d]
      <3>1. u = t \cup {s \in H : s[2] \in S}
        BY <2>0, <2>2
      <3> HIDE DEF t, u
      <3>2. \A k, z : <<k, z>> \in H /\ z \in S => <<k, z>> \in u
        BY <3>1
      <3>3. \A k, z, x : <<k, z, x>> \in H /\ z \in S => <<k, z, x>> \in u
        BY <3>1
      <3>4. Follows(world, t, world', u)
        BY <3>1, <3>2, <3>3, <2>h, <2>w DEF Follows, Within
      <3>5. QED
        BY <3>4 DEF t, u
    <2>3. QED
      BY <2>1, <2>2
  <1>3. QED
    BY <1>1, <1>2 DEF Carried

-----------------------------------------------------------------------------
(* What a fault verb has done so far.                                      *)

FaultVerbs == OnProxy \cup {"toxiproxy.reset", "net.clear", "net.reset"} \cup NetFaults \cup Composed \cup OnBoxes

VerbAt(v, p) ==
  \/ v \in OnProxy /\ p = "proxy"
  \/ v \in Toxics /\ p = "addToxic"
  \/ v = "partition" /\ p = "disable"
  \/ v = "clear" /\ p \in {"toxics", "removeToxic", "enable", "notEnabled"}
  \/ v = "toxiproxy.reset" /\ p = "resetState"
  \/ v \in NetFaults /\ p \in {"writeConf", "reload"}
  \/ v \in {"net.clear", "net.reset"} /\ p \in {"removeConf", "reload"}
  \/ v \in Composed /\ p = "compose"
  \/ v \in OnBoxes /\ p = "ps"
  \/ v \in {"connect", "disconnect"} /\ p = "networkToggle"
  \/ v \in {"throttle", "unthrottle"} /\ p = "updateCPUs"
  \/ v \in FaultVerbs /\ p = "held"
  \/ v \in FaultVerbs \ OnProxy /\ p = "unanswered"

(* In the world w, but for what others have touched, t: the toxics of the  *)
(* streams that are not left to do are there; the toxics and the snippets  *)
(* that are not left to do are gone; no container has changed its state;   *)
(* each that was up, and is not left to do, is on its side of the network. *)
Placed(call, w, t, todo) ==
  \A s \in Range(call.streams) :
    \/ s \in Range(todo) \/ <<call.verb, s>> \in w.toxics[call.on]
    \/ <<"toxic", call.on, <<call.verb, s>>>> \in t

Cleared(call, w, t, todo) ==
  \A x \in Toxics \X Streams :
    x \in Range(todo) \/ x \notin w.toxics[call.on] \/ <<"toxic", call.on, x>> \in t

HostsOf(call) == IF call.verb = "net.reset" THEN Hosts ELSE {call.on}
SnippetsOf(call) == {confFile(h) : h \in HostsOf(call)}

Unwritten(call, w, t, todo) ==
  \A h \in HostsOf(call) :
    confFile(h) \in Range(todo) \/ Names(w.files, h) = {} \/ <<"snippet", h>> \in t

Written(call, w, t) ==
  Names(w.files, call.on) = {call.verb} \/ <<"snippet", call.on>> \in t

WasUp(before, b) == before.boxes[b].state \in {"running", "paused"}

SameStates(before, w, t) ==
  \A b \in Boxes : w.boxes[b].state = before.boxes[b].state \/ <<"state", b>> \in t

Found(call, before, t, todo) ==
  \A b \in Range(Containers(call.on)) :
    WasUp(before, b) => b \in Range(todo) \/ <<"state", b>> \in t

Toggled(call, before, w, t, todo) ==
  \A b \in Range(Containers(call.on)) : WasUp(before, b) =>
    \/ b \in Range(todo) \/ w.boxes[b].joined = (call.verb = "connect")
    \/ <<"joined", b>> \in t \/ <<"state", b>> \in t

FaultState(call, p, m, w, t) ==
  /\ m = [todo |-> m.todo, failed |-> m.failed, before |-> m.before]
  /\ VerbAt(call.verb, p)
  /\ p \in {"addToxic", "disable", "toxics", "removeToxic", "enable"} => call.on \in Proxies
  /\ p = "addToxic" => m.todo \in Seq(Streams) \ {<<>>} /\ Placed(call, w, t, m.todo)
  /\ p = "removeToxic" => /\ m.todo \in Seq(Toxics \X Streams)
                          /\ m.failed = {} => Cleared(call, w, t, m.todo)
  /\ p = "enable" /\ m.failed = {} => Cleared(call, w, t, <<>>)
  /\ p = "notEnabled" => "enable" \in m.failed
  /\ p = "removeConf" => /\ m.todo \in Seq(Files) /\ Range(m.todo) \subseteq SnippetsOf(call)
                         /\ Unwritten(call, w, t, m.todo)
  /\ p = "reload" => IF call.verb \in NetFaults THEN Written(call, w, t)
                     ELSE Unwritten(call, w, t, <<>>)
  /\ p \in {"compose", "ps"} => SameStates(m.before, w, t)
  /\ p = "networkToggle" => m.todo \in Seq(Boxes) \ {<<>>} /\ Toggled(call, m.before, w, t, m.todo)
  /\ p = "updateCPUs" => Found(call, m.before, t, m.todo)
  /\ p \in {"networkToggle", "updateCPUs"} => Range(m.todo) \subseteq Range(Containers(call.on))

FaultTyped(call) ==
  /\ call.verb \in Toxics => call.streams \in Seq(Streams) \ {<<>>}
  /\ call.verb \in NetFaults \cup {"net.clear"} => call.on \in Hosts
  /\ call.verb \in (Composed \ {"down"}) \cup OnBoxes => call.on \in Services

(* What others do breaks nothing of it.                                    *)
LEMMA FaultStays ==
  ASSUME NEW call, NEW p, NEW m, NEW w, NEW t, NEW a, NEW u, FaultTyped(call),
         FaultState(call, p, m, w, t), Follows(w, t, a, u)
  PROVE  FaultState(call, p, m, a, u)
  <1>1. call.verb \in Toxics => \A s \in Range(call.streams) : <<call.verb, s>> \in Toxics \X Streams
    <2>1. call.verb \in Toxics => \A s \in Range(call.streams) : s \in Streams
      BY ElementOfSeq DEF FaultTyped, Range
    <2>2. QED
      BY <2>1
  <1>2. VerbAt(call.verb, p)
    BY DEF FaultState
  <1>3. p = "addToxic" => Placed(call, a, u, m.todo)
    <2> SUFFICES ASSUME p = "addToxic" PROVE Placed(call, a, u, m.todo)
      OBVIOUS
    <2>1. call.verb \in Toxics /\ call.on \in Proxies
      BY <1>2 DEF VerbAt, FaultState
    <2>2. Placed(call, w, t, m.todo)
      BY DEF FaultState
    <2>3. QED
      BY <1>1, <2>1, <2>2 DEF Placed, Follows
  <1>4. ASSUME NEW todo, call.on \in Proxies, Cleared(call, w, t, todo) PROVE Cleared(call, a, u, todo)
    BY <1>4 DEF Cleared, Follows
  <1>5. ASSUME NEW todo, p \in {"removeConf", "reload"}, call.verb \notin NetFaults,
               Unwritten(call, w, t, todo)
        PROVE  Unwritten(call, a, u, todo)
    <2>1. HostsOf(call) \subseteq Hosts
      BY <1>2, <1>5 DEF VerbAt, HostsOf, FaultTyped
    <2>2. QED
      BY <1>5, <2>1 DEF Unwritten, Follows
  <1>6. ASSUME call.verb \in NetFaults, Written(call, w, t) PROVE Written(call, a, u)
    <2>1. call.on \in Hosts
      BY <1>6 DEF FaultTyped
    <2>2. QED
      BY <1>6, <2>1 DEF Written, Follows
  <1>7. ASSUME NEW before, SameStates(before, w, t) PROVE SameStates(before, a, u)
    BY <1>7 DEF SameStates, Follows
  <1>b. call.verb \in OnBoxes => Range(Containers(call.on)) \subseteq Boxes
    BY DEF FaultTyped, Boxes
  <1>8. ASSUME p = "networkToggle", Toggled(call, m.before, w, t, m.todo)
        PROVE  Toggled(call, m.before, a, u, m.todo)
    <2>1. Range(Containers(call.on)) \subseteq Boxes
      BY <1>2, <1>8, <1>b DEF VerbAt, OnBoxes
    <2>2. QED
      BY <1>8, <2>1 DEF Toggled, Follows
  <1>9. ASSUME Found(call, m.before, t, m.todo) PROVE Found(call, m.before, u, m.todo)
    BY <1>9 DEF Found, Follows
  <1>n. p = "removeConf" => call.verb \notin NetFaults
    BY <1>2 DEF VerbAt, NetFaults, OnProxy, Toxics, Composed, OnBoxes
  <1> HIDE DEF Placed, Cleared, Unwritten, Written, SameStates, Found, Toggled, VerbAt
  <1>10. QED
    BY <1>2, <1>3, <1>4, <1>5, <1>6, <1>7, <1>8, <1>9, <1>n DEF FaultState

(* What a verb that answers has brought about, but for what others have    *)
(* touched.                                                                *)
Reached(call) == IF call.verb = "down" THEN Boxes ELSE Range(Containers(call.on))

InForce(call, before, w, t) ==
  /\ call.verb \in Toxics => call.on \in Proxies /\ Placed(call, w, t, <<>>)
  /\ call.verb = "partition" => call.on \in Proxies /\ w.enabled[call.on] = FALSE
  /\ call.verb = "clear" =>
       call.on \in Proxies /\ w.enabled[call.on] = TRUE /\ Cleared(call, w, t, <<>>)
  /\ call.verb = "toxiproxy.reset" =>
       \A p \in Proxies : w.enabled[p] = TRUE /\ w.toxics[p] = {}
  /\ call.verb \in NetFaults => Written(call, w, t)
  /\ call.verb \in {"net.clear", "net.reset"} => Unwritten(call, w, t, <<>>)
  /\ call.verb \in NetFaults \cup {"net.clear", "net.reset"} => (case.reloads => w.served = w.files)
  /\ call.verb \in Composed =>
       \A b \in Reached(call) : before.boxes[b].state # "absent" =>
         w.boxes[b].state = States[call.verb] \/ <<"state", b>> \in t
  /\ call.verb \in {"connect", "disconnect"} => Toggled(call, before, w, t, <<>>)
  /\ call.verb \in {"throttle", "unthrottle"} =>
       \A b \in Range(Containers(call.on)) : WasUp(before, b) =>
         w.boxes[b].capped = (call.verb = "throttle") \/ <<"state", b>> \in t

(* c is inside of a fault verb, and what the verb has done so far holds.   *)
Ready(c) ==
  /\ FramesInv /\ Typed(world) /\ touched = [d \in Callers |-> touched[d]]
  /\ FaultTyped(Call(c)) /\ at[c] # "idle"
  /\ FaultState(Call(c), at[c], mem[c], world, touched[c])

Freed(c) ==
  Call(c).verb = "clear" /\ at[c] # "proxy" /\ "enable" \notin mem[c].failed =>
    world'.enabled[px(c)] = TRUE

GoesOn(c) ==
  /\ script'[c] = script[c] /\ at'[c] # "idle"
  /\ FaultState(Call(c), at'[c], mem'[c], world', touched'[c])

Ends(c) ==
  /\ at'[c] = "idle" /\ Freed(c)
  /\ answer'[c].ok => InForce(Call(c), mem[c].before, world', touched'[c])

(* A request of the verb, and what became of the call.                     *)
Progress(c) ==
  /\ \E after : Legal(c, after) /\ Carried(c, after)
  /\ GoesOn(c) \/ Ends(c)

LEMMA TodoRest ==
  ASSUME NEW S, NEW todo \in Seq(S), todo # <<>>
  PROVE  /\ Head(todo) \in S /\ Tail(todo) \in Seq(S)
         /\ Range(todo) = {Head(todo)} \cup Range(Tail(todo))
         /\ Len(todo) = 1 <=> Tail(todo) = <<>>
  <1>1. /\ Head(todo) \in S /\ Head(todo) = todo[1] /\ Tail(todo) \in Seq(S)
        /\ Len(Tail(todo)) = Len(todo) - 1
        /\ \A i \in 1..Len(Tail(todo)) : Tail(todo)[i] = todo[i + 1]
    BY HeadTailProperties
  <1>2. /\ Len(todo) \in Nat \ {0} /\ DOMAIN todo = 1..Len(todo)
        /\ DOMAIN Tail(todo) = 1..(Len(todo) - 1)
    BY <1>1, LenProperties, EmptySeq
  <1>3. Len(Tail(todo)) = 0 <=> Tail(todo) = <<>>
    BY <1>1, EmptySeq
  <1>4. ASSUME NEW x \in Range(todo) PROVE x \in {Head(todo)} \cup Range(Tail(todo))
    <2>1. PICK i \in 1..Len(todo) : x = todo[i]
      BY <1>2 DEF Range
    <2>2. CASE i = 1
      BY <1>1, <2>1, <2>2
    <2>3. CASE i # 1
      <3>1. i - 1 \in 1..(Len(todo) - 1) /\ (i - 1) + 1 = i
        BY <1>2, <2>3
      <3>2. Tail(todo)[i - 1] = x
        BY <1>1, <2>1, <3>1
      <3>3. QED
        BY <1>2, <3>1, <3>2 DEF Range
    <2>4. QED
      BY <2>2, <2>3
  <1>5. ASSUME NEW x \in {Head(todo)} \cup Range(Tail(todo)) PROVE x \in Range(todo)
    <2>1. CASE x = Head(todo)
      BY <1>1, <1>2, <2>1 DEF Range
    <2>2. CASE x \in Range(Tail(todo))
      <3>1. PICK i \in 1..(Len(todo) - 1) : x = Tail(todo)[i]
        BY <1>2, <2>2 DEF Range
      <3>2. x = todo[i + 1] /\ i + 1 \in 1..Len(todo)
        BY <1>1, <1>2, <3>1
      <3>3. QED
        BY <1>2, <3>2 DEF Range
    <2>3. QED
      BY <2>1, <2>2
  <1>6. QED
    BY <1>1, <1>2, <1>3, <1>4, <1>5

LEMMA NothingToDo == Range(<<>>) = {}
  BY DEF Range

(* What a call has in hand, with one thing changed.                        *)
LEMMA InHand ==
  ASSUME NEW m, NEW f, NEW b, NEW t, m = [todo |-> t, failed |-> f, before |-> b], NEW y
  PROVE  [m EXCEPT !.todo = y] = [todo |-> y, failed |-> f, before |-> b]
  OBVIOUS

LEMMA InHandFailed ==
  ASSUME NEW m, NEW f, NEW b, NEW t, m = [todo |-> t, failed |-> f, before |-> b], NEW y
  PROVE  [m EXCEPT !.failed = y] = [todo |-> t, failed |-> y, before |-> b]
  OBVIOUS

LEMMA ToxicsFinite == IsFiniteSet(Toxics \X Streams)
  <1>1. \A x, S : IsFiniteSet(S) => IsFiniteSet(S \cup {x})
    BY FS_AddElement
  <1>2. IsFiniteSet({}) /\ \A x : IsFiniteSet({x})
    BY FS_EmptySet, FS_Singleton
  <1>3. IsFiniteSet(Streams)
    <2>1. Streams = {"upstream"} \cup {"downstream"}
      BY DEF Streams
    <2>2. QED
      BY <1>1, <1>2, <2>1
  <1>4. IsFiniteSet(Toxics)
    <2>1. Toxics = ((({"add_latency"} \cup {"bandwidth"}) \cup {"packet_loss"}) \cup {"blackhole"})
                     \cup {"timeout"}
      BY DEF Toxics
    <2>2. IsFiniteSet((({"add_latency"} \cup {"bandwidth"}) \cup {"packet_loss"}) \cup {"blackhole"})
      BY <1>1, <1>2
    <2>3. QED
      BY <1>1, <2>1, <2>2
  <1>5. QED
    BY <1>3, <1>4, FS_Product

LEMMA GotoProgress ==
  ASSUME NEW c \in Callers, Ready(c), NEW p, NEW w, NEW m, NEW after,
         Goto(c, p, w, m), p # "idle", Legal(c, after), Carried(c, after),
         FaultState(Call(c), p, m, world', touched[c])
  PROVE  Progress(c)
  <1>1. at'[c] = p /\ mem'[c] = m /\ script'[c] = script[c]
    BY DEF Goto, Ready, FramesInv
  <1>2. touched'[c] = touched[c]
    BY CarriedFollows DEF Ready
  <1>3. GoesOn(c)
    BY <1>1, <1>2 DEF GoesOn
  <1>4. QED
    BY <1>3 DEF Progress

LEMMA ReturnProgress ==
  ASSUME NEW c \in Callers, Ready(c), NEW ok, NEW why, NEW value, NEW after,
         Return(c, ok, why, value), Legal(c, after), Carried(c, after), Freed(c),
         ok => InForce(Call(c), mem[c].before, world', touched[c])
  PROVE  Progress(c)
  <1>1. at'[c] = "idle" /\ answer'[c].ok = ok
    BY ReturnAnswers DEF Ready, AnswerOf
  <1>2. touched'[c] = touched[c]
    BY CarriedFollows DEF Ready
  <1>3. Ends(c)
    BY <1>1, <1>2 DEF Ends
  <1>4. QED
    BY <1>3 DEF Progress

LEMMA FailsProgress ==
  ASSUME NEW c \in Callers, Ready(c), NEW after, Fails(c), Legal(c, after), Carried(c, after), Freed(c)
  PROVE  Progress(c)
  BY ReturnProgress DEF Fails

LEMMA AnsweredProgress ==
  ASSUME NEW c \in Callers, Ready(c), NEW after, Answered(c), Legal(c, after), Carried(c, after),
         Freed(c), InForce(Call(c), mem[c].before, world', touched[c])
  PROVE  Progress(c)
  BY ReturnProgress DEF Answered

LEMMA KnownVerb ==
  ASSUME NEW v, NEW p, VerbAt(v, p)
  PROVE  v \in FaultVerbs
  BY DEF VerbAt, FaultVerbs, OnProxy, OnBoxes

(* No answer comes.                                                        *)
LEMMA HungProgress ==
  ASSUME NEW c \in Callers, Ready(c), NEW after, NEW p, NEW until, Goto(c, p, until, mem[c]),
         Legal(c, after), Carried(c, after),
         p = "held" \/ (p = "unanswered" /\ Call(c).verb \notin OnProxy)
  PROVE  Progress(c)
  <1> DEFINE call == Call(c)
             m == mem[c]
  <1>1. FaultState(call, at[c], m, world, touched[c])
    BY DEF Ready
  <1>2. m = [todo |-> m.todo, failed |-> m.failed, before |-> m.before] /\ call.verb \in FaultVerbs
    BY <1>1, KnownVerb DEF FaultState
  <1> HIDE DEF m
  <1>3. FaultState(call, p, m, world', touched[c]) /\ p # "idle"
    BY <1>2 DEF FaultState, VerbAt
  <1>4. QED
    BY <1>3, GotoProgress DEF m

(* What a call is about, by its verb.                                      *)
LEMMA NamedOf ==
  ASSUME NEW call
  PROVE  /\ call.verb \in OnProxy \cup NetFaults \cup {"net.clear"} => Named(call) = {call.on}
         /\ call.verb = "toxiproxy.reset" => Named(call) = Proxies
         /\ call.verb \in NetFaults \cup {"net.clear", "net.reset"} => Named(call) = HostsOf(call)
         /\ call.verb \in Composed \cup OnBoxes => Named(call) = Reached(call)
  <1> DEFINE v == call.verb
             bs == Range(Containers(call.on))
             one == {call.on}
             k == Named(call)
  <1>1. k = CASE v = "toxiproxy.reset" -> Proxies
              [] v = "net.reset" -> Hosts
              [] v = "down" -> Boxes
              [] v \in (Composed \ {"down"}) \cup OnBoxes -> bs
              [] OTHER -> one
    BY DEF Named
  <1>2. Reached(call) = (IF v = "down" THEN Boxes ELSE bs) /\ HostsOf(call) = IF v = "net.reset" THEN Hosts ELSE one
    BY DEF Reached, HostsOf
  <1> HIDE DEF v, bs, one, k
  <1>3. /\ v \in OnProxy \cup NetFaults \cup {"net.clear"} => k = one
        /\ v = "toxiproxy.reset" => k = Proxies
        /\ v = "net.reset" => k = Hosts
        /\ v = "down" => k = Boxes
        /\ v \in (Composed \ {"down"}) \cup OnBoxes => k = bs
    BY <1>1 DEF OnProxy, Toxics, NetFaults, Composed, OnBoxes
  <1>4. v \in NetFaults => v # "net.reset"
    BY DEF NetFaults
  <1>5. QED
    BY <1>2, <1>3, <1>4 DEF v, bs, one, k, OnBoxes, Composed

(* The lines of a host depend on its file.                                 *)
LEMMA NamesOf ==
  ASSUME NEW snippets, NEW h
  PROVE  /\ snippets[confFile(h)] = {} => Names(snippets, h) = {}
         /\ \A v \in NetFaults : snippets[confFile(h)] = {<<h, v>>} => Names(snippets, h) = {v}
         /\ \A others : others[confFile(h)] = snippets[confFile(h)] => Names(others, h) = Names(snippets, h)
  BY DEF Names

(* The worlds that requests lead to.                                       *)
LEMMA ToxicsSet ==
  ASSUME NEW w, Typed(w), NEW p \in Proxies, NEW T \in SUBSET (Toxics \X Streams)
  PROVE  LET a == [w EXCEPT !.toxics[p] = T] IN Typed(a) /\ a.toxics[p] = T /\ Within(w, a, {p})
  <1> DEFINE X == Toxics \X Streams
             B == [Boxes -> [state : BoxStates, joined : BOOLEAN, capped : BOOLEAN]]
  <1> HIDE DEF X, B
  <1>1. /\ w = [enabled |-> w.enabled, toxics |-> w.toxics, boxes |-> w.boxes, files |-> w.files,
                served |-> w.served]
        /\ w.enabled \in [Proxies -> BOOLEAN] /\ w.toxics \in [Proxies -> SUBSET X]
        /\ w.boxes \in B /\ w.files = [f \in Files |-> w.files[f]] /\ T \in SUBSET X
    BY DEF Typed, X, B
  <1> DEFINE a == [w EXCEPT !.toxics[p] = T]
  <1>2. /\ a = [enabled |-> a.enabled, toxics |-> a.toxics, boxes |-> a.boxes, files |-> a.files,
                served |-> a.served]
        /\ a.enabled = w.enabled /\ a.boxes = w.boxes /\ a.files = w.files
        /\ a.toxics = [w.toxics EXCEPT ![p] = T]
    BY <1>1
  <1> HIDE DEF a
  <1>3. a.toxics \in [Proxies -> SUBSET X] /\ a.toxics[p] = T
    BY <1>1, <1>2
  <1>4. Typed(a)
    BY <1>1, <1>2, <1>3 DEF Typed, X, B
  <1>5. \A q \in Proxies : q # p => a.toxics[q] = w.toxics[q]
    BY <1>1, <1>2
  <1>6. QED
    BY <1>2, <1>3, <1>4, <1>5 DEF a, Within

LEMMA EnabledSet ==
  ASSUME NEW w, Typed(w), NEW p \in Proxies, NEW on \in BOOLEAN
  PROVE  LET a == [w EXCEPT !.enabled[p] = on]
         IN Typed(a) /\ a.enabled[p] = on /\ a.toxics = w.toxics /\ \A S : Within(w, a, S)
  <1> DEFINE X == Toxics \X Streams
             B == [Boxes -> [state : BoxStates, joined : BOOLEAN, capped : BOOLEAN]]
  <1> HIDE DEF X, B
  <1>1. /\ w = [enabled |-> w.enabled, toxics |-> w.toxics, boxes |-> w.boxes, files |-> w.files,
                served |-> w.served]
        /\ w.enabled \in [Proxies -> BOOLEAN] /\ w.toxics \in [Proxies -> SUBSET X]
        /\ w.boxes \in B /\ w.files = [f \in Files |-> w.files[f]]
    BY DEF Typed, X, B
  <1> DEFINE a == [w EXCEPT !.enabled[p] = on]
  <1>2. /\ a = [enabled |-> a.enabled, toxics |-> a.toxics, boxes |-> a.boxes, files |-> a.files,
                served |-> a.served]
        /\ a.toxics = w.toxics /\ a.boxes = w.boxes /\ a.files = w.files
        /\ a.enabled = [w.enabled EXCEPT ![p] = on]
    BY <1>1
  <1> HIDE DEF a
  <1>3. a.enabled \in [Proxies -> BOOLEAN] /\ a.enabled[p] = on
    BY <1>1, <1>2
  <1>4. Typed(a)
    BY <1>1, <1>2, <1>3 DEF Typed, X, B
  <1>5. QED
    BY <1>2, <1>3, <1>4 DEF a, Within

LEMMA FilesSet ==
  ASSUME NEW w, Typed(w), NEW f \in Files, NEW v
  PROVE  LET a == [w EXCEPT !.files[f] = v]
         IN /\ Typed(a) /\ a.files[f] = v /\ \A g \in Files : g # f => a.files[g] = w.files[g]
            /\ \A S : (\A h \in Hosts : h \in S \/ confFile(h) # f) => Within(w, a, S)
  <1> DEFINE B == [Boxes -> [state : BoxStates, joined : BOOLEAN, capped : BOOLEAN]]
             X == [Proxies -> SUBSET (Toxics \X Streams)]
  <1> HIDE DEF B, X
  <1>1. /\ w = [enabled |-> w.enabled, toxics |-> w.toxics, boxes |-> w.boxes, files |-> w.files,
                served |-> w.served]
        /\ w.enabled \in [Proxies -> BOOLEAN] /\ w.toxics \in X
        /\ w.boxes \in B /\ w.files = [g \in Files |-> w.files[g]]
    BY DEF Typed, X, B
  <1> DEFINE a == [w EXCEPT !.files[f] = v]
  <1>2. /\ a = [enabled |-> a.enabled, toxics |-> a.toxics, boxes |-> a.boxes, files |-> a.files,
                served |-> a.served]
        /\ a.toxics = w.toxics /\ a.boxes = w.boxes /\ a.enabled = w.enabled
        /\ a.files = [w.files EXCEPT ![f] = v]
    BY <1>1
  <1> HIDE DEF a
  <1>3. a.files = [g \in Files |-> a.files[g]]
    BY <1>1, <1>2
  <1>4. Typed(a)
    BY <1>1, <1>2, <1>3 DEF Typed, X, B
  <1>5. a.files[f] = v /\ \A g \in Files : g # f => a.files[g] = w.files[g]
    BY <1>1, <1>2
  <1>6. ASSUME NEW S, \A h \in Hosts : h \in S \/ confFile(h) # f PROVE Within(w, a, S)
    <2>1. ASSUME NEW h \in Hosts PROVE h \in S \/ Names(a.files, h) = Names(w.files, h)
      BY <1>5, <1>6, NamesOf DEF Files
    <2>2. QED
      BY <1>2, <2>1 DEF Within
  <1>7. QED
    BY <1>4, <1>5, <1>6 DEF a

LEMMA BoxesSet ==
  ASSUME NEW w, Typed(w),
         NEW boxes \in [Boxes -> [state : BoxStates, joined : BOOLEAN, capped : BOOLEAN]]
  PROVE  LET a == [w EXCEPT !.boxes = boxes]
         IN /\ Typed(a) /\ a.boxes = boxes
            /\ \A S : (\A b \in Boxes : b \in S \/ boxes[b] = w.boxes[b]) => Within(w, a, S)
  <1> DEFINE B == [Boxes -> [state : BoxStates, joined : BOOLEAN, capped : BOOLEAN]]
             X == [Proxies -> SUBSET (Toxics \X Streams)]
  <1> HIDE DEF B, X
  <1>1. /\ w = [enabled |-> w.enabled, toxics |-> w.toxics, boxes |-> w.boxes, files |-> w.files,
                served |-> w.served]
        /\ w.enabled \in [Proxies -> BOOLEAN] /\ w.toxics \in X
        /\ w.files = [g \in Files |-> w.files[g]] /\ boxes \in B
    BY DEF Typed, X, B
  <1> DEFINE a == [w EXCEPT !.boxes = boxes]
  <1>2. /\ a = [enabled |-> a.enabled, toxics |-> a.toxics, boxes |-> a.boxes, files |-> a.files,
                served |-> a.served]
        /\ a.toxics = w.toxics /\ a.boxes = boxes /\ a.enabled = w.enabled /\ a.files = w.files
    BY <1>1
  <1> HIDE DEF a
  <1>3. Typed(a)
    BY <1>1, <1>2 DEF Typed, X, B
  <1>4. QED
    BY <1>2, <1>3 DEF a, Within

(* toxiproxy, request by request.                                          *)
LEMMA GetProxyProgress ==
  ASSUME NEW c \in Callers, Ready(c), GetProxy(c)
  PROVE  Progress(c)
  <1> DEFINE call == Call(c)
             m == mem[c]
             v == call.verb
             p == CASE v \in Toxics -> "addToxic" [] v = "partition" -> "disable" [] OTHER -> "toxics"
             todo == IF v \in Toxics THEN call.streams ELSE <<>>
             m2 == [m EXCEPT !.todo = todo]
  <1>1. Typed(world) /\ at[c] = "proxy" /\ FaultState(call, "proxy", m, world, touched[c])
    BY DEF Ready, GetProxy
  <1>2. Legal(c, world) /\ Carried(c, world)
    BY <1>1, WithinSelf DEF Legal, GetProxy, Request, Attempt, Hangs, Carried, faultVars
  <1>3. Freed(c)
    BY <1>1 DEF Freed
  <1>4. \/ Fails(c) \/ Goto(c, "held", Never, m)
        \/ px(c) \in Proxies /\ world' = world /\ Goto(c, p, 0, m2)
    BY DEF GetProxy, Request, Attempt, Hangs, Carry
  <1>h. CASE Goto(c, "held", Never, m)
    BY <1>2, <1>h, HungProgress
  <1>5. CASE Fails(c)
    BY <1>1, <1>2, <1>3, <1>5, FailsProgress
  <1>6. CASE px(c) \in Proxies /\ world' = world /\ Goto(c, p, 0, m2)
    <2>1. m2 = [todo |-> todo, failed |-> m.failed, before |-> m.before]
      BY <1>1, InHand DEF FaultState
    <2>2. v \in OnProxy /\ call.on \in Proxies
      BY <1>1, <1>6 DEF FaultState, VerbAt, px
    <2> HIDE DEF m2
    <2>3. FaultState(call, p, m2, world, touched[c])
      <3>1. CASE v \in Toxics
        <4>1. p = "addToxic" /\ todo = call.streams
          BY <3>1 DEF Toxics
        <4>2. todo \in Seq(Streams) \ {<<>>}
          BY <3>1, <4>1 DEF Ready, FaultTyped
        <4>3. Placed(call, world, touched[c], todo)
          BY <4>1 DEF Placed
        <4>4. m2.todo = todo /\ m2.failed = m.failed /\ m2.before = m.before
          BY <2>1
        <4> HIDE DEF p, todo
        <4>5. QED
          BY <2>1, <2>2, <3>1, <4>1, <4>2, <4>3, <4>4 DEF FaultState, VerbAt
      <3>2. CASE v = "partition"
        <4>1. p = "disable"
          BY <3>2 DEF Toxics
        <4>2. m2.todo = todo /\ m2.failed = m.failed /\ m2.before = m.before
          BY <2>1
        <4> HIDE DEF p, todo
        <4>3. QED
          BY <2>1, <2>2, <3>2, <4>1, <4>2 DEF FaultState, VerbAt
      <3>3. CASE v = "clear"
        <4>1. p = "toxics"
          BY <3>3 DEF Toxics
        <4>2. m2.todo = todo /\ m2.failed = m.failed /\ m2.before = m.before
          BY <2>1
        <4> HIDE DEF p, todo
        <4>3. QED
          BY <2>1, <2>2, <3>3, <4>1, <4>2 DEF FaultState, VerbAt
      <3>4. QED
        BY <2>2, <3>1, <3>2, <3>3 DEF OnProxy
    <2>4. p # "idle"
      OBVIOUS
    <2> HIDE DEF p
    <2>5. QED
      BY <1>1, <1>2, <1>6, <2>3, <2>4, GotoProgress
  <1>7. QED
    BY <1>4, <1>5, <1>6, <1>h

LEMMA AddToxicProgress ==
  ASSUME NEW c \in Callers, Ready(c), AddToxic(c)
  PROVE  Progress(c)
  <1> DEFINE call == Call(c)
             m == mem[c]
             t == touched[c]
             x == <<call.verb, Head(m.todo)>>
             T == world.toxics[call.on] \cup {x}
             a == [world EXCEPT !.toxics[call.on] = T]
             m2 == [m EXCEPT !.todo = Tail(m.todo)]
  <1>1. Typed(world) /\ at[c] = "addToxic" /\ FaultState(call, "addToxic", m, world, t)
    BY DEF Ready, AddToxic
  <1>2. /\ call.verb \in Toxics /\ call.on \in Proxies /\ m.todo \in Seq(Streams) /\ m.todo # <<>>
        /\ Placed(call, world, t, m.todo)
    BY <1>1 DEF FaultState, VerbAt
  <1>3. /\ Head(m.todo) \in Streams /\ Tail(m.todo) \in Seq(Streams)
        /\ Range(m.todo) = {Head(m.todo)} \cup Range(Tail(m.todo))
        /\ Len(m.todo) = 1 <=> Tail(m.todo) = <<>>
    BY <1>2, TodoRest
  <1>4. T \in SUBSET (Toxics \X Streams)
    BY <1>1, <1>2, <1>3 DEF Typed
  <1>5. Legal(c, a) /\ a.toxics[call.on] = T
    <2> DEFINE p == call.on
    <2>0. Typed(world) /\ p \in Proxies /\ T \in SUBSET (Toxics \X Streams)
      BY <1>1, <1>2, <1>4
    <2> HIDE DEF T, p
    <2>1. LET b == [world EXCEPT !.toxics[p] = T]
          IN Typed(b) /\ b.toxics[p] = T /\ Within(world, b, {p})
      BY ONLY <2>0, ToxicsSet
    <2>2. Named(call) = {call.on}
      BY <1>2, NamedOf DEF OnProxy
    <2>3. QED
      BY <2>1, <2>2 DEF p, Legal
  <1>6. /\ Carried(c, a)
        /\ \/ Fails(c) \/ Goto(c, "held", Never, m)
           \/ world' = a /\ IF Len(m.todo) = 1 THEN Answered(c) ELSE Goto(c, "addToxic", 0, m2)
    BY Zenon DEF AddToxic, Request, Attempt, Hangs, Carry, Carried, faultVars, Todo, Rest, px
  <1>h. CASE Goto(c, "held", Never, m)
    BY <1>5, <1>6, <1>h, HungProgress
  <1>7. Freed(c) /\ call.verb # "clear"
    BY <1>2 DEF Freed, Toxics
  <1>8. Placed(call, a, t, Tail(m.todo))
    <2>1. x \in a.toxics[call.on] /\ \A y \in world.toxics[call.on] : y \in a.toxics[call.on]
      BY <1>5
    <2> HIDE DEF a, T
    <2>2. QED
      BY <1>2, <1>3, <2>1 DEF Placed
  <1>9. CASE Fails(c)
    <2> HIDE DEF a
    <2>1. QED
      BY <1>5, <1>6, <1>7, <1>9, FailsProgress
  <1>10. CASE world' = a /\ Len(m.todo) = 1 /\ Answered(c)
    <2>1. Placed(call, a, t, <<>>)
      BY <1>3, <1>8, <1>10
    <2> HIDE DEF a
    <2>2. InForce(call, m.before, world', t)
      BY <1>2, <1>10, <2>1 DEF InForce, Toxics, NetFaults, Composed
    <2>3. QED
      BY <1>5, <1>6, <1>7, <1>10, <2>2, AnsweredProgress
  <1>11. CASE world' = a /\ Len(m.todo) # 1 /\ Goto(c, "addToxic", 0, m2)
    <2>1. m2 = [todo |-> Tail(m.todo), failed |-> m.failed, before |-> m.before]
      <3>1. m = [todo |-> m.todo, failed |-> m.failed, before |-> m.before]
        BY <1>1 DEF FaultState
      <3> HIDE DEF m
      <3>2. QED
        BY <3>1, InHand
    <2>2. m2.todo = Tail(m.todo) /\ m2.failed = m.failed /\ m2.before = m.before
      BY <2>1
    <2> HIDE DEF a, m2
    <2>3. FaultState(call, "addToxic", m2, world', t)
      BY <1>2, <1>3, <1>8, <1>11, <2>1, <2>2 DEF FaultState, VerbAt
    <2>4. QED
      BY <1>5, <1>6, <1>11, <2>3, GotoProgress
  <1>12. QED
    BY <1>6, <1>9, <1>10, <1>11, <1>h

LEMMA DisableProgress ==
  ASSUME NEW c \in Callers, Ready(c), Disable(c)
  PROVE  Progress(c)
  <1> DEFINE call == Call(c)
             a == [world EXCEPT !.enabled[call.on] = FALSE]
  <1>1. Typed(world) /\ at[c] = "disable" /\ FaultState(call, "disable", mem[c], world, touched[c])
    BY DEF Ready, Disable
  <1>2. call.verb = "partition" /\ call.on \in Proxies
    BY <1>1 DEF FaultState, VerbAt
  <1>3. Legal(c, a) /\ a.enabled[call.on] = FALSE
    BY <1>1, <1>2, EnabledSet DEF Legal
  <1>4. /\ Carried(c, a)
        /\ Fails(c) \/ Goto(c, "held", Never, mem[c]) \/ (world' = a /\ Answered(c))
    BY DEF Disable, Request, Attempt, Hangs, Carry, Carried, faultVars, Enabled, px
  <1>h. CASE Goto(c, "held", Never, mem[c])
    BY <1>3, <1>4, <1>h, HungProgress
  <1>5. Freed(c)
    BY <1>2 DEF Freed
  <1> HIDE DEF a
  <1>6. CASE Fails(c)
    BY <1>3, <1>4, <1>5, <1>6, FailsProgress
  <1>7. CASE world' = a /\ Answered(c)
    <2>1. InForce(call, mem[c].before, world', touched[c])
      BY <1>2, <1>3, <1>7 DEF InForce, Toxics, NetFaults, Composed
    <2>2. QED
      BY <1>3, <1>4, <1>5, <1>7, <2>1, AnsweredProgress
  <1>8. QED
    BY <1>4, <1>6, <1>7, <1>h

LEMMA ListToxicsProgress ==
  ASSUME NEW c \in Callers, Ready(c), ListToxics(c)
  PROVE  Progress(c)
  <1> DEFINE call == Call(c)
             m == mem[c]
             t == touched[c]
             S == world.toxics[call.on]
             todo == SetToSeq(S)
             m2 == [m EXCEPT !.todo = todo]
             failed == m.failed \cup {"toxics"}
             m3 == [m EXCEPT !.failed = failed]
  <1>1. Typed(world) /\ at[c] = "toxics" /\ FaultState(call, "toxics", m, world, t)
    BY DEF Ready, ListToxics
  <1>2. call.verb = "clear" /\ call.on \in Proxies
    BY <1>1 DEF FaultState, VerbAt, OnProxy, Toxics, NetFaults, Composed, OnBoxes
  <1>3. /\ Legal(c, world) /\ Carried(c, world)
        /\ \/ world' = world /\ Goto(c, "removeToxic", 0, m2)
           \/ world' = world /\ Goto(c, "enable", 0, m3)
           \/ Goto(c, "held", Never, m)
    BY <1>1, WithinSelf
       DEF Legal, ListToxics, Request, Attempt, Hangs, Carry, Carried, faultVars, Failing, px
  <1>h. CASE Goto(c, "held", Never, m)
    BY <1>3, <1>h, HungProgress
  <1>4. /\ m2 = [todo |-> todo, failed |-> m.failed, before |-> m.before]
        /\ m3 = [todo |-> m.todo, failed |-> m.failed \cup {"toxics"}, before |-> m.before]
    <2>1. m = [todo |-> m.todo, failed |-> m.failed, before |-> m.before]
      BY <1>1 DEF FaultState
    <2> HIDE DEF m, todo, failed
    <2>2. /\ m2 = [todo |-> todo, failed |-> m.failed, before |-> m.before]
          /\ m3 = [todo |-> m.todo, failed |-> failed, before |-> m.before]
      BY <2>1, InHand, InHandFailed
    <2>3. QED
      BY <2>2 DEF failed
  <1>5. todo \in Seq(Toxics \X Streams) /\ Range(todo) = S
    <2>1. S \subseteq Toxics \X Streams
      BY <1>1, <1>2 DEF Typed
    <2>3. IsFiniteSet(S)
      BY <2>1, ToxicsFinite, FS_Subset
    <2>4. todo \in Seq(S) /\ Range(todo) = S
      BY <2>3, SetToSeqRange
    <2>5. QED
      BY <2>1, <2>4, SeqMonotonic
  <1> HIDE DEF m2, m3
  <1>6. CASE world' = world /\ Goto(c, "removeToxic", 0, m2)
    <2>1. Cleared(call, world, t, todo)
      BY <1>5 DEF Cleared
    <2>2. m2.todo = todo /\ m2.failed = m.failed /\ m2.before = m.before
      BY <1>4
    <2> HIDE DEF todo
    <2>3. FaultState(call, "removeToxic", m2, world', t)
      BY <1>2, <1>4, <1>5, <1>6, <2>1, <2>2 DEF FaultState, VerbAt
    <2>4. QED
      BY <1>1, <1>3, <1>6, <2>3, GotoProgress
  <1>7. CASE world' = world /\ Goto(c, "enable", 0, m3)
    <2>1. m3.todo = m.todo /\ m3.failed # {} /\ m3.failed = m.failed \cup {"toxics"} /\ m3.before = m.before
      BY <1>4
    <2>2. FaultState(call, "enable", m3, world', t)
      BY <1>2, <1>4, <1>7, <2>1 DEF FaultState, VerbAt
    <2>3. QED
      BY <1>1, <1>3, <1>7, <2>2, GotoProgress
  <1>8. QED
    BY <1>3, <1>6, <1>7, <1>h

LEMMA RemoveToxicProgress ==
  ASSUME NEW c \in Callers, Ready(c), RemoveToxic(c)
  PROVE  Progress(c)
  <1> DEFINE call == Call(c)
             m == mem[c]
             t == touched[c]
             x == Head(m.todo)
             rest == Tail(m.todo)
             T == world.toxics[call.on] \ {x}
             a == [world EXCEPT !.toxics[call.on] = T]
             failed == m.failed \cup {"remove"}
             m2 == [m EXCEPT !.todo = rest]
             m3 == [[m EXCEPT !.failed = failed] EXCEPT !.todo = rest]
  <1>1. Typed(world) /\ at[c] = "removeToxic" /\ FaultState(call, "removeToxic", m, world, t)
    BY DEF Ready, RemoveToxic
  <1>2. /\ call.verb = "clear" /\ call.on \in Proxies
        /\ m = [todo |-> m.todo, failed |-> m.failed, before |-> m.before]
        /\ m.todo \in Seq(Toxics \X Streams) /\ m.todo # <<>>
        /\ m.failed = {} => Cleared(call, world, t, m.todo)
    BY <1>1 DEF FaultState, VerbAt, OnProxy, Toxics, NetFaults, Composed, OnBoxes, RemoveToxic, Todo
  <1>3. rest \in Seq(Toxics \X Streams) /\ Range(m.todo) = {x} \cup Range(rest)
    BY <1>2, TodoRest
  <1>4. T \in SUBSET (Toxics \X Streams)
    BY <1>1, <1>2 DEF Typed
  <1>5. Legal(c, a) /\ a.toxics[call.on] = T
    <2> DEFINE p == call.on
    <2>0. Typed(world) /\ p \in Proxies /\ T \in SUBSET (Toxics \X Streams)
      BY <1>1, <1>2, <1>4
    <2> HIDE DEF T, p
    <2>1. LET b == [world EXCEPT !.toxics[p] = T]
          IN Typed(b) /\ b.toxics[p] = T /\ Within(world, b, {p})
      BY ONLY <2>0, ToxicsSet
    <2>2. Named(call) = {call.on}
      BY <1>2, NamedOf DEF OnProxy
    <2>3. QED
      BY <2>1, <2>2 DEF p, Legal
  <1>6. /\ Carried(c, a)
        /\ \/ world' = a /\ Goto(c, "removeToxic", 0, m2)
           \/ Goto(c, "removeToxic", 0, m3)
           \/ Goto(c, "held", Never, m)
    BY DEF RemoveToxic, Request, Attempt, Hangs, Carry, Carried, faultVars, Todo, Rest, px, Failing
  <1>h. CASE Goto(c, "held", Never, m)
    BY <1>5, <1>6, <1>h, HungProgress
  <1>7. /\ m2 = [todo |-> rest, failed |-> m.failed, before |-> m.before]
        /\ m3 = [todo |-> rest, failed |-> failed, before |-> m.before]
    <2> DEFINE k == [m EXCEPT !.failed = failed]
    <2>0. m3 = [k EXCEPT !.todo = rest]
      OBVIOUS
    <2> HIDE DEF m, failed, rest, k
    <2>1. k = [todo |-> m.todo, failed |-> failed, before |-> m.before]
      BY <1>2, InHandFailed DEF k
    <2>2. [k EXCEPT !.todo = rest] = [todo |-> rest, failed |-> failed, before |-> m.before]
      BY <2>1, InHand
    <2>3. m2 = [todo |-> rest, failed |-> m.failed, before |-> m.before]
      BY <1>2, InHand
    <2>4. QED
      BY ONLY <2>0, <2>2, <2>3, Zenon
  <1>8. m.failed = {} => Cleared(call, a, t, rest)
    <2>1. x \notin a.toxics[call.on] /\ a.toxics[call.on] \subseteq world.toxics[call.on]
      BY <1>5
    <2> HIDE DEF a, T
    <2>2. QED
      BY <1>2, <1>3, <2>1 DEF Cleared
  <1> HIDE DEF a, m2, m3
  <1>9. CASE world' = a /\ Goto(c, "removeToxic", 0, m2)
    <2>1. m2.todo = rest /\ m2.failed = m.failed /\ m2.before = m.before
      BY <1>7
    <2>2. FaultState(call, "removeToxic", m2, world', t)
      BY <1>2, <1>3, <1>7, <1>8, <1>9, <2>1 DEF FaultState, VerbAt
    <2>3. QED
      BY <1>5, <1>6, <1>9, <2>2, GotoProgress
  <1>10. CASE Goto(c, "removeToxic", 0, m3)
    <2>1. m3.todo = rest /\ m3.failed # {} /\ m3.failed = failed /\ m3.before = m.before
      BY <1>7
    <2> HIDE DEF failed
    <2>2. FaultState(call, "removeToxic", m3, world', t)
      BY <1>2, <1>3, <1>7, <2>1 DEF FaultState, VerbAt
    <2>3. QED
      BY <1>5, <1>6, <1>10, <2>2, GotoProgress
  <1>11. QED
    BY <1>6, <1>9, <1>10, <1>h

LEMMA RemovedProgress ==
  ASSUME NEW c \in Callers, Ready(c), Removed(c)
  PROVE  Progress(c)
  <1> DEFINE call == Call(c)
             m == mem[c]
             t == touched[c]
  <1>1. /\ Typed(world) /\ at[c] = "removeToxic" /\ FaultState(call, "removeToxic", m, world, t)
        /\ m.todo = <<>>
    BY DEF Ready, Removed, Todo
  <1>2. call.verb = "clear"
    BY <1>1 DEF FaultState, VerbAt, OnProxy, Toxics, NetFaults, Composed, OnBoxes
  <1>3. Legal(c, world) /\ Carried(c, world) /\ world' = world /\ Goto(c, "enable", 0, m)
    BY <1>1, WithinSelf DEF Legal, Removed, Then, Carried, faultVars
  <1>4. FaultState(call, "enable", m, world', t)
    BY <1>1, <1>2, <1>3 DEF FaultState, VerbAt
  <1>5. QED
    BY <1>1, <1>3, <1>4, GotoProgress

LEMMA EnableProgress ==
  ASSUME NEW c \in Callers, Ready(c), Enable(c)
  PROVE  Progress(c)
  <1> DEFINE call == Call(c)
             m == mem[c]
             t == touched[c]
             a == [world EXCEPT !.enabled[call.on] = TRUE]
             failed == m.failed \cup {"enable"}
             m3 == [m EXCEPT !.failed = failed]
  <1>1. Typed(world) /\ at[c] = "enable" /\ FaultState(call, "enable", m, world, t)
    BY DEF Ready, Enable
  <1>2. /\ call.verb = "clear" /\ call.on \in Proxies
        /\ m = [todo |-> m.todo, failed |-> m.failed, before |-> m.before]
        /\ m.failed = {} => Cleared(call, world, t, <<>>)
    BY <1>1 DEF FaultState, VerbAt, OnProxy, Toxics, NetFaults, Composed, OnBoxes
  <1>3. Legal(c, a) /\ a.enabled[call.on] = TRUE /\ a.toxics = world.toxics
    BY <1>1, <1>2, EnabledSet DEF Legal
  <1>4. /\ Carried(c, a)
        /\ \/ world' = a /\ (IF m.failed = {} THEN Answered(c) ELSE Fails(c))
           \/ Goto(c, "notEnabled", 0, m3)
           \/ Goto(c, "held", Never, m)
    BY Zenon DEF Enable, Request, Attempt, Hangs, Carry, Carried, faultVars, Enabled, px, Failing
  <1>h. CASE Goto(c, "held", Never, m)
    BY <1>3, <1>4, <1>h, HungProgress
  <1>5. m3 = [todo |-> m.todo, failed |-> failed, before |-> m.before]
    <2> HIDE DEF m, failed
    <2>1. QED
      BY <1>2, InHandFailed
  <1>6. m.failed = {} => Cleared(call, a, t, <<>>)
    BY <1>2, <1>3 DEF Cleared
  <1> HIDE DEF a, m3
  <1>7. world' = a => Freed(c)
    BY <1>3 DEF Freed, px
  <1>8. CASE world' = a /\ m.failed = {} /\ Answered(c)
    <2>1. InForce(call, m.before, world', t)
      BY <1>2, <1>3, <1>6, <1>8 DEF InForce, Toxics, NetFaults, Composed
    <2>2. QED
      BY <1>3, <1>4, <1>7, <1>8, <2>1, AnsweredProgress
  <1>9. CASE world' = a /\ Fails(c)
    BY <1>3, <1>4, <1>7, <1>9, FailsProgress
  <1>10. CASE Goto(c, "notEnabled", 0, m3)
    <2>1. m3.todo = m.todo /\ "enable" \in m3.failed /\ m3.failed = failed /\ m3.before = m.before
      BY <1>5
    <2> HIDE DEF failed
    <2>2. FaultState(call, "notEnabled", m3, world', t)
      BY <1>2, <1>5, <2>1 DEF FaultState, VerbAt
    <2>3. QED
      BY <1>3, <1>4, <1>10, <2>2, GotoProgress
  <1>11. QED
    BY <1>4, <1>8, <1>9, <1>10, <1>h

LEMMA NotEnabledProgress ==
  ASSUME NEW c \in Callers, Ready(c), NotEnabled(c)
  PROVE  Progress(c)
  <1>1. Typed(world) /\ at[c] = "notEnabled" /\ "enable" \in mem[c].failed
    BY DEF Ready, NotEnabled, FaultState
  <1>2. Legal(c, world) /\ Carried(c, world) /\ Fails(c) /\ Freed(c)
    BY <1>1, WithinSelf DEF Legal, NotEnabled, Carried, faultVars, Freed
  <1>3. QED
    BY <1>1, <1>2, FailsProgress

LEMMA RecordOf ==
  ASSUME NEW w, NEW e, NEW x, NEW b, NEW f, NEW s,
         w = [enabled |-> e, toxics |-> x, boxes |-> b, files |-> f, served |-> s], NEW y
  PROVE  /\ [w EXCEPT !.enabled = y] = [enabled |-> y, toxics |-> x, boxes |-> b, files |-> f, served |-> s]
         /\ [w EXCEPT !.toxics = y] = [enabled |-> e, toxics |-> y, boxes |-> b, files |-> f, served |-> s]
  OBVIOUS

LEMMA ResetStateProgress ==
  ASSUME NEW c \in Callers, Ready(c), ResetState(c)
  PROVE  Progress(c)
  <1> DEFINE call == Call(c)
             a == [world EXCEPT !.enabled = [p \in Proxies |-> TRUE], !.toxics = [p \in Proxies |-> {}]]
             B == [Boxes -> [state : BoxStates, joined : BOOLEAN, capped : BOOLEAN]]
             on == [p \in Proxies |-> TRUE]
             none == [p \in Proxies |-> {}]
  <1>1. Typed(world) /\ at[c] = "resetState" /\ VerbAt(call.verb, "resetState")
    BY DEF Ready, ResetState, FaultState
  <1>2. call.verb = "toxiproxy.reset"
    BY <1>1 DEF VerbAt
  <1>3. Legal(c, a) /\ a.enabled = on /\ a.toxics = none
    <2>1. on \in [Proxies -> BOOLEAN] /\ none \in [Proxies -> SUBSET (Toxics \X Streams)]
      OBVIOUS
    <2> HIDE DEF on, none, B
    <2>2. /\ world = [enabled |-> world.enabled, toxics |-> world.toxics, boxes |-> world.boxes,
                      files |-> world.files, served |-> world.served]
          /\ world.boxes \in B /\ world.files = [f \in Files |-> world.files[f]]
      BY <1>1 DEF Typed, B
    <2> DEFINE k == [world EXCEPT !.enabled = on]
               d == [k EXCEPT !.toxics = none]
               b == [enabled |-> on, toxics |-> none, boxes |-> world.boxes, files |-> world.files,
                     served |-> world.served]
    <2>3. a = d
      BY Zenon DEF on, none
    <2>c. a = b
      <3>1. k = [enabled |-> on, toxics |-> world.toxics, boxes |-> world.boxes, files |-> world.files,
                 served |-> world.served]
        BY <2>2, RecordOf
      <3> HIDE DEF k
      <3>2. d = b
        BY <3>1, RecordOf
      <3> HIDE DEF a, b, d
      <3>3. QED
        BY <2>3, <3>2
    <2>4. b.enabled = on /\ b.toxics = none /\ b.boxes = world.boxes /\ b.files = world.files
          /\ b = [enabled |-> b.enabled, toxics |-> b.toxics, boxes |-> b.boxes, files |-> b.files,
                  served |-> b.served]
      OBVIOUS
    <2> HIDE DEF a, b
    <2>6. Typed(b)
      BY <2>1, <2>2, <2>4 DEF Typed, B
    <2>7. Within(world, b, Proxies)
      BY <2>4 DEF Within
    <2>8. QED
      BY <1>2, <2>4, <2>c, <2>6, <2>7, NamedOf DEF Legal
  <1>4. /\ Carried(c, a)
        /\ Fails(c) \/ Goto(c, "held", Never, mem[c]) \/ (world' = a /\ Answered(c))
    BY DEF ResetState, Request, Attempt, Hangs, Carry, Carried, faultVars
  <1>h. CASE Goto(c, "held", Never, mem[c])
    BY <1>3, <1>4, <1>h, HungProgress
  <1>5. Freed(c)
    BY <1>2 DEF Freed
  <1> HIDE DEF a
  <1>6. CASE Fails(c)
    BY <1>3, <1>4, <1>5, <1>6, FailsProgress
  <1>7. CASE world' = a /\ Answered(c)
    <2>1. InForce(call, mem[c].before, world', touched[c])
      BY <1>2, <1>3, <1>7 DEF InForce, Toxics, NetFaults, Composed
    <2>2. QED
      BY <1>3, <1>4, <1>5, <1>7, <2>1, AnsweredProgress
  <1>8. QED
    BY <1>4, <1>6, <1>7, <1>h

(* net, snippet by snippet.                                                *)
LEMMA WriteConfProgress ==
  ASSUME OneFilePerHost, NEW c \in Callers, Ready(c), WriteConf(c)
  PROVE  Progress(c)
  <1> DEFINE call == Call(c)
             f == confFile(call.on)
             v == call.verb
             lines == {<<call.on, v>>}
             a == [world EXCEPT !.files[f] = lines]
  <1>1. /\ Typed(world) /\ at[c] = "writeConf"
        /\ FaultState(call, "writeConf", mem[c], world, touched[c]) /\ FaultTyped(call)
    BY DEF Ready, WriteConf
  <1>2. v \in NetFaults /\ v # "clear" /\ v \notin OnProxy
    BY <1>1 DEF FaultState, VerbAt, OnProxy, Toxics, NetFaults, Composed, OnBoxes
  <1>3. call.on \in Hosts /\ f \in Files
    BY <1>1, <1>2 DEF FaultTyped, Files
  <1>4. /\ Typed(a) /\ a.files[f] = lines
        /\ \A S : (\A h \in Hosts : h \in S \/ confFile(h) # f) => Within(world, a, S)
    <2> HIDE DEF f, lines
    <2>1. QED
      BY <1>1, <1>3, FilesSet
  <1>5. Legal(c, a) /\ Names(a.files, call.on) = {v}
    <2> HIDE DEF a
    <2>1. Named(call) = {call.on} /\ \A h \in Hosts : h \in {call.on} \/ confFile(h) # f
      BY <1>2, <1>3, NamedOf DEF OneFilePerHost
    <2>2. Names(a.files, call.on) = {v}
      BY <1>2, <1>4, NamesOf
    <2>3. QED
      BY <1>4, <2>1, <2>2 DEF Legal
  <1>6. Carried(c, a) /\ (Fails(c) \/ (world' = a /\ Goto(c, "reload", 0, mem[c])))
    BY DEF WriteConf, Attempt, Carry, Carried, faultVars, Then, file
  <1>7. Freed(c)
    BY <1>2 DEF Freed
  <1> HIDE DEF a
  <1>8. CASE Fails(c)
    BY <1>5, <1>6, <1>7, <1>8, FailsProgress
  <1>9. CASE world' = a /\ Goto(c, "reload", 0, mem[c])
    <2>1. FaultState(call, "reload", mem[c], world', touched[c])
      BY <1>1, <1>2, <1>5, <1>9 DEF FaultState, VerbAt, Written
    <2>2. QED
      BY <1>5, <1>6, <1>9, <2>1, GotoProgress
  <1>10. QED
    BY <1>6, <1>8, <1>9

LEMMA RemoveConfProgress ==
  ASSUME OneFilePerHost, NEW c \in Callers, Ready(c), RemoveConf(c)
  PROVE  Progress(c)
  <1> DEFINE call == Call(c)
             m == mem[c]
             t == touched[c]
             f == Head(m.todo)
             rest == Tail(m.todo)
             a == [world EXCEPT !.files[f] = {}]
             m2 == [m EXCEPT !.todo = rest]
  <1>1. /\ Typed(world) /\ at[c] = "removeConf" /\ FaultState(call, "removeConf", m, world, t)
        /\ m.todo # <<>> /\ FaultTyped(call)
    BY DEF Ready, RemoveConf, Todo
  <1>2. /\ call.verb \in {"net.clear", "net.reset"}
        /\ m = [todo |-> m.todo, failed |-> m.failed, before |-> m.before]
        /\ m.todo \in Seq(Files) /\ Range(m.todo) \subseteq SnippetsOf(call)
        /\ Unwritten(call, world, t, m.todo)
    BY <1>1 DEF FaultState, VerbAt, OnProxy, Toxics, NetFaults, Composed, OnBoxes
  <1>3. /\ f \in Files /\ rest \in Seq(Files) /\ Range(m.todo) = {f} \cup Range(rest)
        /\ f \in SnippetsOf(call) /\ Range(rest) \subseteq SnippetsOf(call)
    BY <1>1, <1>2, TodoRest
  <1>8. HostsOf(call) \subseteq Hosts
    BY <1>1, <1>2 DEF HostsOf, FaultTyped
  <1>4. /\ Typed(a) /\ a.files[f] = {} /\ \A g \in Files : g # f => a.files[g] = world.files[g]
        /\ \A S : (\A h \in Hosts : h \in S \/ confFile(h) # f) => Within(world, a, S)
    <2> HIDE DEF f
    <2>1. QED
      BY <1>1, <1>3, FilesSet
  <1>10. Legal(c, a)
    <2> HIDE DEF a
    <2>1. PICK g \in HostsOf(call) : f = confFile(g)
      BY <1>3 DEF SnippetsOf
    <2>2. \A h \in Hosts : h \in HostsOf(call) \/ confFile(h) # f
      BY <1>8, <2>1 DEF OneFilePerHost
    <2>3. Named(call) = HostsOf(call)
      BY <1>2, NamedOf
    <2>4. QED
      BY <1>4, <2>2, <2>3 DEF Legal
  <1>5. m2 = [todo |-> rest, failed |-> m.failed, before |-> m.before]
    <2> HIDE DEF m, rest
    <2>1. QED
      BY <1>2, InHand
  <1>6. \/ /\ world.files[f] = {} /\ Carried(c, world) /\ world' = world
           /\ Goto(c, "removeConf", 0, m2)
        \/ Carried(c, a) /\ (Fails(c) \/ (world' = a /\ Goto(c, "removeConf", 0, m2)))
    BY DEF RemoveConf, Attempt, Carry, Carried, faultVars, Todo, Rest
  <1>7. Freed(c) /\ Legal(c, world)
    BY <1>1, <1>2, WithinSelf DEF Freed, Legal
  <1>9. ASSUME NEW w, Unwritten(call, w, t, rest) PROVE FaultState(call, "removeConf", m2, w, t)
    <2>1. m2.todo = rest /\ m2.failed = m.failed /\ m2.before = m.before
      BY <1>5
    <2> HIDE DEF m2
    <2>2. QED
      BY <1>2, <1>3, <1>5, <1>9, <2>1 DEF FaultState, VerbAt
  <1>12. Unwritten(call, a, t, rest)
    <2> HIDE DEF a
    <2>1. ASSUME NEW h \in HostsOf(call)
          PROVE  confFile(h) \in Range(rest) \/ Names(a.files, h) = {} \/ <<"snippet", h>> \in t
      <3>1. CASE confFile(h) = f
        BY <1>4, <3>1, NamesOf
      <3>2. CASE confFile(h) # f
        <4>1. confFile(h) \in Range(rest) \/ Names(world.files, h) = {} \/ <<"snippet", h>> \in t
          BY <1>2, <1>3, <3>2 DEF Unwritten
        <4>2. Names(a.files, h) = Names(world.files, h)
          BY <1>4, <1>8, <3>2, NamesOf DEF Files
        <4>3. QED
          BY <4>1, <4>2
      <3>3. QED
        BY <3>1, <3>2
    <2>2. QED
      BY <2>1 DEF Unwritten
  <1>13. world.files[f] = {} => Unwritten(call, world, t, rest)
    BY <1>2, <1>3, NamesOf DEF Unwritten
  <1> HIDE DEF a, m2
  <1>14. CASE /\ world.files[f] = {} /\ Carried(c, world) /\ world' = world
              /\ Goto(c, "removeConf", 0, m2)
    BY <1>7, <1>9, <1>13, <1>14, GotoProgress
  <1>15. CASE Carried(c, a) /\ Fails(c)
    BY <1>7, <1>10, <1>15, FailsProgress
  <1>16. CASE Carried(c, a) /\ world' = a /\ Goto(c, "removeConf", 0, m2)
    BY <1>9, <1>10, <1>12, <1>16, GotoProgress
  <1>17. QED
    BY <1>6, <1>14, <1>15, <1>16

LEMMA ConfRemovedProgress ==
  ASSUME NEW c \in Callers, Ready(c), ConfRemoved(c)
  PROVE  Progress(c)
  <1> DEFINE call == Call(c)
             m == mem[c]
             t == touched[c]
  <1>1. /\ Typed(world) /\ at[c] = "removeConf" /\ FaultState(call, "removeConf", m, world, t)
        /\ m.todo = <<>>
    BY DEF Ready, ConfRemoved, Todo
  <1>2. call.verb \in {"net.clear", "net.reset"} /\ call.verb \notin NetFaults
    BY <1>1 DEF FaultState, VerbAt, OnProxy, Toxics, NetFaults, Composed, OnBoxes
  <1>3. Legal(c, world) /\ Carried(c, world) /\ world' = world /\ Goto(c, "reload", 0, m)
    BY <1>1, WithinSelf DEF Legal, ConfRemoved, Then, Carried, faultVars
  <1>4. FaultState(call, "reload", m, world', t)
    BY <1>1, <1>2, <1>3 DEF FaultState, VerbAt
  <1>5. QED
    BY <1>1, <1>3, <1>4, GotoProgress

LEMMA ServedSet ==
  ASSUME NEW w, Typed(w), NEW s
  PROVE  LET a == [w EXCEPT !.served = s]
         IN Typed(a) /\ a.served = s /\ a.files = w.files /\ \A S : Within(w, a, S)
  <1> DEFINE B == [Boxes -> [state : BoxStates, joined : BOOLEAN, capped : BOOLEAN]]
             X == [Proxies -> SUBSET (Toxics \X Streams)]
  <1> HIDE DEF B, X
  <1>1. /\ w = [enabled |-> w.enabled, toxics |-> w.toxics, boxes |-> w.boxes, files |-> w.files,
                served |-> w.served]
        /\ w.enabled \in [Proxies -> BOOLEAN] /\ w.toxics \in X
        /\ w.boxes \in B /\ w.files = [g \in Files |-> w.files[g]]
    BY DEF Typed, X, B
  <1> DEFINE a == [w EXCEPT !.served = s]
  <1>2. /\ a = [enabled |-> a.enabled, toxics |-> a.toxics, boxes |-> a.boxes, files |-> a.files,
                served |-> a.served]
        /\ a.toxics = w.toxics /\ a.boxes = w.boxes /\ a.enabled = w.enabled /\ a.files = w.files
        /\ a.served = s
    BY <1>1
  <1> HIDE DEF a
  <1>3. Typed(a)
    BY <1>1, <1>2 DEF Typed, X, B
  <1>4. QED
    BY <1>2, <1>3 DEF a, Within

LEMMA ReloadProgress ==
  ASSUME NEW c \in Callers, Ready(c), Reload(c)
  PROVE  Progress(c)
  <1> DEFINE call == Call(c)
             m == mem[c]
             t == touched[c]
             a == [world EXCEPT !.served = world.files]
  <1>1. Typed(world) /\ at[c] = "reload" /\ FaultState(call, "reload", m, world, t)
    BY DEF Ready, Reload
  <1>2. /\ call.verb \in NetFaults \cup {"net.clear", "net.reset"} /\ call.verb \notin OnProxy
        /\ call.verb \in NetFaults => Written(call, world, t)
        /\ call.verb \notin NetFaults => Unwritten(call, world, t, <<>>)
    BY <1>1 DEF FaultState, VerbAt, OnProxy, Toxics, NetFaults, Composed, OnBoxes
  <1>3. Legal(c, a) /\ a.served = world.files /\ a.files = world.files
    BY <1>1, ServedSet DEF Legal
  <1>w. Legal(c, world)
    BY <1>1, WithinSelf DEF Legal
  <1>4. \/ Answered(c) /\ ~case.reloads /\ Carried(c, world) /\ world' = world
        \/ /\ Carried(c, a)
           /\ \/ Fails(c) \/ Goto(c, "unanswered", Deadline(c), m)
              \/ world' = a /\ Answered(c)
    BY DEF Reload, Command, Attempt, Hangs, Carry, Carried, faultVars
  <1>5. Freed(c)
    BY <1>2 DEF Freed, NetFaults
  <1> HIDE DEF a
  <1>f. ASSUME NEW w, w.files = world.files, case.reloads => w.served = w.files, world' = w
        PROVE  InForce(call, m.before, world', t)
    <2>1. call.verb \in NetFaults => Written(call, w, t)
      BY <1>2, <1>f DEF Written
    <2>2. call.verb \in {"net.clear", "net.reset"} => Unwritten(call, w, t, <<>>)
      BY <1>2, <1>f DEF Unwritten, NetFaults
    <2>3. QED
      BY <1>2, <1>f, <2>1, <2>2 DEF InForce, Toxics, NetFaults, Composed
  <1>6. CASE Carried(c, a) /\ Fails(c)
    BY <1>3, <1>5, <1>6, FailsProgress
  <1>h. CASE Carried(c, a) /\ Goto(c, "unanswered", Deadline(c), m)
    BY <1>2, <1>3, <1>h, HungProgress
  <1>7. CASE Carried(c, a) /\ world' = a /\ Answered(c)
    <2>1. InForce(call, m.before, world', t)
      BY <1>3, <1>7, <1>f
    <2>2. QED
      BY <1>3, <1>5, <1>7, <2>1, AnsweredProgress
  <1>8. CASE Answered(c) /\ ~case.reloads /\ Carried(c, world) /\ world' = world
    <2>1. InForce(call, m.before, world', t)
      BY <1>8, <1>f
    <2>2. QED
      BY <1>5, <1>8, <1>w, <2>1, AnsweredProgress
  <1>9. QED
    BY <1>4, <1>6, <1>7, <1>8, <1>h

(* A command that is killed fails the verb, or keeps it waiting.           *)
LEMMA CutCommandProgress ==
  ASSUME NEW c \in Callers, Ready(c), CutCommand(c)
  PROVE  Progress(c)
  <1>1. /\ Typed(world) /\ at[c] = "unanswered"
        /\ FaultState(Call(c), "unanswered", mem[c], world, touched[c])
    BY DEF Ready, CutCommand
  <1>2. Call(c).verb \notin OnProxy
    BY <1>1 DEF FaultState, VerbAt, OnProxy, Toxics, NetFaults, Composed, OnBoxes
  <1>3. Legal(c, world) /\ Carried(c, world) /\ Freed(c)
    BY <1>1, <1>2, WithinSelf DEF Legal, CutCommand, Carried, faultVars, Freed, OnProxy
  <1>4. CASE Fails(c)
    BY <1>3, <1>4, FailsProgress
  <1>5. CASE Goto(c, "held", Never, mem[c])
    BY <1>3, <1>5, HungProgress
  <1>6. QED
    BY <1>4, <1>5 DEF CutCommand

(* docker, command by command.                                             *)
Box == [state : BoxStates, joined : BOOLEAN, capped : BOOLEAN]

LEMMA BoxSet ==
  ASSUME NEW box \in Box
  PROVE  /\ \A s \in BoxStates : [box EXCEPT !.state = s] \in Box /\ [box EXCEPT !.state = s].state = s
         /\ \A j \in BOOLEAN : /\ [box EXCEPT !.joined = j] \in Box
                               /\ [box EXCEPT !.joined = j].joined = j
         /\ \A k \in BOOLEAN : /\ [box EXCEPT !.capped = k] \in Box
                               /\ [box EXCEPT !.capped = k].capped = k
  BY DEF Box

LEMMA AfterBox ==
  ASSUME NEW verb \in Composed, NEW box \in Box
  PROVE  /\ After(verb, box) \in Box
         /\ verb = "down" \/ box.state # "absent" => After(verb, box).state = States[verb]
  <1>1. /\ {"running", "paused", "exited", "absent"} \subseteq BoxStates
        /\ Fresh \in Box /\ Fresh.state = "running"
    BY DEF BoxStates, Fresh, Box
  <1>2. /\ States["up"] = "running" /\ States["down"] = "absent" /\ States["kill"] = "exited"
        /\ States["stop"] = "exited" /\ States["start"] = "running" /\ States["restart"] = "running"
        /\ States["pause"] = "paused" /\ States["unpause"] = "running"
    BY DEF States
  <1>3. \A s \in BoxStates : [box EXCEPT !.state = s] \in Box /\ [box EXCEPT !.state = s].state = s
    BY BoxSet
  <1>4. \A s \in BoxStates : [Fresh EXCEPT !.state = s] \in Box /\ [Fresh EXCEPT !.state = s].state = s
    BY <1>1, BoxSet
  <1> DEFINE Set(b, s) == [b EXCEPT !.state = s]
  <1>5. After(verb, box) =
          CASE verb \in {"kill", "stop"} -> IF box.state = "absent" THEN box ELSE Set(box, "exited")
            [] verb \in {"start", "restart"} ->
                 IF box.state = "absent" THEN box ELSE Set(box, "running")
            [] verb = "up" -> IF box.state = "absent" THEN Fresh ELSE Set(box, "running")
            [] verb = "down" -> Set(Fresh, "absent")
            [] verb = "pause" -> Set(box, "paused")
            [] verb = "unpause" -> Set(box, "running")
    BY Zenon DEF After
  <1>6. /\ \A s \in BoxStates : Set(box, s) \in Box /\ Set(box, s).state = s
        /\ \A s \in BoxStates : Set(Fresh, s) \in Box /\ Set(Fresh, s).state = s
    BY <1>3, <1>4
  <1> HIDE DEF Set
  <1>7. QED
    BY <1>1, <1>2, <1>5, <1>6 DEF Composed

LEMMA ReachedAreBoxes ==
  ASSUME NEW c \in Callers, Ready(c), Call(c).verb \in Composed \cup OnBoxes
  PROVE  /\ Reached(Call(c)) \subseteq Boxes
         /\ Call(c).verb # "down" => Range(Containers(Call(c).on)) \subseteq Boxes
         /\ Call(c).verb \in OnBoxes => Containers(Call(c).on) \in Seq(Boxes)
  <1>1. Call(c).verb # "down" => Call(c).on \in Services
    BY DEF Ready, FaultTyped, Composed, OnBoxes
  <1>2. Call(c).verb # "down" => Range(Containers(Call(c).on)) \subseteq Boxes
    BY <1>1 DEF Boxes
  <1>3. QED
    BY <1>1, <1>2, FaultsAssumption DEF Reached, OnBoxes

LEMMA ComposeProgress ==
  ASSUME NEW c \in Callers, Ready(c), Compose(c)
  PROVE  Progress(c)
  <1> DEFINE call == Call(c)
             m == mem[c]
             t == touched[c]
             v == call.verb
             bs == Reached(call)
             boxes == [b \in Boxes |-> IF b \in bs THEN After(v, world.boxes[b]) ELSE world.boxes[b]]
             a == [world EXCEPT !.boxes = boxes]
  <1>1. Typed(world) /\ at[c] = "compose" /\ FaultState(call, "compose", m, world, t)
    BY DEF Ready, Compose
  <1>2. v \in Composed /\ v \notin OnProxy /\ SameStates(m.before, world, t)
    BY <1>1 DEF FaultState, VerbAt, OnProxy, Toxics, Composed
  <1>3. bs \subseteq Boxes /\ world.boxes \in [Boxes -> Box]
    BY <1>1, <1>2, ReachedAreBoxes DEF Typed, Box
  <1>4. ASSUME NEW b \in Boxes
        PROVE  /\ boxes[b] \in Box
               /\ b \in bs /\ (v = "down" \/ world.boxes[b].state # "absent") => boxes[b].state = States[v]
    <2>1. world.boxes[b] \in Box
      BY <1>3
    <2>2. boxes[b] = IF b \in bs THEN After(v, world.boxes[b]) ELSE world.boxes[b]
      OBVIOUS
    <2> HIDE DEF boxes, bs, v
    <2>3. QED
      BY <1>2, <2>1, <2>2, AfterBox
  <1>5. boxes \in [Boxes -> Box]
    <2>1. boxes = [b \in Boxes |-> boxes[b]]
      OBVIOUS
    <2> HIDE DEF boxes
    <2>2. QED
      BY <1>4, <2>1
  <1>6. Legal(c, a) /\ a.boxes = boxes
    <2>1. \A b \in Boxes : b \in bs \/ boxes[b] = world.boxes[b]
      OBVIOUS
    <2> HIDE DEF boxes, bs
    <2>2. Typed(a) /\ a.boxes = boxes /\ Within(world, a, bs)
      BY <1>1, <1>5, <2>1, BoxesSet DEF Box
    <2>3. Named(call) = bs
      BY <1>2, NamedOf DEF bs
    <2> HIDE DEF a
    <2>4. QED
      BY <2>2, <2>3 DEF Legal
  <1>7. /\ Carried(c, a)
        /\ \/ Fails(c) \/ Goto(c, "unanswered", Deadline(c), m)
           \/ world' = a /\ Answered(c)
    BY DEF Compose, Command, Attempt, Hangs, Carry, Carried, faultVars, Of, Reached
  <1>8. Freed(c)
    BY <1>2 DEF Freed, Composed
  <1> HIDE DEF a, boxes
  <1>9. CASE Fails(c)
    BY <1>6, <1>7, <1>8, <1>9, FailsProgress
  <1>10. CASE world' = a /\ Answered(c)
    <2>1. ASSUME NEW b \in bs, m.before.boxes[b].state # "absent"
          PROVE  world'.boxes[b].state = States[v] \/ <<"state", b>> \in t
      <3>1. world.boxes[b].state = m.before.boxes[b].state \/ <<"state", b>> \in t
        BY <1>2, <1>3, <2>1 DEF SameStates
      <3>2. QED
        BY <1>3, <1>4, <1>6, <1>10, <2>1, <3>1
    <2>2. InForce(call, m.before, world', t)
      <3> HIDE DEF bs
      <3>1. \A b \in bs : m.before.boxes[b].state # "absent" =>
              world'.boxes[b].state = States[v] \/ <<"state", b>> \in t
        BY <2>1
      <3>2. QED
        BY <1>2, <3>1 DEF InForce, Toxics, NetFaults, Composed, bs
    <2>3. QED
      BY <1>6, <1>7, <1>8, <1>10, <2>2, AnsweredProgress
  <1>h. CASE Goto(c, "unanswered", Deadline(c), m)
    BY <1>2, <1>6, <1>7, <1>h, HungProgress
  <1>11. QED
    BY <1>7, <1>9, <1>10, <1>h

LEMMA ContainerIDsProgress ==
  ASSUME NEW c \in Callers, Ready(c), containerIDs(c)
  PROVE  Progress(c)
  <1> DEFINE call == Call(c)
             m == mem[c]
             t == touched[c]
             v == call.verb
             ids == Listed(Containers(call.on))
             p == IF v \in {"throttle", "unthrottle"} THEN "updateCPUs" ELSE "networkToggle"
             m2 == [m EXCEPT !.todo = ids]
  <1>1. Typed(world) /\ at[c] = "ps" /\ FaultState(call, "ps", m, world, t)
    BY DEF Ready, containerIDs
  <1>2. /\ v \in OnBoxes /\ v \notin OnProxy /\ SameStates(m.before, world, t)
        /\ m = [todo |-> m.todo, failed |-> m.failed, before |-> m.before]
    BY <1>1 DEF FaultState, VerbAt, OnProxy, OnBoxes, Toxics
  <1>3. Containers(call.on) \in Seq(Boxes) /\ Range(Containers(call.on)) \subseteq Boxes
    BY <1>2, ReachedAreBoxes DEF OnBoxes
  <1>4. ids \in Seq(Boxes) /\ Range(ids) = {b \in Range(Containers(call.on)) : Up(b)}
    BY <1>3, ListedAreUp
  <1>w. Legal(c, world)
    BY <1>1, WithinSelf DEF Legal
  <1>5. /\ Carried(c, world)
        /\ \/ Fails(c) \/ Goto(c, "unanswered", Deadline(c), m)
           \/ ids # <<>> /\ world' = world /\ Goto(c, p, 0, m2)
    BY Zenon DEF containerIDs, Command, Attempt, Hangs, Carry, Carried, faultVars
  <1>6. Freed(c)
    BY <1>2 DEF Freed, OnBoxes
  <1>7. m2 = [todo |-> ids, failed |-> m.failed, before |-> m.before]
    <2> HIDE DEF m, ids
    <2>1. QED
      BY <1>2, InHand
  <1>8. \A b \in Range(Containers(call.on)) :
          WasUp(m.before, b) => b \in Range(ids) \/ <<"state", b>> \in t
    <2> HIDE DEF ids
    <2>1. QED
      BY <1>2, <1>3, <1>4 DEF SameStates, WasUp, Up
  <1> HIDE DEF m2
  <1>9. CASE Fails(c)
    BY <1>w, <1>5, <1>6, <1>9, FailsProgress
  <1>h. CASE Goto(c, "unanswered", Deadline(c), m)
    BY <1>2, <1>5, <1>w, <1>h, HungProgress
  <1>10. CASE ids # <<>> /\ world' = world /\ Goto(c, p, 0, m2)
    <2>1. m2.todo = ids /\ m2.failed = m.failed /\ m2.before = m.before
      BY <1>7
    <2>2. /\ Found(call, m.before, t, ids) /\ Toggled(call, m.before, world, t, ids)
          /\ Range(ids) \subseteq Range(Containers(call.on))
      BY <1>4, <1>8 DEF Found, Toggled
    <2> HIDE DEF ids
    <2>3. FaultState(call, p, m2, world', t)
      <3>1. CASE v \in {"throttle", "unthrottle"}
        BY <1>7, <1>10, <2>1, <2>2, <3>1 DEF FaultState, VerbAt
      <3>2. CASE v \in {"connect", "disconnect"}
        BY <1>4, <1>7, <1>10, <2>1, <2>2, <3>2 DEF FaultState, VerbAt
      <3>3. QED
        BY <1>2, <3>1, <3>2 DEF OnBoxes
    <2>4. p # "idle"
      OBVIOUS
    <2> HIDE DEF p
    <2>5. QED
      BY <1>w, <1>5, <1>10, <2>3, <2>4, GotoProgress
  <1>11. QED
    BY <1>5, <1>9, <1>10, <1>h

LEMMA NetworkToggleProgress ==
  ASSUME NEW c \in Callers, Ready(c), networkToggle(c)
  PROVE  Progress(c)
  <1> DEFINE call == Call(c)
             m == mem[c]
             t == touched[c]
             b == Head(m.todo)
             rest == Tail(m.todo)
             on == call.verb = "connect"
             box == [world.boxes[b] EXCEPT !.joined = on]
             boxes == [world.boxes EXCEPT ![b] = box]
             a == [world EXCEPT !.boxes = boxes]
             m2 == [m EXCEPT !.todo = rest]
  <1>1. Typed(world) /\ at[c] = "networkToggle" /\ FaultState(call, "networkToggle", m, world, t)
    BY DEF Ready, networkToggle
  <1>2. /\ call.verb \in {"connect", "disconnect"} /\ call.verb \notin OnProxy
        /\ m.todo \in Seq(Boxes) /\ m.todo # <<>> /\ Toggled(call, m.before, world, t, m.todo)
        /\ Range(m.todo) \subseteq Range(Containers(call.on))
        /\ m = [todo |-> m.todo, failed |-> m.failed, before |-> m.before]
    BY <1>1 DEF FaultState, VerbAt, OnProxy, Toxics
  <1>3. /\ b \in Boxes /\ rest \in Seq(Boxes) /\ Range(m.todo) = {b} \cup Range(rest)
        /\ Len(m.todo) = 1 <=> rest = <<>>
    BY <1>2, TodoRest
  <1>4. world.boxes \in [Boxes -> Box] /\ Range(Containers(call.on)) \subseteq Boxes
    BY <1>1, <1>2, ReachedAreBoxes DEF Typed, Box, OnBoxes
  <1>5. box \in Box /\ box.joined = on
    <2>1. world.boxes[b] \in Box /\ on \in BOOLEAN
      BY <1>3, <1>4
    <2> HIDE DEF on, b
    <2>2. QED
      BY <2>1, BoxSet
  <1>6. boxes \in [Boxes -> Box] /\ boxes[b].joined = on
        /\ \A d \in Boxes : d # b => boxes[d] = world.boxes[d]
    <2> HIDE DEF on, b, box
    <2>1. QED
      BY <1>3, <1>4, <1>5
  <1>7. Legal(c, a) /\ a.boxes = boxes
    <2> DEFINE S == Reached(call)
    <2>1. Named(call) = S /\ b \in S
      BY <1>2, <1>3, NamedOf DEF Reached, OnBoxes
    <2>2. \A d \in Boxes : d \in S \/ boxes[d] = world.boxes[d]
      BY <1>6, <2>1
    <2> HIDE DEF boxes, S
    <2>3. Typed(a) /\ a.boxes = boxes /\ Within(world, a, S)
      BY <1>1, <1>6, <2>2, BoxesSet DEF Box
    <2> HIDE DEF a
    <2>4. QED
      BY <2>1, <2>3 DEF Legal
  <1>8. [world EXCEPT !.boxes[b].joined = on] = a
    OBVIOUS
  <1>9. /\ Carried(c, a)
        /\ \/ Fails(c) \/ Goto(c, "unanswered", Deadline(c), m)
           \/ world' = a /\ IF Len(m.todo) = 1 THEN Answered(c) ELSE Goto(c, "networkToggle", 0, m2)
    <2> HIDE DEF a
    <2>1. QED
      BY <1>8 DEF networkToggle, Command, Attempt, Hangs, Carry, Carried, faultVars, Todo, Rest
  <1>10. Freed(c)
    BY <1>2 DEF Freed
  <1>11. Toggled(call, m.before, a, t, rest)
    <2> HIDE DEF a, boxes
    <2>1. QED
      BY <1>2, <1>3, <1>4, <1>6, <1>7 DEF Toggled
  <1>12. m2 = [todo |-> rest, failed |-> m.failed, before |-> m.before]
    <2> HIDE DEF m, rest
    <2>1. QED
      BY <1>2, InHand
  <1> HIDE DEF a, m2
  <1>13. CASE Fails(c)
    BY <1>7, <1>9, <1>10, <1>13, FailsProgress
  <1>14. CASE world' = a /\ Len(m.todo) = 1 /\ Answered(c)
    <2>1. Toggled(call, m.before, world', t, <<>>)
      BY <1>3, <1>11, <1>14
    <2>2. InForce(call, m.before, world', t)
      BY <1>2, <2>1 DEF InForce, Toxics, NetFaults, Composed
    <2>3. QED
      BY <1>7, <1>9, <1>10, <1>14, <2>2, AnsweredProgress
  <1>15. CASE world' = a /\ Len(m.todo) # 1 /\ Goto(c, "networkToggle", 0, m2)
    <2>1. m2.todo = rest /\ m2.failed = m.failed /\ m2.before = m.before
      BY <1>12
    <2>2. FaultState(call, "networkToggle", m2, world', t)
      <3> HIDE DEF on, b, rest
      <3>1. QED
        BY <1>2, <1>3, <1>11, <1>12, <1>15, <2>1 DEF FaultState, VerbAt
    <2>3. QED
      BY <1>7, <1>9, <1>15, <2>2, GotoProgress
  <1>h. CASE Goto(c, "unanswered", Deadline(c), m)
    BY <1>2, <1>7, <1>9, <1>h, HungProgress
  <1>16. QED
    BY <1>9, <1>13, <1>14, <1>15, <1>h

LEMMA UpdateCPUsProgress ==
  ASSUME NEW c \in Callers, Ready(c), updateCPUs(c)
  PROVE  Progress(c)
  <1> DEFINE call == Call(c)
             m == mem[c]
             t == touched[c]
             on == call.verb = "throttle"
             boxes == [b \in Boxes |-> IF b \in Range(m.todo)
                                       THEN [world.boxes[b] EXCEPT !.capped = on] ELSE world.boxes[b]]
             a == [world EXCEPT !.boxes = boxes]
  <1>1. Typed(world) /\ at[c] = "updateCPUs" /\ FaultState(call, "updateCPUs", m, world, t)
    BY DEF Ready, updateCPUs
  <1>2. /\ call.verb \in {"throttle", "unthrottle"} /\ call.verb \notin OnProxy
        /\ Found(call, m.before, t, m.todo) /\ Range(m.todo) \subseteq Range(Containers(call.on))
    BY <1>1 DEF FaultState, VerbAt, OnProxy, Toxics
  <1>3. world.boxes \in [Boxes -> Box] /\ Range(Containers(call.on)) \subseteq Boxes
    BY <1>1, <1>2, ReachedAreBoxes DEF Typed, Box, OnBoxes
  <1>4. ASSUME NEW b \in Boxes
        PROVE  boxes[b] \in Box /\ (b \in Range(m.todo) => boxes[b].capped = on)
    <2>1. world.boxes[b] \in Box /\ on \in BOOLEAN
      BY <1>3
    <2>2. boxes[b] = IF b \in Range(m.todo) THEN [world.boxes[b] EXCEPT !.capped = on] ELSE world.boxes[b]
      OBVIOUS
    <2>3. [world.boxes[b] EXCEPT !.capped = on] \in Box /\ [world.boxes[b] EXCEPT !.capped = on].capped = on
      <3> HIDE DEF on
      <3>1. QED
        BY <2>1, BoxSet
    <2> HIDE DEF boxes, on
    <2>4. QED
      BY <2>1, <2>2, <2>3
  <1>5. boxes \in [Boxes -> Box]
    <2>1. boxes = [b \in Boxes |-> boxes[b]]
      OBVIOUS
    <2> HIDE DEF boxes
    <2>2. QED
      BY <1>4, <2>1
  <1>6. Legal(c, a) /\ a.boxes = boxes
    <2> DEFINE S == Reached(call)
    <2>1. Named(call) = S /\ S = Range(Containers(call.on))
      BY <1>2, NamedOf DEF Reached, OnBoxes
    <2>2. \A d \in Boxes : d \in S \/ boxes[d] = world.boxes[d]
      BY <1>2, <2>1
    <2> HIDE DEF boxes, S
    <2>3. Typed(a) /\ a.boxes = boxes /\ Within(world, a, S)
      BY <1>1, <1>5, <2>2, BoxesSet DEF Box
    <2> HIDE DEF a
    <2>4. QED
      BY <2>1, <2>3 DEF Legal
  <1>7. /\ Carried(c, a)
        /\ \/ Fails(c) \/ Goto(c, "unanswered", Deadline(c), m)
           \/ world' = a /\ Answered(c)
    BY DEF updateCPUs, Command, Attempt, Hangs, Carry, Carried, faultVars, Todo
  <1>h. CASE Goto(c, "unanswered", Deadline(c), m)
    BY <1>2, <1>6, <1>7, <1>h, HungProgress
  <1>8. Freed(c)
    BY <1>2 DEF Freed
  <1> HIDE DEF a, boxes
  <1>9. CASE Fails(c)
    BY <1>6, <1>7, <1>8, <1>9, FailsProgress
  <1>10. CASE world' = a /\ Answered(c)
    <2>1. \A b \in Range(Containers(call.on)) : WasUp(m.before, b) =>
            world'.boxes[b].capped = on \/ <<"state", b>> \in t
      BY <1>2, <1>3, <1>4, <1>6, <1>10 DEF Found
    <2>2. InForce(call, m.before, world', t)
      BY <1>2, <2>1 DEF InForce, Toxics, NetFaults, Composed
    <2>3. QED
      BY <1>6, <1>7, <1>8, <1>10, <2>2, AnsweredProgress
  <1>11. QED
    BY <1>7, <1>9, <1>10, <1>h

(* A fault's step, once it has begun.                                      *)
LEMMA FaultProgress ==
  ASSUME OneFilePerHost, NEW c \in Callers, Ready(c), FaultStep(c)
  PROVE  Progress(c)
  <1>1. at[c] # "idle"
    BY DEF Ready
  <1>2. ~BeginToxi(c) /\ ~BeginNet(c) /\ ~BeginDocker(c)
    BY <1>1 DEF BeginToxi, BeginNet, BeginDocker, BeginFault, Idle
  <1>3. CASE ToxiStep(c)
    BY <1>2, <1>3, GetProxyProgress, AddToxicProgress, DisableProgress, ListToxicsProgress,
       RemoveToxicProgress, RemovedProgress, EnableProgress, NotEnabledProgress, ResetStateProgress
       DEF ToxiStep
  <1>4. CASE NetStep(c)
    BY <1>2, <1>4, WriteConfProgress, RemoveConfProgress, ConfRemovedProgress, ReloadProgress
       DEF NetStep
  <1>5. CASE DockerStep(c)
    BY <1>2, <1>5, ComposeProgress, ContainerIDsProgress, NetworkToggleProgress, UpdateCPUsProgress
       DEF DockerStep
  <1>6. QED
    BY <1>3, <1>4, <1>5, CutCommandProgress DEF FaultStep

(* How a fault begins.                                                     *)
Starts(c) ==
  /\ at'[c] # "idle" /\ script'[c] = script[c] /\ world' = world
  /\ touched' = [touched EXCEPT ![c] = {}]
  /\ Call(c).kind = "fault" /\ FaultState(Call(c), at'[c], mem'[c], world, {})

LEMMA FaultBegins ==
  ASSUME NEW c \in Callers, ControlInv, Typed(world), FaultStep(c), at[c] = "idle"
  PROVE  Starts(c)
  <1>1. FramesInv
    BY DEF ControlInv
  <1> DEFINE call == Call(c)
             B(verbs, p, todo) ==
               /\ call.kind = "fault" /\ call.verb \in verbs
               /\ at'[c] = p /\ script'[c] = script[c] /\ world' = world
               /\ touched' = [touched EXCEPT ![c] = {}]
               /\ mem'[c] = [todo |-> todo, failed |-> {}, before |-> world]
  <1>2. ASSUME NEW verbs, NEW p, NEW todo, BeginFault(c, verbs, p, todo)
        PROVE  B(verbs, p, todo)
    BY <1>1, <1>2 DEF BeginFault, Begin, FramesInv
  <1>3. \A todo : LET m == [todo |-> todo, failed |-> {}, before |-> world]
                  IN m.todo = todo /\ m.failed = {} /\ m.before = world
    OBVIOUS
  <1> HIDE DEF B
  <1>4. ASSUME NEW verbs, NEW p, B(verbs, p, <<>>), p \in {"proxy", "resetState", "writeConf", "compose", "ps"},
               \A v \in verbs : VerbAt(v, p)
        PROVE  Starts(c)
    <2> DEFINE m == [todo |-> <<>>, failed |-> {}, before |-> world]
    <2>1. m.todo = <<>> /\ m.failed = {} /\ m.before = world
          /\ m = [todo |-> m.todo, failed |-> m.failed, before |-> m.before]
      OBVIOUS
    <2>2. /\ call.kind = "fault" /\ call.verb \in verbs /\ at'[c] = p /\ script'[c] = script[c]
          /\ world' = world /\ touched' = [touched EXCEPT ![c] = {}] /\ mem'[c] = m
      BY <1>4 DEF B
    <2> HIDE DEF m
    <2>3. SameStates(m.before, world, {})
      BY <2>1 DEF SameStates
    <2>4. FaultState(call, p, m, world, {})
      BY <1>4, <2>1, <2>2, <2>3 DEF FaultState
    <2>5. QED
      BY <1>4, <2>2, <2>4 DEF Starts
  <1>5. ASSUME NEW v, NEW todo \in Seq(Files), v \in {"net.clear", "net.reset"},
               B({v}, "removeConf", todo), Range(todo) \subseteq SnippetsOf(call),
               Unwritten(call, world, {}, todo)
        PROVE  Starts(c)
    <2> DEFINE m == [todo |-> todo, failed |-> {}, before |-> world]
    <2>1. m.todo = todo /\ m.failed = {} /\ m.before = world
          /\ m = [todo |-> m.todo, failed |-> m.failed, before |-> m.before]
      OBVIOUS
    <2>2. /\ call.kind = "fault" /\ call.verb = v /\ at'[c] = "removeConf" /\ script'[c] = script[c]
          /\ world' = world /\ touched' = [touched EXCEPT ![c] = {}] /\ mem'[c] = m
      BY <1>5 DEF B
    <2> HIDE DEF m
    <2>3. FaultState(call, "removeConf", m, world, {})
      BY <1>5, <2>1, <2>2 DEF FaultState, VerbAt
    <2>4. QED
      BY <2>2, <2>3 DEF Starts
  <1>6. CASE BeginToxi(c)
    <2>1. B(OnProxy, "proxy", <<>>) \/ B({"toxiproxy.reset"}, "resetState", <<>>)
      BY <1>2, <1>6 DEF BeginToxi
    <2>2. (\A v \in OnProxy : VerbAt(v, "proxy")) /\ VerbAt("toxiproxy.reset", "resetState")
      BY DEF VerbAt
    <2>3. QED
      BY <1>4, <2>1, <2>2
  <1>7. CASE BeginNet(c)
    <2> DEFINE written == {f \in Files : world.files[f] # {}}
    <2>1. \/ B(NetFaults, "writeConf", <<>>)
          \/ B({"net.clear"}, "removeConf", <<confFile(call.on)>>)
          \/ B({"net.reset"}, "removeConf", SetToSeq(written))
      BY <1>2, <1>7 DEF BeginNet, file
    <2>2. CASE B(NetFaults, "writeConf", <<>>)
      <3>1. \A v \in NetFaults : VerbAt(v, "writeConf")
        BY DEF VerbAt
      <3>2. QED
        BY <1>4, <2>2, <3>1
    <2>3. CASE B({"net.clear"}, "removeConf", <<confFile(call.on)>>)
      <3>1. call.verb = "net.clear" /\ call.kind = "fault" /\ script[c] # <<>>
        BY <2>3, <1>7 DEF B, BeginNet, BeginFault, Idle
      <3>2. confFile(call.on) \in Files
        BY <1>1, <3>1, CallType, FaultsAssumption DEF Files
      <3> DEFINE f == confFile(call.on)
      <3>3. <<f>> \in Seq(Files) /\ Range(<<f>>) = {f}
        BY <3>2 DEF Range
      <3>h. HostsOf(call) = {call.on}
        BY <3>1 DEF HostsOf
      <3>4. Unwritten(call, world, {}, <<f>>) /\ Range(<<f>>) \subseteq SnippetsOf(call)
        BY <3>3, <3>h DEF Unwritten, SnippetsOf
      <3> HIDE DEF f
      <3>5. QED
        BY <1>5, <2>3, <3>3, <3>4 DEF f
    <2>4. CASE B({"net.reset"}, "removeConf", SetToSeq(written))
      <3>1. call.verb = "net.reset"
        BY <2>4 DEF B
      <3>2. IsFiniteSet(written)
        BY FaultsAssumption, FS_Subset
      <3> DEFINE todo == SetToSeq(written)
      <3>3. todo \in Seq(written) /\ Range(todo) = written
        BY <3>2, SetToSeqRange
      <3>4. todo \in Seq(Files)
        BY <3>3, SeqMonotonic
      <3> HIDE DEF todo
      <3>h. HostsOf(call) = Hosts /\ SnippetsOf(call) = Files
        BY <3>1 DEF HostsOf, SnippetsOf, Files
      <3>5. Unwritten(call, world, {}, todo)
        <4>1. ASSUME NEW h \in Hosts PROVE confFile(h) \in Range(todo) \/ Names(world.files, h) = {}
          <5>1. confFile(h) \in written \/ world.files[confFile(h)] = {}
            BY DEF Files
          <5>2. QED
            BY <3>3, <5>1, NamesOf
        <4>2. QED
          BY <3>h, <4>1 DEF Unwritten
      <3>6. Range(todo) \subseteq SnippetsOf(call)
        BY <3>3, <3>h
      <3>7. QED
        BY <1>5, <2>4, <3>4, <3>5, <3>6 DEF todo
    <2>5. QED
      BY <2>1, <2>2, <2>3, <2>4
  <1>8. CASE BeginDocker(c)
    <2>1. B(Composed, "compose", <<>>) \/ B(OnBoxes, "ps", <<>>)
      BY <1>2, <1>8 DEF BeginDocker
    <2>2. (\A v \in Composed : VerbAt(v, "compose")) /\ (\A v \in OnBoxes : VerbAt(v, "ps"))
      BY DEF VerbAt
    <2>3. QED
      BY <1>4, <2>1, <2>2
  <1>9. BeginToxi(c) \/ BeginNet(c) \/ BeginDocker(c)
    BY DEF FaultStep, ToxiStep, NetStep, DockerStep, GetProxy, AddToxic, Disable, ListToxics,
           RemoveToxic, Removed, Enable, NotEnabled, ResetState, WriteConf, RemoveConf, ConfRemoved,
           Reload, Compose, containerIDs, networkToggle, updateCPUs, CutCommand
  <1>10. QED
    BY <1>6, <1>7, <1>8, <1>9

-----------------------------------------------------------------------------

FaultInv(c) ==
  at[c] # "idle" /\ Call(c).kind = "fault" =>
    FaultState(Call(c), at[c], mem[c], world, touched[c])

(* The faults' invariant.                                                  *)
FaultsInv ==
  /\ ControlInv
  /\ Typed(world) /\ touched = [d \in Callers |-> touched[d]]
  /\ \A c \in Callers : FaultInv(c)

LEMMA OnlyFaults ==
  ASSUME ControlInv, NEW c \in Callers, Step(c)
  PROVE  /\ Call(c).kind = "fault" => FaultStep(c)
         /\ Call(c).kind # "fault" => UNCHANGED faultVars
  <1>1. CallInv(c)
    BY DEF ControlInv
  <1>p. at[c] \in {"window", "waits", "spans", "assert"} => Call(c).kind # "fault"
    BY <1>1 DEF CallInv, PointOf, FaultPoints, Spans
  <1>2. PollStep(c) => Call(c).kind # "fault"
    <2>1. Refuse(c) => Call(c).kind # "fault"
      BY DEF Refuse, Unbuilt
    <2>2. BeginWait(c) \/ Poll(c) \/ Inspect(c) \/ GiveUp(c) \/ PollAgain(c) => Call(c).kind # "fault"
      BY DEF BeginWait, Poll, Inspect, GiveUp, PollAgain
    <2>3. BeginSample(c) \/ SampleSlept(c) \/ SampleCut(c) \/ SendSample(c) \/ CountSample(c)
            => Call(c).kind # "fault"
      BY DEF BeginSample, SampleSlept, SampleCut, SendSample, CountSample
    <2>4. NextSample(c) \/ Sleeps(c) \/ SpanEnds(c) \/ EndAssert(c) => Call(c).kind # "fault"
      BY <1>p DEF NextSample, Sleeps, SpanEnds, EndAssert
    <2>5. BeginSpan(c) \/ BeginAssert(c) => Call(c).kind # "fault"
      BY DEF BeginSpan, BeginAssert, Begin, Spans
    <2>6. QED
      BY <2>1, <2>2, <2>3, <2>4, <2>5 DEF PollStep
  <1>3. RequestStep(c) => Call(c).kind # "fault"
    BY RequestMoves
  <1>4. ExecStep(c) => Call(c).kind # "fault"
    BY ExecMoves DEF Goes
  <1>5. FaultStep(c) => Call(c).kind = "fault"
    BY FaultMoves DEF Goes
  <1>6. QED
    BY <1>2, <1>3, <1>4, <1>5 DEF Step

LEMMA ReadyInside ==
  ASSUME FaultsInv, NEW c \in Callers, at[c] # "idle", Call(c).kind = "fault"
  PROVE  Ready(c)
  <1>1. FramesInv /\ CallInv(c) /\ FaultInv(c)
    BY DEF FaultsInv, ControlInv
  <1>2. Call(c) \in AllCalls
    BY <1>1, CallType DEF CallInv
  <1>3. FaultTyped(Call(c))
    BY <1>2, FaultsAssumption DEF FaultTyped
  <1>4. QED
    BY <1>1, <1>3 DEF Ready, FaultsInv, FaultInv

(* What a fault's step leaves of the systems, and of what the others know. *)
LEMMA FaultWorld ==
  ASSUME OneFilePerHost, FaultsInv, NEW c \in Callers, FaultStep(c)
  PROVE  /\ Typed(world)' /\ touched' = [d \in Callers |-> touched'[d]]
         /\ \A d \in Callers : d # c => Follows(world, touched[d], world', touched'[d])
  <1>1. Typed(world) /\ touched = [d \in Callers |-> touched[d]] /\ ControlInv
    BY DEF FaultsInv
  <1>2. CASE at[c] = "idle"
    <2>1. world' = world /\ touched' = [touched EXCEPT ![c] = {}]
      BY <1>1, <1>2, FaultBegins DEF Starts
    <2>2. Typed(world)' <=> Typed(world)
      BY <2>1 DEF Typed
    <2>3. touched' = [d \in Callers |-> touched'[d]] /\ \A d \in Callers : d # c => touched'[d] = touched[d]
      BY <1>1, <2>1
    <2>4. QED
      BY <1>1, <2>1, <2>2, <2>3 DEF Follows
  <1>3. CASE at[c] # "idle"
    <2>1. Call(c).kind = "fault"
      BY <1>1, FaultMoves DEF Goes
    <2>2. Progress(c)
      BY <1>3, <2>1, ReadyInside, FaultProgress
    <2>3. PICK after : Legal(c, after) /\ Carried(c, after)
      BY <2>2 DEF Progress
    <2>4. /\ touched' = [d \in Callers |-> touched'[d]]
          /\ \A d \in Callers : d # c => Follows(world, touched[d], world', touched'[d])
      BY <1>1, <2>3, CarriedFollows
    <2>5. Typed(world')
      BY <1>1, <2>3 DEF Legal, Carried, Carry
    <2>6. Typed(world)' <=> Typed(world')
      BY DEF Typed
    <2>7. QED
      BY <2>4, <2>5, <2>6
  <1>4. QED
    BY <1>2, <1>3

LEMMA FaultsBegin == Init => FaultsInv
  <1> SUFFICES ASSUME Init PROVE FaultsInv
    OBVIOUS
  <1> DEFINE X == Toxics \X Streams
             e == [p \in Proxies |-> TRUE]
             x == [p \in Proxies |-> {}]
             b == [d \in Boxes |-> Fresh]
             f == [g \in Files |-> {}]
             w == [enabled |-> e, toxics |-> x, boxes |-> b, files |-> f, served |-> f]
  <1>1. world = w
    BY DEF Init, FaultsInit
  <1>2. e \in [Proxies -> BOOLEAN] /\ x \in [Proxies -> SUBSET X] /\ f = [g \in Files |-> f[g]]
    OBVIOUS
  <1>3. b \in [Boxes -> [state : BoxStates, joined : BOOLEAN, capped : BOOLEAN]]
    BY DEF Fresh, BoxStates
  <1> HIDE DEF e, x, b, f
  <1>4. /\ w.enabled = e /\ w.toxics = x /\ w.boxes = b /\ w.files = f /\ w.served = f
        /\ w = [enabled |-> w.enabled, toxics |-> w.toxics, boxes |-> w.boxes, files |-> w.files,
                served |-> w.served]
    OBVIOUS
  <1> HIDE DEF w
  <1>5. Typed(w)
    BY <1>2, <1>3, <1>4 DEF Typed
  <1>6. touched = [d \in Callers |-> touched[d]] /\ \A c \in Callers : at[c] = "idle"
    BY DEF Init, FaultsInit, CallsInit
  <1>7. QED
    BY <1>1, <1>5, <1>6, ControlInit DEF FaultsInv, FaultInv

(* What a caller's own step does to its fault.                             *)
LEMMA FaultOwnStep ==
  ASSUME OneFilePerHost, FaultsInv, NEW c \in Callers, Step(c)
  PROVE  /\ FaultInv(c)'
         /\ Fault(c) => GoesOn(c) \/ Ends(c)
  <1>1. ControlInv /\ FramesInv /\ touched = [d \in Callers |-> touched[d]] /\ Typed(world)
    BY DEF FaultsInv, ControlInv
  <1>2. script[c] # <<>> /\ (Leaves(c) \/ \E p : Enters(c, p))
    BY <1>1, Moves
  <1>3. script'[c] = script[c] => Call(c)' = Call(c)
    BY DEF Call
  <1>4. CASE Call(c).kind # "fault"
    <2>1. at'[c] = "idle" \/ script'[c] = script[c]
      BY <1>1, <1>2 DEF Leaves, Enters, FramesInv
    <2>2. QED
      BY <1>3, <1>4, <2>1 DEF FaultInv, Fault
  <1>5. CASE Call(c).kind = "fault" /\ at[c] = "idle"
    <2>1. Starts(c)
      BY <1>1, <1>5, OnlyFaults, FaultBegins
    <2>2. touched'[c] = {}
      BY <1>1, <2>1 DEF Starts
    <2>3. FaultState(Call(c)', at'[c], mem'[c], world', touched'[c])
      BY <1>3, <2>1, <2>2 DEF Starts
    <2>4. FaultInv(c)' <=> (at'[c] # "idle" /\ Call(c)'.kind = "fault" =>
                              FaultState(Call(c)', at'[c], mem'[c], world', touched'[c]))
      BY DEF FaultInv, FaultState, Placed, Cleared, Unwritten, Written, SameStates, Found,
             Toggled, Names, HostsOf, SnippetsOf
    <2>5. QED
      BY <1>5, <2>3, <2>4 DEF Fault
  <1>6. CASE Call(c).kind = "fault" /\ at[c] # "idle"
    <2>1. GoesOn(c) \/ Ends(c)
      BY <1>1, <1>6, OnlyFaults, ReadyInside, FaultProgress DEF Progress
    <2>2. FaultInv(c)' <=> (at'[c] # "idle" /\ Call(c)'.kind = "fault" =>
                              FaultState(Call(c)', at'[c], mem'[c], world', touched'[c]))
      BY DEF FaultInv, FaultState, Placed, Cleared, Unwritten, Written, SameStates, Found,
             Toggled, Names, HostsOf, SnippetsOf
    <2>3. QED
      BY <1>3, <2>1, <2>2 DEF GoesOn, Ends
  <1>7. QED
    BY <1>4, <1>5, <1>6

LEMMA FaultsStep ==
  ASSUME OneFilePerHost, FaultsInv, [Next]_vars
  PROVE  FaultsInv'
  <1>1. ControlInv /\ ControlInv' /\ Typed(world) /\ touched = [d \in Callers |-> touched[d]]
    BY ControlStep DEF FaultsInv
  <1>k. ASSUME NEW d \in Callers, Keeps(d), Follows(world, touched[d], world', touched'[d])
        PROVE  FaultInv(d)'
    <2>1. Call(d)' = Call(d) /\ at'[d] = at[d] /\ mem'[d] = mem[d]
      BY <1>k DEF Keeps, Call
    <2>2. FaultInv(d)' <=> (at'[d] # "idle" /\ Call(d)'.kind = "fault" =>
                              FaultState(Call(d)', at'[d], mem'[d], world', touched'[d]))
      BY DEF FaultInv, FaultState, Placed, Cleared, Unwritten, Written, SameStates, Found,
             Toggled, Names, HostsOf, SnippetsOf
    <2>3. ASSUME at[d] # "idle", Call(d).kind = "fault"
          PROVE  FaultState(Call(d), at[d], mem[d], world', touched'[d])
      <3>1. FaultTyped(Call(d)) /\ FaultState(Call(d), at[d], mem[d], world, touched[d])
        BY <2>3, ReadyInside DEF Ready
      <3>2. QED
        BY <1>k, <3>1, FaultStays
    <2>4. QED
      BY <2>1, <2>2, <2>3
  <1>2. ASSUME UNCHANGED faultVars
        PROVE  /\ Typed(world)' /\ touched' = [d \in Callers |-> touched'[d]]
               /\ \A d \in Callers : Follows(world, touched[d], world', touched'[d])
    <2>1. world' = world /\ touched' = touched
      BY <1>2 DEF faultVars
    <2>2. Typed(world)' <=> Typed(world)
      BY <2>1 DEF Typed
    <2>3. QED
      BY <1>1, <2>1, <2>2 DEF Follows
  <1>3. CASE \E c \in Callers : Step(c)
    <2>1. PICK c \in Callers : Step(c)
      BY <1>3
    <2>2. /\ Typed(world)' /\ touched' = [d \in Callers |-> touched'[d]]
          /\ \A d \in Callers : d # c => Follows(world, touched[d], world', touched'[d])
      BY <1>1, <1>2, <2>1, OnlyFaults, FaultWorld
    <2>3. FaultInv(c)' /\ \A d \in Callers : d # c => Keeps(d)
      BY <1>1, <2>1, FaultOwnStep, OthersKeep
    <2>4. QED
      BY <1>1, <1>k, <2>2, <2>3 DEF FaultsInv
  <1>4. ASSUME UNCHANGED faultVars, \A d \in Callers : Keeps(d) PROVE FaultsInv'
    BY <1>1, <1>2, <1>4, <1>k DEF FaultsInv
  <1>5. CASE Tick /\ UNCHANGED faultVars
    BY <1>4, <1>5 DEF Tick, frames, Keeps
  <1>6. CASE Cancel /\ UNCHANGED faultVars
    BY <1>4, <1>6 DEF Cancel, frames, Keeps
  <1>7. CASE UNCHANGED vars
    BY <1>4, <1>7 DEF vars, vars0, frames, Keeps
  <1>8. QED
    BY <1>3, <1>5, <1>6, <1>7 DEF Next

-----------------------------------------------------------------------------
(* What is in force is what was promised.                                  *)

(* A fact that a call promises, kind by kind.                              *)
PromisedAs(call, w, fact) ==
  /\ call.verb \in Toxics =>
       \E s \in Range(call.streams) : fact = <<"toxic", call.on, <<call.verb, s>>, TRUE>>
  /\ call.verb = "partition" => fact = <<"enabled", call.on, FALSE>>
  /\ call.verb = "clear" => fact \in AllClear(call.on)
  /\ call.verb = "toxiproxy.reset" => \E p \in Proxies : fact \in AllClear(p)
  /\ call.verb \in NetFaults => fact = <<"snippet", call.on, {call.verb}>>
  /\ call.verb \in {"net.clear", "net.reset"} =>
       \E h \in HostsOf(call) : fact = <<"snippet", h, {}>>
  /\ call.verb \in Composed =>
       \E b \in Reached(call) :
         w.boxes[b].state # "absent" /\ fact = <<"state", b, States[call.verb]>>
  /\ call.verb \in {"connect", "disconnect"} =>
       \E b \in Range(Containers(call.on)) :
         WasUp(w, b) /\ fact = <<"joined", b, call.verb = "connect">>
  /\ call.verb \in {"throttle", "unthrottle"} =>
       \E b \in Range(Containers(call.on)) :
         WasUp(w, b) /\ fact = <<"capped", b, call.verb = "throttle">>

LEMMA Promises ==
  ASSUME NEW c, NEW call, NEW w, NEW fact \in Promised(c, call, w)
  PROVE  PromisedAs(call, w, fact)
  <1> DEFINE v == call.verb
             R == Range(Containers(call.on))
             bs == IF v = "down" THEN Boxes ELSE R
             toxic == {<<"toxic", call.on, <<v, s>>, TRUE>> : s \in Range(call.streams)}
             clear == UNION {AllClear(p) : p \in Proxies}
             net == {<<"snippet", call.on, {v}>>}
             one == {<<"snippet", call.on, {}>>}
             all == {<<"snippet", h, {}>> : h \in Hosts}
             comp == {<<"state", b, States[v]>> : b \in {b \in bs : w.boxes[b].state # "absent"}}
             up == {b \in bs : w.boxes[b].state \in {"running", "paused"}}
             join == {<<"joined", b, v = "connect">> : b \in up}
             cap == {<<"capped", b, v = "throttle">> : b \in up}
  <1>1. fact \in CASE v \in Toxics -> toxic
                   [] v = "partition" -> {<<"enabled", call.on, FALSE>>}
                   [] v = "clear" -> AllClear(call.on)
                   [] v = "toxiproxy.reset" -> clear
                   [] v \in NetFaults -> net
                   [] v = "net.clear" -> one
                   [] v = "net.reset" -> all
                   [] v \in Composed -> comp
                   [] v \in {"connect", "disconnect"} -> join
                   [] v \in {"throttle", "unthrottle"} -> cap
    BY Zenon DEF Promised
  <1> HIDE DEF toxic, clear, net, one, all, comp, join, cap
  <1>2. /\ v \in Toxics => fact \in toxic
        /\ v = "partition" => fact \in {<<"enabled", call.on, FALSE>>}
        /\ v = "clear" => fact \in AllClear(call.on)
        /\ v = "toxiproxy.reset" => fact \in clear
        /\ v \in NetFaults => fact \in net
        /\ v = "net.clear" => fact \in one
        /\ v = "net.reset" => fact \in all
        /\ v \in Composed => fact \in comp
        /\ v \in {"connect", "disconnect"} => fact \in join
        /\ v \in {"throttle", "unthrottle"} => fact \in cap
    <2> HIDE DEF v
    <2>1. QED
      BY <1>1 DEF Toxics, NetFaults, Composed
  <1>3. fact \in toxic => \E s \in Range(call.streams) : fact = <<"toxic", call.on, <<v, s>>, TRUE>>
    BY Zenon DEF toxic
  <1>4. fact \in clear => \E p \in Proxies : fact \in AllClear(p)
    BY DEF clear
  <1>5. fact \in net => fact = <<"snippet", call.on, {v}>>
    BY Zenon DEF net
  <1>6. /\ v = "net.clear" /\ fact \in one => \E h \in HostsOf(call) : fact = <<"snippet", h, {}>>
        /\ v = "net.reset" /\ fact \in all => \E h \in HostsOf(call) : fact = <<"snippet", h, {}>>
    BY DEF one, all, HostsOf
  <1>7. fact \in comp => \E b \in Reached(call) :
          w.boxes[b].state # "absent" /\ fact = <<"state", b, States[v]>>
    BY Zenon DEF comp, Reached
  <1>8. v # "down" => bs = R
    OBVIOUS
  <1> HIDE DEF bs
  <1>9. v # "down" /\ fact \in join => \E b \in R : WasUp(w, b) /\ fact = <<"joined", b, v = "connect">>
    BY <1>8, Zenon DEF join, WasUp
  <1>10. v # "down" /\ fact \in cap => \E b \in R : WasUp(w, b) /\ fact = <<"capped", b, v = "throttle">>
    BY <1>8, Zenon DEF cap, WasUp
  <1>11. v \in {"connect", "disconnect", "throttle", "unthrottle"} => v # "down"
    BY DEF v
  <1> HIDE DEF v, R
  <1>12. QED
    BY <1>2, <1>3, <1>4, <1>5, <1>6, <1>7, <1>9, <1>10, <1>11 DEF v, R, PromisedAs

(* A fact that is not touched, by its kind.                                *)
FactsOf(w, t, fact) ==
  /\ \A p \in Proxies : \A v : fact = <<"enabled", p, v>> /\ v = w.enabled[p] =>
       fact \in Truth(w) /\ fact[1] # "snippet"
  /\ \A p \in Proxies, x \in Toxics \X Streams : \A v :
       fact = <<"toxic", p, x, v>> /\ (<<"toxic", p, x>> \in t \/ v = (x \in w.toxics[p])) =>
         fact \in Truth(w) /\ fact[1] # "snippet"
  /\ \A b \in Boxes : \A v : fact = <<"state", b, v>> /\ (<<"state", b>> \in t \/ v = w.boxes[b].state) =>
       fact \in Truth(w) /\ fact[1] # "snippet"
  /\ \A b \in Boxes : \A v :
       fact = <<"joined", b, v>>
         /\ (<<"joined", b>> \in t \/ <<"state", b>> \in t \/ v = w.boxes[b].joined) =>
       fact \in Truth(w) /\ fact[1] # "snippet"
  /\ \A b \in Boxes : \A v :
       fact = <<"capped", b, v>> /\ (<<"state", b>> \in t \/ v = w.boxes[b].capped) =>
       fact \in Truth(w) /\ fact[1] # "snippet"
  /\ \A h \in Hosts : \A v :
       fact = <<"snippet", h, v>> /\ (<<"snippet", h>> \in t \/ v = Names(w.files, h)) =>
       fact \in Truth(w) /\ v = Names(w.files, h) /\ fact[2] = h /\ fact[3] = v

LEMMA FactsHold ==
  ASSUME NEW w, NEW t, NEW fact, Subject(fact) \notin t,
         fact[1] \in {"joined", "capped"} => <<"state", fact[2]>> \notin t
  PROVE  FactsOf(w, t, fact)
  <1>1. /\ \A p, v : <<"enabled", p, v>> \in Truth(w) <=> p \in Proxies /\ v = w.enabled[p]
        /\ \A p, x, v : <<"toxic", p, x, v>> \in Truth(w) <=>
              p \in Proxies /\ x \in Toxics \X Streams /\ v = (x \in w.toxics[p])
        /\ \A b, v : <<"state", b, v>> \in Truth(w) <=> b \in Boxes /\ v = w.boxes[b].state
        /\ \A b, v : <<"joined", b, v>> \in Truth(w) <=> b \in Boxes /\ v = w.boxes[b].joined
        /\ \A b, v : <<"capped", b, v>> \in Truth(w) <=> b \in Boxes /\ v = w.boxes[b].capped
        /\ \A h, v : <<"snippet", h, v>> \in Truth(w) <=> h \in Hosts /\ v = Names(w.files, h)
    BY TruthOf
  <1>2. ASSUME NEW k, NEW b, NEW v, fact = <<k, b, v>>
        PROVE  Subject(fact) = <<k, b>> /\ fact[1] = k /\ fact[2] = b /\ fact[3] = v
    BY <1>2, SubjectOf
  <1>3. ASSUME NEW p \in Proxies, NEW v, fact = <<"enabled", p, v>>, v = w.enabled[p]
        PROVE  fact \in Truth(w) /\ fact[1] # "snippet"
    BY <1>1, <1>2, <1>3
  <1>4. ASSUME NEW p \in Proxies, NEW x \in Toxics \X Streams, NEW v, fact = <<"toxic", p, x, v>>,
               <<"toxic", p, x>> \in t \/ v = (x \in w.toxics[p])
        PROVE  fact \in Truth(w) /\ fact[1] # "snippet"
    <2>1. Subject(fact) = <<"toxic", p, x>> /\ fact[1] = "toxic"
      BY <1>4, SubjectOf
    <2>2. v = (x \in w.toxics[p])
      BY <1>4, <2>1
    <2>3. fact \in Truth(w)
      BY <1>1, <1>4, <2>2, Zenon
    <2>4. QED
      BY <2>1, <2>3
  <1>5. ASSUME NEW b \in Boxes, NEW v, fact = <<"state", b, v>>,
               <<"state", b>> \in t \/ v = w.boxes[b].state
        PROVE  fact \in Truth(w) /\ fact[1] # "snippet"
    BY <1>1, <1>2, <1>5
  <1>6. ASSUME NEW b \in Boxes, NEW v, fact = <<"joined", b, v>>,
               <<"joined", b>> \in t \/ <<"state", b>> \in t \/ v = w.boxes[b].joined
        PROVE  fact \in Truth(w) /\ fact[1] # "snippet"
    BY <1>1, <1>2, <1>6
  <1>7. ASSUME NEW b \in Boxes, NEW v, fact = <<"capped", b, v>>,
               <<"state", b>> \in t \/ v = w.boxes[b].capped
        PROVE  fact \in Truth(w) /\ fact[1] # "snippet"
    BY <1>1, <1>2, <1>7
  <1>8. ASSUME NEW h \in Hosts, NEW v, fact = <<"snippet", h, v>>,
               <<"snippet", h>> \in t \/ v = Names(w.files, h)
        PROVE  fact \in Truth(w) /\ v = Names(w.files, h) /\ fact[2] = h /\ fact[3] = v
    BY <1>1, <1>2, <1>8
  <1>9. QED
    BY <1>3, <1>4, <1>5, <1>6, <1>7, <1>8 DEF FactsOf

LEMMA InForceHolds ==
  ASSUME NEW c, NEW call, NEW before, NEW w, NEW t, FaultTyped(call), Typed(w),
         InForce(call, before, w, t), call.verb \in FaultVerbs, NEW fact \in Promised(c, call, before),
         Subject(fact) \notin t, fact[1] \in {"joined", "capped"} => <<"state", fact[2]>> \notin t
  PROVE  /\ fact \in Truth(w)
         /\ fact[1] = "snippet" /\ case.reloads => Names(w.served, fact[2]) = fact[3]
  <1> DEFINE v == call.verb
             X == Toxics \X Streams
             True == fact \in Truth(w) /\ fact[1] # "snippet"
             Served == /\ fact \in Truth(w)
                       /\ fact[1] = "snippet" /\ case.reloads => Names(w.served, fact[2]) = fact[3]
  <1>a. FactsOf(w, t, fact)
    BY FactsHold, Zenon
  <1>e. \A p \in Proxies : \A y : fact = <<"enabled", p, y>> /\ y = w.enabled[p] => True
    BY <1>a DEF FactsOf
  <1>x. \A p \in Proxies, x \in X : \A y :
          fact = <<"toxic", p, x, y>> /\ (<<"toxic", p, x>> \in t \/ y = (x \in w.toxics[p])) => True
    BY <1>a DEF FactsOf
  <1>s. \A b \in Boxes : \A y :
          fact = <<"state", b, y>> /\ (<<"state", b>> \in t \/ y = w.boxes[b].state) => True
    BY <1>a DEF FactsOf
  <1>j. \A b \in Boxes : \A y :
          fact = <<"joined", b, y>>
            /\ (<<"joined", b>> \in t \/ <<"state", b>> \in t \/ y = w.boxes[b].joined) => True
    BY <1>a DEF FactsOf
  <1>k. \A b \in Boxes : \A y :
          fact = <<"capped", b, y>> /\ (<<"state", b>> \in t \/ y = w.boxes[b].capped) => True
    BY <1>a DEF FactsOf
  <1>f. \A h \in Hosts : \A y :
          fact = <<"snippet", h, y>> /\ (<<"snippet", h>> \in t \/ y = Names(w.files, h)) =>
          fact \in Truth(w) /\ y = Names(w.files, h) /\ fact[2] = h /\ fact[3] = y
    BY <1>a DEF FactsOf
  <1>p. PromisedAs(call, before, fact)
    BY Promises, Zenon
  <1>t. True => Served
    OBVIOUS
  <1>r. v # "down" /\ v \in Composed \cup OnBoxes => Range(Containers(call.on)) \subseteq Boxes
    BY DEF FaultTyped, Boxes
  <1>u. /\ v \in Composed => Reached(call) \subseteq Boxes
        /\ v \in OnBoxes => Range(Containers(call.on)) \subseteq Boxes
    BY <1>r DEF Reached, OnBoxes
  <1> HIDE DEF True
  <1>1. CASE v \in Toxics
    <2>1. PICK s \in Range(call.streams) : fact = <<"toxic", call.on, <<v, s>>, TRUE>>
      BY <1>1, <1>p DEF PromisedAs
    <2>2. s \in Streams
      BY <1>1, ElementOfSeq DEF FaultTyped, Range
    <2>3. call.on \in Proxies /\ Placed(call, w, t, <<>>)
      BY <1>1 DEF InForce
    <2>4. <<v, s>> \in X /\ (<<v, s>> \in w.toxics[call.on] \/ <<"toxic", call.on, <<v, s>>>> \in t)
      BY <1>1, <2>2, <2>3, NothingToDo DEF Placed
    <2> DEFINE x == <<v, s>>
    <2>5. x \in X /\ (<<"toxic", call.on, x>> \in t \/ TRUE = (x \in w.toxics[call.on]))
          /\ fact = <<"toxic", call.on, x, TRUE>>
      BY <2>1, <2>4
    <2> HIDE DEF x
    <2>6. QED
      BY <1>x, <1>t, <2>3, <2>5
  <1>2. CASE v = "partition"
    <2>1. fact = <<"enabled", call.on, FALSE>> /\ call.on \in Proxies /\ FALSE = w.enabled[call.on]
      BY <1>2, <1>p DEF PromisedAs, InForce
    <2>2. QED
      BY <1>e, <1>t, <2>1
  <1>c. ASSUME NEW p \in Proxies, fact \in AllClear(p), w.enabled[p] = TRUE,
               \A x \in X : x \notin w.toxics[p] \/ <<"toxic", p, x>> \in t
        PROVE  True
    <2>1. CASE fact = <<"enabled", p, TRUE>>
      BY <1>c, <1>e, <2>1
    <2>2. CASE \E x \in X : fact = <<"toxic", p, x, FALSE>>
      <3>1. PICK x \in X : fact = <<"toxic", p, x, FALSE>>
        BY <2>2
      <3>2. <<"toxic", p, x>> \in t \/ FALSE = (x \in w.toxics[p])
        BY <1>c
      <3>3. QED
        BY <1>x, <3>1, <3>2
    <2>3. QED
      BY <1>c, <2>1, <2>2 DEF AllClear
  <1>3. CASE v = "clear"
    <2>1. fact \in AllClear(call.on)
      BY <1>3, <1>p DEF PromisedAs
    <2>2. call.on \in Proxies /\ w.enabled[call.on] = TRUE /\ Cleared(call, w, t, <<>>)
      BY <1>3 DEF InForce
    <2>3. \A x \in X : x \notin w.toxics[call.on] \/ <<"toxic", call.on, x>> \in t
      BY <2>2, NothingToDo DEF Cleared
    <2>4. QED
      BY <1>c, <1>t, <2>1, <2>2, <2>3
  <1>4. CASE v = "toxiproxy.reset"
    <2>1. PICK p \in Proxies : fact \in AllClear(p)
      BY <1>4, <1>p DEF PromisedAs
    <2>2. w.enabled[p] = TRUE /\ w.toxics[p] = {}
      BY <1>4 DEF InForce
    <2>3. QED
      BY <1>c, <1>t, <2>1, <2>2
  <1>5. CASE v \in NetFaults
    <2>1. fact = <<"snippet", call.on, {v}>> /\ call.on \in Hosts
      BY <1>5, <1>p DEF PromisedAs, FaultTyped
    <2>2. /\ Names(w.files, call.on) = {v} \/ <<"snippet", call.on>> \in t
          /\ case.reloads => w.served = w.files
      BY <1>5 DEF InForce, Written
    <2>3. QED
      BY <1>f, <2>1, <2>2
  <1>6. CASE v \in {"net.clear", "net.reset"}
    <2>1. PICK h \in HostsOf(call) : fact = <<"snippet", h, {}>>
      BY <1>6, <1>p DEF PromisedAs
    <2>2. h \in Hosts
      BY <1>6 DEF HostsOf, FaultTyped
    <2>3. /\ Names(w.files, h) = {} \/ <<"snippet", h>> \in t
          /\ case.reloads => w.served = w.files
      BY <1>6, NothingToDo DEF InForce, Unwritten
    <2>4. QED
      BY <1>f, <2>1, <2>2, <2>3
  <1>7. CASE v \in Composed
    <2>1. PICK b \in Reached(call) : before.boxes[b].state # "absent" /\ fact = <<"state", b, States[v]>>
      BY <1>7, <1>p DEF PromisedAs
    <2>2. b \in Boxes /\ (w.boxes[b].state = States[v] \/ <<"state", b>> \in t)
      BY <1>7, <1>u, <2>1 DEF InForce
    <2>3. QED
      BY <1>s, <1>t, <2>1, <2>2
  <1>8. CASE v \in {"connect", "disconnect"}
    <2> DEFINE on == v = "connect"
    <2>1. PICK b \in Range(Containers(call.on)) : WasUp(before, b) /\ fact = <<"joined", b, on>>
      BY <1>8, <1>p DEF PromisedAs
    <2>2. b \in Boxes
      BY <1>8, <1>u DEF OnBoxes
    <2>3. w.boxes[b].joined = on \/ <<"joined", b>> \in t \/ <<"state", b>> \in t
      BY <1>8, <2>1, NothingToDo DEF InForce, Toggled
    <2> HIDE DEF on
    <2>4. QED
      BY <1>j, <1>t, <2>1, <2>2, <2>3
  <1>9. CASE v \in {"throttle", "unthrottle"}
    <2> DEFINE on == v = "throttle"
    <2>1. PICK b \in Range(Containers(call.on)) : WasUp(before, b) /\ fact = <<"capped", b, on>>
      BY <1>9, <1>p DEF PromisedAs
    <2>2. b \in Boxes
      BY <1>9, <1>u DEF OnBoxes
    <2>3. w.boxes[b].capped = on \/ <<"state", b>> \in t
      BY <1>9, <2>1 DEF InForce
    <2> HIDE DEF on
    <2>4. QED
      BY <1>k, <1>t, <2>1, <2>2, <2>3
  <1>10. QED
    BY <1>1, <1>2, <1>3, <1>4, <1>5, <1>6, <1>7, <1>8, <1>9 DEF FaultVerbs, OnProxy, OnBoxes

LEMMA FaultAnswers ==
  ASSUME OneFilePerHost, FaultsInv, [Next]_vars
  PROVE  [\A c \in Callers : Fault(c) /\ Returns(c) => (answer'[c].ok => Holds(c)) /\ Reenabled(c)]_vars
  <1> SUFFICES ASSUME NEW c \in Callers, Fault(c), Returns(c)
               PROVE  (answer'[c].ok => Holds(c)) /\ Reenabled(c)
    OBVIOUS
  <1>1. ControlInv /\ script[c] \in Seq(AllCalls)
    BY DEF FaultsInv, ControlInv, FramesInv
  <1>2. script'[c] # script[c]
    <2>1. Len(script[c]) \in Nat
      BY <1>1, LenProperties
    <2>2. QED
      BY <2>1 DEF Returns
  <1>3. Step(c)
    <2>1. CASE \E d \in Callers : Step(d)
      <3>1. PICK d \in Callers : Step(d)
        BY <2>1
      <3>2. d # c => Keeps(c)
        BY <1>1, <3>1, OthersKeep
      <3>3. QED
        BY <1>2, <3>1, <3>2 DEF Keeps
    <2>2. CASE Tick \/ Cancel \/ UNCHANGED vars
      BY <1>2, <2>2 DEF Tick, Cancel, vars, vars0, frames
    <2>3. QED
      BY <2>1, <2>2 DEF Next
  <1>4. Ready(c) /\ FaultStep(c)
    BY <1>1, <1>3, ReadyInside, OnlyFaults DEF Fault
  <1>5. Ends(c)
    BY <1>2, <1>3, FaultOwnStep DEF GoesOn
  <1>6. Typed(world')
    <2>1. Typed(world)'
      BY <1>4, FaultWorld
    <2>2. Typed(world)' <=> Typed(world')
      BY DEF Typed
    <2>3. QED
      BY <2>1, <2>2
  <1>7. Reenabled(c)
    BY <1>5 DEF Ends, Freed, Reenabled
  <1>8. ASSUME answer'[c].ok PROVE Holds(c)
    <2>1. InForce(Call(c), mem[c].before, world', touched'[c])
      BY <1>5, <1>8 DEF Ends
    <2>2. FaultTyped(Call(c)) /\ VerbAt(Call(c).verb, at[c])
      BY <1>4 DEF Ready, FaultState
    <2>3. Call(c).verb \in FaultVerbs
      BY <2>2, KnownVerb
    <2>4. ASSUME NEW fact \in Promised(c, Call(c), mem[c].before), Undisturbed(c, fact)
          PROVE  /\ fact \in Truth(world')
                 /\ fact[1] = "snippet" /\ case.reloads => Names(world'.served, fact[2]) = fact[3]
      <3>1. /\ Subject(fact) \notin touched'[c]
            /\ fact[1] \in {"joined", "capped"} => <<"state", fact[2]>> \notin touched'[c]
        BY <2>4 DEF Undisturbed
      <3>2. QED
        BY <1>6, <2>1, <2>2, <2>3, <2>4, <3>1, InForceHolds
    <2>5. QED
      BY <2>4 DEF Holds
  <1>9. QED
    BY <1>7, <1>8

(* Faults and restores, for any proxies, services and containers, any      *)
(* hosts each with a snippet of its own, any branches and any requests     *)
(* that fail, carried out or not, or are never answered: a verb that       *)
(* answers without an error is in force, for every stream, container and   *)
(* host it is about whose state no call of another branch about the same   *)
(* thing has changed since it began - and, where net has a reloadCmd, for  *)
(* what the resolver serves.  A clear that fails leaves the proxy enabled  *)
(* unless that request itself failed (toxiproxyp.go:149-168,               *)
(* netp.go:141-191, dockerp.go:245-278).                                   *)
THEOREM FaultsAnswered ==
  ASSUME OneFilePerHost
  PROVE  Spec => AnsweredIsInForce
  <1>1. Init => FaultsInv
    BY FaultsBegin
  <1>2. FaultsInv /\ [Next]_vars => FaultsInv'
    BY FaultsStep
  <1>3. FaultsInv /\ [Next]_vars =>
          [\A c \in Callers : Fault(c) /\ Returns(c) => (answer'[c].ok => Holds(c)) /\ Reenabled(c)]_vars
    BY FaultAnswers
  <1>4. QED
    BY <1>1, <1>2, <1>3, PTL DEF Spec, AnsweredIsInForce
=============================================================================
