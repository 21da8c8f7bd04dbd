--------------------------- MODULE Parallel_proofs ---------------------------
(***************************************************************************)
(* For every program, tree of runners and cap: the limiter counts the      *)
(* branches, no more of them than the cap ever execute steps, and no       *)
(* branch survives the barrier of its block.                               *)
(***************************************************************************)
EXTENDS Parallel, FiniteSetTheorems, Journal_proofs

LEMMA Shape ==
  ASSUME Control, NEW r \in Runners
  PROVE  /\ Steps(r) \in Seq(Step) /\ Len(Steps(r)) \in Nat
         /\ DOMAIN Steps(r) = 1..Len(Steps(r))
         /\ next[r] \in Nat /\ next[r] > 0
  BY ParallelAssumption DEF Control, Program, Steps

LEMMA Tree ==
  ASSUME Control, NEW b \in Runners, NEW q \in Runners, NEW r \in Runners,
         NEW i \in DOMAIN Steps(q), NEW j \in DOMAIN Steps(r),
         BranchOf(prog, b, q, i), BranchOf(prog, b, r, j)
  PROVE  q = r /\ i = j /\ b # Root
  BY ParallelAssumption DEF Control, Steps, TreeShaped

(* The sets the limiter is about are finite.                               *)
LEMMA Finite ==
  /\ IsFiniteSet(Live) /\ Cardinality(Live) \in Nat
  /\ IsFiniteSet(Counted) /\ Cardinality(Counted) \in Nat
  <1>1. Live \subseteq Runners /\ Counted \subseteq Runners
    BY DEF Live, Counted
  <1>2. QED
    BY <1>1, ParallelAssumption, FS_Subset, FS_CardinalityType

LEMMA LiveWithinCounted ==
  Cardinality(Live) <= Cardinality(Counted)
  <1>1. Live \subseteq Counted
    BY DEF Counted
  <1>2. QED
    BY <1>1, Finite, FS_Subset

(* The step r is at: within its section, and of the kind op.               *)
LEMMA Within ==
  ASSUME Control, NEW r \in Runners, NEW op, At(r, op)
  PROVE  /\ pc[r] = "running" /\ next[r] \in DOMAIN Steps(r)
         /\ Steps(r)[next[r]].op = op
  <1>1. pc[r] = "running" /\ ~SectionOver(r) /\ Current(r).op = op
    BY DEF At
  <1>2. ~(next[r] > Len(Steps(r)))
    BY <1>1 DEF SectionOver
  <1>3. next[r] \in DOMAIN Steps(r)
    BY <1>2, Shape
  <1>4. QED
    BY <1>1, <1>3 DEF Current

(* A step of r that neither forks, joins nor ends leaves the invariant.    *)
LEMMA QuietInv ==
  ASSUME IInv, NEW r \in Runners, pc[r] = "running",
         UNCHANGED <<prog, pc, limiter>>,
         next' = next \/ next' = [next EXCEPT ![r] = @ + 1]
  PROVE  IInv'
  <1>0. Control
    BY DEF IInv
  <1>1. \A q \in Runners : next'[q] \in Nat \ {0} /\ next'[q] >= next[q] /\ (q # r => next'[q] = next[q])
    BY <1>0, Shape DEF Control
  <1>2. Control'
    BY <1>0, <1>1 DEF Control
  <1>3. UnstartedIdle'
    <2> SUFFICES ASSUME NEW q \in Runners, NEW b \in Runners, NEW i \in DOMAIN Steps(q),
                        BranchOf(prog, b, q, i),
                        i > next'[q] \/ (i = next'[q] /\ pc[q] # "joining")
                 PROVE  pc[b] = "idle"
      BY DEF UnstartedIdle, Steps
    <2>1. i \in Nat /\ next[q] \in Nat /\ next'[q] \in Nat
      BY <1>0, <1>1, Shape
    <2>2. i > next[q] \/ (i = next[q] /\ pc[q] # "joining")
      BY <1>1, <2>1
    <2>3. QED
      BY <2>2 DEF IInv, UnstartedIdle
  <1>4. BarrierHolds'
    <2> SUFFICES ASSUME NEW b \in Runners \ {Root}, pc[b] \notin {"idle", "done"}
                 PROVE  \E q \in Runners : pc[q] = "joining" /\ BranchOf(prog, b, q, next'[q])
      BY DEF BarrierHolds, Awaits
    <2>1. PICK q \in Runners : pc[q] = "joining" /\ BranchOf(prog, b, q, next[q])
      BY DEF IInv, BarrierHolds, Awaits
    <2>2. QED
      BY <1>1, <2>1
  <1>5. LimiterCountsBranches' /\ LiveBranchesCapped'
    BY DEF IInv, LimiterCountsBranches, LiveBranchesCapped, Live, Counted
  <1>6. QED
    BY <1>2, <1>3, <1>4, <1>5 DEF IInv

LEMMA ForkInv ==
  ASSUME IInv, NEW r \in Runners, Fork(r)
  PROVE  IInv'
  <1> DEFINE branches == {b \in Runners : BranchOf(prog, b, r, next[r])}
  <1>0. Control
    BY DEF IInv
  <1>1. pc[r] = "running" /\ next[r] \in DOMAIN Steps(r) /\ Steps(r)[next[r]].op = "parallel"
    BY <1>0, Within DEF Fork
  <1>2. \A b \in Runners : b \in branches <=> b \in Range(Current(r).branches)
    BY <1>1 DEF BranchOf, Current, Steps
  <1>3. \A b \in branches : pc[b] = "idle" /\ b # Root /\ b # r /\ next[b] = 1
    <2> SUFFICES ASSUME NEW b \in branches
                 PROVE  pc[b] = "idle" /\ b # Root /\ b # r /\ next[b] = 1
      OBVIOUS
    <2>1. pc[b] = "idle"
      BY <1>1 DEF IInv, UnstartedIdle
    <2>2. QED
      BY <1>0, <1>1, <2>1 DEF Control
  <1>4. /\ UNCHANGED <<prog, limiter>>
        /\ pc' = [q \in Runners |-> IF q = r THEN "joining"
                                    ELSE IF q \in branches THEN "forked" ELSE pc[q]]
        /\ next' = [q \in Runners |-> IF q \in branches THEN 1 ELSE next[q]]
    BY <1>2, Zenon DEF Fork
  <1>5. \A q \in Runners : next'[q] = next[q]
    BY <1>3, <1>4
  <1>6. Control'
    <2>1. pc' \in [Runners -> {"idle", "forked", "overCap", "running", "joining", "done"}]
      BY <1>0, <1>4 DEF Control
    <2>2. next' \in [Runners -> Nat \ {0}]
      BY <1>0, <1>4 DEF Control
    <2>3. pc'[Root] \in {"running", "joining", "done"}
      BY <1>0, <1>3, <1>4, ParallelAssumption DEF Control
    <2>4. \A q \in Runners : pc'[q] = "idle" => pc[q] = "idle"
      BY <1>4
    <2>5. QED
      BY <1>0, <1>4, <1>5, <2>1, <2>2, <2>3, <2>4 DEF Control
  <1>7. UnstartedIdle'
    <2> SUFFICES ASSUME NEW q \in Runners, NEW b \in Runners, NEW i \in DOMAIN Steps(q),
                        BranchOf(prog, b, q, i),
                        i > next[q] \/ (i = next[q] /\ pc'[q] # "joining")
                 PROVE  pc'[b] = "idle"
      BY <1>4, <1>5 DEF UnstartedIdle, Steps
    <2>1. q # r \/ i # next[r]
      <3>1. pc'[r] = "joining" /\ next[r] \in Nat
        BY <1>0, <1>4, Shape
      <3>2. QED
        BY <3>1
    <2>2. i > next[q] \/ (i = next[q] /\ pc[q] # "joining")
      BY <1>1, <1>3, <1>4
    <2>3. pc[b] = "idle" /\ b # r
      BY <1>1, <2>2 DEF IInv, UnstartedIdle
    <2>4. b \notin branches
      BY <1>0, <1>1, <2>1, Tree
    <2>5. QED
      BY <1>4, <2>3, <2>4
  <1>8. BarrierHolds'
    <2> SUFFICES ASSUME NEW b \in Runners \ {Root}, pc'[b] \notin {"idle", "done"}
                 PROVE  \E q \in Runners : pc'[q] = "joining" /\ BranchOf(prog, b, q, next[q])
      BY <1>4, <1>5 DEF BarrierHolds, Awaits
    <2>1. CASE b \in branches
      BY <1>4, <2>1
    <2>2. CASE b \notin branches
      <3>1. pc[b] \notin {"idle", "done"}
        BY <1>1, <1>4, <2>2
      <3>2. PICK q \in Runners : pc[q] = "joining" /\ BranchOf(prog, b, q, next[q])
        BY <3>1 DEF IInv, BarrierHolds, Awaits
      <3>3. QED
        BY <1>3, <1>4, <3>2
    <2>3. QED
      BY <2>1, <2>2
  <1>9. Live' = Live /\ Counted' = Counted
    <2>1. \A q \in Runners : /\ pc'[q] \in {"running", "joining"} <=> pc[q] \in {"running", "joining"}
                             /\ pc'[q] = "overCap" <=> pc[q] = "overCap"
      BY <1>1, <1>3, <1>4
    <2>2. QED
      BY <2>1 DEF Live, Counted
  <1>10. QED
    BY <1>4, <1>6, <1>7, <1>8, <1>9 DEF IInv, LimiterCountsBranches, LiveBranchesCapped

(* A branch's pc moves on from one that is neither idle nor a barrier to   *)
(* another such one, or to its end.                                        *)
LEMMA MoveInv ==
  ASSUME IInv, NEW b \in Runners, NEW to \in {"overCap", "running", "done"},
         pc[b] \in {"forked", "overCap", "running"},
         b = Root => to = "done",
         UNCHANGED <<prog, next>>, pc' = [pc EXCEPT ![b] = to], limiter' \in Nat
  PROVE  Control' /\ UnstartedIdle' /\ BarrierHolds'
  <1>0. Control
    BY DEF IInv
  <1>1. \A q \in Runners : /\ pc'[q] = "joining" <=> pc[q] = "joining"
                           /\ pc'[q] = "idle" <=> pc[q] = "idle"
                           /\ pc'[q] = "done" \/ pc[q] # "done"
    BY <1>0 DEF Control
  <1>2. Control'
    BY <1>0, <1>1, ParallelAssumption DEF Control
  <1>3. UnstartedIdle'
    BY <1>1 DEF IInv, UnstartedIdle, Steps
  <1>4. BarrierHolds'
    BY <1>1 DEF IInv, BarrierHolds, Awaits
  <1>5. QED
    BY <1>2, <1>3, <1>4

LEMMA AcquireInv ==
  ASSUME IInv, NEW b \in Runners, Acquire(b)
  PROVE  IInv'
  <1>0. Control
    BY DEF IInv
  <1> DEFINE to == IF limiter' > maxLiveBranches THEN "overCap" ELSE "running"
  <1>1. /\ pc[b] = "forked" /\ b # Root /\ to \in {"overCap", "running"}
        /\ limiter \in Nat /\ limiter' = limiter + 1 /\ limiter' \in Nat
        /\ UNCHANGED <<prog, next>> /\ pc' = [pc EXCEPT ![b] = to]
    BY <1>0 DEF Acquire, Control
  <1>2. Control' /\ UnstartedIdle' /\ BarrierHolds'
    BY <1>1, MoveInv
  <1>3. Counted' = Counted \cup {b} /\ b \notin Counted
    BY <1>0, <1>1 DEF Counted, Live, Control
  <1>4. Cardinality(Counted') = Cardinality(Counted) + 1
    BY <1>3, Finite, FS_AddElement
  <1>5. LimiterCountsBranches'
    BY <1>1, <1>4 DEF IInv, LimiterCountsBranches
  <1>6. LiveBranchesCapped'
    <2>1. CASE limiter' > maxLiveBranches
      <3>1. Live' = Live
        BY <1>0, <1>1, <2>1 DEF Live, Control
      <3>2. QED
        BY <3>1 DEF IInv, LiveBranchesCapped
    <2>2. CASE ~(limiter' > maxLiveBranches)
      <3>1. (Cardinality(Live) <= Cardinality(Counted))' /\ (Cardinality(Live) \in Nat)'
        BY LiveWithinCounted, Finite, PTL
      <3>2. QED
        BY <1>1, <1>5, <2>2, <3>1, ParallelAssumption DEF LimiterCountsBranches, LiveBranchesCapped
    <2>3. QED
      BY <2>1, <2>2
  <1>7. QED
    BY <1>2, <1>5, <1>6 DEF IInv

(* A counted branch ends: BackOut and Release.                             *)
LEMMA LeaveInv ==
  ASSUME IInv, NEW b \in Runners \ {Root}, pc[b] \in {"overCap", "running"},
         UNCHANGED <<prog, next>>, pc' = [pc EXCEPT ![b] = "done"], limiter' = limiter - 1
  PROVE  IInv'
  <1>0. Control
    BY DEF IInv
  <1>1. Counted' = Counted \ {b} /\ b \in Counted /\ Live' = Live \ {b}
    BY <1>0 DEF Counted, Live, Control
  <1>2. Cardinality(Counted') = Cardinality(Counted) - 1
    BY <1>1, Finite, FS_RemoveElement
  <1>3. LimiterCountsBranches'
    BY <1>2 DEF IInv, LimiterCountsBranches
  <1>4. limiter' \in Nat
    <2>1. (Cardinality(Counted) \in Nat)'
      BY Finite, PTL
    <2>2. QED
      BY <1>3, <2>1 DEF LimiterCountsBranches
  <1>5. Cardinality(Live') <= Cardinality(Live) /\ (Cardinality(Live) \in Nat)'
    <2>1. (Cardinality(Live) \in Nat)'
      BY Finite, PTL
    <2>2. Live' \subseteq Live
      BY <1>1
    <2>3. QED
      BY <2>1, <2>2, Finite, FS_Subset
  <1>6. LiveBranchesCapped'
    BY <1>5, Finite, ParallelAssumption DEF IInv, LiveBranchesCapped
  <1>7. Control' /\ UnstartedIdle' /\ BarrierHolds'
    BY <1>4, MoveInv
  <1>8. QED
    BY <1>3, <1>6, <1>7 DEF IInv

LEMMA JoinInv ==
  ASSUME IInv, NEW r \in Runners, Join(r)
  PROVE  IInv'
  <1>0. Control
    BY DEF IInv
  <1>1. /\ pc[r] = "joining" /\ UNCHANGED <<prog, limiter>>
        /\ pc' = [pc EXCEPT ![r] = "running"]
        /\ next' = [next EXCEPT ![r] = @ + 1]
    BY DEF Join, EndStep
  <1>2. \A b \in Runners : BranchOf(prog, b, r, next[r]) => pc[b] = "done"
    BY DEF Join, Barrier, BranchOf, Current, Steps
  <1>3. \A q \in Runners : /\ q # r => next'[q] = next[q] /\ pc'[q] = pc[q]
                           /\ next'[r] = next[r] + 1 /\ pc'[r] = "running"
    BY <1>0, <1>1 DEF Control
  <1>4. Control'
    BY <1>0, <1>1, <1>3 DEF Control
  <1>5. UnstartedIdle'
    <2> SUFFICES ASSUME NEW q \in Runners, NEW b \in Runners, NEW i \in DOMAIN Steps(q),
                        BranchOf(prog, b, q, i),
                        i > next'[q] \/ (i = next'[q] /\ pc'[q] # "joining")
                 PROVE  pc'[b] = "idle"
      BY <1>1 DEF UnstartedIdle, Steps
    <2>1. i \in Nat /\ next[q] \in Nat
      BY <1>0, Shape
    <2>2. i > next[q] \/ (i = next[q] /\ pc[q] # "joining")
      BY <1>3, <2>1
    <2>3. pc[b] = "idle"
      BY <2>2 DEF IInv, UnstartedIdle
    <2>4. QED
      BY <1>1, <1>3, <2>3
  <1>6. BarrierHolds'
    <2> SUFFICES ASSUME NEW b \in Runners \ {Root}, pc'[b] \notin {"idle", "done"}
                 PROVE  \E q \in Runners : pc'[q] = "joining" /\ BranchOf(prog, b, q, next'[q])
      BY <1>1 DEF BarrierHolds, Awaits
    <2>1. pc[b] \notin {"idle", "done"}
      BY <1>1, <1>3
    <2>2. PICK q \in Runners : pc[q] = "joining" /\ BranchOf(prog, b, q, next[q])
      BY <2>1 DEF IInv, BarrierHolds, Awaits
    <2>3. q # r
      BY <1>2, <2>1, <2>2
    <2>4. QED
      BY <1>3, <2>2, <2>3
  <1>7. Live' = Live /\ Counted' = Counted
    BY <1>0, <1>1, <1>3 DEF Live, Counted
  <1>8. QED
    BY <1>1, <1>4, <1>5, <1>6, <1>7 DEF IInv, LimiterCountsBranches, LiveBranchesCapped

LEMMA InitInv == Init => IInv
  <1> SUFFICES ASSUME Init PROVE IInv
    OBVIOUS
  <1>1. Control
    BY ParallelAssumption DEF Init, Control
  <1>2. UnstartedIdle
    <2> SUFFICES ASSUME NEW r \in Runners, NEW b \in Runners, NEW i \in DOMAIN Steps(r),
                        BranchOf(prog, b, r, i)
                 PROVE  pc[b] = "idle"
      BY DEF UnstartedIdle
    <2>1. b # Root
      BY <1>1, Tree
    <2>2. QED
      BY <2>1 DEF Init
  <1>3. BarrierHolds
    BY DEF Init, BarrierHolds
  <1>4. Live = {} /\ Counted = {}
    BY DEF Init, Live, Counted
  <1>5. LimiterCountsBranches /\ LiveBranchesCapped
    BY <1>4, FS_EmptySet, ParallelAssumption DEF Init, LimiterCountsBranches, LiveBranchesCapped
  <1>6. QED
    BY <1>1, <1>2, <1>3, <1>5 DEF IInv

LEMMA StepInv == IInv /\ [Next]_vars => IInv'
  <1> SUFFICES ASSUME IInv, [Next]_vars PROVE IInv'
    OBVIOUS
  <1>0. Control
    BY DEF IInv
  <1>1. ASSUME NEW r \in Runners, LeafPasses(r) PROVE IInv'
    BY <1>0, <1>1, Within, QuietInv DEF LeafPasses, EndStep
  <1>2. ASSUME NEW r \in Runners, LeafFails(r) PROVE IInv'
    BY <1>0, <1>2, Within, QuietInv DEF LeafFails, EndStep
  <1>3. ASSUME NEW r \in Runners, LeafFinds(r) PROVE IInv'
    BY <1>0, <1>3, Within, QuietInv DEF LeafFinds, EndStep
  <1>4. ASSUME NEW r \in Runners, LeafPanics(r) PROVE IInv'
    BY <1>0, <1>4, Within, QuietInv DEF LeafPanics
  <1>5. ASSUME NEW r \in Runners, StartBackground(r) PROVE IInv'
    BY <1>0, <1>5, Within, QuietInv DEF StartBackground, EndStep
  <1>6. ASSUME NEW r \in Runners, StopBackground(r) PROVE IInv'
    BY <1>0, <1>6, Within, QuietInv DEF StopBackground, EndStep
  <1>7. ASSUME NEW r \in Runners, RefuseBlock(r) PROVE IInv'
    BY <1>0, <1>7, Within, QuietInv DEF RefuseBlock, EndStep
  <1>8. ASSUME NEW r \in Runners, Fork(r) PROVE IInv'
    BY <1>8, ForkInv
  <1>9. ASSUME NEW r \in Runners, Join(r) PROVE IInv'
    BY <1>9, JoinInv
  <1>10. ASSUME NEW r \in Runners, Acquire(r) PROVE IInv'
    BY <1>10, AcquireInv
  <1>11. ASSUME NEW r \in Runners, BackOut(r) PROVE IInv'
    <2>1. r # Root
      BY <1>0, <1>11 DEF BackOut, Control
    <2>2. QED
      BY <1>11, <2>1, LeaveInv DEF BackOut
  <1>12. ASSUME NEW r \in Runners, Release(r) PROVE IInv'
    BY <1>12, LeaveInv DEF Release
  <1>13. CASE FinishRoot
    <2>1. /\ pc[Root] = "running" /\ UNCHANGED <<prog, next, limiter>>
          /\ pc' = [pc EXCEPT ![Root] = "done"]
      BY <1>13 DEF FinishRoot
    <2>2. limiter' \in Nat
      BY <1>0, <2>1 DEF Control
    <2>3. Control' /\ UnstartedIdle' /\ BarrierHolds'
      BY <2>1, <2>2, MoveInv, ParallelAssumption
    <2>4. Live' = Live /\ Counted' = Counted
      BY <1>0, <2>1 DEF Live, Counted, Control
    <2>5. QED
      BY <2>1, <2>3, <2>4 DEF IInv, LimiterCountsBranches, LiveBranchesCapped
  <1>14. CASE UNCHANGED vars
    BY <1>14 DEF vars, IInv, Control, UnstartedIdle, Steps, BarrierHolds, Awaits,
                 LimiterCountsBranches, LiveBranchesCapped, Live, Counted
  <1>15. QED
    BY <1>1, <1>2, <1>3, <1>4, <1>5, <1>6, <1>7, <1>8, <1>9, <1>10, <1>11, <1>12,
       <1>13, <1>14 DEF Next, Goroutine

LEMMA InvHolds == Spec => []IInv
  BY InitInv, StepInv, PTL DEF Spec

(* However increments and back-outs interleave, at most maxLiveBranches    *)
(* branches of the whole tree execute steps at any time.                   *)
THEOREM CapTheorem == Spec => []LiveBranchesCapped
  BY InvHolds, PTL DEF IInv

(* Each branch gives back what it took, so a section that is over leaves   *)
(* the limiter as it found it.                                             *)
THEOREM LimiterTheorem == Spec => []LimiterCountsBranches
  BY InvHolds, PTL DEF IInv

(* A block's step ends only when none of its goroutines is left.           *)
THEOREM BarrierTheorem == Spec => []BarrierHolds
  BY InvHolds, PTL DEF IInv

-----------------------------------------------------------------------------
(***************************************************************************)
(* What a section with parallel blocks leaves on record, for every tree of *)
(* branches: results that are the reduction of their events through every  *)
(* merge, background goroutines that can still be found, and captures that *)
(* the steps after a block can read.                                       *)
(***************************************************************************)
(* f is the table of the merges of the first 0, 1, ..., n branches.        *)
IsMerging(f, R, bs, n) ==
  f = [k \in 0..n |-> IF k = 0 THEN R ELSE Merge(f[k - 1], bs[k])]

LEMMA MergingExists ==
  ASSUME NEW R, NEW bs, NEW L \in Nat
  PROVE  \E f : IsMerging(f, R, bs, L)
  <1> DEFINE T == {n \in Nat : \E f : IsMerging(f, R, bs, n)}
  <1>1. 0 \in T
    <2>1. IsMerging([k \in 0..0 |-> R], R, bs, 0)
      BY DEF IsMerging
    <2>2. QED
      BY <2>1
  <1>2. ASSUME NEW n \in Nat, n \in T PROVE n + 1 \in T
    <2>1. PICK f : IsMerging(f, R, bs, n)
      BY <1>2
    <2> DEFINE g == [k \in 0..(n + 1) |-> IF k = n + 1 THEN Merge(f[n], bs[n + 1]) ELSE f[k]]
    <2>2. \A k \in 0..n : f[k] = IF k = 0 THEN R ELSE Merge(f[k - 1], bs[k])
      BY <2>1 DEF IsMerging
    <2>3. \A k \in 0..n : g[k] = f[k]
      OBVIOUS
    <2>4. ASSUME NEW k \in 0..(n + 1)
          PROVE  g[k] = IF k = 0 THEN R ELSE Merge(g[k - 1], bs[k])
      <3>1. CASE k = n + 1
        <4>1. g[k] = Merge(f[n], bs[n + 1]) /\ k - 1 = n /\ k # 0 /\ g[n] = f[n]
          BY <3>1, <2>3
        <4>2. QED
          BY <3>1, <4>1
      <3>2. CASE k = 0
        BY <3>2, <2>2, <2>3
      <3>3. CASE k # 0 /\ k # n + 1
        <4>1. k \in 0..n /\ k - 1 \in 0..n
          BY <3>3
        <4> HIDE DEF g
        <4>2. QED
          BY <3>3, <4>1, <2>2, <2>3
      <3>4. QED
        BY <3>1, <3>2, <3>3
    <2>5. IsMerging(g, R, bs, n + 1)
      <3>1. g = [k \in 0..(n + 1) |-> g[k]]
        OBVIOUS
      <3> HIDE DEF g
      <3>2. QED
        BY <3>1, <2>4 DEF IsMerging
    <2>6. QED
      BY <2>5
  <1>3. Nat \subseteq T
    <2> HIDE DEF T
    <2>1. QED
      BY <1>1, <1>2, SetInduction
  <1>4. QED
    BY <1>3

(* Induction over the merges of a block: G holds, with their number, the   *)
(* states the parent may be in after them.                                 *)
LEMMA MergeInduction ==
  ASSUME NEW R, NEW bs, Len(bs) \in Nat, NEW G, <<0, R>> \in G,
         \A k \in 1..Len(bs) : \A X : <<k - 1, X>> \in G => <<k, Merge(X, bs[k])>> \in G
  PROVE  <<Len(bs), Merged(R, bs)>> \in G
  <1> DEFINE L == Len(bs)
  <1>1. \E f : IsMerging(f, R, bs, L)
    BY MergingExists
  <1>2. PICK f : IsMerging(f, R, bs, L) /\ Merged(R, bs) = f[L]
    BY <1>1 DEF IsMerging, Merged
  <1> HIDE DEF L
  <1>3. L \in Nat
    BY DEF L
  <1>4. \A k \in 0..L : f[k] = IF k = 0 THEN R ELSE Merge(f[k - 1], bs[k])
    BY <1>2 DEF IsMerging
  <1> DEFINE T == {k \in Nat : k <= L => <<k, f[k]>> \in G}
  <1>5. 0 \in T
    BY <1>3, <1>4
  <1>6. ASSUME NEW k \in Nat, k \in T PROVE k + 1 \in T
    <2> SUFFICES ASSUME k + 1 <= L PROVE <<k + 1, f[k + 1]>> \in G
      OBVIOUS
    <2>1. <<k, f[k]>> \in G
      BY <1>3, <1>6
    <2>2. k + 1 \in 1..L /\ k + 1 \in 0..L /\ (k + 1) - 1 = k /\ k + 1 # 0
      BY <1>3
    <2>3. f[k + 1] = Merge(f[k], bs[k + 1])
      BY <1>4, <2>2
    <2>4. <<k + 1, Merge(f[k], bs[k + 1])>> \in G
      BY <2>1, <2>2 DEF L
    <2>5. QED
      BY <2>3, <2>4
  <1>7. Nat \subseteq T
    <2> HIDE DEF T
    <2>1. QED
      BY <1>5, <1>6, SetInduction
  <1>8. QED
    BY <1>2, <1>3, <1>7 DEF L

-----------------------------------------------------------------------------
(* The reduction of j has these steps, findings and injected faults.       *)
Tallies(j, s, f, i) ==
  j \in Seq(Emitted) /\ Reduce(j).steps = s /\ Reduce(j).findings = f /\ Reduce(j).injected = i

LEMMA TallyEmpty == Tallies(<<>>, <<>>, <<>>, <<>>)
  <1>1. <<>> \in Seq(Emitted)
    OBVIOUS
  <1>2. QED
    BY <1>1, ReduceEmpty DEF Tallies, EmptyResult

(* What one more event of a block does to the reduction.                   *)
LEMMA TallyOneMore ==
  ASSUME NEW j, NEW s, NEW f, NEW i, Tallies(j, s, f, i)
  PROVE  /\ \A at \in Spot : Tallies(Append(j, StepStarted(at)), s, f, i)
         /\ \A at \in Spot : Tallies(Append(j, FaultInjected(at)), s, f, Append(i, at))
         /\ \A rec \in BlockFinding : Tallies(Append(j, FindingEvent(rec)), s, Append(f, rec), i)
         /\ \A sr \in BlockResult : Tallies(Append(j, StepEnded(sr)), Append(s, sr), f, i)
  <1>1. \A e \in Emitted :
          LET R == Reduce(j)
              Q == Reduce(Append(j, e))
          IN /\ R \in ResultsOf(Emitted) /\ Append(j, e) \in Seq(Emitted)
             /\ e.type \in {"step.started", "phase.started"} => Q = R
             /\ e.type \in StepEndTypes => Q = [R EXCEPT !.steps = Append(@, e.result)]
             /\ e.type = "fault.injected" => Q = [R EXCEPT !.injected = Append(@, e.at)]
             /\ e.type = "finding.recorded" => Q = [R EXCEPT !.findings = Append(@, e.record)]
    BY ReduceOneMore DEF Tallies
  <1>2. \A at \in Spot : /\ StepStarted(at) \in Emitted /\ StepStarted(at).type = "step.started"
                         /\ FaultInjected(at) \in Emitted /\ FaultInjected(at).type = "fault.injected"
                         /\ FaultInjected(at).at = at
    BY DEF StepStarted, FaultInjected, Emitted
  <1>3. \A rec \in BlockFinding : /\ FindingEvent(rec) \in Emitted /\ FindingEvent(rec).record = rec
                                  /\ FindingEvent(rec).type = "finding.recorded"
    BY DEF FindingEvent, Emitted
  <1>4. \A sr \in BlockResult : /\ StepEnded(sr) \in Emitted /\ StepEnded(sr).result = sr
                                /\ StepEnded(sr).type \in StepEndTypes
    BY DEF StepEnded, Emitted, BlockResult, stepEventType, Verdicts, StepEndTypes
  <1>5. ASSUME NEW at \in Spot PROVE Tallies(Append(j, StepStarted(at)), s, f, i)
    <2>1. /\ Append(j, StepStarted(at)) \in Seq(Emitted)
          /\ Reduce(Append(j, StepStarted(at))) = Reduce(j)
      BY <1>1, <1>2
    <2>2. QED
      BY <2>1 DEF Tallies
  <1>6. ASSUME NEW at \in Spot PROVE Tallies(Append(j, FaultInjected(at)), s, f, Append(i, at))
    <2>1. /\ Append(j, FaultInjected(at)) \in Seq(Emitted) /\ Reduce(j) \in ResultsOf(Emitted)
          /\ Reduce(Append(j, FaultInjected(at))) = [Reduce(j) EXCEPT !.injected = Append(@, at)]
      BY <1>1, <1>2
    <2>2. QED
      BY <2>1 DEF Tallies, ResultsOf
  <1>7. ASSUME NEW rec \in BlockFinding
        PROVE  Tallies(Append(j, FindingEvent(rec)), s, Append(f, rec), i)
    <2>1. /\ Append(j, FindingEvent(rec)) \in Seq(Emitted) /\ Reduce(j) \in ResultsOf(Emitted)
          /\ Reduce(Append(j, FindingEvent(rec))) = [Reduce(j) EXCEPT !.findings = Append(@, rec)]
      BY <1>1, <1>3
    <2>2. QED
      BY <2>1 DEF Tallies, ResultsOf
  <1>8. ASSUME NEW sr \in BlockResult
        PROVE  Tallies(Append(j, StepEnded(sr)), Append(s, sr), f, i)
    <2>1. /\ Append(j, StepEnded(sr)) \in Seq(Emitted) /\ Reduce(j) \in ResultsOf(Emitted)
          /\ Reduce(Append(j, StepEnded(sr))) = [Reduce(j) EXCEPT !.steps = Append(@, sr)]
      BY <1>1, <1>4
    <2>2. QED
      BY <2>1 DEF Tallies, ResultsOf
  <1>9. QED
    BY <1>5, <1>6, <1>7, <1>8

(* The fields of what a runner keeps.                                      *)
LEMMA RunnerFields ==
  ASSUME NEW R \in RunnerState
  PROVE  /\ R.outputs \in [Names -> Spot \cup {None}] /\ R.writes \in SUBSET Names
         /\ R.bg \in [BgNames -> Spot \cup {None}] /\ R.events \in Seq(Emitted)
         /\ R.res.steps \in Seq(BlockResult) /\ R.res.findings \in Seq(BlockFinding)
         /\ R.res.injected \in Seq(Spot) /\ R.res.held \in Seq(Spot)
         /\ R.failed \in {"no", "step", "panic", "cap"}
         /\ Reduced(R) => Tallies(R.events, R.res.steps, R.res.findings, R.res.injected)
  BY DEF RunnerState, Reduced, Tallies

(* The end of r's step, as far as captures, handles and results go.        *)
Ends(r, R, verdict) ==
  /\ \A q \in Runners \ {r} : runner'[q] = runner[q]
  /\ runner'[r].outputs = R.outputs /\ runner'[r].writes = R.writes /\ runner'[r].bg = R.bg
  /\ runner'[r].res.steps =
       Append(R.res.steps, [at |-> <<r, next[r]>>, verdict |-> verdict, timedOut |-> FALSE])

(* A step's end adds its result to the record and its event to the stream. *)
LEMMA EndStepRecords ==
  ASSUME Records, NEW r \in Runners, next[r] \in Nat,
         NEW R \in RunnerState, NEW verdict \in Verdicts, NEW before, EndStep(r, R, verdict, before),
         Tallies(R.events \o before, R.res.steps, R.res.findings, R.res.injected)
  PROVE  Records' /\ Ends(r, R, verdict)
  <1> DEFINE sr == [at |-> <<r, next[r]>>, verdict |-> verdict, timedOut |-> FALSE]
             j == R.events \o before
             Q == [R EXCEPT !.events = @ \o before \o <<StepEnded(sr)>>,
                            !.res.steps = Append(@, sr),
                            !.failed = IF verdict = "FAIL" THEN "step" ELSE @]
  <1>1. runner' = [runner EXCEPT ![r] = Q]
    BY DEF EndStep, Here
  <1>2. sr \in BlockResult
    BY DEF BlockResult, Spot
  <1>3. /\ Q.events = j \o <<StepEnded(sr)>>
        /\ Q.res.steps = Append(R.res.steps, sr) /\ Q.res.findings = R.res.findings
        /\ Q.res.injected = R.res.injected
        /\ Q.outputs = R.outputs /\ Q.writes = R.writes /\ Q.bg = R.bg
    BY DEF RunnerState
  <1>4. Tallies(Append(j, StepEnded(sr)), Append(R.res.steps, sr), R.res.findings, R.res.injected)
    BY <1>2, TallyOneMore
  <1>5. j \o <<StepEnded(sr)>> = Append(j, StepEnded(sr))
    <2>1. j \in Seq(Emitted) /\ StepEnded(sr) \in Emitted
      BY <1>2 DEF Tallies, StepEnded, Emitted, BlockResult, stepEventType, Verdicts, StepEndTypes
    <2>2. QED
      BY <2>1, AppendIsConcat
  <1>6. Q \in RunnerState
    <2>1. Append(R.res.steps, sr) \in Seq(BlockResult)
      BY <1>2, RunnerFields, AppendProperties
    <2>2. R.events \o before \o <<StepEnded(sr)>> \in Seq(Emitted)
      BY <1>4, <1>5 DEF Tallies
    <2>3. QED
      BY <2>1, <2>2 DEF RunnerState
  <1>7. Reduced(Q)
    BY <1>3, <1>4, <1>5 DEF Reduced, Tallies
  <1> HIDE DEF Q, sr
  <1>8. Records'
    <2>1. runner' \in [Runners -> RunnerState]
      BY <1>1, <1>6 DEF Records
    <2>2. \A q \in Runners : Reduced(runner'[q])
      BY <1>1, <1>7 DEF Records
    <2>3. QED
      BY <2>1, <2>2 DEF Records, Reduced
  <1>9. runner'[r] = Q /\ \A q \in Runners \ {r} : runner'[q] = runner[q]
    BY <1>1 DEF Records
  <1>10. QED
    BY <1>3, <1>8, <1>9 DEF sr, Ends

-----------------------------------------------------------------------------
LEMMA EmittedConcat ==
  ASSUME NEW j \in Seq(Emitted), NEW b \in Seq(Emitted)
  PROVE  Concatenated(Reduce(j \o b), Reduce(j), Reduce(b))
  <1>1. \A S : \A k \in Seq(S), q \in Seq(S) :
          S \subseteq S /\ (\A e \in S : e.type # "scenario.started")
            => Concatenated(Reduce(k \o q), Reduce(k), Reduce(q))
    BY ReduceConcat, Zenon
  <1>2. \A e \in Emitted : e.type # "scenario.started"
    BY DEF Emitted, StepEndTypes
  <1>3. QED
    BY <1>1, <1>2, Zenon

(* The fields of a merge.                                                  *)
LEMMA MergeState ==
  ASSUME NEW R \in RunnerState, NEW B \in RunnerState
  PROVE  LET M == Merge(R, B)
         IN /\ M \in RunnerState
            /\ M.outputs = [n \in Names |-> IF n \in B.writes THEN B.outputs[n] ELSE R.outputs[n]]
            /\ M.writes = R.writes
            /\ M.bg = [n \in BgNames |-> IF B.bg[n] # None THEN B.bg[n] ELSE R.bg[n]]
            /\ M.events = R.events \o B.events
            /\ M.res.steps = R.res.steps \o B.res.steps
            /\ M.res.findings = R.res.findings \o B.res.findings
            /\ M.res.injected = R.res.injected \o B.res.injected
  <1> DEFINE M == Merge(R, B)
             fields == [steps |-> R.res.steps \o B.res.steps, findings |-> R.res.findings \o B.res.findings,
                        injected |-> R.res.injected \o B.res.injected, held |-> R.res.held \o B.res.held]
  <1>0. M.res = fields
    <2>1. M.res = [f \in DOMAIN R.res |-> R.res[f] \o B.res[f]]
      BY DEF Merge, RunnerState
    <2>2. DOMAIN R.res = {"steps", "findings", "injected", "held"}
      BY DEF RunnerState
    <2>3. QED
      BY <2>1, <2>2
  <1>1. /\ M.outputs = [n \in Names |-> IF n \in B.writes THEN B.outputs[n] ELSE R.outputs[n]]
        /\ M.writes = R.writes /\ M.failed = R.failed
        /\ M.bg = [n \in BgNames |-> IF B.bg[n] # None THEN B.bg[n] ELSE R.bg[n]]
        /\ M.events = R.events \o B.events
    BY DEF Merge, RunnerState
  <1>2. M = [outputs |-> M.outputs, writes |-> M.writes, bg |-> M.bg, res |-> M.res,
             events |-> M.events, failed |-> M.failed]
    <2>1. PICK e, s, o, g : M = [R EXCEPT !.events = e, !.res = s, !.outputs = o, !.bg = g]
      BY Zenon DEF Merge
    <2>2. QED
      BY <2>1 DEF RunnerState
  <1> HIDE DEF M, fields
  <1>3. /\ M.outputs \in [Names -> Spot \cup {None}] /\ M.bg \in [BgNames -> Spot \cup {None}]
        /\ M.writes \in SUBSET Names /\ M.failed \in {"no", "step", "panic", "cap"}
    BY <1>1, RunnerFields
  <1>4. M.events \in Seq(Emitted)
    BY <1>1, RunnerFields, ConcatProperties
  <1>5. /\ R.res.steps \o B.res.steps \in Seq(BlockResult)
        /\ R.res.findings \o B.res.findings \in Seq(BlockFinding)
        /\ R.res.injected \o B.res.injected \in Seq(Spot)
        /\ R.res.held \o B.res.held \in Seq(Spot)
    BY RunnerFields, ConcatProperties
  <1>6. M \in RunnerState
    <2>1. M.res \in [steps : Seq(BlockResult), findings : Seq(BlockFinding),
                     injected : Seq(Spot), held : Seq(Spot)]
      BY <1>0, <1>5 DEF fields
    <2>2. QED
      BY <1>2, <1>3, <1>4, <2>1 DEF RunnerState
  <1>7. /\ M.res.steps = R.res.steps \o B.res.steps
        /\ M.res.findings = R.res.findings \o B.res.findings
        /\ M.res.injected = R.res.injected \o B.res.injected
    <2>1. /\ fields.steps = R.res.steps \o B.res.steps
          /\ fields.findings = R.res.findings \o B.res.findings
          /\ fields.injected = R.res.injected \o B.res.injected
      BY Zenon DEF fields
    <2>2. QED
      BY <1>0, <2>1, Zenon
  <1>8. QED
    BY <1>1, <1>6, <1>7 DEF M

(* A merge keeps what a runner has on record in step with its events.      *)
LEMMA MergeRecords ==
  ASSUME NEW R \in RunnerState, NEW B \in RunnerState, Reduced(R), Reduced(B)
  PROVE  Merge(R, B) \in RunnerState /\ Reduced(Merge(R, B))
  <1> DEFINE M == Merge(R, B)
  <1>1. Concatenated(Reduce(R.events \o B.events), Reduce(R.events), Reduce(B.events))
    BY RunnerFields, EmittedConcat
  <1>2. /\ M \in RunnerState /\ M.events = R.events \o B.events
        /\ M.res.steps = R.res.steps \o B.res.steps
        /\ M.res.findings = R.res.findings \o B.res.findings
        /\ M.res.injected = R.res.injected \o B.res.injected
    BY MergeState
  <1> HIDE DEF M
  <1>3. /\ Reduce(R.events).steps = R.res.steps /\ Reduce(B.events).steps = B.res.steps
        /\ Reduce(R.events).findings = R.res.findings /\ Reduce(B.events).findings = B.res.findings
        /\ Reduce(R.events).injected = R.res.injected /\ Reduce(B.events).injected = B.res.injected
    BY DEF Reduced
  <1>4. Concatenated(Reduce(M.events), Reduce(R.events), Reduce(B.events))
    BY <1>1, <1>2
  <1>5. Reduced(M)
    BY <1>2, <1>3, <1>4 DEF Reduced, Concatenated
  <1>6. QED
    BY <1>2, <1>5 DEF M

(* What a block's runners are when it is joined.                           *)
Branches(r) == [i \in DOMAIN Current(r).branches |-> runner[Current(r).branches[i]]]

LEMMA BranchesShape ==
  ASSUME Control, NEW r \in Runners, next[r] \in DOMAIN Steps(r)
  PROVE  /\ Current(r) \in Step /\ Current(r).branches \in Seq(Runners)
         /\ Len(Branches(r)) = Len(Current(r).branches) /\ Len(Branches(r)) \in Nat
         /\ DOMAIN Branches(r) = 1..Len(Branches(r))
         /\ \A k \in 1..Len(Branches(r)) : /\ Current(r).branches[k] \in Runners
                                           /\ Branches(r)[k] = runner[Current(r).branches[k]]
  <1>1. Current(r) \in Step
    BY Shape DEF Current
  <1>2. Current(r).branches \in Seq(Runners)
    BY <1>1 DEF Step
  <1>3. DOMAIN Branches(r) = 1..Len(Current(r).branches) /\ Len(Current(r).branches) \in Nat
    BY <1>2 DEF Branches
  <1>4. Len(Branches(r)) = Len(Current(r).branches)
    BY <1>3 DEF Branches
  <1>5. QED
    BY <1>1, <1>2, <1>3, <1>4 DEF Branches

LEMMA MergedRecords ==
  ASSUME Control, Records, NEW r \in Runners, next[r] \in DOMAIN Steps(r)
  PROVE  Merged(runner[r], Branches(r)) \in RunnerState /\ Reduced(Merged(runner[r], Branches(r)))
  <1> DEFINE bs == Branches(r)
             G == Nat \X {X \in RunnerState : Reduced(X)}
  <1>1. Len(bs) \in Nat /\ \A k \in 1..Len(bs) : bs[k] \in RunnerState /\ Reduced(bs[k])
    BY BranchesShape DEF Records
  <1> HIDE DEF bs
  <1>2. <<0, runner[r]>> \in G
    BY DEF Records
  <1>3. \A k \in 1..Len(bs) : \A X : <<k - 1, X>> \in G => <<k, Merge(X, bs[k])>> \in G
    BY <1>1, MergeRecords
  <1> HIDE DEF G
  <1>4. <<Len(bs), Merged(runner[r], bs)>> \in G
    BY <1>1, <1>2, <1>3, MergeInduction
  <1>5. QED
    BY <1>4 DEF bs, G

-----------------------------------------------------------------------------
LEMMA InitRecords == Init => Records
  <1> SUFFICES ASSUME Init PROVE Records
    OBVIOUS
  <1> DEFINE F == Fresh([n \in Names |-> None])
  <1>1. runner = [r \in Runners |-> F]
    BY DEF Init
  <1>2. F \in RunnerState
    BY DEF Fresh, RunnerState, EmptyCounts
  <1>3. Reduced(F)
    BY TallyEmpty DEF Fresh, EmptyCounts, Reduced, Tallies
  <1> HIDE DEF F
  <1>4. QED
    BY <1>1, <1>2, <1>3 DEF Records

(* The first event of a step.                                              *)
LEMMA StartedTally ==
  ASSUME Records, NEW r \in Runners, next[r] \in Nat,
         NEW R \in RunnerState, Reduced(R)
  PROVE  Tallies(R.events \o <<StepStarted(Here(r))>>, R.res.steps, R.res.findings, R.res.injected)
  <1>1. Tallies(R.events, R.res.steps, R.res.findings, R.res.injected)
    BY RunnerFields
  <1>2. Here(r) \in Spot /\ StepStarted(Here(r)) \in Emitted
    BY DEF Here, Spot, StepStarted, Emitted
  <1>3. Tallies(Append(R.events, StepStarted(Here(r))), R.res.steps, R.res.findings, R.res.injected)
    BY <1>1, <1>2, TallyOneMore
  <1>4. R.events \o <<StepStarted(Here(r))>> = Append(R.events, StepStarted(Here(r)))
    BY <1>1, <1>2, AppendIsConcat DEF Tallies
  <1>5. QED
    BY <1>3, <1>4

(* A step with no event between its first and its last.                    *)
LEMMA PlainStepRecords ==
  ASSUME Control, Records, NEW r \in Runners, NEW R \in RunnerState, Reduced(R),
         NEW verdict \in Verdicts, EndStep(r, R, verdict, <<StepStarted(Here(r))>>)
  PROVE  Records' /\ Ends(r, R, verdict)
  <1>1. next[r] \in Nat
    BY Shape
  <1>2. Tallies(R.events \o <<StepStarted(Here(r))>>, R.res.steps, R.res.findings, R.res.injected)
    BY <1>1, StartedTally
  <1>3. QED
    BY <1>1, <1>2, EndStepRecords

(* A step with one event between its first and its last.                   *)
LEMMA TwoEvents ==
  ASSUME NEW j \in Seq(Emitted), NEW a \in Emitted, NEW b \in Emitted
  PROVE  /\ j \o <<a, b>> = Append(j \o <<a>>, b)
         /\ j \o (<<a>> \o <<b>>) = Append(j \o <<a>>, b)
         /\ j \o (<<a>> \o <<>>) = j \o <<a>>
  <1>1. <<a>> \in Seq(Emitted) /\ <<b>> \in Seq(Emitted) /\ <<a, b>> = <<a>> \o <<b>>
    <2>1. <<a>> \in Seq(Emitted) /\ <<b>> \in Seq(Emitted)
      OBVIOUS
    <2>2. <<a, b>> = Append(<<a>>, b)
      OBVIOUS
    <2>3. QED
      BY <2>1, <2>2, AppendIsConcat
  <1>2. j \o <<a>> \in Seq(Emitted)
    BY <1>1, ConcatProperties
  <1>3. (j \o <<a>>) \o <<b>> = j \o (<<a>> \o <<b>>)
    BY <1>1, ConcatAssociative
  <1>4. Append(j \o <<a>>, b) = (j \o <<a>>) \o <<b>>
    BY <1>2, AppendIsConcat
  <1>5. <<a>> \o <<>> = <<a>>
    BY <1>1, ConcatEmptySeq
  <1>6. QED
    BY <1>1, <1>3, <1>4, <1>5

(* What a leaf binds is a place or what another name is bound to.          *)
LEMMA BindState ==
  ASSUME Control, Records, NEW r \in Runners, next[r] \in DOMAIN Steps(r)
  PROVE  LET R == Bind(runner[r], r, Current(r))
         IN /\ R \in RunnerState /\ R.events = runner[r].events /\ R.res = runner[r].res
            /\ R.bg = runner[r].bg
            /\ Current(r).binds = "nothing" => R = runner[r]
            /\ Current(r).binds # "nothing" => Current(r).binds \in Names
            /\ \A n \in Names : n # Current(r).binds => R.outputs[n] = runner[r].outputs[n]
            /\ Current(r).binds # "nothing" =>
                 R.outputs[Current(r).binds] =
                   IF Current(r).reads = "nothing" THEN Here(r) ELSE runner[r].outputs[Current(r).reads]
            /\ R.writes = IF r = Root \/ Current(r).binds = "nothing" THEN runner[r].writes
                          ELSE runner[r].writes \cup {Current(r).binds}
  <1> DEFINE st == Current(r)
             v == IF st.reads = "nothing" THEN Here(r) ELSE runner[r].outputs[st.reads]
             w == IF r = Root THEN runner[r].writes ELSE runner[r].writes \cup {st.binds}
             X == runner[r]
  <1>1. X \in RunnerState
    BY DEF Records
  <1>2. /\ st.reads \in Names \cup {"nothing"} /\ st.binds \in Names \cup {"nothing"}
        /\ Here(r) \in Spot
    BY BranchesShape, Shape DEF Step, Here, Spot
  <1>3. X.outputs \in [Names -> Spot \cup {None}] /\ X.writes \in SUBSET Names
    BY <1>1, RunnerFields
  <1>4. v \in Spot \cup {None}
    BY <1>2, <1>3
  <1>5. CASE st.binds = "nothing"
    <2>1. Bind(X, r, st) = X
      BY <1>5 DEF Bind
    <2>2. QED
      BY <1>1, <1>5, <2>1
  <1>6. CASE st.binds # "nothing"
    <2>1. st.binds \in Names
      BY <1>2, <1>6
    <2>2. Bind(X, r, st) = [X EXCEPT !.outputs[st.binds] = v, !.writes = w]
      BY <1>6 DEF Bind
    <2> DEFINE o == [X.outputs EXCEPT ![st.binds] = v]
    <2>3. /\ o \in [Names -> Spot \cup {None}] /\ o[st.binds] = v
          /\ \A n \in Names : n # st.binds => o[n] = X.outputs[n]
      BY <1>3, <1>4, <2>1
    <2>4. w \in SUBSET Names
      BY <1>3, <2>1
    <2>5. Bind(X, r, st) = [X EXCEPT !.outputs = o, !.writes = w]
      BY <2>2
    <2> HIDE DEF v, w, o
    <2>6. /\ Bind(X, r, st) \in RunnerState
          /\ Bind(X, r, st).outputs = o /\ Bind(X, r, st).writes = w
          /\ Bind(X, r, st).events = X.events /\ Bind(X, r, st).res = X.res
          /\ Bind(X, r, st).bg = X.bg
      BY <1>1, <2>3, <2>4, <2>5 DEF RunnerState
    <2>7. QED
      BY <1>6, <2>1, <2>3, <2>6 DEF v, w
  <1>7. QED
    BY <1>5, <1>6

(* A passing leaf: what it leaves behind, recorded.                        *)
LEMMA LeafPassesRecords ==
  ASSUME Control, Records, NEW r \in Runners, LeafPasses(r)
  PROVE  Records' /\ Ends(r, Bind(runner[r], r, Current(r)), "PASS")
  <1> DEFINE st == Current(r)
             X == Bind(runner[r], r, st)
             C == IF st.adds = "nothing" THEN X ELSE Record(X, st.adds, Here(r))
             fault == IF st.adds = "injected" THEN <<FaultInjected(Here(r))>> ELSE <<>>
             started == StepStarted(Here(r))
  <1>1. next[r] \in DOMAIN Steps(r) /\ next[r] \in Nat
    BY Within, Shape DEF LeafPasses
  <1>2. EndStep(r, C, "PASS", <<started>> \o fault)
    BY DEF LeafPasses
  <1>3. X \in RunnerState /\ X.events = runner[r].events /\ X.res = runner[r].res
    BY <1>1, BindState
  <1>4. Reduced(X)
    BY <1>3 DEF Records, Reduced
  <1>5. st.adds \in {"nothing", "injected", "held"}
    BY <1>1, BranchesShape DEF Step
  <1>6. /\ Here(r) \in Spot /\ started \in Emitted /\ FaultInjected(Here(r)) \in Emitted
        /\ X.events \in Seq(Emitted)
    BY <1>1, <1>3, RunnerFields DEF Here, Spot, StepStarted, FaultInjected, Emitted
  <1>7. Tallies(X.events \o <<started>>, X.res.steps, X.res.findings, X.res.injected)
    BY <1>1, <1>3, <1>4, StartedTally
  <1> HIDE DEF X, started
  <1>8. /\ C \in RunnerState
        /\ Tallies(C.events \o (<<started>> \o fault), C.res.steps, C.res.findings, C.res.injected)
        /\ C.outputs = X.outputs /\ C.writes = X.writes /\ C.bg = X.bg
        /\ C.res.steps = X.res.steps
    <2>1. CASE st.adds = "nothing"
      BY <1>3, <1>6, <1>7, <2>1, TwoEvents
    <2>2. CASE st.adds = "injected"
      <3>1. C = [X EXCEPT !.res.injected = Append(@, Here(r))]
        BY <2>2 DEF Record
      <3>2. Append(X.res.injected, Here(r)) \in Seq(Spot)
        BY <1>3, <1>6, RunnerFields, AppendProperties
      <3>3. /\ C \in RunnerState /\ C.events = X.events
            /\ C.outputs = X.outputs /\ C.writes = X.writes /\ C.bg = X.bg
            /\ C.res.steps = X.res.steps /\ C.res.findings = X.res.findings
            /\ C.res.injected = Append(X.res.injected, Here(r))
        BY ZenonT(30), <1>3, <3>1, <3>2 DEF RunnerState
      <3>4. Tallies(Append(X.events \o <<started>>, FaultInjected(Here(r))),
                    X.res.steps, X.res.findings, Append(X.res.injected, Here(r)))
        BY <1>6, <1>7, TallyOneMore
      <3>5. X.events \o (<<started>> \o fault)
              = Append(X.events \o <<started>>, FaultInjected(Here(r)))
        BY <1>6, <2>2, TwoEvents
      <3>6. QED
        BY <3>3, <3>4, <3>5
    <2>3. CASE st.adds = "held"
      <3>1. C = [X EXCEPT !.res.held = Append(@, Here(r))]
        BY <2>3 DEF Record
      <3>2. Append(X.res.held, Here(r)) \in Seq(Spot)
        BY <1>3, <1>6, RunnerFields, AppendProperties
      <3>3. /\ C \in RunnerState /\ C.events = X.events
            /\ C.outputs = X.outputs /\ C.writes = X.writes /\ C.bg = X.bg
            /\ C.res.steps = X.res.steps /\ C.res.findings = X.res.findings
            /\ C.res.injected = X.res.injected
        BY ZenonT(30), <1>3, <3>1, <3>2 DEF RunnerState
      <3>4. X.events \o (<<started>> \o fault) = X.events \o <<started>>
        BY <1>6, <2>3, TwoEvents
      <3>5. QED
        BY <1>7, <3>3, <3>4
    <2>4. QED
      BY <1>5, <2>1, <2>2, <2>3
  <1> HIDE DEF C, fault
  <1>9. "PASS" \in Verdicts
    BY DEF Verdicts
  <1>10. Records' /\ Ends(r, C, "PASS")
    BY <1>1, <1>2, <1>8, <1>9, EndStepRecords
  <1>11. QED
    BY <1>3, <1>8, <1>10 DEF X, Ends

LEMMA LeafFailsRecords ==
  ASSUME Control, Records, NEW r \in Runners, LeafFails(r) \/ RefuseBlock(r)
  PROVE  Records' /\ Ends(r, runner[r], "FAIL")
  <1>1. EndStep(r, runner[r], "FAIL", <<StepStarted(Here(r))>>)
    BY DEF LeafFails, RefuseBlock
  <1>2. runner[r] \in RunnerState /\ Reduced(runner[r]) /\ "FAIL" \in Verdicts
    BY DEF Records, Verdicts
  <1>3. QED
    BY <1>1, <1>2, PlainStepRecords

LEMMA LeafFindsRecords ==
  ASSUME Control, Records, NEW r \in Runners, LeafFinds(r)
  PROVE  Records' /\ Ends(r, runner[r], "FINDING")
  <1> DEFINE X == runner[r]
             f == [at |-> Here(r), nowPasses |-> FALSE, detail |-> "failed"]
             R == Record(X, "findings", f)
             started == StepStarted(Here(r))
  <1>1. next[r] \in Nat /\ EndStep(r, R, "FINDING", <<started, FindingEvent(f)>>)
    BY Shape DEF LeafFinds
  <1>2. X \in RunnerState /\ Reduced(X) /\ "FINDING" \in Verdicts
    BY DEF Records, Verdicts
  <1>3. /\ f \in BlockFinding /\ started \in Emitted /\ FindingEvent(f) \in Emitted
        /\ X.events \in Seq(Emitted)
    BY <1>1, <1>2, RunnerFields
    DEF Here, Spot, BlockFinding, Outcomes, StepStarted, FindingEvent, Emitted
  <1>4. Tallies(X.events \o <<started>>, X.res.steps, X.res.findings, X.res.injected)
    BY <1>1, <1>2, StartedTally
  <1> HIDE DEF f, started, X
  <1>5. Tallies(Append(X.events \o <<started>>, FindingEvent(f)),
                X.res.steps, Append(X.res.findings, f), X.res.injected)
    BY <1>3, <1>4, TallyOneMore
  <1>6. X.events \o <<started, FindingEvent(f)>> = Append(X.events \o <<started>>, FindingEvent(f))
    BY <1>3, TwoEvents
  <1>7. Append(X.res.findings, f) \in Seq(BlockFinding)
    BY <1>2, <1>3, RunnerFields, AppendProperties
  <1>8. /\ R \in RunnerState /\ R.events = X.events
        /\ R.outputs = X.outputs /\ R.writes = X.writes /\ R.bg = X.bg
        /\ R.res.steps = X.res.steps /\ R.res.findings = Append(X.res.findings, f)
        /\ R.res.injected = X.res.injected
    BY <1>2, <1>7 DEF Record, RunnerState
  <1> HIDE DEF R
  <1>9. Records' /\ Ends(r, R, "FINDING")
    BY <1>1, <1>2, <1>5, <1>6, <1>8, EndStepRecords
  <1>10. QED
    BY <1>8, <1>9 DEF Ends, X

(* R has r's handles except that of n, which is h.                         *)
HandleSet(r, R, n, h) ==
  R.bg[n] = h /\ \A m \in BgNames : m # n => R.bg[m] = runner[r].bg[m]

(* The handles of r after it has set that of n to h.                       *)
LEMMA HandleState ==
  ASSUME Records, NEW r \in Runners, NEW n \in BgNames, NEW h \in Spot \cup {None}
  PROVE  LET R == [runner[r] EXCEPT !.bg[n] = h]
         IN /\ R \in RunnerState /\ Reduced(R)
            /\ R.outputs = runner[r].outputs /\ R.writes = runner[r].writes
            /\ R.res = runner[r].res /\ HandleSet(r, R, n, h)
  <1> DEFINE X == runner[r]
             b == [X.bg EXCEPT ![n] = h]
             R == [X EXCEPT !.bg = b]
  <1>1. X \in RunnerState /\ Reduced(X)
    BY DEF Records
  <1>2. /\ b \in [BgNames -> Spot \cup {None}] /\ b[n] = h
        /\ \A m \in BgNames : m # n => b[m] = X.bg[m]
    BY <1>1, RunnerFields
  <1>3. [runner[r] EXCEPT !.bg[n] = h] = R
    OBVIOUS
  <1> HIDE DEF b
  <1>4. /\ R \in RunnerState /\ R.bg = b /\ R.events = X.events /\ R.res = X.res
        /\ R.outputs = X.outputs /\ R.writes = X.writes
    BY <1>1, <1>2 DEF RunnerState
  <1>5. Reduced(R)
    BY <1>1, <1>4 DEF Reduced
  <1>6. HandleSet(r, R, n, h)
    BY <1>2, <1>4 DEF HandleSet
  <1>7. QED
    BY <1>3, <1>4, <1>5, <1>6

LEMMA StartBackgroundRecords ==
  ASSUME Control, Records, NEW r \in Runners, StartBackground(r)
  PROVE  /\ Records'
         /\ runner[r].bg[Current(r).name] = None
              => Ends(r, [runner[r] EXCEPT !.bg[Current(r).name] = Here(r)], "PASS")
         /\ runner[r].bg[Current(r).name] # None => Ends(r, runner[r], "FAIL")
  <1> DEFINE n == Current(r).name
  <1>1. next[r] \in DOMAIN Steps(r) /\ next[r] \in Nat
    BY Within, Shape DEF StartBackground
  <1>2. n \in BgNames /\ Here(r) \in Spot \cup {None}
    BY <1>1, BranchesShape DEF Step, Here, Spot
  <1>3. runner[r] \in RunnerState /\ Reduced(runner[r]) /\ "FAIL" \in Verdicts /\ "PASS" \in Verdicts
    BY DEF Records, Verdicts
  <1>4. CASE runner[r].bg[n] = None
    <2>1. EndStep(r, [runner[r] EXCEPT !.bg[n] = Here(r)], "PASS", <<StepStarted(Here(r))>>)
      BY <1>4 DEF StartBackground
    <2>2. QED
      BY <1>2, <1>3, <1>4, <2>1, HandleState, PlainStepRecords
  <1>5. CASE runner[r].bg[n] # None
    <2>1. EndStep(r, runner[r], "FAIL", <<StepStarted(Here(r))>>)
      BY <1>5 DEF StartBackground
    <2>2. QED
      BY <1>3, <1>5, <2>1, PlainStepRecords
  <1>6. QED
    BY <1>4, <1>5

LEMMA StopBackgroundRecords ==
  ASSUME Control, Records, NEW r \in Runners, StopBackground(r)
  PROVE  /\ Records'
         /\ Ends(r, [runner[r] EXCEPT !.bg[Current(r).name] = None],
                 IF runner[r].bg[Current(r).name] = None THEN "FAIL" ELSE "PASS")
  <1> DEFINE n == Current(r).name
             verdict == IF runner[r].bg[n] = None THEN "FAIL" ELSE "PASS"
  <1>1. next[r] \in DOMAIN Steps(r)
    BY Within DEF StopBackground
  <1>2. n \in BgNames /\ None \in Spot \cup {None} /\ verdict \in Verdicts
    BY <1>1, BranchesShape DEF Step, Verdicts
  <1>3. EndStep(r, [runner[r] EXCEPT !.bg[n] = None], verdict, <<StepStarted(Here(r))>>)
    BY DEF StopBackground
  <1> HIDE DEF verdict, n
  <1>4. /\ [runner[r] EXCEPT !.bg[n] = None] \in RunnerState
        /\ Reduced([runner[r] EXCEPT !.bg[n] = None])
    BY <1>2, HandleState
  <1>5. Records' /\ Ends(r, [runner[r] EXCEPT !.bg[n] = None], verdict)
    BY <1>2, <1>3, <1>4, PlainStepRecords
  <1>6. QED
    BY <1>5 DEF n, verdict

(* r's captures, handles and result stay as they are.                      *)
Keeps(r) ==
  /\ runner'[r].outputs = runner[r].outputs /\ runner'[r].writes = runner[r].writes
  /\ runner'[r].bg = runner[r].bg /\ runner'[r].res = runner[r].res

(* The start of a step without its end.                                    *)
LEMMA StartedRecords ==
  ASSUME Control, Records, NEW r \in Runners
  PROVE  LET R == [runner[r] EXCEPT !.events = Append(@, StepStarted(Here(r)))]
         IN /\ R \in RunnerState /\ Reduced(R)
            /\ R.outputs = runner[r].outputs /\ R.writes = runner[r].writes
            /\ R.bg = runner[r].bg /\ R.res = runner[r].res
  <1> DEFINE X == runner[r]
             e == Append(X.events, StepStarted(Here(r)))
             R == [X EXCEPT !.events = e]
  <1>1. X \in RunnerState /\ Reduced(X) /\ next[r] \in Nat
    BY Shape DEF Records
  <1>2. Here(r) \in Spot
    BY <1>1 DEF Here, Spot
  <1>3. Tallies(e, X.res.steps, X.res.findings, X.res.injected)
    BY <1>1, <1>2, RunnerFields, TallyOneMore
  <1>4. [runner[r] EXCEPT !.events = Append(@, StepStarted(Here(r)))] = R
    OBVIOUS
  <1> HIDE DEF e
  <1>5. /\ R \in RunnerState /\ R.events = e /\ R.res = X.res /\ R.bg = X.bg
        /\ R.outputs = X.outputs /\ R.writes = X.writes
    BY <1>1, <1>3 DEF RunnerState, Tallies
  <1>6. Reduced(R)
    BY <1>3, <1>5 DEF Reduced, Tallies
  <1>7. QED
    BY <1>4, <1>5, <1>6

LEMMA LeafPanicsRecords ==
  ASSUME Control, Records, NEW r \in Runners, LeafPanics(r)
  PROVE  Records' /\ \A q \in Runners : Keeps(q)
  <1> DEFINE Y == [runner[r] EXCEPT !.events = Append(@, StepStarted(Here(r)))]
             R == [Y EXCEPT !.failed = "panic"]
  <1>1. /\ Y \in RunnerState /\ Reduced(Y)
        /\ Y.outputs = runner[r].outputs /\ Y.writes = runner[r].writes
        /\ Y.bg = runner[r].bg /\ Y.res = runner[r].res
    BY StartedRecords
  <1>2. runner' = [runner EXCEPT ![r] = R]
    <2>1. runner \in [Runners -> RunnerState]
      BY DEF Records
    <2>2. runner' = [[runner EXCEPT ![r].events = Append(@, StepStarted(Here(r)))]
                     EXCEPT ![r].failed = "panic"]
      BY DEF LeafPanics
    <2>3. QED
      BY <2>1, <2>2
  <1> HIDE DEF Y
  <1>3. /\ R \in RunnerState /\ R.events = Y.events /\ R.outputs = Y.outputs
        /\ R.writes = Y.writes /\ R.bg = Y.bg /\ R.res = Y.res
    BY <1>1 DEF RunnerState
  <1>4. Reduced(R)
    BY <1>1, <1>3 DEF Reduced
  <1> HIDE DEF R
  <1>5. runner'[r] = R /\ \A q \in Runners \ {r} : runner'[q] = runner[q]
    BY <1>2 DEF Records
  <1>6. runner' \in [Runners -> RunnerState]
    BY <1>2, <1>3 DEF Records
  <1>7. QED
    BY <1>1, <1>3, <1>4, <1>5, <1>6 DEF Records, Keeps, Reduced

LEMMA BackOutRecords ==
  ASSUME Control, Records, NEW r \in Runners, BackOut(r)
  PROVE  Records' /\ \A q \in Runners : Keeps(q)
  <1> DEFINE X == runner[r]
             R == [X EXCEPT !.failed = "cap"]
  <1>1. runner' = [runner EXCEPT ![r] = R]
    BY DEF BackOut
  <1>2. X \in RunnerState /\ Reduced(X)
    BY DEF Records
  <1>3. /\ R \in RunnerState /\ R.events = X.events /\ R.outputs = X.outputs
        /\ R.writes = X.writes /\ R.bg = X.bg /\ R.res = X.res
    BY <1>2 DEF RunnerState
  <1>4. Reduced(R)
    BY <1>2, <1>3 DEF Reduced
  <1> HIDE DEF R
  <1>5. runner'[r] = R /\ \A q \in Runners \ {r} : runner'[q] = runner[q]
    BY <1>1 DEF Records
  <1>6. runner' \in [Runners -> RunnerState]
    BY <1>1, <1>3 DEF Records
  <1>7. QED
    BY <1>3, <1>4, <1>5, <1>6 DEF Records, Keeps, Reduced

(* A new branch starts with a copy of the captures and nothing else.       *)
LEMMA FreshState ==
  ASSUME NEW o \in [Names -> Spot \cup {None}]
  PROVE  /\ Fresh(o) \in RunnerState /\ Reduced(Fresh(o))
         /\ Fresh(o).outputs = o /\ Fresh(o).writes = {} /\ Fresh(o).res = EmptyCounts
         /\ Fresh(o).bg = [n \in BgNames |-> None]
  <1>1. Fresh(o) \in RunnerState
    BY DEF Fresh, RunnerState, EmptyCounts
  <1>2. Reduced(Fresh(o))
    BY TallyEmpty DEF Fresh, EmptyCounts, Reduced, Tallies
  <1>3. QED
    BY <1>1, <1>2 DEF Fresh

LEMMA ForkRecords ==
  ASSUME IInv, Records, NEW r \in Runners, Fork(r)
  PROVE  /\ Records' /\ Keeps(r)
         /\ \A q \in Runners :
              IF BranchOf(prog, q, r, next[r])
              THEN q # r /\ q # Root /\ pc[q] = "idle" /\ runner'[q] = Fresh(runner[r].outputs)
              ELSE Keeps(q)
  <1> DEFINE branches == Range(Current(r).branches)
             Y == [runner[r] EXCEPT !.events = Append(@, StepStarted(Here(r)))]
             F == Fresh(runner[r].outputs)
  <1>0. Control
    BY DEF IInv
  <1>1. pc[r] = "running" /\ next[r] \in DOMAIN Steps(r) /\ Steps(r)[next[r]].op = "parallel"
    BY <1>0, Within DEF Fork
  <1>2. \A q \in Runners : q \in branches <=> BranchOf(prog, q, r, next[r])
    BY <1>1 DEF BranchOf, Current, Steps
  <1>3. \A q \in Runners : q \in branches => pc[q] = "idle" /\ q # r /\ q # Root
    BY <1>0, <1>1, <1>2, Tree DEF IInv, UnstartedIdle
  <1>4. runner' = [q \in Runners |-> IF q = r THEN Y ELSE IF q \in branches THEN F ELSE runner[q]]
    BY Zenon DEF Fork
  <1>5. /\ Y \in RunnerState /\ Reduced(Y)
        /\ Y.outputs = runner[r].outputs /\ Y.writes = runner[r].writes
        /\ Y.bg = runner[r].bg /\ Y.res = runner[r].res
    BY <1>0, StartedRecords
  <1>6. F \in RunnerState /\ Reduced(F)
    <2>1. runner[r].outputs \in [Names -> Spot \cup {None}]
      BY RunnerFields DEF Records
    <2>2. QED
      BY <2>1, FreshState
  <1> HIDE DEF branches, Y, F
  <1>7. runner' \in [Runners -> RunnerState] /\ \A q \in Runners : Reduced(runner'[q])
    BY <1>4, <1>5, <1>6 DEF Records
  <1>8. Records'
    BY <1>7 DEF Records, Reduced
  <1>9. /\ runner'[r] = Y
        /\ \A q \in Runners \ {r} : runner'[q] = IF q \in branches THEN F ELSE runner[q]
    BY <1>4
  <1>10. Keeps(r)
    BY <1>5, <1>9 DEF Keeps
  <1>11. QED
    BY <1>2, <1>3, <1>8, <1>9, <1>10 DEF Keeps, F

LEMMA JoinRecords ==
  ASSUME Control, Records, NEW r \in Runners, Join(r), next[r] \in DOMAIN Steps(r)
  PROVE  /\ Records'
         /\ \E verdict \in {"PASS", "FAIL"} : Ends(r, Merged(runner[r], Branches(r)), verdict)
  <1> DEFINE R == Merged(runner[r], Branches(r))
  <1>1. PICK verdict \in {"PASS", "FAIL"} : EndStep(r, R, verdict, <<>>)
    BY DEF Join, Branches
  <1>2. R \in RunnerState /\ Reduced(R)
    BY MergedRecords
  <1> HIDE DEF R
  <1>3. R.events \o <<>> = R.events
    BY <1>2, RunnerFields, ConcatEmptySeq
  <1>4. Tallies(R.events \o <<>>, R.res.steps, R.res.findings, R.res.injected)
    BY <1>2, <1>3, RunnerFields
  <1>5. next[r] \in Nat /\ verdict \in Verdicts
    BY Shape DEF Verdicts
  <1>6. Records' /\ Ends(r, R, verdict)
    BY <1>1, <1>2, <1>4, <1>5, EndStepRecords
  <1>7. QED
    BY <1>6 DEF R

LEMMA StepJoins == IInv /\ JoinsABlock /\ [Next]_vars => JoinsABlock'
  <1> SUFFICES ASSUME IInv, JoinsABlock, [Next]_vars,
                      NEW q \in Runners, pc'[q] = "joining"
               PROVE  next'[q] \in DOMAIN Steps(q)' /\ (Current(q).op = "parallel")'
    BY DEF JoinsABlock
  <1>0. Control /\ next[q] \in Nat
    BY Shape DEF IInv
  <1>1. CASE \E r \in Runners : Fork(r)
    <2>1. PICK r \in Runners : Fork(r)
      BY <1>1
    <2>2. pc[r] = "running" /\ next[r] \in DOMAIN Steps(r) /\ Steps(r)[next[r]].op = "parallel"
      BY <1>0, <2>1, Within DEF Fork
    <2>3. \A b \in Runners : b \in Range(Current(r).branches) => next[b] = 1
      <3>1. \A b \in Runners : b \in Range(Current(r).branches) => BranchOf(prog, b, r, next[r])
        BY <2>2 DEF BranchOf, Current, Steps
      <3>2. QED
        BY <1>0, <2>2, <3>1 DEF IInv, UnstartedIdle, Control
    <2>4. next'[q] = next[q] /\ prog' = prog /\ (q = r \/ pc[q] = "joining")
      BY <2>1, <2>3 DEF Fork
    <2>5. QED
      BY <2>2, <2>4 DEF JoinsABlock, Current, Steps
  <1>2. CASE ~(\E r \in Runners : Fork(r))
    <2>1. UNCHANGED vars \/ (\E r \in Runners : Goroutine(r)) \/ FinishRoot
      BY DEF Next
    <2>2. /\ prog' = prog /\ pc[q] = "joining"
          /\ next' = next \/ (\E r \in Runners : pc[r] = "running" /\ next' = [next EXCEPT ![r] = @ + 1])
                          \/ (\E r \in Runners : pc'[r] = "running" /\ next' = [next EXCEPT ![r] = @ + 1])
      <3>1. CASE UNCHANGED vars
        BY <3>1 DEF vars
      <3>2. CASE FinishRoot
        BY <1>0, <3>2 DEF FinishRoot, Control
      <3>3. ASSUME NEW r \in Runners, LeafPasses(r) \/ LeafFails(r) \/ LeafFinds(r)
                     \/ StartBackground(r) \/ StopBackground(r) \/ RefuseBlock(r)
            PROVE  /\ prog' = prog /\ pc' = pc /\ pc[r] = "running"
                   /\ next' = [next EXCEPT ![r] = @ + 1]
        BY <3>3 DEF LeafPasses, LeafFails, LeafFinds, StartBackground, StopBackground,
                    RefuseBlock, EndStep, At
      <3>4. ASSUME NEW r \in Runners, LeafPanics(r) \/ Acquire(r) \/ BackOut(r) \/ Release(r)
            PROVE  prog' = prog /\ next' = next /\ pc[q] = "joining"
        BY <1>0, <3>4 DEF LeafPanics, Acquire, BackOut, Release, Control
      <3>5. ASSUME NEW r \in Runners, Join(r)
            PROVE  /\ prog' = prog /\ pc[q] = "joining" /\ pc'[r] = "running"
                   /\ next' = [next EXCEPT ![r] = @ + 1]
        BY <1>0, <3>5 DEF Join, EndStep, Control
      <3>6. QED
        BY <1>2, <2>1, <3>1, <3>2, <3>3, <3>4, <3>5 DEF Goroutine
    <2>3. next'[q] = next[q]
      BY <1>0, <2>2 DEF Control
    <2>4. QED
      BY <2>2, <2>3 DEF JoinsABlock, Current, Steps
  <1>3. QED
    BY <1>1, <1>2

LEMMA StepRecords == IInv /\ JoinsABlock /\ Records /\ [Next]_vars => Records'
  <1> SUFFICES ASSUME IInv, JoinsABlock, Records, [Next]_vars PROVE Records'
    OBVIOUS
  <1>0. Control
    BY DEF IInv
  <1>1. ASSUME NEW r \in Runners, Goroutine(r) PROVE Records'
    <2>1. CASE Join(r)
      <3>1. next[r] \in DOMAIN Steps(r)
        BY <2>1 DEF Join, JoinsABlock
      <3>2. QED
        BY <1>0, <2>1, <3>1, JoinRecords
    <2>2. CASE Acquire(r) \/ Release(r)
      BY <2>2 DEF Acquire, Release, Records, Reduced
    <2>3. CASE LeafPasses(r) \/ LeafFails(r) \/ LeafFinds(r) \/ LeafPanics(r)
      BY <1>0, <2>3, LeafPassesRecords, LeafFailsRecords, LeafFindsRecords, LeafPanicsRecords
    <2>4. CASE StartBackground(r) \/ StopBackground(r) \/ RefuseBlock(r) \/ Fork(r) \/ BackOut(r)
      BY <1>0, <2>4, StartBackgroundRecords, StopBackgroundRecords, LeafFailsRecords,
         ForkRecords, BackOutRecords
    <2>5. QED
      BY <1>1, <2>1, <2>2, <2>3, <2>4 DEF Goroutine
  <1>2. CASE FinishRoot \/ UNCHANGED vars
    BY <1>2 DEF FinishRoot, vars, Records, Reduced
  <1>3. QED
    BY <1>1, <1>2 DEF Next

LEMMA RecordsHold == Spec => [](IInv /\ JoinsABlock /\ Records)
  <1>1. Init => JoinsABlock
    BY DEF Init, JoinsABlock
  <1>2. QED
    BY <1>1, InitInv, StepInv, StepJoins, InitRecords, StepRecords, PTL DEF Spec

(* However the branches of a tree of blocks interleave, the result that a  *)
(* runner has gathered, merges included, is the reduction of the events it *)
(* will hand on: the report that is read back from the journal is the one  *)
(* that was returned.                                                      *)
THEOREM ParallelResultReduced == Spec => []ResultIsReduction
  <1>1. Records => ResultIsReduction
    BY DEF Records, ResultIsReduction, Reduced
  <1>2. QED
    BY <1>1, RecordsHold, PTL

-----------------------------------------------------------------------------
(* What the merges of a block do to the handles: each is that of the       *)
(* parent or of a branch, and none is dropped.                             *)
LEMMA MergedHandles ==
  ASSUME Control, Records, HandlesOfTheirName, NEW r \in Runners, next[r] \in DOMAIN Steps(r),
         NEW n \in BgNames
  PROVE  LET h == Merged(runner[r], Branches(r)).bg[n]
         IN /\ h # None => Starts(h, n)
            /\ runner[r].bg[n] # None => h # None
            /\ \A k \in 1..Len(Branches(r)) : Branches(r)[k].bg[n] # None => h # None
  <1> DEFINE R == runner[r]
             bs == Branches(r)
             G == {p \in Nat \X RunnerState :
                     /\ p[2].bg[n] # None => Starts(p[2].bg[n], n)
                     /\ R.bg[n] # None => p[2].bg[n] # None
                     /\ \A j \in 1..p[1] : bs[j].bg[n] # None => p[2].bg[n] # None}
  <1>1. /\ Len(bs) \in Nat
        /\ \A k \in 1..Len(bs) : /\ bs[k] \in RunnerState /\ Reduced(bs[k])
                                 /\ bs[k].bg[n] # None => Starts(bs[k].bg[n], n)
    BY BranchesShape DEF Records, HandlesOfTheirName
  <1>2. R \in RunnerState /\ (R.bg[n] # None => Starts(R.bg[n], n))
    BY DEF Records, HandlesOfTheirName
  <1> HIDE DEF bs, R
  <1>3. <<0, R>> \in G
    BY <1>2
  <1>4. ASSUME NEW k \in 1..Len(bs), NEW X, <<k - 1, X>> \in G
        PROVE  <<k, Merge(X, bs[k])>> \in G
    <2> DEFINE B == bs[k]
               M == Merge(X, B)
    <2>1. /\ X \in RunnerState /\ (X.bg[n] # None => Starts(X.bg[n], n))
          /\ R.bg[n] # None => X.bg[n] # None
          /\ \A j \in 1..(k - 1) : bs[j].bg[n] # None => X.bg[n] # None
      BY <1>4
    <2>2. M \in RunnerState
      BY <1>1, <2>1, MergeState
    <2>3. M.bg[n] = IF B.bg[n] # None THEN B.bg[n] ELSE X.bg[n]
      <3>1. M.bg = [m \in BgNames |-> IF B.bg[m] # None THEN B.bg[m] ELSE X.bg[m]]
        BY <1>1, <2>1, MergeState
      <3> HIDE DEF M, B
      <3>2. QED
        BY <3>1
    <2>4. k \in Nat /\ \A j \in 1..k : j \in 1..(k - 1) \/ j = k
      BY <1>1
    <2>5. \A j \in 1..k : bs[j].bg[n] # None => M.bg[n] # None
      BY <2>1, <2>3, <2>4
    <2>6. M.bg[n] # None => Starts(M.bg[n], n)
      BY <1>1, <2>1, <2>3
    <2>7. R.bg[n] # None => M.bg[n] # None
      BY <2>1, <2>3
    <2> HIDE DEF M
    <2>8. <<k, M>> \in G
      BY <2>2, <2>4, <2>5, <2>6, <2>7
    <2>9. QED
      BY <2>8 DEF M
  <1> HIDE DEF G
  <1>5. <<Len(bs), Merged(R, bs)>> \in G
    BY <1>1, <1>3, <1>4, MergeInduction
  <1>6. QED
    BY <1>5 DEF G, bs, R

(* In a section whose background steps are named apart, the handles of a   *)
(* block's runners are all among those of its parent once it is joined.    *)
LEMMA HandlesSurvive ==
  ASSUME Control, Records, HandlesOfTheirName, HandlesNamedApart(prog),
         NEW r \in Runners, next[r] \in DOMAIN Steps(r), NEW n \in BgNames, NEW q \in Runners,
         q = r \/ BranchOf(prog, q, r, next[r]), runner[q].bg[n] # None
  PROVE  Merged(runner[r], Branches(r)).bg[n] = runner[q].bg[n]
  <1> DEFINE h == Merged(runner[r], Branches(r)).bg[n]
             a == runner[q].bg[n]
  <1>1. h # None => Starts(h, n)
    BY MergedHandles
  <1>2. h # None
    <2>1. CASE q = r
      BY <2>1, MergedHandles
    <2>2. CASE BranchOf(prog, q, r, next[r])
      <3>1. PICK k \in 1..Len(Branches(r)) : Current(r).branches[k] = q
        <4>1. q \in Range(Current(r).branches)
          BY <2>2 DEF BranchOf, Current, Steps
        <4>2. DOMAIN Current(r).branches = 1..Len(Branches(r))
          <5>1. Current(r).branches \in Seq(Runners) /\ Len(Branches(r)) = Len(Current(r).branches)
            BY BranchesShape
          <5>2. QED
            BY <5>1
        <4>3. QED
          BY <4>1, <4>2 DEF Range
      <3>2. Branches(r)[k] = runner[q]
        BY <3>1, BranchesShape
      <3>3. QED
        BY <3>1, <3>2, MergedHandles
    <2>3. QED
      BY <2>1, <2>2
  <1>3. Starts(a, n)
    BY DEF HandlesOfTheirName
  <1>4. a \in Spot
    BY RunnerFields DEF Records
  <1>5. h \in Spot
    BY <1>2, MergedRecords, RunnerFields
  <1> HIDE DEF h, a
  <1>6. a[1] = h[1] /\ a[2] = h[2]
    BY <1>1, <1>2, <1>3, <1>4, <1>5 DEF Starts, Steps, HandlesNamedApart, Spot
  <1>7. a = h
    BY <1>4, <1>5, <1>6 DEF Spot
  <1>8. QED
    BY <1>7 DEF a, h

(* What makes HandlesReachable inductive.                                  *)
HandlesInv ==
  /\ IInv /\ JoinsABlock /\ Records
  /\ HandlesNamedApart(prog) /\ HandlesOfTheirName /\ HandlesReachable

(* A runner that works or waits is still to be merged.                     *)
LEMMA BusyAttached ==
  ASSUME IInv, NEW r \in Runners, pc[r] \in {"running", "joining"}
  PROVE  Attached(r)
  BY DEF IInv, BarrierHolds, Attached

(* No barrier is entered or left: who is attached stays attached.          *)
LEMMA AttachedStays ==
  ASSUME Control, UNCHANGED prog,
         \A q \in Runners : pc[q] = "joining" => pc'[q] = "joining" /\ next'[q] = next[q],
         NEW r \in Runners, Attached(r)
  PROVE  Attached(r)'
  BY DEF Attached, Awaits

LEMMA SpotIsSomething == \A at \in Spot : at # None
  BY DEF Spot, None

LEMMA NamesKept ==
  ASSUME UNCHANGED prog, tasks' \subseteq Spot,
         \A q \in Runners, m \in BgNames :
           runner'[q].bg[m] # None => Starts(runner'[q].bg[m], m)
  PROVE  HandlesOfTheirName'
  <1>1. \A at, m : Starts(at, m) =>
          /\ at[2] \in DOMAIN (prog'.steps)[at[1]]
          /\ (prog'.steps)[at[1]][at[2]].op = "background" /\ (prog'.steps)[at[1]][at[2]].name = m
    BY DEF Starts, Steps
  <1>2. QED
    BY ZenonT(30), <1>1 DEF HandlesOfTheirName, Starts, Steps

(* Nothing of the handles or the tasks changes.                            *)
LEMMA HandlesUntouched ==
  ASSUME HandlesInv, UNCHANGED <<prog, tasks>>,
         \A q \in Runners : pc[q] = "joining" => pc'[q] = "joining" /\ next'[q] = next[q],
         \A q \in Runners : runner'[q].bg = runner[q].bg
  PROVE  HandlesOfTheirName' /\ HandlesReachable'
  <1>0. Control
    BY DEF HandlesInv, IInv
  <1>1. HandlesOfTheirName'
    BY NamesKept DEF HandlesInv, HandlesOfTheirName
  <1>2. HandlesReachable'
    <2> SUFFICES ASSUME NEW t \in tasks
                 PROVE  \E r \in Runners, n \in BgNames : Attached(r)' /\ runner'[r].bg[n] = t
      BY DEF HandlesReachable
    <2>1. PICK r \in Runners, n \in BgNames : Attached(r) /\ runner[r].bg[n] = t
      BY DEF HandlesInv, HandlesReachable
    <2>2. Attached(r)'
      BY <1>0, <2>1, AttachedStays
    <2>3. QED
      BY <2>1, <2>2
  <1>3. QED
    BY <1>1, <1>2

(* The end of a step that is not a block leaves the barriers alone.        *)
LEMMA EndsQuietly ==
  ASSUME Control, NEW r \in Runners, pc[r] = "running", UNCHANGED pc,
         next' = next \/ next' = [next EXCEPT ![r] = @ + 1]
  PROVE  \A q \in Runners : pc[q] = "joining" => pc'[q] = "joining" /\ next'[q] = next[q]
  BY DEF Control

LEMMA StartBackgroundHandles ==
  ASSUME HandlesInv, NEW r \in Runners, StartBackground(r)
  PROVE  HandlesOfTheirName' /\ HandlesReachable'
  <1> DEFINE n == Current(r).name
             here == <<r, next[r]>>
  <1>0. Control /\ Records /\ IInv
    BY DEF HandlesInv, IInv
  <1>1. /\ pc[r] = "running" /\ next[r] \in DOMAIN Steps(r) /\ next[r] \in Nat
        /\ Steps(r)[next[r]].op = "background"
    BY <1>0, Within, Shape DEF StartBackground
  <1>2. /\ UNCHANGED <<prog, pc>> /\ next' = [next EXCEPT ![r] = @ + 1]
        /\ runner[r].bg[n] = None => tasks' = tasks \cup {here}
        /\ runner[r].bg[n] # None => tasks' = tasks
    BY DEF StartBackground, EndStep, Here
  <1>3. \A q \in Runners : pc[q] = "joining" => pc'[q] = "joining" /\ next'[q] = next[q]
    BY <1>0, <1>1, <1>2, EndsQuietly
  <1>4. n \in BgNames /\ here \in Spot /\ here \in Spot \cup {None} /\ here # None
    BY <1>0, <1>1, BranchesShape, SpotIsSomething DEF Step, Spot
  <1>5. CASE runner[r].bg[n] # None
    <2>1. Ends(r, runner[r], "FAIL")
      BY <1>0, <1>5, StartBackgroundRecords
    <2>2. \A q \in Runners : runner'[q].bg = runner[q].bg
      BY <2>1 DEF Ends
    <2>3. QED
      BY <1>2, <1>3, <1>5, <2>2, HandlesUntouched
  <1>6. CASE runner[r].bg[n] = None
    <2>1. Ends(r, [runner[r] EXCEPT !.bg[n] = Here(r)], "PASS")
      BY <1>0, <1>6, StartBackgroundRecords
    <2>2. HandleSet(r, [runner[r] EXCEPT !.bg[n] = here], n, here)
      BY <1>0, <1>4, HandleState
    <2>3. /\ runner'[r].bg[n] = here
          /\ \A m \in BgNames : m # n => runner'[r].bg[m] = runner[r].bg[m]
          /\ \A q \in Runners \ {r} : runner'[q] = runner[q]
      BY <2>1, <2>2 DEF Ends, Here, HandleSet
    <2>4. Starts(here, n)
      BY <1>1 DEF Starts, Current, Steps
    <2>5. HandlesOfTheirName'
      <3>1. tasks' \subseteq Spot
        BY <1>2, <1>4, <1>6 DEF HandlesInv, HandlesOfTheirName
      <3>2. ASSUME NEW q \in Runners, NEW m \in BgNames, runner'[q].bg[m] # None
            PROVE  Starts(runner'[q].bg[m], m)
        BY <2>3, <2>4, <3>2 DEF HandlesInv, HandlesOfTheirName
      <3>3. QED
        BY <1>2, <3>1, <3>2, NamesKept
    <2>6. HandlesReachable'
      <3> SUFFICES ASSUME NEW t \in tasks'
                   PROVE  \E q \in Runners, m \in BgNames : Attached(q)' /\ runner'[q].bg[m] = t
        BY DEF HandlesReachable
      <3>1. CASE t = here
        <4>1. Attached(r)'
          BY <1>0, <1>1, <1>2, <1>3, BusyAttached, AttachedStays
        <4>2. QED
          BY <1>4, <2>3, <3>1, <4>1
      <3>2. CASE t # here
        <4>1. t \in tasks /\ t # None
          BY <1>2, <1>6, <3>2, SpotIsSomething DEF HandlesInv, HandlesOfTheirName
        <4>2. PICK q \in Runners, m \in BgNames : Attached(q) /\ runner[q].bg[m] = t
          BY <4>1 DEF HandlesInv, HandlesReachable
        <4>3. runner'[q].bg[m] = t
          BY <1>6, <2>3, <4>1, <4>2
        <4>4. Attached(q)'
          BY <1>0, <1>2, <1>3, <4>2, AttachedStays
        <4>5. QED
          BY <4>3, <4>4
      <3>3. QED
        BY <3>1, <3>2
    <2>7. QED
      BY <2>5, <2>6
  <1>7. QED
    BY <1>5, <1>6

LEMMA StopBackgroundHandles ==
  ASSUME HandlesInv, NEW r \in Runners, StopBackground(r)
  PROVE  HandlesOfTheirName' /\ HandlesReachable'
  <1> DEFINE n == Current(r).name
             h == runner[r].bg[n]
  <1>0. Control /\ Records /\ IInv
    BY DEF HandlesInv, IInv
  <1>1. pc[r] = "running" /\ next[r] \in DOMAIN Steps(r)
    BY <1>0, Within DEF StopBackground
  <1>2. /\ UNCHANGED <<prog, pc>> /\ next' = [next EXCEPT ![r] = @ + 1]
        /\ tasks' = tasks \ {h}
    BY DEF StopBackground, EndStep
  <1>3. \A q \in Runners : pc[q] = "joining" => pc'[q] = "joining" /\ next'[q] = next[q]
    BY <1>0, <1>1, <1>2, EndsQuietly
  <1>4. n \in BgNames /\ None \in Spot \cup {None}
    BY <1>0, <1>1, BranchesShape DEF Step
  <1>5. PICK v : Ends(r, [runner[r] EXCEPT !.bg[n] = None], v)
    BY <1>0, StopBackgroundRecords
  <1>6. HandleSet(r, [runner[r] EXCEPT !.bg[n] = None], n, None)
    BY <1>0, <1>4, HandleState
  <1>7. /\ runner'[r].bg[n] = None
        /\ \A m \in BgNames : m # n => runner'[r].bg[m] = runner[r].bg[m]
        /\ \A q \in Runners \ {r} : runner'[q] = runner[q]
    BY <1>5, <1>6 DEF Ends, HandleSet
  <1>8. HandlesOfTheirName'
    <2>1. tasks' \subseteq Spot
      BY <1>2 DEF HandlesInv, HandlesOfTheirName
    <2>2. ASSUME NEW q \in Runners, NEW m \in BgNames, runner'[q].bg[m] # None
          PROVE  Starts(runner'[q].bg[m], m)
      BY <1>7, <2>2 DEF HandlesInv, HandlesOfTheirName
    <2>3. QED
      BY <1>2, <2>1, <2>2, NamesKept
  <1>9. HandlesReachable'
    <2> SUFFICES ASSUME NEW t \in tasks, t # h
                 PROVE  \E q \in Runners, m \in BgNames : Attached(q)' /\ runner'[q].bg[m] = t
      BY <1>2 DEF HandlesReachable
    <2>1. PICK q \in Runners, m \in BgNames : Attached(q) /\ runner[q].bg[m] = t
      BY DEF HandlesInv, HandlesReachable
    <2>2. runner'[q].bg[m] = t
      BY <1>7, <2>1
    <2>3. Attached(q)'
      BY <1>0, <1>2, <1>3, <2>1, AttachedStays
    <2>4. QED
      BY <2>2, <2>3
  <1>10. QED
    BY <1>8, <1>9

(* A fork starts its branches without handles; they had none that counted. *)
LEMMA ForkHandles ==
  ASSUME HandlesInv, NEW r \in Runners, Fork(r)
  PROVE  HandlesOfTheirName' /\ HandlesReachable'
  <1>0. Control /\ Records /\ IInv
    BY DEF HandlesInv, IInv
  <1>1. /\ pc[r] = "running" /\ next[r] \in DOMAIN Steps(r)
        /\ Steps(r)[next[r]].op = "parallel"
    BY <1>0, Within DEF Fork
  <1>2. \A q \in Runners : BranchOf(prog, q, r, next[r]) <=> q \in Range(Current(r).branches)
    BY <1>1 DEF BranchOf, Current, Steps
  <1>3. /\ UNCHANGED <<prog, tasks>>
        /\ \A q \in Runners : pc[q] = "joining" => pc'[q] = "joining" /\ next'[q] = next[q]
    <2>1. \A q \in Runners : BranchOf(prog, q, r, next[r]) => pc[q] = "idle"
      BY <1>0, ForkRecords
    <2>2. QED
      BY <1>2, <2>1 DEF Fork
  <1>4. ASSUME NEW q \in Runners, NEW m \in BgNames
        PROVE  IF BranchOf(prog, q, r, next[r])
               THEN runner'[q].bg[m] = None /\ ~Attached(q)
               ELSE runner'[q].bg[m] = runner[q].bg[m]
    <2>1. CASE BranchOf(prog, q, r, next[r])
      <3>1. q # r /\ q # Root /\ pc[q] = "idle" /\ runner'[q] = Fresh(runner[r].outputs)
        BY <1>0, <2>1, ForkRecords
      <3>2. runner'[q].bg[m] = None
        BY <3>1 DEF Fresh
      <3>3. ~Attached(q)
        <4> SUFFICES ASSUME NEW a \in Runners, Awaits(a, q) PROVE FALSE
          BY <3>1 DEF Attached
        <4>1. next[a] \in DOMAIN Steps(a) /\ BranchOf(prog, q, a, next[a]) /\ pc[a] = "joining"
          BY DEF Awaits, BranchOf, Steps
        <4>2. a = r
          BY <1>0, <1>1, <2>1, <4>1, Tree
        <4>3. QED
          BY <1>1, <4>1, <4>2
      <3>4. QED
        BY <2>1, <3>2, <3>3
    <2>2. CASE ~BranchOf(prog, q, r, next[r])
      BY <1>0, <2>2, ForkRecords DEF Keeps
    <2>3. QED
      BY <2>1, <2>2
  <1>5. HandlesOfTheirName'
    <2>1. tasks' \subseteq Spot
      BY <1>3 DEF HandlesInv, HandlesOfTheirName
    <2>2. ASSUME NEW q \in Runners, NEW m \in BgNames, runner'[q].bg[m] # None
          PROVE  Starts(runner'[q].bg[m], m)
      BY <1>4, <2>2 DEF HandlesInv, HandlesOfTheirName
    <2>3. QED
      BY <1>3, <2>1, <2>2, NamesKept
  <1>6. HandlesReachable'
    <2> SUFFICES ASSUME NEW t \in tasks
                 PROVE  \E q \in Runners, m \in BgNames : Attached(q)' /\ runner'[q].bg[m] = t
      BY <1>3 DEF HandlesReachable
    <2>1. PICK q \in Runners, m \in BgNames : Attached(q) /\ runner[q].bg[m] = t
      BY DEF HandlesInv, HandlesReachable
    <2>2. runner'[q].bg[m] = t
      BY <1>4, <2>1
    <2>3. Attached(q)'
      BY <1>0, <1>3, <2>1, AttachedStays
    <2>4. QED
      BY <2>2, <2>3
  <1>7. QED
    BY <1>5, <1>6

(* A join hands the handles of its branches to their parent.               *)
LEMMA JoinHandles ==
  ASSUME HandlesInv, NEW r \in Runners, Join(r)
  PROVE  HandlesOfTheirName' /\ HandlesReachable'
  <1> DEFINE M == Merged(runner[r], Branches(r))
  <1>0. Control /\ Records /\ IInv /\ HandlesOfTheirName /\ HandlesNamedApart(prog)
    BY DEF HandlesInv, IInv
  <1>1. pc[r] = "joining" /\ next[r] \in DOMAIN Steps(r)
    BY DEF Join, HandlesInv, JoinsABlock
  <1>2. /\ UNCHANGED <<prog, tasks>>
        /\ \A q \in Runners \ {r} : pc'[q] = pc[q] /\ next'[q] = next[q]
    BY <1>0 DEF Join, EndStep, Control
  <1>3. \A b \in Runners : BranchOf(prog, b, r, next[r]) => pc[b] = "done"
    BY DEF Join, Barrier, BranchOf, Current, Steps
  <1>4. PICK v : Ends(r, M, v)
    BY <1>0, <1>1, JoinRecords
  <1>5. runner'[r].bg = M.bg /\ \A q \in Runners \ {r} : runner'[q] = runner[q]
    BY <1>4 DEF Ends
  <1>6. \A m \in BgNames : M.bg[m] # None => Starts(M.bg[m], m)
    BY <1>0, <1>1, MergedHandles
  <1>7. \A m \in BgNames : \A q \in Runners :
          (q = r \/ BranchOf(prog, q, r, next[r])) /\ runner[q].bg[m] # None
            => M.bg[m] = runner[q].bg[m]
    BY <1>0, <1>1, HandlesSurvive
  <1> HIDE DEF M
  <1>8. HandlesOfTheirName'
    <2>1. tasks' \subseteq Spot
      BY <1>0, <1>2 DEF HandlesOfTheirName
    <2>2. ASSUME NEW q \in Runners, NEW m \in BgNames, runner'[q].bg[m] # None
          PROVE  Starts(runner'[q].bg[m], m)
      BY <1>0, <1>5, <1>6, <2>2 DEF HandlesOfTheirName
    <2>3. QED
      BY <1>2, <2>1, <2>2, NamesKept
  <1>9. Attached(r)'
    <2>1. CASE r = Root
      BY <2>1 DEF Attached
    <2>2. CASE r # Root
      <3>1. PICK a \in Runners : Awaits(a, r)
        BY <1>0, <1>1, <2>2 DEF IInv, BarrierHolds
      <3>2. a # r
        BY <1>1, <1>3, <3>1 DEF Awaits
      <3>3. QED
        BY <1>2, <3>1, <3>2 DEF Attached, Awaits
    <2>3. QED
      BY <2>1, <2>2
  <1>10. HandlesReachable'
    <2> SUFFICES ASSUME NEW t \in tasks
                 PROVE  \E q \in Runners, m \in BgNames : Attached(q)' /\ runner'[q].bg[m] = t
      BY <1>2 DEF HandlesReachable
    <2>1. PICK q \in Runners, m \in BgNames : Attached(q) /\ runner[q].bg[m] = t
      BY DEF HandlesInv, HandlesReachable
    <2>2. t # None
      BY <1>0, SpotIsSomething DEF HandlesOfTheirName
    <2>3. CASE q = r \/ BranchOf(prog, q, r, next[r])
      BY <1>5, <1>7, <1>9, <2>1, <2>2, <2>3
    <2>4. CASE ~(q = r \/ BranchOf(prog, q, r, next[r]))
      <3>1. runner'[q].bg[m] = t
        BY <1>5, <2>1, <2>4
      <3>2. Attached(q)'
        <4>1. CASE q = Root
          BY <4>1 DEF Attached
        <4>2. CASE q # Root
          <5>1. PICK a \in Runners : Awaits(a, q)
            BY <2>1, <4>2 DEF Attached
          <5>2. a # r
            BY <2>4, <5>1 DEF Awaits
          <5>3. QED
            BY <1>2, <5>1, <5>2 DEF Attached, Awaits
        <4>3. QED
          BY <4>1, <4>2
      <3>3. QED
        BY <3>1, <3>2
    <2>5. QED
      BY <2>3, <2>4
  <1>11. QED
    BY <1>8, <1>10

LEMMA StepHandles == HandlesInv /\ [Next]_vars => HandlesInv'
  <1> SUFFICES ASSUME HandlesInv, [Next]_vars PROVE HandlesInv'
    OBVIOUS
  <1>0. Control /\ Records /\ IInv /\ JoinsABlock
    BY DEF HandlesInv, IInv
  <1>1. IInv' /\ JoinsABlock' /\ Records'
    BY <1>0, StepInv, StepJoins, StepRecords
  <1>2. prog' = prog
    BY DEF Next, Goroutine, vars, LeafPasses, LeafFails, LeafFinds, LeafPanics, StartBackground,
           StopBackground, RefuseBlock, Fork, Join, Acquire, BackOut, Release, FinishRoot
  <1>3. ASSUME NEW r \in Runners, Goroutine(r) PROVE HandlesOfTheirName' /\ HandlesReachable'
    <2>1. ASSUME LeafPasses(r) \/ LeafFails(r) \/ LeafFinds(r) \/ RefuseBlock(r)
          PROVE  HandlesOfTheirName' /\ HandlesReachable'
      <3>1. /\ pc[r] = "running" /\ UNCHANGED <<prog, pc, tasks>>
            /\ next' = [next EXCEPT ![r] = @ + 1]
        BY <2>1 DEF LeafPasses, LeafFails, LeafFinds, RefuseBlock, EndStep, At
      <3>2. \A q \in Runners : pc[q] = "joining" => pc'[q] = "joining" /\ next'[q] = next[q]
        BY <1>0, <3>1, EndsQuietly
      <3>3. \A q \in Runners : runner'[q].bg = runner[q].bg
        <4>1. CASE LeafPasses(r)
          <5>1. Bind(runner[r], r, Current(r)).bg = runner[r].bg
            BY <1>0, <4>1, Within, BindState DEF LeafPasses
          <5>2. QED
            BY <1>0, <4>1, <5>1, LeafPassesRecords DEF Ends
        <4>2. CASE LeafFails(r) \/ RefuseBlock(r)
          BY <1>0, <4>2, LeafFailsRecords DEF Ends
        <4>3. CASE LeafFinds(r)
          BY <1>0, <4>3, LeafFindsRecords DEF Ends
        <4>4. QED
          BY <2>1, <4>1, <4>2, <4>3
      <3>4. QED
        BY <3>1, <3>2, <3>3, HandlesUntouched
    <2>2. ASSUME LeafPanics(r) \/ Acquire(r) \/ BackOut(r) \/ Release(r)
          PROVE  HandlesOfTheirName' /\ HandlesReachable'
      <3>1. /\ UNCHANGED <<prog, tasks>>
            /\ \A q \in Runners : pc[q] = "joining" => pc'[q] = "joining" /\ next'[q] = next[q]
        BY <1>0, <2>2 DEF LeafPanics, Acquire, BackOut, Release, Control
      <3>2. \A q \in Runners : runner'[q].bg = runner[q].bg
        BY <1>0, <2>2, LeafPanicsRecords, BackOutRecords DEF Keeps, Acquire, Release
      <3>3. QED
        BY <3>1, <3>2, HandlesUntouched
    <2>3. QED
      BY <1>3, <2>1, <2>2, StartBackgroundHandles, StopBackgroundHandles, ForkHandles, JoinHandles
      DEF Goroutine
  <1>4. ASSUME FinishRoot \/ UNCHANGED vars PROVE HandlesOfTheirName' /\ HandlesReachable'
    <2>1. /\ UNCHANGED <<prog, tasks, runner>>
          /\ \A q \in Runners : pc[q] = "joining" => pc'[q] = "joining" /\ next'[q] = next[q]
      BY <1>0, <1>4 DEF FinishRoot, vars, Control
    <2>2. \A q \in Runners : runner'[q].bg = runner[q].bg
      BY <2>1
    <2>3. QED
      BY <2>1, <2>2, HandlesUntouched
  <1>5. HandlesOfTheirName' /\ HandlesReachable'
    BY <1>3, <1>4 DEF Next
  <1>6. HandlesNamedApart(prog)'
    BY <1>2 DEF HandlesInv
  <1>7. QED
    BY <1>1, <1>5, <1>6 DEF HandlesInv

(* In a section whose background steps have names of their own, no order   *)
(* of branches loses a background: as long as its goroutine runs, a later  *)
(* stop_background or the scenario's end finds its handle, after however   *)
(* many merges.  (With two equal names one of the handles is lost: the run *)
(* adopted_handle_lost.)                                                   *)
THEOREM HandlesTheorem == Spec /\ HandlesNamedApart(prog) => []HandlesReachable
  <1>1. Init /\ HandlesNamedApart(prog) => HandlesInv
    <2> SUFFICES ASSUME Init, HandlesNamedApart(prog) PROVE HandlesInv
      OBVIOUS
    <2>1. JoinsABlock
      BY DEF Init, JoinsABlock
    <2>2. HandlesOfTheirName
      BY DEF Init, HandlesOfTheirName, Fresh
    <2>3. HandlesReachable
      BY DEF Init, HandlesReachable
    <2>4. QED
      BY <2>1, <2>2, <2>3, InitInv, InitRecords DEF HandlesInv
  <1>2. HandlesInv => HandlesReachable
    BY DEF HandlesInv
  <1>3. QED
    BY <1>1, <1>2, StepHandles, PTL DEF Spec

-----------------------------------------------------------------------------
(* What makes CapturesVisible inductive.                                   *)
CapturesInv ==
  /\ IInv /\ JoinsABlock /\ Records
  /\ BindsInOuterBlocks(prog) /\ BindingsKept

(* No name that is ever bound afresh and is bound in R is unbound in Q.    *)
Grows(R, Q) ==
  \A n \in BoundAfresh(prog) : R.outputs[n] # None => Q.outputs[n] # None

LEMMA KeptGrows ==
  ASSUME NEW r, NEW R, NEW Q, Grows(R, Q), R.writes \subseteq Q.writes
  PROVE  KeptBy(prog, r, R) \subseteq KeptBy(prog, r, Q)
  BY DEF KeptBy, Grows

LEMMA KeepingGrows ==
  ASSUME NEW r, NEW R, NEW Q, Grows(R, Q), R.writes \subseteq Q.writes, Keeping(prog, r, R),
         Q.res.steps = R.res.steps,
         \A n \in Q.writes \cap BoundAfresh(prog) : n \in R.writes \/ Q.outputs[n] # None
  PROVE  Keeping(prog, r, Q)
  <1>1. Q.res.steps \in Seq(KeptBy(prog, r, Q))
    <2>1. KeptBy(prog, r, R) \subseteq KeptBy(prog, r, Q)
      BY KeptGrows
    <2>2. R.res.steps \in Seq(KeptBy(prog, r, R))
      BY DEF Keeping
    <2>3. R.res.steps \in Seq(KeptBy(prog, r, Q))
      BY <2>1, <2>2, SeqMonotonic
    <2>4. QED
      BY <2>3
  <1>2. \A n \in Q.writes \cap BoundAfresh(prog) : Q.outputs[n] # None
    BY DEF Keeping, Grows
  <1>3. QED
    BY <1>1, <1>2 DEF Keeping

(* One more result that may be there.                                      *)
LEMMA KeepingEnds ==
  ASSUME NEW r \in Runners, NEW R, NEW v, Keeping(prog, r, R), Ends(r, R, v),
         [at |-> <<r, next[r]>>, verdict |-> v, timedOut |-> FALSE] \in KeptBy(prog, r, R)
  PROVE  Keeping(prog, r, runner'[r])
  <1> DEFINE sr == [at |-> <<r, next[r]>>, verdict |-> v, timedOut |-> FALSE]
             Q == runner'[r]
  <1>1. /\ Q.outputs = R.outputs /\ Q.writes = R.writes
        /\ Q.res.steps = Append(R.res.steps, sr) /\ sr \in KeptBy(prog, r, R)
    BY DEF Ends
  <1> HIDE DEF sr, Q
  <1>2. KeptBy(prog, r, Q) = KeptBy(prog, r, R)
    BY <1>1 DEF KeptBy
  <1>3. Append(R.res.steps, sr) \in Seq(KeptBy(prog, r, R))
    <2>1. R.res.steps \in Seq(KeptBy(prog, r, R))
      BY DEF Keeping
    <2>2. QED
      BY <1>1, <2>1, AppendProperties
  <1>4. Keeping(prog, r, Q)
    BY <1>1, <1>2, <1>3 DEF Keeping
  <1>5. QED
    BY <1>4 DEF Q

LEMMA BindingsNow ==
  ASSUME UNCHANGED prog,
         \A q \in Runners :
           /\ Keeping(prog, q, runner'[q])
           /\ pc'[q] # "idle" =>
                \A n \in BoundBefore(prog, q, next'[q]) : runner'[q].outputs[n] # None
  PROVE  BindingsKept'
  BY DEF BindingsKept

(* A runner that a step leaves alone.                                      *)
LEMMA BindingsElsewhere ==
  ASSUME BindingsKept, NEW q \in Runners, Keeps(q), next'[q] = next[q],
         pc'[q] # "idle" => pc[q] # "idle"
  PROVE  /\ Keeping(prog, q, runner'[q])
         /\ pc'[q] # "idle" =>
              \A n \in BoundBefore(prog, q, next'[q]) : runner'[q].outputs[n] # None
  <1>1. Keeping(prog, q, runner[q])
    BY DEF BindingsKept
  <1>2. Keeping(prog, q, runner'[q])
    BY <1>1 DEF Keeping, KeptBy, Keeps
  <1>3. QED
    BY <1>2 DEF BindingsKept, Keeps

LEMMA BeforeIsAfresh ==
  ASSUME NEW r \in Runners, NEW i
  PROVE  BoundBefore(prog, r, i) \subseteq BoundAfresh(prog)
  BY ParallelAssumption DEF BoundBefore, BoundAfresh

(* r's step ends with R: what was bound stays so, and what the step itself *)
(* binds afresh is bound.                                                  *)
LEMMA EndsBindings ==
  ASSUME CapturesInv, NEW r \in Runners, next[r] \in DOMAIN Steps(r), pc[r] # "idle",
         UNCHANGED prog, next' = [next EXCEPT ![r] = @ + 1],
         \A q \in Runners : pc'[q] # "idle" => pc[q] # "idle",
         NEW R, NEW v \in Verdicts, Ends(r, R, v),
         Keeping(prog, r, R), Grows(runner[r], R),
         BindsAfresh(prog, [at |-> <<r, next[r]>>, verdict |-> v, timedOut |-> FALSE]) =>
           /\ Current(r).binds \in BoundAfresh(prog) /\ R.outputs[Current(r).binds] # None
           /\ r # Root => Current(r).binds \in R.writes,
         \A n \in Names : BindsNew(Current(r), n) => R.outputs[n] # None
  PROVE  BindingsKept'
  <1> DEFINE sr == [at |-> <<r, next[r]>>, verdict |-> v, timedOut |-> FALSE]
  <1>0. Control /\ BindingsKept /\ next[r] \in Nat
    BY Shape DEF CapturesInv, IInv
  <1>1. /\ next'[r] = next[r] + 1
        /\ \A q \in Runners \ {r} : next'[q] = next[q]
    BY <1>0 DEF Control
  <1>2. sr \in KeptBy(prog, r, R)
    <2>1. sr \in BlockResult /\ StepAt(prog, sr.at) = Current(r) /\ sr.at[1] = r /\ sr.at[2] = next[r]
      BY <1>0 DEF BlockResult, Spot, StepAt, Current, Steps
    <2>2. BindsAfresh(prog, sr) =>
            /\ Current(r).binds \in BoundAfresh(prog) /\ R.outputs[Current(r).binds] # None
            /\ r # Root => Current(r).binds \in R.writes
      OBVIOUS
    <2> HIDE DEF sr
    <2>3. QED
      BY <2>1, <2>2 DEF KeptBy, Steps
  <1>3. Keeping(prog, r, runner'[r])
    BY <1>2, KeepingEnds
  <1>4. \A n \in BoundBefore(prog, r, next[r] + 1) :
          n \in BoundBefore(prog, r, next[r]) \/ (n \in Names /\ BindsNew(Current(r), n))
    <2>1. \A j \in DOMAIN prog.steps[r] : j < next[r] + 1 => j < next[r] \/ j = next[r]
      BY <1>0, Shape DEF Steps
    <2>2. QED
      BY <2>1 DEF BoundBefore, Current, Steps
  <1>5. \A n \in BoundBefore(prog, r, next'[r]) : runner'[r].outputs[n] # None
    <2> SUFFICES ASSUME NEW n \in BoundBefore(prog, r, next[r] + 1) PROVE R.outputs[n] # None
      BY <1>1 DEF Ends
    <2>1. CASE n \in BoundBefore(prog, r, next[r])
      BY <1>0, <2>1, BeforeIsAfresh DEF BindingsKept, Grows
    <2>2. CASE n \in Names /\ BindsNew(Current(r), n)
      BY <2>2
    <2>3. QED
      BY <1>4, <2>1, <2>2
  <1>6. ASSUME NEW q \in Runners, q # r
        PROVE  /\ Keeping(prog, q, runner'[q])
               /\ pc'[q] # "idle" =>
                    \A n \in BoundBefore(prog, q, next'[q]) : runner'[q].outputs[n] # None
    <2>1. Keeps(q) /\ next'[q] = next[q]
      BY <1>1, <1>6 DEF Ends, Keeps
    <2>2. QED
      BY <1>0, <2>1, BindingsElsewhere
  <1>7. QED
    BY <1>3, <1>5, <1>6, BindingsNow

LEMMA LeafPassesBindings ==
  ASSUME CapturesInv, NEW r \in Runners, LeafPasses(r)
  PROVE  BindingsKept'
  <1> DEFINE st == Current(r)
             X == runner[r]
             R == Bind(X, r, st)
             sr == [at |-> <<r, next[r]>>, verdict |-> "PASS", timedOut |-> FALSE]
  <1>0. Control /\ Records /\ BindingsKept /\ BindsInOuterBlocks(prog)
    BY DEF CapturesInv, IInv
  <1>1. /\ pc[r] = "running" /\ next[r] \in DOMAIN Steps(r) /\ next[r] \in Nat
        /\ st.op = "leaf" /\ st.outcome = "PASS"
    BY <1>0, Within, Shape DEF LeafPasses, Current
  <1>2. /\ UNCHANGED <<prog, pc>> /\ next' = [next EXCEPT ![r] = @ + 1]
        /\ "PASS" \in Verdicts
    BY DEF LeafPasses, EndStep, Verdicts
  <1>3. Ends(r, R, "PASS")
    BY <1>0, LeafPassesRecords
  <1>4. /\ R \in RunnerState /\ R.res = X.res
        /\ st.binds = "nothing" => R = X
        /\ st.binds # "nothing" => st.binds \in Names
        /\ \A n \in Names : n # st.binds => R.outputs[n] = X.outputs[n]
        /\ st.binds # "nothing" =>
             R.outputs[st.binds] = IF st.reads = "nothing" THEN Here(r) ELSE X.outputs[st.reads]
        /\ R.writes = IF r = Root \/ st.binds = "nothing" THEN X.writes
                      ELSE X.writes \cup {st.binds}
    BY <1>0, <1>1, BindState
  <1>5. Here(r) # None
    BY <1>1, SpotIsSomething DEF Here, Spot
  <1>6. st.reads # "nothing" /\ st.binds \in BoundAfresh(prog)
          => st.reads \in BoundBefore(prog, r, next[r])
    BY <1>0, <1>1 DEF BindsInOuterBlocks, Current, Steps
  <1>7. \A n \in BoundBefore(prog, r, next[r]) : X.outputs[n] # None
    BY <1>0, <1>1 DEF BindingsKept
  <1> HIDE DEF R, st
  <1>8. st.binds # "nothing" /\ st.binds \in BoundAfresh(prog) => R.outputs[st.binds] # None
    BY <1>4, <1>5, <1>6, <1>7
  <1>9. Grows(X, R)
    <2>1. \A n \in BoundAfresh(prog) : n \in Names
      BY DEF BoundAfresh
    <2>2. QED
      BY <1>4, <1>8, <2>1 DEF Grows
  <1>10. Keeping(prog, r, R)
    <2>1. Keeping(prog, r, X)
      BY <1>0 DEF BindingsKept
    <2>2. X.writes \subseteq R.writes /\ R.res.steps = X.res.steps
      BY <1>4
    <2>3. \A n \in R.writes \cap BoundAfresh(prog) : n \in X.writes \/ R.outputs[n] # None
      BY <1>4, <1>8
    <2>4. QED
      BY <1>9, <2>1, <2>2, <2>3, KeepingGrows
  <1>11. BindsAfresh(prog, sr) =>
           /\ st.binds \in BoundAfresh(prog) /\ R.outputs[st.binds] # None
           /\ r # Root => st.binds \in R.writes
    <2> SUFFICES ASSUME BindsAfresh(prog, sr)
                 PROVE  /\ st.binds \in BoundAfresh(prog) /\ R.outputs[st.binds] # None
                        /\ r # Root => st.binds \in R.writes
      OBVIOUS
    <2>1. st.reads = "nothing" /\ st.binds # "nothing"
      BY DEF BindsAfresh, StepAt, st, Current, Steps
    <2>2. st.binds \in BoundAfresh(prog)
      BY <1>1, <1>4, <2>1 DEF BoundAfresh, BindsNew, st, Current, Steps
    <2>3. QED
      BY <1>4, <1>8, <2>1, <2>2
  <1>12. \A n \in Names : BindsNew(st, n) => R.outputs[n] # None
    BY <1>4, <1>5 DEF BindsNew
  <1>13. QED
    BY <1>1, <1>2, <1>3, <1>9, <1>10, <1>11, <1>12, EndsBindings DEF st

(* A step that binds nothing.                                              *)
LEMMA PlainBindings ==
  ASSUME CapturesInv, NEW r \in Runners, next[r] \in DOMAIN Steps(r), pc[r] # "idle",
         UNCHANGED prog, next' = [next EXCEPT ![r] = @ + 1],
         \A q \in Runners : pc'[q] # "idle" => pc[q] # "idle",
         NEW R, NEW v \in Verdicts, Ends(r, R, v),
         R.outputs = runner[r].outputs, R.writes = runner[r].writes, R.res = runner[r].res,
         Current(r).op # "leaf" \/ (Current(r).outcome # "PASS" /\ v # "PASS")
  PROVE  BindingsKept'
  <1>1. Grows(runner[r], R)
    BY DEF Grows
  <1>2. Keeping(prog, r, R)
    <2>1. Keeping(prog, r, runner[r])
      BY DEF CapturesInv, BindingsKept
    <2>2. QED
      BY <1>1, <2>1, KeepingGrows
  <1>3. ~BindsAfresh(prog, [at |-> <<r, next[r]>>, verdict |-> v, timedOut |-> FALSE])
    BY DEF BindsAfresh, StepAt, Current, Steps
  <1>4. \A n \in Names : ~BindsNew(Current(r), n)
    BY DEF BindsNew
  <1>5. QED
    BY <1>1, <1>2, <1>3, <1>4, EndsBindings

LEMMA OtherEndsBindings ==
  ASSUME CapturesInv, NEW r \in Runners,
         LeafFails(r) \/ LeafFinds(r) \/ RefuseBlock(r) \/ StartBackground(r) \/ StopBackground(r)
  PROVE  BindingsKept'
  <1>0. Control /\ Records
    BY DEF CapturesInv, IInv
  <1>1. /\ pc[r] = "running" /\ next[r] \in DOMAIN Steps(r)
        /\ UNCHANGED <<prog, pc>> /\ next' = [next EXCEPT ![r] = @ + 1]
    BY <1>0, Within DEF LeafFails, LeafFinds, RefuseBlock, StartBackground, StopBackground, EndStep
  <1>2. "FAIL" \in Verdicts /\ "PASS" \in Verdicts /\ "FINDING" \in Verdicts
    BY DEF Verdicts
  <1>3. CASE LeafFails(r) \/ RefuseBlock(r)
    <2>1. Ends(r, runner[r], "FAIL")
      BY <1>0, <1>3, LeafFailsRecords
    <2>2. Current(r).op # "leaf" \/ Current(r).outcome # "PASS"
      BY <1>3 DEF LeafFails, RefuseBlock, At
    <2>3. QED
      BY <1>1, <1>2, <2>1, <2>2, PlainBindings
  <1>4. CASE LeafFinds(r)
    <2>1. Ends(r, runner[r], "FINDING")
      BY <1>0, <1>4, LeafFindsRecords
    <2>2. Current(r).outcome # "PASS"
      BY <1>4 DEF LeafFinds
    <2>3. QED
      BY <1>1, <1>2, <2>1, <2>2, PlainBindings
  <1>5. CASE StartBackground(r) \/ StopBackground(r)
    <2>1. Current(r).op # "leaf" /\ Current(r).name \in BgNames
      BY <1>0, <1>1, <1>5, BranchesShape DEF StartBackground, StopBackground, At, Step
    <2> DEFINE h == IF StartBackground(r) THEN Here(r) ELSE None
               R == [runner[r] EXCEPT !.bg[Current(r).name] = h]
    <2>2. Ends(r, R, "PASS") \/ Ends(r, R, "FAIL") \/ Ends(r, runner[r], "FAIL")
      <3>1. CASE StartBackground(r)
        BY <1>0, <3>1, StartBackgroundRecords
      <3>2. CASE StopBackground(r)
        <4>1. h = None
          BY <3>2 DEF At, StartBackground, StopBackground
        <4>2. QED
          BY <1>0, <3>2, <4>1, StopBackgroundRecords
      <3>3. QED
        BY <1>5, <3>1, <3>2
    <2>3. h \in Spot \cup {None}
      BY <1>0, Shape DEF Here, Spot
    <2>4. R.outputs = runner[r].outputs /\ R.writes = runner[r].writes /\ R.res = runner[r].res
      BY <1>0, <2>1, <2>3, HandleState
    <2> HIDE DEF R
    <2>5. QED
      BY <1>1, <1>2, <2>1, <2>2, <2>4, PlainBindings
  <1>6. QED
    BY <1>3, <1>4, <1>5

(* A branch starts with what was bound before its block.                   *)
LEMMA ForkBindings ==
  ASSUME CapturesInv, NEW r \in Runners, Fork(r)
  PROVE  BindingsKept'
  <1>0. Control /\ Records /\ IInv /\ BindingsKept
    BY DEF CapturesInv, IInv
  <1>1. /\ pc[r] = "running" /\ next[r] \in DOMAIN Steps(r)
        /\ Steps(r)[next[r]].op = "parallel"
    BY <1>0, Within DEF Fork
  <1>2. \A q \in Runners : BranchOf(prog, q, r, next[r]) <=> q \in Range(Current(r).branches)
    BY <1>1 DEF BranchOf, Current, Steps
  <1>3. \A q \in Runners : BranchOf(prog, q, r, next[r]) =>
          q # r /\ q # Root /\ pc[q] = "idle" /\ next[q] = 1 /\ runner'[q] = Fresh(runner[r].outputs)
    BY <1>0, ForkRecords DEF Control
  <1>4. UNCHANGED prog /\ next' = [q \in Runners |-> IF q \in Range(Current(r).branches) THEN 1 ELSE next[q]]
    BY DEF Fork
  <1>5. \A q \in Runners : next'[q] = next[q]
    BY <1>2, <1>3, <1>4
  <1>6. ASSUME NEW q \in Runners, BranchOf(prog, q, r, next[r])
        PROVE  /\ Keeping(prog, q, runner'[q])
               /\ \A n \in BoundBefore(prog, q, next'[q]) : runner'[q].outputs[n] # None
    <2> DEFINE F == Fresh(runner[r].outputs)
    <2>1. runner'[q] = F /\ next'[q] = 1 /\ q # Root
      BY <1>3, <1>5, <1>6
    <2>2. /\ F.outputs = runner[r].outputs /\ F.writes = {} /\ F.res.steps = <<>>
      BY DEF Fresh, EmptyCounts
    <2> HIDE DEF F
    <2>3. Keeping(prog, q, F)
      <3>1. <<>> \in Seq(KeptBy(prog, q, F))
        BY EmptySeq
      <3>2. QED
        BY <2>2, <3>1 DEF Keeping
    <2>4. ASSUME NEW n \in BoundBefore(prog, q, 1) PROVE runner[r].outputs[n] # None
      <3>1. \A j \in DOMAIN prog.steps[q] : ~(j < 1)
        BY <1>0, Shape DEF Steps
      <3>2. PICK k \in DOMAIN prog.steps[Root] :
              /\ BranchOf(prog, q, Root, k)
              /\ \E j \in DOMAIN prog.steps[Root] : j < k /\ BindsNew(prog.steps[Root][j], n)
        BY <2>4, <3>1 DEF BoundBefore
      <3>3. Root = r /\ k = next[r]
        BY <1>0, <1>1, <1>6, <3>2, Tree, ParallelAssumption DEF Steps
      <3>4. n \in BoundBefore(prog, r, next[r])
        BY <3>2, <3>3 DEF BoundBefore
      <3>5. QED
        BY <1>0, <1>1, <3>4 DEF BindingsKept
    <2>5. QED
      BY <2>1, <2>2, <2>3, <2>4
  <1>7. ASSUME NEW q \in Runners, ~BranchOf(prog, q, r, next[r])
        PROVE  /\ Keeping(prog, q, runner'[q])
               /\ pc'[q] # "idle" =>
                    \A n \in BoundBefore(prog, q, next'[q]) : runner'[q].outputs[n] # None
    <2>1. Keeps(q)
      BY <1>0, <1>7, ForkRecords
    <2>2. pc'[q] # "idle" => pc[q] # "idle"
      BY <1>1, <1>2, <1>7 DEF Fork
    <2>3. QED
      BY <1>0, <1>5, <2>1, <2>2, BindingsElsewhere
  <1>8. QED
    BY <1>4, <1>6, <1>7, BindingsNow

(* The merge of one branch loses nothing that was bound afresh.            *)
LEMMA MergeBindings ==
  ASSUME CapturesInv, NEW r \in Runners, NEW b \in Runners, next[r] \in DOMAIN Steps(r),
         BranchOf(prog, b, r, next[r]), NEW X \in RunnerState, Keeping(prog, r, X)
  PROVE  LET M == Merge(X, runner[b])
         IN M \in RunnerState /\ M.writes = X.writes /\ Grows(X, M) /\ Keeping(prog, r, M)
  <1> DEFINE B == runner[b]
             M == Merge(X, B)
  <1>0. /\ Control /\ BindsInOuterBlocks(prog) /\ B \in RunnerState
        /\ Keeping(prog, b, B) /\ b # Root
    BY Tree DEF CapturesInv, IInv, Records, BindingsKept
  <1>1. /\ M \in RunnerState
        /\ M.outputs = [n \in Names |-> IF n \in B.writes THEN B.outputs[n] ELSE X.outputs[n]]
        /\ M.writes = X.writes /\ M.res.steps = X.res.steps \o B.res.steps
    BY <1>0, MergeState
  <1> HIDE DEF M, B
  <1>2. \A n \in BoundAfresh(prog) : n \in Names
    BY DEF BoundAfresh
  <1>3. \A n \in B.writes \cap BoundAfresh(prog) : B.outputs[n] # None
    BY <1>0 DEF Keeping
  <1>4. Grows(X, M)
    BY <1>1, <1>2, <1>3 DEF Grows
  <1>5. KeptBy(prog, r, X) \subseteq KeptBy(prog, r, M)
    BY <1>1, <1>4, KeptGrows
  <1>6. KeptBy(prog, b, B) \subseteq KeptBy(prog, r, M)
    <2> SUFFICES ASSUME NEW sr \in KeptBy(prog, b, B) PROVE sr \in KeptBy(prog, r, M)
      OBVIOUS
    <2> DEFINE q == sr.at[1]
               st == StepAt(prog, sr.at)
               n == st.binds
    <2>1. /\ sr \in BlockResult /\ sr.at[2] \in DOMAIN prog.steps[q] /\ q \in Runners
          /\ q = b \/ \E a \in Runners : \E k \in DOMAIN prog.steps[a] :
                        BranchOf(prog, q, a, k) /\ a # Root
          /\ BindsAfresh(prog, sr) => n \in BoundAfresh(prog) /\ B.outputs[n] # None /\ n \in B.writes
      BY <1>0 DEF KeptBy, BlockResult, Spot
    <2>2. \E a \in Runners : \E k \in DOMAIN prog.steps[a] :
            BranchOf(prog, q, a, k) /\ (r # Root => a # Root)
      BY <2>1 DEF Steps
    <2>3. ASSUME BindsAfresh(prog, sr)
          PROVE  n \in BoundAfresh(prog) /\ M.outputs[n] # None /\ (r # Root => n \in M.writes)
      <3>1. n \in BoundAfresh(prog) /\ M.outputs[n] # None
        BY <1>1, <1>2, <2>1, <2>3
      <3>2. r = Root
        <4> SUFFICES ASSUME r # Root PROVE FALSE
          OBVIOUS
        <4>1. PICK a \in Runners : \E k \in DOMAIN prog.steps[a] : BranchOf(prog, q, a, k) /\ a # Root
          BY <2>2
        <4>2. \A j \in DOMAIN prog.steps[q] : prog.steps[q][j].binds = "nothing"
          BY <1>0, <2>1, <4>1 DEF BindsInOuterBlocks
        <4>3. QED
          BY <2>1, <2>3, <4>2 DEF BindsAfresh, StepAt
      <3>3. QED
        BY <3>1, <3>2
    <2>4. QED
      BY <2>1, <2>2, <2>3 DEF KeptBy
  <1>7. Keeping(prog, r, M)
    <2>1. X.res.steps \in Seq(KeptBy(prog, r, X)) /\ B.res.steps \in Seq(KeptBy(prog, b, B))
      BY <1>0 DEF Keeping
    <2>2. X.res.steps \in Seq(KeptBy(prog, r, M)) /\ B.res.steps \in Seq(KeptBy(prog, r, M))
      BY <1>5, <1>6, <2>1, SeqMonotonic
    <2>3. M.res.steps \in Seq(KeptBy(prog, r, M))
      BY <1>1, <2>2, ConcatProperties
    <2>4. \A n \in M.writes \cap BoundAfresh(prog) : M.outputs[n] # None
      BY <1>1, <1>4 DEF Keeping, Grows
    <2>5. QED
      BY <2>3, <2>4 DEF Keeping
  <1>8. QED
    BY <1>1, <1>4, <1>7 DEF M, B

(* ... nor do all merges of a block.                                       *)
LEMMA MergedBindings ==
  ASSUME CapturesInv, NEW r \in Runners, next[r] \in DOMAIN Steps(r), Steps(r)[next[r]].op = "parallel"
  PROVE  LET M == Merged(runner[r], Branches(r))
         IN M.writes = runner[r].writes /\ Grows(runner[r], M) /\ Keeping(prog, r, M)
  <1> DEFINE R == runner[r]
             bs == Branches(r)
             G == {p \in Nat \X RunnerState :
                     /\ p[2].writes = R.writes /\ Grows(R, p[2]) /\ Keeping(prog, r, p[2])}
  <1>0. Control /\ Records /\ BindingsKept
    BY DEF CapturesInv, IInv
  <1>1. Len(bs) \in Nat
    BY <1>0, BranchesShape
  <1>2. ASSUME NEW k \in 1..Len(bs)
        PROVE  \E b \in Runners : bs[k] = runner[b] /\ BranchOf(prog, b, r, next[r])
    <2>1. /\ Current(r).branches[k] \in Runners /\ bs[k] = runner[Current(r).branches[k]]
          /\ Current(r).branches \in Seq(Runners) /\ Len(bs) = Len(Current(r).branches)
      BY <1>0, BranchesShape
    <2>2. k \in DOMAIN Current(r).branches
      BY <2>1
    <2>3. BranchOf(prog, Current(r).branches[k], r, next[r])
      BY <2>2 DEF BranchOf, Current, Steps, Range
    <2>4. QED
      BY <2>1, <2>3
  <1> HIDE DEF bs
  <1>3. <<0, R>> \in G
    BY <1>0 DEF Records, BindingsKept, Grows
  <1>4. ASSUME NEW k \in 1..Len(bs), NEW X, <<k - 1, X>> \in G
        PROVE  <<k, Merge(X, bs[k])>> \in G
    <2> DEFINE M == Merge(X, bs[k])
    <2>1. X \in RunnerState /\ X.writes = R.writes /\ Grows(R, X) /\ Keeping(prog, r, X)
      BY <1>4
    <2>2. M \in RunnerState /\ M.writes = X.writes /\ Grows(X, M) /\ Keeping(prog, r, M)
      BY <1>2, <2>1, MergeBindings
    <2> HIDE DEF M
    <2>3. Grows(R, M)
      BY <2>1, <2>2 DEF Grows
    <2>4. <<k, M>> \in G
      BY <1>1, <2>1, <2>2, <2>3
    <2>5. QED
      BY <2>4 DEF M
  <1> HIDE DEF G
  <1>5. <<Len(bs), Merged(R, bs)>> \in G
    BY <1>1, <1>3, <1>4, MergeInduction
  <1>6. QED
    BY <1>5 DEF G, bs

LEMMA JoinBindings ==
  ASSUME CapturesInv, NEW r \in Runners, Join(r)
  PROVE  BindingsKept'
  <1> DEFINE M == Merged(runner[r], Branches(r))
             sr(v) == [at |-> <<r, next[r]>>, verdict |-> v, timedOut |-> FALSE]
  <1>0. Control /\ Records
    BY DEF CapturesInv, IInv
  <1>1. pc[r] = "joining" /\ next[r] \in DOMAIN Steps(r) /\ Current(r).op = "parallel"
    BY DEF Join, CapturesInv, JoinsABlock
  <1>2. UNCHANGED prog /\ next' = [next EXCEPT ![r] = @ + 1] /\ pc' = [pc EXCEPT ![r] = "running"]
    BY DEF Join, EndStep
  <1>3. PICK v \in {"PASS", "FAIL"} : Ends(r, M, v)
    BY <1>0, <1>1, JoinRecords
  <1>4. Grows(runner[r], M) /\ Keeping(prog, r, M)
    BY <1>1, MergedBindings DEF Current
  <1>5. ~BindsAfresh(prog, sr(v))
    BY <1>1 DEF BindsAfresh, StepAt, Current, Steps
  <1>6. \A n \in Names : ~BindsNew(Current(r), n)
    BY <1>1 DEF BindsNew
  <1>7. v \in Verdicts /\ pc[r] # "idle" /\ \A q \in Runners : pc'[q] # "idle" => pc[q] # "idle"
    BY <1>0, <1>1, <1>2 DEF Verdicts, Control
  <1> HIDE DEF M
  <1>8. QED
    BY <1>1, <1>2, <1>3, <1>4, <1>5, <1>6, <1>7, EndsBindings

LEMMA StepCaptures == CapturesInv /\ [Next]_vars => CapturesInv'
  <1> SUFFICES ASSUME CapturesInv, [Next]_vars PROVE CapturesInv'
    OBVIOUS
  <1>0. Control /\ Records /\ IInv /\ JoinsABlock /\ BindingsKept
    BY DEF CapturesInv, IInv
  <1>1. IInv' /\ JoinsABlock' /\ Records'
    BY <1>0, StepInv, StepJoins, StepRecords
  <1>2. prog' = prog
    BY DEF Next, Goroutine, vars, LeafPasses, LeafFails, LeafFinds, LeafPanics, StartBackground,
           StopBackground, RefuseBlock, Fork, Join, Acquire, BackOut, Release, FinishRoot
  <1>3. ASSUME \A q \in Runners : Keeps(q) /\ next'[q] = next[q] /\ (pc'[q] # "idle" => pc[q] # "idle")
        PROVE  BindingsKept'
    BY <1>0, <1>2, <1>3, BindingsElsewhere, BindingsNow
  <1>4. ASSUME NEW r \in Runners, Goroutine(r) PROVE BindingsKept'
    <2>1. ASSUME LeafPanics(r) \/ Acquire(r) \/ BackOut(r) \/ Release(r) PROVE BindingsKept'
      <3>1. \A q \in Runners : Keeps(q)
        BY <1>0, <2>1, LeafPanicsRecords, BackOutRecords DEF Keeps, Acquire, Release
      <3>2. next' = next /\ \A q \in Runners : pc'[q] # "idle" => pc[q] # "idle"
        BY <1>0, <2>1 DEF LeafPanics, Acquire, BackOut, Release, Control
      <3>3. QED
        BY <1>3, <3>1, <3>2
    <2>2. QED
      BY <1>4, <2>1, LeafPassesBindings, OtherEndsBindings, ForkBindings, JoinBindings DEF Goroutine
  <1>5. ASSUME FinishRoot \/ UNCHANGED vars PROVE BindingsKept'
    <2>1. /\ runner' = runner /\ next' = next
          /\ \A q \in Runners : pc'[q] # "idle" => pc[q] # "idle"
      BY <1>0, <1>5 DEF FinishRoot, vars, Control
    <2>2. \A q \in Runners : Keeps(q) /\ next'[q] = next[q]
      BY <2>1 DEF Keeps
    <2>3. QED
      BY <1>3, <2>1, <2>2
  <1>6. BindingsKept'
    BY <1>4, <1>5 DEF Next
  <1>7. BindsInOuterBlocks(prog)'
    BY <1>2 DEF CapturesInv
  <1>8. QED
    BY <1>1, <1>6, <1>7 DEF CapturesInv

(* In a section in which only Root and the branches of its own blocks bind *)
(* names, a name that a step has bound is bound for every step after the   *)
(* block, whichever branches rebind it and in whatever order they run.     *)
(* (A name bound two blocks deep is lost: the run nested_capture_lost.)    *)
THEOREM CapturesTheorem == Spec /\ BindsInOuterBlocks(prog) => []CapturesVisible
  <1>1. Init /\ BindsInOuterBlocks(prog) => CapturesInv
    <2> SUFFICES ASSUME Init, BindsInOuterBlocks(prog) PROVE CapturesInv
      OBVIOUS
    <2>0. Control /\ IInv /\ Records
      BY InitInv, InitRecords DEF IInv
    <2>1. JoinsABlock
      BY DEF Init, JoinsABlock
    <2>2. ASSUME NEW q \in Runners
          PROVE  /\ Keeping(prog, q, runner[q])
                 /\ pc[q] # "idle" =>
                      \A n \in BoundBefore(prog, q, next[q]) : runner[q].outputs[n] # None
      <3>1. runner[q].writes = {} /\ runner[q].res.steps = <<>> /\ next[q] = 1
        BY DEF Init, Fresh, EmptyCounts
      <3>2. <<>> \in Seq(KeptBy(prog, q, runner[q]))
        BY EmptySeq
      <3>3. Keeping(prog, q, runner[q])
        BY <3>1, <3>2 DEF Keeping
      <3>4. ASSUME q = Root PROVE BoundBefore(prog, q, 1) = {}
        <4>1. \A j \in DOMAIN prog.steps[q] : ~(j < 1)
          BY <2>0, Shape DEF Steps
        <4>2. \A k \in DOMAIN prog.steps[Root] : ~BranchOf(prog, q, Root, k)
          BY <2>0, <3>4, Tree, ParallelAssumption DEF Steps
        <4>3. QED
          BY <4>1, <4>2 DEF BoundBefore
      <3>5. pc[q] # "idle" => q = Root
        BY DEF Init
      <3>6. QED
        BY <3>1, <3>3, <3>4, <3>5
    <2>3. QED
      BY <2>0, <2>1, <2>2 DEF CapturesInv, BindingsKept
  <1>2. CapturesInv => CapturesVisible
    <2> SUFFICES ASSUME CapturesInv, NEW r \in Runners, NEW i \in DOMAIN runner[r].res.steps,
                        BindsAfresh(prog, runner[r].res.steps[i])
                 PROVE  runner[r].outputs[StepAt(prog, runner[r].res.steps[i].at).binds] # None
      BY DEF CapturesVisible
    <2>1. runner[r].res.steps \in Seq(KeptBy(prog, r, runner[r]))
      BY DEF CapturesInv, BindingsKept, Keeping
    <2>2. runner[r].res.steps[i] \in KeptBy(prog, r, runner[r])
      BY <2>1, ElementOfSeq
    <2>3. QED
      BY <2>2 DEF KeptBy
  <1>3. QED
    BY <1>1, <1>2, StepCaptures, PTL DEF Spec
=============================================================================
