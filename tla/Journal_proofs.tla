---------------------------- MODULE Journal_proofs ----------------------------
(***************************************************************************)
(* The reduction of an event stream, for streams of every length.          *)
(***************************************************************************)
EXTENDS Journal, TLAPS, SequenceTheorems, WellFoundedInduction

(* The least-number principle, from the well-ordering of Nat.              *)
LEMMA LeastNumber ==
  ASSUME NEW T \in SUBSET Nat, T # {}
  PROVE  \E m \in T : \A k \in T : m <= k
  <1> DEFINE R == OpToRel(<, Nat)
  <1>1. IsWellFoundedOn(R, Nat)
    BY NatLessThanWellFounded
  <1>2. \A x, y \in Nat : x < y => <<x, y>> \in R
    BY DEF OpToRel
  <1> HIDE DEF R
  <1>3. PICK m \in T : \A k \in T : <<k, m>> \notin R
    BY <1>1, WFMin
  <1>4. \A k \in T : ~ k < m
    BY <1>2, <1>3
  <1>5. \A k \in T : k \in Nat /\ m \in Nat
    OBVIOUS
  <1>6. QED
    BY <1>4, <1>5

(* Induction, for the set of the numbers that have a property.             *)
LEMMA SetInduction ==
  ASSUME NEW T, 0 \in T, \A n \in Nat : n \in T => n + 1 \in T
  PROVE  Nat \subseteq T
  <1> SUFFICES ASSUME Nat \ T # {} PROVE FALSE
    OBVIOUS
  <1>1. PICK m \in Nat \ T : \A k \in Nat \ T : m <= k
    BY LeastNumber
  <1>2. m - 1 \in Nat /\ m - 1 \in T /\ (m - 1) + 1 = m
    BY <1>1
  <1>3. QED
    BY <1>1, <1>2

(* f is the table of the results after 0, 1, ..., n events.                *)
IsTable(f, events, n) ==
  f = [k \in 0..n |-> IF k = 0 THEN EmptyResult ELSE Absorb(f[k - 1], events[k])]

LEMMA TableExists ==
  ASSUME NEW events, NEW L \in Nat
  PROVE  \E f : IsTable(f, events, L)
  <1> DEFINE T == {n \in Nat : \E f : IsTable(f, events, n)}
  <1>1. 0 \in T
    <2>1. IsTable([k \in 0..0 |-> EmptyResult], events, 0)
      BY DEF IsTable
    <2>2. QED
      BY <2>1
  <1>2. ASSUME NEW n \in Nat, n \in T PROVE n + 1 \in T
    <2>1. PICK f : IsTable(f, events, n)
      BY <1>2
    <2> DEFINE g == [k \in 0..(n + 1) |-> IF k = n + 1 THEN Absorb(f[n], events[n + 1]) ELSE f[k]]
    <2>2. \A k \in 0..n : f[k] = IF k = 0 THEN EmptyResult ELSE Absorb(f[k - 1], events[k])
      BY <2>1 DEF IsTable
    <2>3. \A k \in 0..n : g[k] = f[k]
      OBVIOUS
    <2>4. ASSUME NEW k \in 0..(n + 1)
          PROVE  g[k] = IF k = 0 THEN EmptyResult ELSE Absorb(g[k - 1], events[k])
      <3>1. CASE k = n + 1
        <4>1. g[k] = Absorb(f[n], events[n + 1]) /\ k - 1 = n /\ k # 0 /\ g[n] = f[n]
          BY <3>1, <2>3
        <4>2. QED
          BY <3>1, <4>1
      <3>2. CASE k = 0
        BY <3>2, <2>2, <2>3
      <3>3. CASE k # 0 /\ k # n + 1
        <4>1. k \in 0..n /\ k - 1 \in 0..n
          BY <3>3
        <4> HIDE DEF g
        <4>2. QED
          BY <3>3, <4>1, <2>2, <2>3
      <3>4. QED
        BY <3>1, <3>2, <3>3
    <2>5. IsTable(g, events, n + 1)
      <3>1. g = [k \in 0..(n + 1) |-> g[k]]
        OBVIOUS
      <3> HIDE DEF g
      <3>2. QED
        BY <3>1, <2>4 DEF IsTable
    <2>6. QED
      BY <2>5
  <1>3. Nat \subseteq T
    <2> HIDE DEF T
    <2>1. QED
      BY <1>1, <1>2, SetInduction
  <1>4. QED
    BY <1>3

(* Tables of streams with a common prefix agree on it.                     *)
LEMMA TablesAgree ==
  ASSUME NEW a, NEW b, NEW n \in Nat, NEW m \in Nat, n <= m,
         NEW f, NEW g, IsTable(f, a, n), IsTable(g, b, m), \A k \in 1..n : a[k] = b[k]
  PROVE  \A k \in 0..n : f[k] = g[k]
  <1> DEFINE T == {k \in Nat : k <= n => f[k] = g[k]}
  <1>0. /\ \A k \in 0..n : f[k] = IF k = 0 THEN EmptyResult ELSE Absorb(f[k - 1], a[k])
        /\ \A k \in 0..m : g[k] = IF k = 0 THEN EmptyResult ELSE Absorb(g[k - 1], b[k])
    BY DEF IsTable
  <1>1. 0 \in T
    BY <1>0
  <1>2. ASSUME NEW k \in Nat, k \in T PROVE k + 1 \in T
    <2>1. SUFFICES ASSUME k + 1 <= n PROVE f[k + 1] = g[k + 1]
      OBVIOUS
    <2>2. f[k] = g[k] /\ a[k + 1] = b[k + 1]
      BY <1>2, <2>1
    <2>3. k + 1 \in 0..n /\ k + 1 \in 0..m /\ (k + 1) - 1 = k /\ k + 1 # 0
      BY <2>1
    <2>4. QED
      BY <1>0, <2>2, <2>3
  <1>3. Nat \subseteq T
    <2> HIDE DEF T
    <2>1. QED
      BY <1>1, <1>2, SetInduction
  <1>4. QED
    BY <1>3

LEMMA ReduceIsTable ==
  ASSUME NEW S, NEW events \in Seq(S)
  PROVE  \E f : IsTable(f, events, Len(events)) /\ Reduce(events) = f[Len(events)]
  <1>1. Len(events) \in Nat
    BY LenProperties
  <1>2. \E f : IsTable(f, events, Len(events))
    BY <1>1, TableExists
  <1>3. QED
    BY <1>2 DEF IsTable, Reduce

(* Nothing is reduced to nothing.                                          *)
LEMMA ReduceEmpty == Reduce(<<>>) = EmptyResult
  <1>1. <<>> \in Seq({}) /\ Len(<<>>) = 0
    OBVIOUS
  <1>2. PICK f : IsTable(f, <<>>, 0) /\ Reduce(<<>>) = f[0]
    BY <1>1, ReduceIsTable
  <1>3. QED
    BY <1>2 DEF IsTable

(* The reduction is incremental: one more event is absorbed.               *)
LEMMA ReduceAppend ==
  ASSUME NEW S, NEW j \in Seq(S), NEW e \in S
  PROVE  Reduce(Append(j, e)) = Absorb(Reduce(j), e)
  <1> DEFINE a == Append(j, e)
             n == Len(j)
  <1>1. /\ n \in Nat /\ a \in Seq(S) /\ Len(a) = n + 1 /\ a[n + 1] = e
        /\ \A k \in 1..n : j[k] = a[k]
    BY AppendProperties, LenProperties
  <1> HIDE DEF a, n
  <1>2. PICK f : IsTable(f, j, n) /\ Reduce(j) = f[n]
    BY ReduceIsTable DEF n
  <1>3. PICK g : IsTable(g, a, n + 1) /\ Reduce(a) = g[n + 1]
    BY <1>1, ReduceIsTable
  <1>4. f[n] = g[n]
    BY SMTT(20), <1>1, <1>2, <1>3, TablesAgree
  <1>5. g[n + 1] = Absorb(g[n], a[n + 1])
    <2>1. n + 1 \in 0..(n + 1) /\ n + 1 # 0 /\ (n + 1) - 1 = n
      BY <1>1
    <2>2. QED
      BY <1>3, <2>1 DEF IsTable
  <1>6. QED
    BY <1>1, <1>2, <1>3, <1>4, <1>5 DEF a

(* What events of S can be reduced to.                                     *)
ResultsOf(S) ==
  [verdict  : {"none"} \cup {e.verdict : e \in S},
   steps    : Seq({e.result : e \in S}),
   findings : Seq({e.record : e \in S}),
   injected : Seq({e.at : e \in S}),
   held     : {<<>>} \cup {e.held : e \in S}]

LEMMA EmptyType == \A S : EmptyResult \in ResultsOf(S)
  BY DEF EmptyResult, ResultsOf

(* The alternatives of Absorb, one by one.                                 *)
LEMMA AbsorbCases ==
  ASSUME NEW e, NEW r
  PROVE  /\ e.type = "scenario.started" => Absorb(r, e) = EmptyResult
         /\ e.type \in StepEndTypes => Absorb(r, e) = [r EXCEPT !.steps = Append(@, e.result)]
         /\ e.type = "fault.injected" => Absorb(r, e) = [r EXCEPT !.injected = Append(@, e.at)]
         /\ e.type = "finding.recorded" =>
              Absorb(r, e) = [r EXCEPT !.findings = Append(@, e.record)]
         /\ e.type = "scenario.finished" =>
              Absorb(r, e) = [r EXCEPT !.verdict = e.verdict, !.held = e.held]
         /\ e.type \notin StepEndTypes \cup {"scenario.started", "fault.injected",
                                             "finding.recorded", "scenario.finished"}
              => Absorb(r, e) = r
  BY DEF Absorb, StepEndTypes

LEMMA AbsorbType ==
  ASSUME NEW S, NEW e \in S, NEW r \in ResultsOf(S)
  PROVE  Absorb(r, e) \in ResultsOf(S)
  <1>1. /\ r.steps \in Seq({x.result : x \in S})
        /\ r.findings \in Seq({x.record : x \in S})
        /\ r.injected \in Seq({x.at : x \in S})
    BY DEF ResultsOf
  <1>2. /\ Append(r.steps, e.result) \in Seq({x.result : x \in S})
        /\ Append(r.findings, e.record) \in Seq({x.record : x \in S})
        /\ Append(r.injected, e.at) \in Seq({x.at : x \in S})
    BY <1>1, AppendProperties
  <1>3. EmptyResult \in ResultsOf(S)
    BY EmptyType
  <1>4. [r EXCEPT !.steps = Append(@, e.result)] \in ResultsOf(S)
    BY <1>2 DEF ResultsOf
  <1>5. [r EXCEPT !.injected = Append(@, e.at)] \in ResultsOf(S)
    BY <1>2 DEF ResultsOf
  <1>6. [r EXCEPT !.findings = Append(@, e.record)] \in ResultsOf(S)
    BY <1>2 DEF ResultsOf
  <1>7. [r EXCEPT !.verdict = e.verdict, !.held = e.held] \in ResultsOf(S)
    BY DEF ResultsOf
  <1>8. QED
    BY <1>3, <1>4, <1>5, <1>6, <1>7, AbsorbCases DEF StepEndTypes

(* The induction the others go by: over streams that grow at their end.    *)
LEMMA StreamInduction ==
  ASSUME NEW S, NEW Good, <<>> \in Good,
         \A j \in Seq(S), e \in S : j \in Good => Append(j, e) \in Good
  PROVE  Seq(S) \subseteq Good
  <1> DEFINE T == {n \in Nat : \A j \in Seq(S) : Len(j) = n => j \in Good}
  <1>1. 0 \in T
    BY EmptySeq
  <1>2. ASSUME NEW n \in Nat, n \in T PROVE n + 1 \in T
    <2> SUFFICES ASSUME NEW j \in Seq(S), Len(j) = n + 1 PROVE j \in Good
      OBVIOUS
    <2> DEFINE front == [k \in 1..n |-> j[k]]
    <2>1. \A k \in 1..(n + 1) : j[k] \in S
      BY ElementOfSeq
    <2>2. front \in Seq(S) /\ Len(front) = n
      BY <2>1
    <2>3. j = Append(front, j[n + 1])
      <3>1. Append(front, j[n + 1]) \in Seq(S) /\ Len(Append(front, j[n + 1])) = n + 1
        BY <2>1, <2>2, AppendProperties
      <3>2. \A k \in 1..(n + 1) : Append(front, j[n + 1])[k] = j[k]
        BY <2>1, <2>2, AppendProperties
      <3> HIDE DEF front
      <3>3. QED
        BY <3>1, <3>2, SeqEqual
    <2>4. front \in Good
      BY <1>2, <2>2
    <2>5. j[n + 1] \in S
      BY <2>1
    <2> HIDE DEF front
    <2>6. Append(front, j[n + 1]) \in Good
      BY <2>2, <2>4, <2>5
    <2>7. QED
      BY <2>3, <2>6
  <1>3. Nat \subseteq T
    <2> HIDE DEF T
    <2>1. QED
      BY <1>1, <1>2, SetInduction
  <1>4. QED
    BY <1>3, LenProperties

LEMMA ReduceType ==
  ASSUME NEW S, NEW j \in Seq(S)
  PROVE  Reduce(j) \in ResultsOf(S)
  <1> DEFINE Good == {q \in Seq(S) : Reduce(q) \in ResultsOf(S)}
  <1>1. <<>> \in Good
    BY ReduceEmpty, EmptyType
  <1>2. ASSUME NEW q \in Seq(S), NEW e \in S, q \in Good PROVE Append(q, e) \in Good
    BY <1>2, ReduceAppend, AbsorbType, AppendProperties
  <1>3. Seq(S) \subseteq Good
    <2> HIDE DEF Good
    <2>1. QED
      BY <1>1, <1>2, StreamInduction
  <1>4. QED
    BY <1>3

(* The reduction after one more event, by the kind of the event.           *)
LEMMA ReduceOneMore ==
  ASSUME NEW S, NEW j \in Seq(S), NEW e \in S
  PROVE  LET R == Reduce(j)
             Q == Reduce(Append(j, e))
         IN /\ R \in ResultsOf(S) /\ Q \in ResultsOf(S) /\ Append(j, e) \in Seq(S)
            /\ e.type \in {"step.started", "phase.started"} => Q = R
            /\ e.type \in StepEndTypes => Q = [R EXCEPT !.steps = Append(@, e.result)]
            /\ e.type = "fault.injected" => Q = [R EXCEPT !.injected = Append(@, e.at)]
            /\ e.type = "finding.recorded" => Q = [R EXCEPT !.findings = Append(@, e.record)]
  <1> DEFINE R == Reduce(j)
             Q == Reduce(Append(j, e))
  <1>1. Append(j, e) \in Seq(S)
    BY AppendProperties
  <1>2. R \in ResultsOf(S) /\ Q \in ResultsOf(S)
    BY <1>1, ReduceType
  <1>3. Q = Absorb(R, e)
    BY ReduceAppend
  <1> HIDE DEF R, Q
  <1>4. /\ e.type \in {"step.started", "phase.started"} => Q = R
        /\ e.type \in StepEndTypes => Q = [R EXCEPT !.steps = Append(@, e.result)]
        /\ e.type = "fault.injected" => Q = [R EXCEPT !.injected = Append(@, e.at)]
        /\ e.type = "finding.recorded" => Q = [R EXCEPT !.findings = Append(@, e.record)]
    BY <1>3, AbsorbCases DEF StepEndTypes
  <1>5. QED
    BY <1>1, <1>2, <1>4 DEF R, Q

LEMMA ConcatAppend ==
  ASSUME NEW S, NEW j \in Seq(S), NEW q \in Seq(S), NEW e \in S
  PROVE  j \o q \in Seq(S) /\ j \o Append(q, e) = Append(j \o q, e)
  <1>1. <<e>> \in Seq(S) /\ j \o q \in Seq(S)
    BY ConcatProperties
  <1>2. Append(q, e) = q \o <<e>> /\ Append(j \o q, e) = (j \o q) \o <<e>>
    BY <1>1, AppendIsConcat
  <1>3. (j \o q) \o <<e>> = j \o (q \o <<e>>)
    BY <1>1, ConcatAssociative
  <1>4. QED
    BY <1>1, <1>2, <1>3

(* One event's contribution comes after what was there before.             *)
LEMMA AbsorbAdds ==
  ASSUME NEW S, NEW e \in S, e.type # "scenario.started",
         NEW r \in ResultsOf(S), NEW p \in ResultsOf(S), NEW q \in ResultsOf(S),
         r.steps = p.steps \o q.steps, r.findings = p.findings \o q.findings,
         r.injected = p.injected \o q.injected
  PROVE  /\ Absorb(r, e).steps = p.steps \o Absorb(q, e).steps
         /\ Absorb(r, e).findings = p.findings \o Absorb(q, e).findings
         /\ Absorb(r, e).injected = p.injected \o Absorb(q, e).injected
  <1> DEFINE X == {x.result : x \in S}
             F == {x.record : x \in S}
             P == {x.at : x \in S}
  <1>0. /\ p.steps \in Seq(X) /\ q.steps \in Seq(X) /\ e.result \in X
        /\ p.findings \in Seq(F) /\ q.findings \in Seq(F) /\ e.record \in F
        /\ p.injected \in Seq(P) /\ q.injected \in Seq(P) /\ e.at \in P
    BY DEF ResultsOf
  <1> HIDE DEF X, F, P
  <1>1. Append(r.steps, e.result) = p.steps \o Append(q.steps, e.result)
    <2>1. \A s, t \in Seq(X), y \in X : s \o Append(t, y) = Append(s \o t, y)
      BY ConcatAppend
    <2>2. QED
      BY <1>0, <2>1
  <1>2. Append(r.findings, e.record) = p.findings \o Append(q.findings, e.record)
    <2>1. \A s, t \in Seq(F), y \in F : s \o Append(t, y) = Append(s \o t, y)
      BY ConcatAppend
    <2>2. QED
      BY <1>0, <2>1
  <1>3. Append(r.injected, e.at) = p.injected \o Append(q.injected, e.at)
    <2>1. \A s, t \in Seq(P), y \in P : s \o Append(t, y) = Append(s \o t, y)
      BY ConcatAppend
    <2>2. QED
      BY <1>0, <2>1
  <1>4. CASE e.type \in StepEndTypes
    <2>1. \A t \in ResultsOf(S) : Absorb(t, e) = [t EXCEPT !.steps = Append(@, e.result)]
      BY <1>4, AbsorbCases
    <2>2. QED
      BY <1>1, <2>1 DEF ResultsOf
  <1>5. CASE e.type = "fault.injected"
    <2>1. \A t \in ResultsOf(S) : Absorb(t, e) = [t EXCEPT !.injected = Append(@, e.at)]
      BY <1>5, AbsorbCases
    <2>2. QED
      BY <1>3, <2>1 DEF ResultsOf
  <1>6. CASE e.type = "finding.recorded"
    <2>1. \A t \in ResultsOf(S) : Absorb(t, e) = [t EXCEPT !.findings = Append(@, e.record)]
      BY <1>6, AbsorbCases
    <2>2. QED
      BY <1>2, <2>1 DEF ResultsOf
  <1>7. CASE e.type = "scenario.finished"
    <2>1. \A t \in ResultsOf(S) :
            Absorb(t, e) = [t EXCEPT !.verdict = e.verdict, !.held = e.held]
      BY <1>7, AbsorbCases
    <2>2. QED
      BY <2>1 DEF ResultsOf
  <1>8. CASE e.type \notin StepEndTypes \cup {"scenario.started", "fault.injected",
                                             "finding.recorded", "scenario.finished"}
    <2>1. \A t \in ResultsOf(S) : Absorb(t, e) = t
      BY <1>8, AbsorbCases
    <2>2. QED
      BY <2>1
  <1>9. QED
    BY <1>4, <1>5, <1>6, <1>7, <1>8

(* r has what p has and after it what q has.                                *)
Concatenated(r, p, q) ==
  /\ r.steps = p.steps \o q.steps
  /\ r.findings = p.findings \o q.findings
  /\ r.injected = p.injected \o q.injected

(* Events put after a stream, none of which opens a scenario, add to its   *)
(* reduction what they are reduced to by themselves.                       *)
LEMMA ReduceConcat ==
  ASSUME NEW S, NEW B, B \subseteq S, NEW j \in Seq(S), NEW b \in Seq(B),
         \A e \in B : e.type # "scenario.started"
  PROVE  Concatenated(Reduce(j \o b), Reduce(j), Reduce(b))
  <1> DEFINE Good == {q \in Seq(B) :
                        /\ Reduce(j \o q).steps = Reduce(j).steps \o Reduce(q).steps
                        /\ Reduce(j \o q).findings = Reduce(j).findings \o Reduce(q).findings
                        /\ Reduce(j \o q).injected = Reduce(j).injected \o Reduce(q).injected}
  <1>0. Seq(B) \subseteq Seq(S)
    BY SeqMonotonic
  <1>1. <<>> \in Good
    <2>1. Reduce(j) \in ResultsOf(S) /\ Reduce(<<>>) = EmptyResult /\ j \o <<>> = j
      BY ReduceType, ReduceEmpty, ConcatEmptySeq
    <2>2. /\ Reduce(j).steps \o <<>> = Reduce(j).steps
          /\ Reduce(j).findings \o <<>> = Reduce(j).findings
          /\ Reduce(j).injected \o <<>> = Reduce(j).injected
      BY <2>1, ConcatEmptySeq DEF ResultsOf
    <2>3. /\ Reduce(<<>>).steps = <<>> /\ Reduce(<<>>).findings = <<>>
          /\ Reduce(<<>>).injected = <<>>
      BY ReduceEmpty DEF EmptyResult
    <2>4. <<>> \in Seq(B)
      BY EmptySeq
    <2>5. QED
      BY <2>1, <2>2, <2>3, <2>4, Zenon
  <1>2. ASSUME NEW q \in Seq(B), NEW e \in B, q \in Good PROVE Append(q, e) \in Good
    <2>0. q \in Seq(S) /\ e \in S
      BY <1>0
    <2>1. j \o q \in Seq(S) /\ j \o Append(q, e) = Append(j \o q, e)
      BY <2>0, ConcatAppend
    <2>2. /\ Reduce(j \o Append(q, e)) = Absorb(Reduce(j \o q), e)
          /\ Reduce(Append(q, e)) = Absorb(Reduce(q), e)
      BY <2>0, <2>1, ReduceAppend
    <2>3. Reduce(j) \in ResultsOf(S) /\ Reduce(q) \in ResultsOf(S) /\ Reduce(j \o q) \in ResultsOf(S)
      BY <2>0, <2>1, ReduceType
    <2>4. /\ Reduce(j \o q).steps = Reduce(j).steps \o Reduce(q).steps
          /\ Reduce(j \o q).findings = Reduce(j).findings \o Reduce(q).findings
          /\ Reduce(j \o q).injected = Reduce(j).injected \o Reduce(q).injected
      BY <1>2
    <2> DEFINE r == Reduce(j \o q)
    <2>5. /\ Absorb(r, e).steps = Reduce(j).steps \o Absorb(Reduce(q), e).steps
          /\ Absorb(r, e).findings = Reduce(j).findings \o Absorb(Reduce(q), e).findings
          /\ Absorb(r, e).injected = Reduce(j).injected \o Absorb(Reduce(q), e).injected
      BY ZenonT(30), <2>0, <2>3, <2>4, AbsorbAdds
    <2>6. Append(q, e) \in Seq(B)
      BY AppendProperties
    <2>7. QED
      BY <2>2, <2>5, <2>6, Zenon
  <1>3. Seq(B) \subseteq Good
    <2> HIDE DEF Good
    <2>1. QED
      BY <1>1, <1>2, StreamInduction
  <1>4. QED
    BY <1>3 DEF Concatenated
=============================================================================
