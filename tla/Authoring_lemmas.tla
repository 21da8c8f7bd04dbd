-------------------------- MODULE Authoring_lemmas ---------------------------
(***************************************************************************)
(* The operators Authoring is built from, apart from any step of it.  Tag  *)
(* expressions first: their parser accepts exactly the expressions that    *)
(* mean something, as what they mean (core/tagexpr/tagexpr.go).  Then what *)
(* discovery, selection, the registry and the references of a step come    *)
(* to, what the checks of validate let pass and what they blame, and what  *)
(* the frames of a run hold.  Recursion over a data type is solved by      *)
(* hand: a function that is defined from its values lower down has a       *)
(* solution, and it is read off where it is defined.                       *)
(***************************************************************************)
EXTENDS Authoring, TLAPS, SequenceTheorems, FiniteSetTheorems, WellFoundedInduction

(* The least-number principle, from the well-ordering of Nat.              *)
LEMMA LeastNumber ==
  ASSUME NEW T \in SUBSET Nat, T # {}
  PROVE  \E m \in T : \A k \in T : m <= k
  <1> DEFINE R == OpToRel(<, Nat)
  <1>1. IsWellFoundedOn(R, Nat)
    BY NatLessThanWellFounded
  <1>2. \A x, y \in Nat : x < y => <<x, y>> \in R
    BY DEF OpToRel
  <1> HIDE DEF R
  <1>3. PICK m \in T : \A k \in T : <<k, m>> \notin R
    BY <1>1, WFMin
  <1>4. \A k \in T : ~ k < m
    BY <1>2, <1>3
  <1>5. \A k \in T : k \in Nat /\ m \in Nat
    OBVIOUS
  <1>6. QED
    BY <1>4, <1>5

(* A recursion over S whose step F looks at lower values only: it has a    *)
(* solution, and with values of the sets V names.                          *)
Tables(S, V) == {f \in [S -> UNION {V[x] : x \in S}] : \A x \in S : f[x] \in V[x]}
Solved(S, V, h, F, n) == {f \in Tables(S, V) : \A x \in S : h[x] < n => f[x] = F[<<f, x>>]}
Lowering(S, V, h, F) ==
  /\ \A x \in S : h[x] \in Nat /\ V[x] # {}
  /\ \A f \in Tables(S, V), x \in S : F[<<f, x>>] \in V[x]
  /\ \A f, g \in Tables(S, V), x \in S :
       (\A y \in S : h[y] < h[x] => f[y] = g[y]) => F[<<f, x>>] = F[<<g, x>>]

LEMMA SolvedAll ==
  ASSUME NEW S, NEW V, NEW h, NEW F, Lowering(S, V, h, F), NEW n \in Nat
  PROVE  Solved(S, V, h, F, n) # {}
  <1> DEFINE Bad == {m \in Nat : Solved(S, V, h, F, m) = {}}
  <1> SUFFICES ASSUME Bad # {} PROVE FALSE
    OBVIOUS
  <1>1. PICK m \in Bad : \A k \in Bad : m <= k
    BY LeastNumber
  <1>2. CASE m = 0
    <2> DEFINE f == [x \in S |-> CHOOSE v \in V[x] : TRUE]
    <2>1. \A x \in S : f[x] \in V[x]
      BY DEF Lowering
    <2>2. f \in Tables(S, V)
      <3> HIDE DEF f
      <3>1. f = [x \in S |-> f[x]]
        BY DEF f
      <3>2. QED
        BY <2>1, <3>1 DEF Tables
    <2>3. \A x \in S : ~(h[x] < 0)
      BY DEF Lowering
    <2>4. f \in Solved(S, V, h, F, 0)
      <3> HIDE DEF f
      <3>1. QED
        BY <2>2, <2>3 DEF Solved
    <2>5. QED
      BY <1>1, <1>2, <2>4
  <1>3. CASE m # 0
    <2>1. m - 1 \in Nat /\ m - 1 \notin Bad
      BY <1>1, <1>3
    <2>2. PICK f : f \in Solved(S, V, h, F, m - 1)
      BY <2>1
    <2> DEFINE g == [x \in S |-> IF h[x] < m THEN F[<<f, x>>] ELSE f[x]]
    <2>3. f \in Tables(S, V)
      BY <2>2 DEF Solved
    <2>4. \A x \in S : g[x] \in V[x]
      BY <2>3 DEF Tables, Lowering
    <2>5. \A y \in S : h[y] < m - 1 => g[y] = f[y]
      <3> TAKE y \in S
      <3>1. h[y] \in Nat
        BY DEF Lowering
      <3>2. HAVE h[y] < m - 1
      <3>3. h[y] < m
        BY <3>1, <3>2, <1>1
      <3>4. f[y] = F[<<f, y>>]
        BY <2>2, <3>2 DEF Solved
      <3>5. QED
        BY <3>3, <3>4
    <2>6. \A x \in S : h[x] < m => g[x] = F[<<f, x>>]
      OBVIOUS
    <2> HIDE DEF g
    <2>7. g \in Tables(S, V)
      <3>1. g = [x \in S |-> g[x]]
        BY DEF g
      <3>2. QED
        BY <2>4, <3>1 DEF Tables
    <2>8. ASSUME NEW x \in S, h[x] < m PROVE g[x] = F[<<g, x>>]
      <3>1. h[x] \in Nat /\ m \in Nat
        BY <1>1 DEF Lowering
      <3>2. ASSUME NEW y \in S, h[y] < h[x] PROVE g[y] = f[y]
        <4>1. h[y] \in Nat
          BY DEF Lowering
        <4>2. h[y] < m - 1
          BY <3>1, <3>2, <4>1, <2>8
        <4>3. QED
          BY <4>2, <2>5
      <3>3. F[<<g, x>>] = F[<<f, x>>]
        BY <3>2, <2>3, <2>7 DEF Lowering
      <3>4. QED
        BY <3>3, <2>6, <2>8
    <2>9. g \in Solved(S, V, h, F, m)
      BY <2>7, <2>8 DEF Solved
    <2>10. QED
      BY <2>9, <1>1
  <1>4. QED
    BY <1>2, <1>3

LEMMA SolvedAgree ==
  ASSUME NEW S, NEW V, NEW h, NEW F, Lowering(S, V, h, F), NEW n \in Nat, NEW m \in Nat,
         NEW f \in Solved(S, V, h, F, n), NEW g \in Solved(S, V, h, F, m)
  PROVE  \A x \in S : h[x] < n /\ h[x] < m => f[x] = g[x]
  <1> DEFINE Off(x) == x \in S /\ h[x] < n /\ h[x] < m /\ f[x] # g[x]
             Bad == {k \in Nat : \E x \in S : Off(x) /\ h[x] = k}
  <1> SUFFICES ASSUME NEW z \in S, Off(z) PROVE FALSE
    OBVIOUS
  <1>1. h[z] \in Bad
    BY DEF Lowering
  <1>2. PICK k \in Bad : \A j \in Bad : k <= j
    <2> HIDE DEF Bad
    <2>1. Bad \in SUBSET Nat
      BY DEF Bad
    <2>2. QED
      BY <1>1, <2>1, LeastNumber
  <1>3. PICK x \in S : Off(x) /\ h[x] = k
    BY <1>2
  <1>4. ASSUME NEW y \in S, h[y] < h[x] PROVE f[y] = g[y]
    <2>1. h[y] \in Nat /\ h[x] \in Nat
      BY DEF Lowering
    <2>2. h[y] \notin Bad
      BY <2>1, <1>2, <1>3, <1>4
    <2>3. h[y] < n /\ h[y] < m
      BY <2>1, <1>3, <1>4
    <2>4. QED
      BY <2>1, <2>2, <2>3
  <1>5. f \in Tables(S, V) /\ g \in Tables(S, V) /\ f[x] = F[<<f, x>>] /\ g[x] = F[<<g, x>>]
    BY <1>3 DEF Solved
  <1>6. F[<<f, x>>] = F[<<g, x>>]
    BY <1>4, <1>5 DEF Lowering
  <1>7. QED
    BY <1>3, <1>5, <1>6

LEMMA Recursion ==
  ASSUME NEW S, NEW V, NEW h, NEW F, Lowering(S, V, h, F)
  PROVE  \E f \in Tables(S, V) : \A x \in S : f[x] = F[<<f, x>>]
  <1> DEFINE t(n) == CHOOSE f : f \in Solved(S, V, h, F, n)
             f == [x \in S |-> t(h[x] + 1)[x]]
  <1>1. \A n \in Nat : t(n) \in Solved(S, V, h, F, n)
    BY SolvedAll
  <1>2. \A x \in S : f[x] = t(h[x] + 1)[x]
    OBVIOUS
  <1>3. f = [x \in S |-> f[x]]
    OBVIOUS
  <1> HIDE DEF t, f
  <1>a. \A x \in S : h[x] \in Nat
    BY DEF Lowering
  <1>b. \A x \in S : h[x] + 1 \in Nat /\ h[x] < h[x] + 1
    BY <1>a
  <1>c. \A x \in S : t(h[x] + 1) \in Solved(S, V, h, F, h[x] + 1)
    BY <1>b, <1>1
  <1>d. \A x \in S : t(h[x] + 1) \in Tables(S, V)
    BY <1>c DEF Solved
  <1>e. \A x \in S : t(h[x] + 1)[x] = F[<<t(h[x] + 1), x>>]
    BY <1>b, <1>c DEF Solved
  <1>5. f \in Tables(S, V)
    <2>1. \A x \in S : f[x] \in V[x]
      BY <1>2, <1>d DEF Tables
    <2>2. QED
      BY <1>3, <2>1 DEF Tables
  <1>6. ASSUME NEW x \in S PROVE f[x] = F[<<f, x>>]
    <2> DEFINE g == t(h[x] + 1)
    <2>1. ASSUME NEW y \in S, h[y] < h[x] PROVE f[y] = g[y]
      <3>1. h[y] < h[x] + 1
        BY <1>a, <2>1
      <3>2. t(h[y] + 1)[y] = g[y]
        BY <1>b, <1>c, <3>1, SolvedAgree
      <3>3. QED
        BY <3>2, <1>2
    <2>2. F[<<f, x>>] = F[<<g, x>>]
      BY <1>d, <1>5, <2>1 DEF Lowering
    <2>3. QED
      BY <2>2, <1>2, <1>e
  <1>7. QED
    BY <1>5, <1>6

(* What is off somewhere is off at a lowest place.                         *)
LEMMA LowestPlace ==
  ASSUME NEW S, NEW h, \A x \in S : h[x] \in Nat, NEW B \in SUBSET S, B # {}
  PROVE  \E x \in B : \A y \in S : h[y] < h[x] => y \notin B
  <1> DEFINE H == {h[x] : x \in B}
  <1>1. H \in SUBSET Nat /\ H # {}
    OBVIOUS
  <1>2. PICK m \in H : \A k \in H : m <= k
    <2> HIDE DEF H
    <2>1. QED
      BY <1>1, LeastNumber
  <1>3. PICK x \in B : h[x] = m
    BY <1>2
  <1>4. ASSUME NEW y \in S, h[y] < h[x] PROVE y \notin B
    <2>1. h[y] \in Nat /\ m \in Nat /\ (y \in B => m <= h[y])
      BY <1>1, <1>2
    <2>2. QED
      BY <2>1, <1>3, <1>4
  <1>5. QED
    BY <1>4

(* The same for a list that is gone through from its first element on.     *)
Stepping(n, V, G) == \A v \in V, i \in 1..n : G[<<v, i>>] \in V
Lists(n, V, a, G) == {f \in [0..n -> V] : f[0] = a /\ \A i \in 1..n : f[i] = G[<<f[i - 1], i>>]}

LEMMA PrefixRecursion ==
  ASSUME NEW n \in Nat, NEW V, NEW a \in V, NEW G, Stepping(n, V, G)
  PROVE  Lists(n, V, a, G) # {}
  <1>0. \A v \in V, i \in 1..n : G[<<v, i>>] \in V
    BY DEF Stepping
  <1> DEFINE S == 0..n
             W == [x \in S |-> V]
             h == [x \in S |-> x]
             T == Tables(S, W)
             F == [p \in T \X S |-> IF p[2] = 0 THEN a ELSE G[<<p[1][p[2] - 1], p[2]>>]]
  <1>1. \A f \in T : \A x \in S : f[x] \in V
    BY DEF Tables
  <1>2. \A f \in T, x \in S : F[<<f, x>>] = IF x = 0 THEN a ELSE G[<<f[x - 1], x>>]
    OBVIOUS
  <1>3. \A x \in S : h[x] = x /\ W[x] = V /\ x \in Nat
    OBVIOUS
  <1> HIDE DEF F, h, W
  <1>4. \A x \in S : x # 0 => x - 1 \in S /\ x - 1 < x /\ x \in 1..n
    OBVIOUS
  <1>5. \A f \in T, x \in S : F[<<f, x>>] \in W[x]
    <2> TAKE f \in T, x \in S
    <2>1. CASE x = 0
      <3>1. F[<<f, x>>] = a /\ W[x] = V
        BY <2>1, <1>2, <1>3
      <3>2. QED
        BY <3>1
    <2>2. CASE x # 0
      <3>1. f[x - 1] \in V
        BY <2>2, <1>1, <1>4
      <3>2. F[<<f, x>>] = G[<<f[x - 1], x>>]
        BY <2>2, <1>2
      <3>3. G[<<f[x - 1], x>>] \in V
        BY <2>2, <3>1, <1>0, <1>4
      <3>4. QED
        BY <3>2, <3>3, <1>3
    <2>3. QED
      BY <2>1, <2>2
  <1>6. ASSUME NEW f \in T, NEW g \in T, NEW x \in S, \A y \in S : h[y] < h[x] => f[y] = g[y]
        PROVE  F[<<f, x>>] = F[<<g, x>>]
    <2>1. CASE x = 0
      BY <2>1, <1>2
    <2>2. CASE x # 0
      <3>1. f[x - 1] = g[x - 1]
        BY <2>2, <1>3, <1>4, <1>6
      <3>2. QED
        BY <2>2, <3>1, <1>2
    <2>3. QED
      BY <2>1, <2>2
  <1>7. Lowering(S, W, h, F)
    BY <1>3, <1>5, <1>6 DEF Lowering
  <1>8. PICK f \in T : \A x \in S : f[x] = F[<<f, x>>]
    <2> HIDE DEF T, S
    <2>1. \E f \in Tables(S, W) : \A x \in S : f[x] = F[<<f, x>>]
      BY ONLY <1>7, Recursion
    <2>2. QED
      BY <2>1 DEF T
  <1>9. f \in [0..n -> V]
    BY <1>1 DEF Tables
  <1>a. 0 \in S /\ \A i \in 1..n : i \in S /\ i # 0
    OBVIOUS
  <1> HIDE DEF S, T
  <1>10. f[0] = a
    <2>1. f[0] = F[<<f, 0>>]
      BY <1>8, <1>a
    <2>2. F[<<f, 0>>] = a
      BY <1>2, <1>a
    <2>3. QED
      BY <2>1, <2>2
  <1>11. ASSUME NEW i \in 1..n PROVE f[i] = G[<<f[i - 1], i>>]
    <2>1. f[i] = F[<<f, i>>]
      BY <1>8, <1>a
    <2>2. F[<<f, i>>] = G[<<f[i - 1], i>>]
      BY <1>2, <1>a
    <2>3. QED
      BY <2>1, <2>2
  <1>12. f \in Lists(n, V, a, G)
    BY <1>9, <1>10, <1>11 DEF Lists
  <1>13. QED
    BY <1>12

-----------------------------------------------------------------------------
(* The parser.  A rule that succeeds at a place has read at least a token. *)
Rules == {"or", "and", "unary"}
Places(toks) == Rules \X (1..(Len(toks) + 1))
Results == [ok : BOOLEAN, pos : Nat, sat : SUBSET All]
Ahead(toks, pos) == {r \in Results : r.ok => pos < r.pos /\ r.pos <= Len(toks) + 1}
Later(toks, pos, f, g) ==
  \A rule \in Rules, p \in 1..(Len(toks) + 1) :
    p > pos => f[<<rule, p>>] = g[<<rule, p>>] /\ f[<<rule, p>>] \in Ahead(toks, p)

LEMMA ResultsAre ==
  ASSUME NEW p \in Nat, NEW s \in SUBSET All
  PROVE  /\ Parsed(p, s) \in Results /\ SyntaxError \in Results
         /\ Parsed(p, s).ok /\ Parsed(p, s).pos = p /\ Parsed(p, s).sat = s /\ ~SyntaxError.ok
  BY DEF Parsed, SyntaxError, Results

LEMMA AtomLocal ==
  ASSUME NEW T, NEW toks \in Seq(T), NEW pos \in 1..(Len(toks) + 1), NEW f, NEW g, Later(toks, pos, f, g)
  PROVE  ParseAtom(f, toks, pos) = ParseAtom(g, toks, pos) /\ ParseAtom(f, toks, pos) \in Ahead(toks, pos)
  <1>1. Len(toks) \in Nat
    OBVIOUS
  <1>2. CASE pos <= Len(toks) /\ toks[pos] \in Tags
    <2>1. {S \in All : toks[pos] \in S} \in SUBSET All /\ pos + 1 \in Nat
      BY <1>1
    <2>2. ParseAtom(f, toks, pos) = Parsed(pos + 1, {S \in All : toks[pos] \in S})
          /\ ParseAtom(g, toks, pos) = Parsed(pos + 1, {S \in All : toks[pos] \in S})
      BY <1>2 DEF ParseAtom
    <2>3. QED
      BY <1>1, <1>2, <2>1, <2>2, ResultsAre DEF Ahead
  <1>3. CASE ~(pos <= Len(toks) /\ toks[pos] \in Tags) /\ ~Peek(toks, pos, "(")
    <2>1. ParseAtom(f, toks, pos) = SyntaxError /\ ParseAtom(g, toks, pos) = SyntaxError
      BY <1>3 DEF ParseAtom
    <2>2. QED
      BY <2>1, ResultsAre DEF Ahead
  <1>4. CASE ~(pos <= Len(toks) /\ toks[pos] \in Tags) /\ Peek(toks, pos, "(")
    <2>1. pos + 1 \in 1..(Len(toks) + 1) /\ pos + 1 > pos /\ "or" \in Rules
      BY <1>1, <1>4 DEF Peek, Rules
    <2> DEFINE inner == f[<<"or", pos + 1>>]
    <2>2. inner = g[<<"or", pos + 1>>] /\ inner \in Ahead(toks, pos + 1)
      BY <2>1 DEF Later
    <2>3. /\ ParseAtom(f, toks, pos) = IF inner.ok /\ Peek(toks, inner.pos, ")")
                                       THEN Parsed(inner.pos + 1, inner.sat) ELSE SyntaxError
          /\ ParseAtom(g, toks, pos) = ParseAtom(f, toks, pos)
      BY <1>4, <2>2 DEF ParseAtom
    <2> HIDE DEF inner
    <2>4. inner.pos \in Nat /\ inner.sat \in SUBSET All
      BY <2>2 DEF Ahead, Results
    <2>5. CASE inner.ok /\ Peek(toks, inner.pos, ")")
      <3>1. pos < inner.pos + 1 /\ inner.pos + 1 <= Len(toks) + 1 /\ inner.pos + 1 \in Nat
        BY <2>2, <2>4, <2>5, <1>1 DEF Ahead, Peek
      <3>2. QED
        BY <2>3, <2>4, <2>5, <3>1, ResultsAre DEF Ahead
    <2>6. CASE ~(inner.ok /\ Peek(toks, inner.pos, ")"))
      BY <2>3, <2>6, ResultsAre DEF Ahead
    <2>7. QED
      BY <2>5, <2>6
  <1>5. QED
    BY <1>2, <1>3, <1>4

LEMMA UnaryLocal ==
  ASSUME NEW T, NEW toks \in Seq(T), NEW pos \in 1..(Len(toks) + 1), NEW f, NEW g, Later(toks, pos, f, g)
  PROVE  ParseUnary(f, toks, pos) = ParseUnary(g, toks, pos) /\ ParseUnary(f, toks, pos) \in Ahead(toks, pos)
  <1>1. Len(toks) \in Nat
    OBVIOUS
  <1>2. CASE ~Peek(toks, pos, "!")
    BY <1>2, AtomLocal DEF ParseUnary
  <1>3. CASE Peek(toks, pos, "!")
    <2>1. pos + 1 \in 1..(Len(toks) + 1) /\ pos + 1 > pos /\ "unary" \in Rules
      BY <1>1, <1>3 DEF Peek, Rules
    <2> DEFINE inner == f[<<"unary", pos + 1>>]
    <2>2. inner = g[<<"unary", pos + 1>>] /\ inner \in Ahead(toks, pos + 1)
      BY <2>1 DEF Later
    <2>3. /\ ParseUnary(f, toks, pos) = IF inner.ok THEN Parsed(inner.pos, All \ inner.sat) ELSE SyntaxError
          /\ ParseUnary(g, toks, pos) = ParseUnary(f, toks, pos)
      BY <1>3, <2>2 DEF ParseUnary
    <2> HIDE DEF inner
    <2>4. inner.pos \in Nat /\ All \ inner.sat \in SUBSET All
      BY <2>2 DEF Ahead, Results
    <2>5. CASE inner.ok
      <3>1. pos < inner.pos /\ inner.pos <= Len(toks) + 1
        BY <2>2, <2>4, <2>5, <1>1 DEF Ahead
      <3>2. QED
        BY <2>3, <2>4, <2>5, <3>1, ResultsAre DEF Ahead
    <2>6. CASE ~inner.ok
      BY <2>3, <2>6, ResultsAre DEF Ahead
    <2>7. QED
      BY <2>5, <2>6
  <1>4. QED
    BY <1>2, <1>3

LEMMA JoinAhead ==
  ASSUME NEW T, NEW toks \in Seq(T), NEW pos \in 1..(Len(toks) + 1), NEW left \in Ahead(toks, pos),
         NEW right, NEW op, NEW sat, right \in Results => sat \in SUBSET All,
         left.ok /\ Peek(toks, left.pos, op) => right \in Ahead(toks, left.pos + 1)
  PROVE  Join(left, right, Peek(toks, left.pos, op), sat) \in Ahead(toks, pos)
  <1>1. Len(toks) \in Nat /\ left.pos \in Nat
    BY DEF Ahead, Results
  <1>2. CASE ~left.ok \/ ~Peek(toks, left.pos, op)
    BY <1>2 DEF Join
  <1>3. CASE left.ok /\ Peek(toks, left.pos, op) /\ right.ok
    <2>1. right \in Ahead(toks, left.pos + 1) /\ right.pos \in Nat /\ sat \in SUBSET All
      BY <1>3 DEF Ahead, Results
    <2>2. pos < left.pos /\ left.pos + 1 < right.pos /\ right.pos <= Len(toks) + 1
      BY <1>3, <2>1 DEF Ahead
    <2>3. pos < right.pos
      BY <1>1, <2>1, <2>2
    <2>4. QED
      BY <1>3, <2>1, <2>2, <2>3, ResultsAre DEF Ahead, Join
  <1>4. CASE left.ok /\ Peek(toks, left.pos, op) /\ ~right.ok
    BY <1>4, ResultsAre DEF Ahead, Join
  <1>5. QED
    BY <1>2, <1>3, <1>4

LEMMA AndLocal ==
  ASSUME NEW T, NEW toks \in Seq(T), NEW pos \in 1..(Len(toks) + 1), NEW f, NEW g, Later(toks, pos, f, g)
  PROVE  ParseAnd(f, toks, pos) = ParseAnd(g, toks, pos) /\ ParseAnd(f, toks, pos) \in Ahead(toks, pos)
  <1> DEFINE left == ParseUnary(f, toks, pos)
             next == <<"and", left.pos + 1>>
             sat == left.sat \cap f[next].sat
  <1>1. left = ParseUnary(g, toks, pos) /\ left \in Ahead(toks, pos)
    BY UnaryLocal
  <1>2. /\ ParseAnd(f, toks, pos) = Join(left, f[next], Peek(toks, left.pos, "&"), sat)
        /\ ParseAnd(g, toks, pos) = Join(left, g[next], Peek(toks, left.pos, "&"), left.sat \cap g[next].sat)
    BY <1>1 DEF ParseAnd, JoinAnd, Join
  <1> HIDE DEF left
  <1>3. left \in Results /\ left.pos \in Nat /\ left.sat \in SUBSET All /\ Len(toks) \in Nat
    BY <1>1 DEF Ahead, Results
  <1>4. ASSUME left.ok, Peek(toks, left.pos, "&")
        PROVE  g[next] = f[next] /\ f[next] \in Ahead(toks, left.pos + 1)
    <2>1. left.pos + 1 \in 1..(Len(toks) + 1) /\ left.pos + 1 > pos /\ "and" \in Rules
      BY <1>1, <1>3, <1>4 DEF Peek, Rules, Ahead
    <2>2. QED
      BY <2>1 DEF Later
  <1>5. ParseAnd(g, toks, pos) = ParseAnd(f, toks, pos)
    <2>1. CASE left.ok /\ Peek(toks, left.pos, "&")
      BY <2>1, <1>2, <1>4
    <2>2. CASE ~(left.ok /\ Peek(toks, left.pos, "&"))
      BY <2>2, <1>2 DEF Join
    <2>3. QED
      BY <2>1, <2>2
  <1>6. sat \in SUBSET All
    BY <1>3
  <1> HIDE DEF next, sat
  <1>7. Join(left, f[next], Peek(toks, left.pos, "&"), sat) \in Ahead(toks, pos)
    BY <1>1, <1>4, <1>6, JoinAhead
  <1>8. QED
    BY <1>2, <1>5, <1>7

LEMMA OrLocal ==
  ASSUME NEW T, NEW toks \in Seq(T), NEW pos \in 1..(Len(toks) + 1), NEW f, NEW g, Later(toks, pos, f, g)
  PROVE  ParseOr(f, toks, pos) = ParseOr(g, toks, pos) /\ ParseOr(f, toks, pos) \in Ahead(toks, pos)
  <1> DEFINE left == ParseAnd(f, toks, pos)
             next == <<"or", left.pos + 1>>
             sat == left.sat \cup f[next].sat
  <1>1. left = ParseAnd(g, toks, pos) /\ left \in Ahead(toks, pos)
    BY AndLocal
  <1>2. /\ ParseOr(f, toks, pos) = Join(left, f[next], Peek(toks, left.pos, "|"), sat)
        /\ ParseOr(g, toks, pos) = Join(left, g[next], Peek(toks, left.pos, "|"), left.sat \cup g[next].sat)
    BY <1>1 DEF ParseOr, JoinOr, Join
  <1> HIDE DEF left
  <1>3. left \in Results /\ left.pos \in Nat /\ left.sat \in SUBSET All /\ Len(toks) \in Nat
    BY <1>1 DEF Ahead, Results
  <1>4. ASSUME left.ok, Peek(toks, left.pos, "|")
        PROVE  g[next] = f[next] /\ f[next] \in Ahead(toks, left.pos + 1)
    <2>1. left.pos + 1 \in 1..(Len(toks) + 1) /\ left.pos + 1 > pos /\ "or" \in Rules
      BY <1>1, <1>3, <1>4 DEF Peek, Rules, Ahead
    <2>2. QED
      BY <2>1 DEF Later
  <1>5. ParseOr(g, toks, pos) = ParseOr(f, toks, pos)
    <2>1. CASE left.ok /\ Peek(toks, left.pos, "|")
      BY <2>1, <1>2, <1>4
    <2>2. CASE ~(left.ok /\ Peek(toks, left.pos, "|"))
      BY <2>2, <1>2 DEF Join
    <2>3. QED
      BY <2>1, <2>2
  <1>6. f[next] \in Results => sat \in SUBSET All
    BY <1>3 DEF Results
  <1> HIDE DEF next, sat
  <1>7. Join(left, f[next], Peek(toks, left.pos, "|"), sat) \in Ahead(toks, pos)
    BY <1>1, <1>4, <1>6, JoinAhead
  <1>8. QED
    BY <1>2, <1>5, <1>7

(* The table of the parser is one.                                         *)
Rule(f, toks, x) ==
  CASE x[1] = "or"    -> ParseOr(f, toks, x[2])
    [] x[1] = "and"   -> ParseAnd(f, toks, x[2])
    [] x[1] = "unary" -> ParseUnary(f, toks, x[2])

LEMMA RuleLocal ==
  ASSUME NEW T, NEW toks \in Seq(T), NEW x \in Places(toks), NEW f, NEW g, Later(toks, x[2], f, g)
  PROVE  Rule(f, toks, x) = Rule(g, toks, x) /\ Rule(f, toks, x) \in Ahead(toks, x[2])
  <1>1. x[2] \in 1..(Len(toks) + 1) /\ x[1] \in {"or", "and", "unary"}
    BY DEF Places, Rules
  <1>2. CASE x[1] = "or"
    BY <1>1, <1>2, OrLocal DEF Rule
  <1>3. CASE x[1] = "and"
    BY <1>1, <1>3, AndLocal DEF Rule
  <1>4. CASE x[1] = "unary"
    BY <1>1, <1>4, UnaryLocal DEF Rule
  <1>5. QED
    BY <1>1, <1>2, <1>3, <1>4

LEMMA ParserIsTable ==
  ASSUME NEW T, NEW toks \in Seq(T)
  PROVE  \A x \in Places(toks) :
           Parser(toks)[x] = Rule(Parser(toks), toks, x) /\ Parser(toks)[x] \in Ahead(toks, x[2])
  <1> DEFINE S == Places(toks)
             V == [x \in S |-> Ahead(toks, x[2])]
             h == [x \in S |-> Len(toks) + 1 - x[2]]
             G == Tables(S, V)
             F == [p \in G \X S |-> Rule(p[1], toks, p[2])]
  <1>1. Len(toks) \in Nat /\ \A x \in S : x[2] \in 1..(Len(toks) + 1) /\ x[1] \in Rules /\ x = <<x[1], x[2]>>
    BY DEF Places
  <1>2. \A f \in G, x \in S : F[<<f, x>>] = Rule(f, toks, x)
    OBVIOUS
  <1>3. \A x \in S : h[x] = Len(toks) + 1 - x[2] /\ h[x] \in Nat /\ V[x] = Ahead(toks, x[2])
    BY <1>1
  <1>4. \A rule \in Rules, p \in 1..(Len(toks) + 1) : <<rule, p>> \in S /\ <<rule, p>>[2] = p
    BY DEF Places
  <1> HIDE DEF F, h, V, S
  <1>5. ASSUME NEW f \in G, NEW g \in G, NEW x \in S, \A y \in S : h[y] < h[x] => f[y] = g[y]
        PROVE  Later(toks, x[2], f, g)
    <2> SUFFICES ASSUME NEW rule \in Rules, NEW p \in 1..(Len(toks) + 1), p > x[2]
                 PROVE  f[<<rule, p>>] = g[<<rule, p>>] /\ f[<<rule, p>>] \in Ahead(toks, p)
      BY DEF Later
    <2> DEFINE y == <<rule, p>>
    <2>1. y \in S /\ y[2] = p
      BY <1>4
    <2> HIDE DEF y
    <2>2. h[y] < h[x]
      BY <2>1, <1>1, <1>3
    <2>3. f[y] \in V[y]
      BY <2>1 DEF Tables
    <2>4. f[y] = g[y] /\ f[y] \in Ahead(toks, p)
      BY <2>1, <2>2, <2>3, <1>3, <1>5
    <2>5. QED
      BY <2>4 DEF y
  <1>6. \A f \in G, x \in S : F[<<f, x>>] \in V[x]
    <2> TAKE f \in G, x \in S
    <2>1. Later(toks, x[2], f, f)
      BY <1>5
    <2>2. QED
      BY <2>1, <1>2, <1>3, RuleLocal DEF S
  <1>7. ASSUME NEW f \in G, NEW g \in G, NEW x \in S, \A y \in S : h[y] < h[x] => f[y] = g[y]
        PROVE  F[<<f, x>>] = F[<<g, x>>]
    <2>1. Later(toks, x[2], f, g)
      BY <1>5, <1>7
    <2>2. QED
      BY <2>1, <1>2, RuleLocal DEF S
  <1>8. \A x \in S : V[x] # {}
    <2> TAKE x \in S
    <2>1. SyntaxError \in Ahead(toks, x[2])
      BY ResultsAre DEF Ahead
    <2>2. QED
      BY <2>1, <1>3
  <1>9. Lowering(S, V, h, F)
    BY <1>3, <1>6, <1>7, <1>8 DEF Lowering
  <1>10. PICK f \in G : \A x \in S : f[x] = F[<<f, x>>]
    <2> HIDE DEF G
    <2>1. \E f \in Tables(S, V) : \A x \in S : f[x] = F[<<f, x>>]
      BY ONLY <1>9, Recursion
    <2>2. QED
      BY <2>1 DEF G
  <1>11. f = [x \in S |-> Rule(f, toks, x)]
    <2>1. f = [x \in S |-> f[x]]
      BY DEF Tables
    <2>2. \A x \in S : f[x] = Rule(f, toks, x)
      BY <1>2, <1>10
    <2>3. QED
      BY <2>1, <2>2
  <1>12. ASSUME NEW q, q = [x \in S |-> Rule(q, toks, x)] PROVE q = f
    <2> DEFINE B == {x \in S : q[x] # f[x]}
    <2>1. ASSUME B # {} PROVE FALSE
      <3>1. PICK x \in B : \A y \in S : h[y] < h[x] => y \notin B
        <4>1. B \in SUBSET S /\ \A y \in S : h[y] \in Nat
          BY <1>3
        <4> HIDE DEF B
        <4>2. QED
          BY <4>1, <2>1, LowestPlace
      <3>2. x \in S /\ q[x] # f[x] /\ \A y \in S : h[y] < h[x] => f[y] = q[y]
        BY <3>1
      <3>3. Later(toks, x[2], f, q)
        <4> SUFFICES ASSUME NEW rule \in Rules, NEW p \in 1..(Len(toks) + 1), p > x[2]
                     PROVE  f[<<rule, p>>] = q[<<rule, p>>] /\ f[<<rule, p>>] \in Ahead(toks, p)
          BY DEF Later
        <4> DEFINE y == <<rule, p>>
        <4>1. y \in S /\ y[2] = p
          BY <1>4
        <4> HIDE DEF y
        <4>2. h[y] < h[x]
          BY <4>1, <3>2, <1>1, <1>3
        <4>3. f[y] \in V[y]
          BY <4>1 DEF Tables
        <4>4. f[y] = q[y] /\ f[y] \in Ahead(toks, p)
          BY <4>1, <4>2, <4>3, <3>2, <1>3
        <4>5. QED
          BY <4>4 DEF y
      <3>4. Rule(f, toks, x) = Rule(q, toks, x)
        BY <3>2, <3>3, RuleLocal DEF S
      <3>5. f[x] = Rule(f, toks, x) /\ q[x] = Rule(q, toks, x)
        BY <3>2, <1>11, <1>12
      <3>6. QED
        BY <3>2, <3>4, <3>5
    <2>2. \A x \in S : q[x] = f[x]
      BY <2>1
    <2>3. q = [x \in S |-> q[x]] /\ f = [x \in S |-> f[x]]
      BY <1>11, <1>12
    <2>4. QED
      BY <2>2, <2>3
  <1>13. Parser(toks) = CHOOSE q : q = [x \in S |-> Rule(q, toks, x)]
    BY DEF Parser, Rule, S, Places, Rules
  <1>14. Parser(toks) = f
    BY <1>11, <1>12, <1>13
  <1>15. \A x \in S : f[x] \in Ahead(toks, x[2])
    BY <1>3 DEF Tables
  <1>16. \A x \in S : f[x] = Rule(f, toks, x)
    BY <1>2, <1>10
  <1>17. QED
    BY <1>14, <1>15, <1>16 DEF S

LEMMA FirstOfInterval ==
  ASSUME NEW a \in Nat, NEW b \in Int, NEW Q \in SUBSET (a..b), Q # {}
  PROVE  FirstOf(Q) \in Q /\ \A j \in Q : FirstOf(Q) <= j
  <1>1. Q \in SUBSET Nat
    OBVIOUS
  <1>2. \E i \in Q : \A j \in Q : i <= j
    BY <1>1, LeastNumber
  <1>3. QED
    BY <1>2 DEF FirstOf

(* What the operators make of the meanings of their sides.                 *)
Unions(left, right) == {l \cup r : l \in left, r \in right}
Meets(left, right) == {l \cap r : l \in left, r \in right}
Rests(left) == {All \ s : s \in left}
OfTag(t) == {S \in All : t \in S}

(* The sets a meaning may be.                                             *)
Readings == SUBSET (SUBSET All)

LEMMA SubsetOf ==
  ASSUME NEW A, NEW B, \A v \in A : v \in B
  PROVE  A \in SUBSET B
  OBVIOUS

LEMMA Plain ==
  /\ {} \in Readings
  /\ \A t : OfTag(t) \in SUBSET All /\ {OfTag(t)} \in Readings
  BY DEF Readings, OfTag

LEMMA Combined ==
  ASSUME NEW l \in Readings, NEW r \in Readings
  PROVE  /\ Unions(l, r) \in Readings
         /\ Meets(l, r) \in Readings
         /\ Rests(l) \in Readings
  <1>1. \A v \in Unions(l, r) : v \in SUBSET All
    BY DEF Unions, Readings
  <1>2. \A v \in Meets(l, r) : v \in SUBSET All
    BY DEF Meets, Readings
  <1>3. \A v \in Rests(l) : v \in SUBSET All
    BY DEF Rests, Readings
  <1>4. QED
    BY ONLY <1>1, <1>2, <1>3, SubsetOf, Zenon DEF Readings

(* The meaning of a part, case by case.                                    *)
LEMMA MeaningCases ==
  ASSUME NEW toks, NEW a \in Int, NEW b \in Int, NEW m, a <= b
  PROVE  LET at(op) == FirstOf(Outermost(toks, op, a, b))
             has(op) == Outermost(toks, op, a, b) # {}
         IN MeaningOf(m, toks, a, b) =
              IF has("|") THEN Unions(m[<<a, at("|") - 1>>], m[<<at("|") + 1, b>>])
              ELSE IF has("&") THEN Meets(m[<<a, at("&") - 1>>], m[<<at("&") + 1, b>>])
              ELSE IF toks[a] = "!" THEN Rests(m[<<a + 1, b>>])
              ELSE IF a = b /\ toks[a] \in Tags THEN {OfTag(toks[a])}
              ELSE IF toks[a] = "(" /\ toks[b] = ")" THEN m[<<a + 1, b - 1>>] ELSE {}
  <1> DEFINE at(op) == FirstOf(Outermost(toks, op, a, b))
             has(op) == Outermost(toks, op, a, b) # {}
             either == {l \cup r : l \in m[<<a, at("|") - 1>>], r \in m[<<at("|") + 1, b>>]}
             both == {l \cap r : l \in m[<<a, at("&") - 1>>], r \in m[<<at("&") + 1, b>>]}
             not == {All \ s : s \in m[<<a + 1, b>>]}
             tag == {{S \in All : toks[a] \in S}}
  <1>1. MeaningOf(m, toks, a, b) =
          IF a > b THEN {} ELSE
          IF has("|") THEN either ELSE IF has("&") THEN both ELSE IF toks[a] = "!" THEN not
          ELSE IF a = b /\ toks[a] \in Tags THEN tag
          ELSE IF toks[a] = "(" /\ toks[b] = ")" THEN m[<<a + 1, b - 1>>] ELSE {}
    BY DEF MeaningOf
  <1>2. either = Unions(m[<<a, at("|") - 1>>], m[<<at("|") + 1, b>>])
    BY DEF Unions
  <1>3. both = Meets(m[<<a, at("&") - 1>>], m[<<at("&") + 1, b>>])
    BY DEF Meets
  <1>4. not = Rests(m[<<a + 1, b>>])
    BY DEF Rests
  <1>5. tag = {OfTag(toks[a])}
    BY Zenon DEF OfTag
  <1>6. ~(a > b)
    OBVIOUS
  <1> HIDE DEF either, both, not, tag, at, has
  <1>7. MeaningOf(m, toks, a, b) =
          IF has("|") THEN Unions(m[<<a, at("|") - 1>>], m[<<at("|") + 1, b>>])
          ELSE IF has("&") THEN Meets(m[<<a, at("&") - 1>>], m[<<at("&") + 1, b>>])
          ELSE IF toks[a] = "!" THEN Rests(m[<<a + 1, b>>])
          ELSE IF a = b /\ toks[a] \in Tags THEN {OfTag(toks[a])}
          ELSE IF toks[a] = "(" /\ toks[b] = ")" THEN m[<<a + 1, b - 1>>] ELSE {}
    BY <1>1, <1>2, <1>3, <1>4, <1>5, <1>6
  <1>8. QED
    BY <1>7, Zenon DEF at, has

(* What lies inside a part of an expression.                               *)
Parts(toks) == (1..(Len(toks) + 1)) \X (0..Len(toks))
Within(toks, a, b, f, g) ==
  \A c \in a..(Len(toks) + 1), d \in 0..b :
    c > a \/ d < b => f[<<c, d>>] = g[<<c, d>>] /\ f[<<c, d>>] \in Readings

LEMMA MeaningLocal ==
  ASSUME NEW T, NEW toks \in Seq(T), NEW a \in 1..(Len(toks) + 1), NEW b \in 0..Len(toks), NEW f, NEW g,
         Within(toks, a, b, f, g)
  PROVE  /\ MeaningOf(f, toks, a, b) = MeaningOf(g, toks, a, b)
         /\ MeaningOf(f, toks, a, b) \in Readings
  <1> DEFINE at(op) == FirstOf(Outermost(toks, op, a, b))
             Set(v) == v \in Readings
  <1>1. Len(toks) \in Nat
    OBVIOUS
  <1>2. CASE a > b
    BY <1>2, Plain DEF MeaningOf
  <1>3. ASSUME a <= b PROVE /\ f[<<a + 1, b>>] = g[<<a + 1, b>>] /\ Set(f[<<a + 1, b>>])
                            /\ f[<<a + 1, b - 1>>] = g[<<a + 1, b - 1>>] /\ Set(f[<<a + 1, b - 1>>])
    <2>1. a + 1 \in a..(Len(toks) + 1) /\ b - 1 \in 0..b /\ b \in 0..b /\ a + 1 > a
      BY <1>1, <1>3
    <2>2. QED
      BY <2>1 DEF Within
  <1>4. ASSUME NEW op, Outermost(toks, op, a, b) # {}, a <= b
        PROVE  /\ f[<<a, at(op) - 1>>] = g[<<a, at(op) - 1>>] /\ Set(f[<<a, at(op) - 1>>])
               /\ f[<<at(op) + 1, b>>] = g[<<at(op) + 1, b>>] /\ Set(f[<<at(op) + 1, b>>])
    <2>1. Outermost(toks, op, a, b) \in SUBSET (a..b) /\ a \in Nat /\ b \in Int
      BY DEF Outermost
    <2>2. at(op) \in a..b
      BY <2>1, <1>4, FirstOfInterval
    <2>3. /\ a \in a..(Len(toks) + 1) /\ at(op) - 1 \in 0..b /\ at(op) - 1 < b
          /\ at(op) + 1 \in a..(Len(toks) + 1) /\ b \in 0..b /\ at(op) + 1 > a
      BY <1>1, <2>2
    <2>4. QED
      BY <2>3 DEF Within
  <1>5. ASSUME a <= b PROVE MeaningOf(f, toks, a, b) = MeaningOf(g, toks, a, b) /\ Set(MeaningOf(f, toks, a, b))
    <2> DEFINE Cases(m) == IF Outermost(toks, "|", a, b) # {} THEN Unions(m[<<a, at("|") - 1>>], m[<<at("|") + 1, b>>])
                           ELSE IF Outermost(toks, "&", a, b) # {} THEN Meets(m[<<a, at("&") - 1>>], m[<<at("&") + 1, b>>])
                           ELSE IF toks[a] = "!" THEN Rests(m[<<a + 1, b>>])
                           ELSE IF a = b /\ toks[a] \in Tags THEN {OfTag(toks[a])}
                           ELSE IF toks[a] = "(" /\ toks[b] = ")" THEN m[<<a + 1, b - 1>>] ELSE {}
    <2>1. a \in Int /\ b \in Int
      OBVIOUS
    <2>2. MeaningOf(f, toks, a, b) = Cases(f) /\ MeaningOf(g, toks, a, b) = Cases(g)
      BY <1>5, <2>1, MeaningCases
    <2> HIDE DEF at
    <2>a. Cases(f) = Cases(g) /\ Set(Cases(f)) => MeaningOf(f, toks, a, b) = MeaningOf(g, toks, a, b) /\ Set(MeaningOf(f, toks, a, b))
      BY <2>2
    <2> SUFFICES Cases(f) = Cases(g) /\ Set(Cases(f))
      <3> HIDE DEF Cases
      <3>1. QED
        BY <2>a
    <2>3. CASE Outermost(toks, "|", a, b) # {}
      <3> DEFINE l == f[<<a, at("|") - 1>>]  r == f[<<at("|") + 1, b>>]
      <3>1. l = g[<<a, at("|") - 1>>] /\ r = g[<<at("|") + 1, b>>]
            /\ l \in Readings /\ r \in Readings
        BY <2>3, <1>4, <1>5
      <3>2. Cases(f) = Unions(l, r) /\ Cases(g) = Unions(l, r)
        BY <3>1, <2>3
      <3>3. Unions(l, r) \in Readings
        <4> HIDE DEF l, r
        <4>1. QED
          BY <3>1, Combined
      <3>4. QED
        BY <3>2, <3>3
    <2>4. CASE Outermost(toks, "|", a, b) = {} /\ Outermost(toks, "&", a, b) # {}
      <3> DEFINE l == f[<<a, at("&") - 1>>]  r == f[<<at("&") + 1, b>>]
      <3>1. l = g[<<a, at("&") - 1>>] /\ r = g[<<at("&") + 1, b>>]
            /\ l \in Readings /\ r \in Readings
        BY <2>4, <1>4, <1>5
      <3>2. Cases(f) = Meets(l, r) /\ Cases(g) = Meets(l, r)
        BY <3>1, <2>4
      <3>3. Meets(l, r) \in Readings
        <4> HIDE DEF l, r
        <4>1. QED
          BY <3>1, Combined
      <3>4. QED
        BY <3>2, <3>3
    <2>5. CASE Outermost(toks, "|", a, b) = {} /\ Outermost(toks, "&", a, b) = {} /\ toks[a] = "!"
      <3> DEFINE l == f[<<a + 1, b>>]
      <3>1. l = g[<<a + 1, b>>] /\ l \in Readings
        BY <1>3, <1>5
      <3>2. Cases(f) = Rests(l) /\ Cases(g) = Rests(l)
        BY <3>1, <2>5
      <3>3. Rests(l) \in Readings
        <4> HIDE DEF l
        <4>1. QED
          BY <3>1, Combined
      <3>4. QED
        BY <3>2, <3>3
    <2>6. CASE Outermost(toks, "|", a, b) = {} /\ Outermost(toks, "&", a, b) = {} /\ toks[a] # "!"
      <3>1. {} \in Readings /\ {OfTag(toks[a])} \in Readings
        BY Plain
      <3>2. QED
        BY <2>6, <3>1, <1>3, <1>5
    <2>7. QED
      BY <2>3, <2>4, <2>5, <2>6
  <1>6. QED
    BY <1>1, <1>2, <1>5

LEMMA MeaningsAreTable ==
  ASSUME NEW T, NEW toks \in Seq(T)
  PROVE  \A a \in 1..(Len(toks) + 1), b \in 0..Len(toks) :
           /\ Meanings(toks)[<<a, b>>] = MeaningOf(Meanings(toks), toks, a, b)
           /\ Meanings(toks)[<<a, b>>] \in Readings
  <1> DEFINE S == Parts(toks)
             V == [x \in S |-> Readings]
             h == [x \in S |-> Len(toks) + 1 + x[2] - x[1]]
             G == Tables(S, V)
             F == [p \in G \X S |-> MeaningOf(p[1], toks, p[2][1], p[2][2])]
  <1>1. Len(toks) \in Nat /\ \A x \in S : x[1] \in 1..(Len(toks) + 1) /\ x[2] \in 0..Len(toks) /\ x = <<x[1], x[2]>>
    BY DEF Parts
  <1>2. \A f \in G, x \in S : F[<<f, x>>] = MeaningOf(f, toks, x[1], x[2])
    OBVIOUS
  <1>3. \A x \in S : h[x] = Len(toks) + 1 + x[2] - x[1] /\ h[x] \in Nat /\ V[x] = Readings
    BY <1>1
  <1>4. \A a \in 1..(Len(toks) + 1), b \in 0..Len(toks) : <<a, b>> \in S /\ <<a, b>>[1] = a /\ <<a, b>>[2] = b
    BY DEF Parts
  <1> HIDE DEF F, h, V, S
  <1>5. ASSUME NEW f \in G, NEW g, NEW x \in S, \A y \in S : h[y] < h[x] => f[y] = g[y]
        PROVE  Within(toks, x[1], x[2], f, g)
    <2> SUFFICES ASSUME NEW c \in x[1]..(Len(toks) + 1), NEW d \in 0..x[2], c > x[1] \/ d < x[2]
                 PROVE  f[<<c, d>>] = g[<<c, d>>] /\ f[<<c, d>>] \in Readings
      BY DEF Within
    <2> DEFINE y == <<c, d>>
    <2>0. x[1] \in 1..(Len(toks) + 1) /\ x[2] \in 0..Len(toks)
      BY <1>1
    <2>1. c \in 1..(Len(toks) + 1) /\ d \in 0..Len(toks)
      BY <1>1, <2>0
    <2>2. y \in S /\ y[1] = c /\ y[2] = d
      BY <1>4, <2>1
    <2> HIDE DEF y
    <2>3. h[y] = Len(toks) + 1 + d - c /\ h[x] = Len(toks) + 1 + x[2] - x[1]
      BY <2>2, <1>3
    <2>a. h[y] < h[x]
      BY <2>0, <2>1, <2>3, <1>1
    <2>b. f[y] \in V[y]
      BY <2>2 DEF Tables
    <2>4. f[y] = g[y] /\ f[y] \in Readings
      BY <2>2, <2>a, <2>b, <1>3, <1>5
    <2>5. QED
      BY <2>4 DEF y
  <1>6. \A f \in G, x \in S : F[<<f, x>>] \in V[x]
    <2> TAKE f \in G, x \in S
    <2>1. Within(toks, x[1], x[2], f, f)
      BY <1>5
    <2>2. MeaningOf(f, toks, x[1], x[2]) \in Readings
      BY <2>1, <1>1, MeaningLocal
    <2>3. QED
      BY <2>2, <1>2, <1>3
  <1>7. ASSUME NEW f \in G, NEW g \in G, NEW x \in S, \A y \in S : h[y] < h[x] => f[y] = g[y]
        PROVE  F[<<f, x>>] = F[<<g, x>>]
    <2>1. Within(toks, x[1], x[2], f, g)
      BY <1>5, <1>7
    <2>2. MeaningOf(f, toks, x[1], x[2]) = MeaningOf(g, toks, x[1], x[2])
      BY <2>1, <1>1, MeaningLocal
    <2>3. QED
      BY <2>2, <1>2
  <1>9. Lowering(S, V, h, F)
    <2>1. \A x \in S : V[x] # {}
      BY <1>3 DEF Readings
    <2>2. QED
      BY <1>3, <1>6, <1>7, <2>1 DEF Lowering
  <1>10. PICK f \in G : \A x \in S : f[x] = F[<<f, x>>]
    <2> HIDE DEF G
    <2>1. \E f \in Tables(S, V) : \A x \in S : f[x] = F[<<f, x>>]
      BY ONLY <1>9, Recursion
    <2>2. QED
      BY <2>1 DEF G
  <1>11. f = [x \in S |-> MeaningOf(f, toks, x[1], x[2])]
    <2>1. f = [x \in S |-> f[x]]
      BY DEF Tables
    <2>2. \A x \in S : f[x] = MeaningOf(f, toks, x[1], x[2])
      BY <1>2, <1>10
    <2>3. QED
      BY <2>1, <2>2
  <1>12. ASSUME NEW q, q = [x \in S |-> MeaningOf(q, toks, x[1], x[2])] PROVE q = f
    <2> DEFINE B == {x \in S : q[x] # f[x]}
    <2>1. ASSUME B # {} PROVE FALSE
      <3>1. PICK x \in B : \A y \in S : h[y] < h[x] => y \notin B
        <4>1. B \in SUBSET S /\ \A y \in S : h[y] \in Nat
          BY <1>3
        <4> HIDE DEF B
        <4>2. QED
          BY <4>1, <2>1, LowestPlace
      <3>2. x \in S /\ q[x] # f[x] /\ \A y \in S : h[y] < h[x] => f[y] = q[y]
        BY <3>1
      <3>3. Within(toks, x[1], x[2], f, q)
        BY <3>2, <1>5
      <3>4. MeaningOf(f, toks, x[1], x[2]) = MeaningOf(q, toks, x[1], x[2])
        BY <3>2, <3>3, <1>1, MeaningLocal
      <3>5. f[x] = MeaningOf(f, toks, x[1], x[2]) /\ q[x] = MeaningOf(q, toks, x[1], x[2])
        BY <3>2, <1>11, <1>12
      <3>6. QED
        BY <3>2, <3>4, <3>5
    <2>2. \A x \in S : q[x] = f[x]
      BY <2>1
    <2>3. q = [x \in S |-> q[x]] /\ f = [x \in S |-> f[x]]
      BY <1>11, <1>12
    <2>4. QED
      BY <2>2, <2>3
  <1>13. Meanings(toks) = CHOOSE q : q = [x \in S |-> MeaningOf(q, toks, x[1], x[2])]
    BY DEF Meanings, S, Parts
  <1>14. Meanings(toks) = f
    BY <1>11, <1>12, <1>13
  <1>15. \A x \in S : f[x] \in Readings
    BY <1>3 DEF Tables
  <1>16. \A x \in S : f[x] = MeaningOf(f, toks, x[1], x[2])
    BY <1>2, <1>10
  <1>17. QED
    BY <1>4, <1>14, <1>15, <1>16

(* The rules, as what the parser finds at a place.                         *)
Found(toks, rule, p) == Parser(toks)[<<rule, p>>]

LEMMA RulesAre ==
  ASSUME NEW T, NEW toks \in Seq(T), NEW p \in 1..(Len(toks) + 1)
  PROVE  /\ Found(toks, "unary", p) = ParseUnary(Parser(toks), toks, p)
         /\ Found(toks, "and", p) = LET l == Found(toks, "unary", p)  r == Found(toks, "and", l.pos + 1)
                                 IN Join(l, r, Peek(toks, l.pos, "&"), l.sat \cap r.sat)
         /\ Found(toks, "or", p) = LET l == Found(toks, "and", p)  r == Found(toks, "or", l.pos + 1)
                                IN Join(l, r, Peek(toks, l.pos, "|"), l.sat \cup r.sat)
         /\ \A rule \in Rules : Found(toks, rule, p) \in Ahead(toks, p)
  <1>1. \A rule \in Rules : <<rule, p>> \in Places(toks) /\ <<rule, p>>[1] = rule /\ <<rule, p>>[2] = p
    BY DEF Places
  <1>2. "unary" \in Rules /\ "and" \in Rules /\ "or" \in Rules
    BY DEF Rules
  <1>3. \A rule \in Rules : Found(toks, rule, p) = Rule(Parser(toks), toks, <<rule, p>>)
                            /\ Found(toks, rule, p) \in Ahead(toks, p)
    BY <1>1, ParserIsTable DEF Found
  <1>4. Found(toks, "unary", p) = ParseUnary(Parser(toks), toks, p)
    BY <1>2, <1>3 DEF Rule
  <1>5. Found(toks, "and", p) = ParseAnd(Parser(toks), toks, p)
    BY <1>2, <1>3 DEF Rule
  <1>6. Found(toks, "or", p) = ParseOr(Parser(toks), toks, p)
    BY <1>2, <1>3 DEF Rule
  <1>7. ParseAnd(Parser(toks), toks, p) =
          LET l == Found(toks, "unary", p)  r == Found(toks, "and", l.pos + 1)
          IN Join(l, r, Peek(toks, l.pos, "&"), l.sat \cap r.sat)
    BY <1>4 DEF ParseAnd, JoinAnd, Join, Found
  <1>8. ParseOr(Parser(toks), toks, p) =
          LET l == Found(toks, "and", p)  r == Found(toks, "or", l.pos + 1)
          IN Join(l, r, Peek(toks, l.pos, "|"), l.sat \cup r.sat)
    BY <1>5 DEF ParseOr, JoinOr, Join, Found
  <1>9. QED
    BY <1>3, <1>4, <1>5, <1>6, <1>7, <1>8

LEMMA Loops ==
  ASSUME NEW T, NEW toks \in Seq(T), NEW p \in 1..(Len(toks) + 1), NEW q \in Nat, NEW s \in SUBSET All
  PROVE  /\ Found(toks, "unary", p) = Parsed(q, s) /\ ~Peek(toks, q, "&") => Found(toks, "and", p) = Parsed(q, s)
         /\ Found(toks, "and", p) = Parsed(q, s) /\ ~Peek(toks, q, "|") => Found(toks, "or", p) = Parsed(q, s)
  <1>1. Parsed(q, s).pos = q /\ Parsed(q, s).ok
    BY ResultsAre
  <1>2. ASSUME Found(toks, "unary", p) = Parsed(q, s), ~Peek(toks, q, "&") PROVE Found(toks, "and", p) = Parsed(q, s)
    <2> DEFINE l == Found(toks, "unary", p)
    <2>1. Found(toks, "and", p) = Join(l, Found(toks, "and", l.pos + 1), Peek(toks, l.pos, "&"),
                                    l.sat \cap Found(toks, "and", l.pos + 1).sat)
      BY RulesAre, Zenon
    <2>2. l = Parsed(q, s)
      BY <1>2
    <2> HIDE DEF l
    <2>3. Join(l, Found(toks, "and", l.pos + 1), Peek(toks, l.pos, "&"), l.sat \cap Found(toks, "and", l.pos + 1).sat) = l
      BY <1>1, <1>2, <2>2 DEF Join
    <2>4. QED
      BY <2>1, <2>2, <2>3
  <1>3. ASSUME Found(toks, "and", p) = Parsed(q, s), ~Peek(toks, q, "|") PROVE Found(toks, "or", p) = Parsed(q, s)
    <2> DEFINE l == Found(toks, "and", p)
    <2>1. Found(toks, "or", p) = Join(l, Found(toks, "or", l.pos + 1), Peek(toks, l.pos, "|"),
                                    l.sat \cup Found(toks, "or", l.pos + 1).sat)
      BY RulesAre, Zenon
    <2>2. l = Parsed(q, s)
      BY <1>3
    <2> HIDE DEF l
    <2>3. Join(l, Found(toks, "or", l.pos + 1), Peek(toks, l.pos, "|"), l.sat \cup Found(toks, "or", l.pos + 1).sat) = l
      BY <1>1, <1>3, <2>2 DEF Join
    <2>4. QED
      BY <2>1, <2>2, <2>3
  <1>4. QED
    BY <1>2, <1>3

LEMMA AndOn ==
  ASSUME NEW T, NEW toks \in Seq(T), NEW p \in 1..(Len(toks) + 1), NEW k \in 1..Len(toks), NEW q \in Nat,
         NEW l \in SUBSET All, NEW r \in SUBSET All,
         Found(toks, "unary", p) = Parsed(k, l), toks[k] = "&", Found(toks, "and", k + 1) = Parsed(q, r)
  PROVE  Found(toks, "and", p) = Parsed(q, l \cap r)
  <1> DEFINE left == Found(toks, "unary", p)
             right == Found(toks, "and", left.pos + 1)
  <1>1. k \in Nat /\ Peek(toks, k, "&")
    BY DEF Peek
  <1>2. Found(toks, "and", p) = Join(left, right, Peek(toks, left.pos, "&"), left.sat \cap right.sat)
    BY RulesAre, Zenon
  <1>3. left = Parsed(k, l)
    OBVIOUS
  <1>4. left.pos = k /\ left.ok /\ left.sat = l
    BY <1>1, <1>3, ResultsAre
  <1>5. right = Parsed(q, r)
    BY <1>4
  <1>6. right.ok /\ right.pos = q /\ right.sat = r
    BY <1>5, ResultsAre
  <1> HIDE DEF left, right
  <1>7. QED
    BY <1>1, <1>2, <1>4, <1>6 DEF Join

LEMMA OrOn ==
  ASSUME NEW T, NEW toks \in Seq(T), NEW p \in 1..(Len(toks) + 1), NEW k \in 1..Len(toks), NEW q \in Nat,
         NEW l \in SUBSET All, NEW r \in SUBSET All,
         Found(toks, "and", p) = Parsed(k, l), toks[k] = "|", Found(toks, "or", k + 1) = Parsed(q, r)
  PROVE  Found(toks, "or", p) = Parsed(q, l \cup r)
  <1> DEFINE left == Found(toks, "and", p)
             right == Found(toks, "or", left.pos + 1)
  <1>1. k \in Nat /\ Peek(toks, k, "|")
    BY DEF Peek
  <1>2. Found(toks, "or", p) = Join(left, right, Peek(toks, left.pos, "|"), left.sat \cup right.sat)
    BY RulesAre, Zenon
  <1>3. left = Parsed(k, l)
    OBVIOUS
  <1>4. left.pos = k /\ left.ok /\ left.sat = l
    BY <1>1, <1>3, ResultsAre
  <1>5. right = Parsed(q, r)
    BY <1>4
  <1>6. right.ok /\ right.pos = q /\ right.sat = r
    BY <1>5, ResultsAre
  <1> HIDE DEF left, right
  <1>7. QED
    BY <1>1, <1>2, <1>4, <1>6 DEF Join

(* Parentheses.                                                            *)
LEMMA DepthStep ==
  ASSUME NEW T, NEW toks \in Seq(T), NEW i \in 1..Len(toks)
  PROVE  /\ Depth(toks, i) \in Int
         /\ Depth(toks, i + 1) = Depth(toks, i) + (IF toks[i] = "(" THEN 1 ELSE 0) - (IF toks[i] = ")" THEN 1 ELSE 0)
  <1> DEFINE U(t, j) == {k \in 1..(j - 1) : toks[k] = t}
  <1>0. i \in Nat
    OBVIOUS
  <1>1. ASSUME NEW t PROVE /\ Cardinality(U(t, i)) \in Nat
                           /\ Cardinality(U(t, i + 1)) = Cardinality(U(t, i)) + IF toks[i] = t THEN 1 ELSE 0
    <2>1. IsFiniteSet(1..(i - 1))
      BY <1>0, FS_Interval
    <2>2. U(t, i) \subseteq 1..(i - 1)
      OBVIOUS
    <2>3. IsFiniteSet(U(t, i))
      BY <2>1, <2>2, FS_Subset
    <2>4. U(t, i + 1) = IF toks[i] = t THEN U(t, i) \cup {i} ELSE U(t, i)
      BY <1>0
    <2>5. i \notin U(t, i)
      BY <1>0
    <2> HIDE DEF U
    <2>6. Cardinality(U(t, i) \cup {i}) = Cardinality(U(t, i)) + 1
      BY <2>3, <2>5, FS_AddElement
    <2>7. Cardinality(U(t, i)) \in Nat
      BY <2>3, FS_CardinalityType
    <2>8. QED
      BY <2>4, <2>6, <2>7
  <1>2. Depth(toks, i) = Cardinality(U("(", i)) - Cardinality(U(")", i))
        /\ Depth(toks, i + 1) = Cardinality(U("(", i + 1)) - Cardinality(U(")", i + 1))
    BY DEF Depth
  <1> HIDE DEF U
  <1>3. QED
    BY <1>1, <1>2

(* Every part that means something is read to its end as what it means:    *)
(* by the rule for a disjunction when no operator follows, ...             *)
M(toks, a, b) == Meanings(toks)[<<a, b>>]
No(toks, op, a, b) == Outermost(toks, op, a, b) = {}

ReadAs(toks, a, b, s) ==
  /\ ~Peek(toks, b + 1, "|") /\ ~Peek(toks, b + 1, "&") => Found(toks, "or", a) = Parsed(b + 1, s)
  /\ No(toks, "|", a, b) /\ ~Peek(toks, b + 1, "&") => Found(toks, "and", a) = Parsed(b + 1, s)
  /\ No(toks, "|", a, b) /\ No(toks, "&", a, b) => Found(toks, "unary", a) = Parsed(b + 1, s)

Complete(toks, a, b) ==
  M(toks, a, b) # {} => \E s \in SUBSET All : M(toks, a, b) = {s} /\ ReadAs(toks, a, b, s)

FirstAt(toks, op, a, b) == FirstOf(Outermost(toks, op, a, b))

LEMMA MeaningIs ==
  ASSUME NEW T, NEW toks \in Seq(T), NEW a \in 1..(Len(toks) + 1), NEW b \in 0..Len(toks), a <= b
  PROVE  LET at(op) == FirstAt(toks, op, a, b)
         IN M(toks, a, b) =
              IF ~No(toks, "|", a, b) THEN Unions(M(toks, a, at("|") - 1), M(toks, at("|") + 1, b))
              ELSE IF ~No(toks, "&", a, b) THEN Meets(M(toks, a, at("&") - 1), M(toks, at("&") + 1, b))
              ELSE IF toks[a] = "!" THEN Rests(M(toks, a + 1, b))
              ELSE IF a = b /\ toks[a] \in Tags THEN {OfTag(toks[a])}
              ELSE IF toks[a] = "(" /\ toks[b] = ")" THEN M(toks, a + 1, b - 1) ELSE {}
  <1>1. M(toks, a, b) = MeaningOf(Meanings(toks), toks, a, b)
    BY MeaningsAreTable DEF M
  <1>2. a \in Int /\ b \in Int
    OBVIOUS
  <1>3. QED
    BY <1>1, <1>2, MeaningCases DEF M, No, FirstAt

LEMMA NoMeaning ==
  ASSUME NEW T, NEW toks \in Seq(T), NEW a \in 1..(Len(toks) + 1), NEW b \in 0..Len(toks), a > b
  PROVE  M(toks, a, b) = {}
  <1>1. M(toks, a, b) = MeaningOf(Meanings(toks), toks, a, b)
    BY MeaningsAreTable DEF M
  <1>2. QED
    BY <1>1 DEF MeaningOf

LEMMA OneEach ==
  /\ \A l, r : Unions({l}, {r}) = {l \cup r} /\ Meets({l}, {r}) = {l \cap r} /\ Rests({l}) = {All \ l}
  /\ \A L, R : Unions(L, R) # {} => L # {} /\ R # {}
  /\ \A L, R : Meets(L, R) # {} => L # {} /\ R # {}
  /\ \A L : Rests(L) # {} => L # {}
  <1>1. \A l, r : Unions({l}, {r}) = {l \cup r} /\ Meets({l}, {r}) = {l \cap r} /\ Rests({l}) = {All \ l}
    BY DEF Unions, Meets, Rests
  <1>2. \A L, R : Unions(L, R) # {} => L # {} /\ R # {}
    BY DEF Unions
  <1>3. \A L, R : Meets(L, R) # {} => L # {} /\ R # {}
    BY DEF Meets
  <1>4. \A L : Rests(L) # {} => L # {}
    BY DEF Rests
  <1>5. QED
    BY <1>1, <1>2, <1>3, <1>4

(* Past an operator the depth is what it was.                              *)
LEMMA PastOperator ==
  ASSUME NEW T, NEW toks \in Seq(T), NEW a \in 1..Len(toks), NEW b \in 0..Len(toks), NEW k \in a..b,
         toks[k] \in {"!", "&", "|"}, Depth(toks, k) = Depth(toks, a), NEW op, No(toks, op, a, b)
  PROVE  No(toks, op, k + 1, b)
  <1>1. Len(toks) \in Nat /\ k \in 1..Len(toks) /\ k + 1 \in a..(b + 1)
    OBVIOUS
  <1>2. Depth(toks, k + 1) = Depth(toks, a)
    <2>1. toks[k] # "(" /\ toks[k] # ")"
      OBVIOUS
    <2>2. Depth(toks, k) \in Int /\ Depth(toks, k + 1) = Depth(toks, k) + 0 - 0
      BY <1>1, <2>1, DepthStep
    <2>3. QED
      BY <2>2
  <1>3. Outermost(toks, op, k + 1, b) \subseteq Outermost(toks, op, a, b)
    BY <1>1, <1>2 DEF Outermost
  <1>4. QED
    BY <1>3 DEF No

Splits(toks, op, a, b, k) ==
  /\ k \in a..b /\ toks[k] = op /\ Depth(toks, k) = Depth(toks, a)
  /\ No(toks, op, a, k - 1)
  /\ \A other : No(toks, other, a, b) => No(toks, other, a, k - 1)

LEMMA FirstOuter ==
  ASSUME NEW toks, NEW a \in Nat, NEW b \in Int, NEW op, ~No(toks, op, a, b)
  PROVE  Splits(toks, op, a, b, FirstAt(toks, op, a, b))
  <1> DEFINE k == FirstAt(toks, op, a, b)
  <1>1. Outermost(toks, op, a, b) \in SUBSET (a..b)
    BY DEF Outermost
  <1>2. k \in Outermost(toks, op, a, b) /\ \A j \in Outermost(toks, op, a, b) : k <= j
    BY <1>1, FirstOfInterval DEF No, FirstAt
  <1> HIDE DEF k
  <1>3. k \in a..b /\ toks[k] = op /\ Depth(toks, k) = Depth(toks, a)
    BY <1>2 DEF Outermost
  <1>4. \A other : Outermost(toks, other, a, k - 1) \subseteq Outermost(toks, other, a, b)
    BY <1>3 DEF Outermost
  <1>5. \A j \in Outermost(toks, op, a, k - 1) : j < k
    BY <1>3 DEF Outermost
  <1>6. No(toks, op, a, k - 1)
    <2>1. \A j \in Outermost(toks, op, a, k - 1) : j < k /\ k <= j /\ j \in Int /\ k \in Int
      <3>1. \A j \in Outermost(toks, op, a, k - 1) : j \in Int
        BY DEF Outermost
      <3>2. QED
        BY <1>2, <1>3, <1>4, <1>5, <3>1
    <2>2. QED
      BY <2>1 DEF No
  <1>7. QED
    BY <1>3, <1>4, <1>6 DEF No, k, Splits

LEMMA CompleteStep ==
  ASSUME NEW T, NEW toks \in Seq(T), NEW a \in 1..(Len(toks) + 1), NEW b \in 0..Len(toks),
         \A c \in a..(Len(toks) + 1), d \in 0..b : c > a \/ d < b => Complete(toks, c, d)
  PROVE  Complete(toks, a, b)
  <1> SUFFICES ASSUME M(toks, a, b) # {}
               PROVE  \E s \in SUBSET All : M(toks, a, b) = {s} /\ ReadAs(toks, a, b, s)
    BY DEF Complete
  <1>1. Len(toks) \in Nat /\ a <= b /\ a \in 1..Len(toks) /\ a \in Nat /\ b \in Int /\ b \in Nat /\ b + 1 \in Nat
    BY NoMeaning
  <1>2. ASSUME NEW c \in a..(Len(toks) + 1), NEW d \in 0..b, c > a \/ d < b, M(toks, c, d) # {}
        PROVE  \E s \in SUBSET All : M(toks, c, d) = {s} /\ ReadAs(toks, c, d, s)
    BY <1>2 DEF Complete
  <1> DEFINE at(op) == FirstAt(toks, op, a, b)
  <1>m. M(toks, a, b) =
          IF ~No(toks, "|", a, b) THEN Unions(M(toks, a, at("|") - 1), M(toks, at("|") + 1, b))
          ELSE IF ~No(toks, "&", a, b) THEN Meets(M(toks, a, at("&") - 1), M(toks, at("&") + 1, b))
          ELSE IF toks[a] = "!" THEN Rests(M(toks, a + 1, b))
          ELSE IF a = b /\ toks[a] \in Tags THEN {OfTag(toks[a])}
          ELSE IF toks[a] = "(" /\ toks[b] = ")" THEN M(toks, a + 1, b - 1) ELSE {}
    BY <1>1, MeaningIs, Zenon
  <1>3. CASE ~No(toks, "|", a, b)
    <2> DEFINE k == at("|")
    <2>0. Splits(toks, "|", a, b, k)
      BY <1>1, <1>3, FirstOuter
    <2>1. k \in a..b /\ toks[k] = "|" /\ No(toks, "|", a, k - 1)
      BY <2>0 DEF Splits
    <2>2. M(toks, a, b) = Unions(M(toks, a, k - 1), M(toks, k + 1, b))
      BY <1>3, <1>m, Zenon
    <2> HIDE DEF k
    <2>3. k \in 1..Len(toks) /\ k \in Nat /\ k - 1 \in 0..b /\ k - 1 < b /\ (k - 1) + 1 = k
          /\ k + 1 \in a..(Len(toks) + 1) /\ k + 1 > a /\ a \in a..(Len(toks) + 1) /\ b \in 0..b
      BY <1>1, <2>1
    <2>4. PICK l \in SUBSET All : M(toks, a, k - 1) = {l} /\ ReadAs(toks, a, k - 1, l)
      BY <1>2, <2>2, <2>3, OneEach
    <2>5. PICK r \in SUBSET All : M(toks, k + 1, b) = {r} /\ ReadAs(toks, k + 1, b, r)
      BY <1>2, <2>2, <2>3, OneEach
    <2>6. M(toks, a, b) = {l \cup r} /\ l \cup r \in SUBSET All
      BY <2>2, <2>4, <2>5, OneEach
    <2>7. ~Peek(toks, k, "&")
      BY <2>1 DEF Peek
    <2>8. Found(toks, "and", a) = Parsed(k, l)
      BY <2>1, <2>3, <2>4, <2>7 DEF ReadAs
    <2>9. ASSUME ~Peek(toks, b + 1, "|"), ~Peek(toks, b + 1, "&")
          PROVE  Found(toks, "or", a) = Parsed(b + 1, l \cup r)
      <3>1. Found(toks, "or", k + 1) = Parsed(b + 1, r)
        BY <2>5, <2>9 DEF ReadAs
      <3>2. QED
        BY <1>1, <2>1, <2>3, <2>4, <2>5, <2>8, <3>1, OrOn
    <2>10. ReadAs(toks, a, b, l \cup r)
      BY <1>3, <2>9 DEF ReadAs
    <2>11. QED
      BY <2>6, <2>10
  <1>4. CASE No(toks, "|", a, b) /\ ~No(toks, "&", a, b)
    <2> DEFINE k == at("&")
    <2>0. Splits(toks, "&", a, b, k)
      BY <1>1, <1>4, FirstOuter
    <2>1. k \in a..b /\ toks[k] = "&" /\ Depth(toks, k) = Depth(toks, a) /\ No(toks, "&", a, k - 1)
          /\ No(toks, "|", a, k - 1)
      BY <2>0, <1>4 DEF Splits
    <2>2. M(toks, a, b) = Meets(M(toks, a, k - 1), M(toks, k + 1, b))
      BY <1>4, <1>m, Zenon
    <2> HIDE DEF k
    <2>3. k \in 1..Len(toks) /\ k \in Nat /\ k - 1 \in 0..b /\ k - 1 < b /\ (k - 1) + 1 = k
          /\ k + 1 \in a..(Len(toks) + 1) /\ k + 1 > a /\ a \in a..(Len(toks) + 1) /\ b \in 0..b
      BY <1>1, <2>1
    <2>4. PICK l \in SUBSET All : M(toks, a, k - 1) = {l} /\ ReadAs(toks, a, k - 1, l)
      BY <1>2, <2>2, <2>3, OneEach
    <2>5. PICK r \in SUBSET All : M(toks, k + 1, b) = {r} /\ ReadAs(toks, k + 1, b, r)
      BY <1>2, <2>2, <2>3, OneEach
    <2>6. M(toks, a, b) = {l \cap r} /\ l \cap r \in SUBSET All
      BY <2>2, <2>4, <2>5, OneEach
    <2>7. Found(toks, "unary", a) = Parsed(k, l)
      BY <2>1, <2>3, <2>4 DEF ReadAs
    <2>8. No(toks, "|", k + 1, b)
      BY <1>1, <1>4, <2>1, PastOperator
    <2>9. ASSUME ~Peek(toks, b + 1, "&")
          PROVE  Found(toks, "and", a) = Parsed(b + 1, l \cap r)
      <3>1. Found(toks, "and", k + 1) = Parsed(b + 1, r)
        BY <2>5, <2>8, <2>9 DEF ReadAs
      <3>2. QED
        BY <1>1, <2>1, <2>3, <2>4, <2>5, <2>7, <3>1, AndOn
    <2>10. ReadAs(toks, a, b, l \cap r)
      <3>1. ~Peek(toks, b + 1, "|") /\ ~Peek(toks, b + 1, "&") => Found(toks, "or", a) = Parsed(b + 1, l \cap r)
        BY <1>1, <2>6, <2>9, Loops
      <3>2. QED
        BY <3>1, <1>4, <2>9 DEF ReadAs
    <2>11. QED
      BY <2>6, <2>10
  <1>5. ASSUME No(toks, "|", a, b), No(toks, "&", a, b), NEW s \in SUBSET All, M(toks, a, b) = {s},
               Found(toks, "unary", a) = Parsed(b + 1, s)
        PROVE  \E v \in SUBSET All : M(toks, a, b) = {v} /\ ReadAs(toks, a, b, v)
    <2>1. ReadAs(toks, a, b, s)
      <3>1. ~Peek(toks, b + 1, "&") => Found(toks, "and", a) = Parsed(b + 1, s)
        BY <1>1, <1>5, Loops
      <3>2. ~Peek(toks, b + 1, "|") /\ ~Peek(toks, b + 1, "&") => Found(toks, "or", a) = Parsed(b + 1, s)
        BY <1>1, <3>1, Loops
      <3>3. QED
        BY <1>5, <3>1, <3>2 DEF ReadAs
    <2>2. QED
      BY <2>1, <1>5
  <1>u. Found(toks, "unary", a) = ParseUnary(Parser(toks), toks, a)
    BY RulesAre
  <1>6. CASE No(toks, "|", a, b) /\ No(toks, "&", a, b) /\ toks[a] = "!"
    <2>1. M(toks, a, b) = Rests(M(toks, a + 1, b))
      BY <1>6, <1>m
    <2>2. a + 1 \in a..(Len(toks) + 1) /\ a + 1 > a /\ b \in 0..b
      BY <1>1
    <2>3. PICK m \in SUBSET All : M(toks, a + 1, b) = {m} /\ ReadAs(toks, a + 1, b, m)
      BY <1>2, <2>1, <2>2, OneEach
    <2>4. M(toks, a, b) = {All \ m} /\ All \ m \in SUBSET All
      BY <2>1, <2>3, OneEach
    <2>5. No(toks, "|", a + 1, b) /\ No(toks, "&", a + 1, b)
      BY <1>1, <1>6, PastOperator
    <2>6. Found(toks, "unary", a + 1) = Parsed(b + 1, m)
      BY <2>3, <2>5 DEF ReadAs
    <2>7. Peek(toks, a, "!")
      BY <1>1, <1>6 DEF Peek
    <2>8. Parsed(b + 1, m).ok /\ Parsed(b + 1, m).pos = b + 1 /\ Parsed(b + 1, m).sat = m
      BY <1>1, ResultsAre
    <2>9. Found(toks, "unary", a) = Parsed(b + 1, All \ m)
      BY <1>u, <2>6, <2>7, <2>8 DEF ParseUnary, Found
    <2>10. QED
      BY <1>5, <1>6, <2>4, <2>9
  <1>7. CASE No(toks, "|", a, b) /\ No(toks, "&", a, b) /\ a = b /\ toks[a] \in Tags
    <2>1. toks[a] # "!"
      BY <1>7, TagsAssumption DEF Operators
    <2>2. M(toks, a, b) = {OfTag(toks[a])} /\ OfTag(toks[a]) \in SUBSET All
      BY <1>1, <1>7, <2>1, <1>m DEF OfTag
    <2>3. Found(toks, "unary", a) = Parsed(b + 1, OfTag(toks[a]))
      BY <1>1, <1>7, <1>u, <2>1 DEF ParseUnary, ParseAtom, Peek, OfTag
    <2>4. QED
      BY <1>5, <1>7, <2>2, <2>3
  <1>8. CASE No(toks, "|", a, b) /\ No(toks, "&", a, b) /\ toks[a] = "(" /\ toks[b] = ")"
    <2>1. toks[a] # "!" /\ toks[a] \notin Tags /\ a # b
      BY <1>8, TagsAssumption DEF Operators
    <2>2. M(toks, a, b) = M(toks, a + 1, b - 1)
      BY <1>1, <1>8, <2>1, <1>m
    <2>3. a + 1 \in a..(Len(toks) + 1) /\ a + 1 > a /\ b - 1 \in 0..b /\ (b - 1) + 1 = b /\ b \in Nat /\ b <= Len(toks)
      BY <1>1
    <2>4. PICK s \in SUBSET All : M(toks, a + 1, b - 1) = {s} /\ ReadAs(toks, a + 1, b - 1, s)
      BY <1>2, <2>2, <2>3
    <2>5. ~Peek(toks, b, "|") /\ ~Peek(toks, b, "&") /\ Peek(toks, b, ")") /\ Peek(toks, a, "(") /\ ~Peek(toks, a, "!")
      BY <1>1, <1>8, <2>1, <2>3 DEF Peek
    <2>6. Found(toks, "or", a + 1) = Parsed(b, s)
      BY <2>3, <2>4, <2>5 DEF ReadAs
    <2>7. Parsed(b, s).ok /\ Parsed(b, s).pos = b /\ Parsed(b, s).sat = s
      BY <2>3, ResultsAre
    <2>8. Found(toks, "unary", a) = Parsed(b + 1, s)
      BY <1>u, <2>1, <2>5, <2>6, <2>7 DEF ParseUnary, ParseAtom, Found
    <2>9. QED
      BY <1>5, <1>8, <2>2, <2>4, <2>8
  <1>9. No(toks, "|", a, b) /\ No(toks, "&", a, b) =>
          toks[a] = "!" \/ (a = b /\ toks[a] \in Tags) \/ (toks[a] = "(" /\ toks[b] = ")")
    BY <1>m
  <1>10. QED
    BY <1>3, <1>4, <1>6, <1>7, <1>8, <1>9

LEMMA CompleteAll ==
  ASSUME NEW T, NEW toks \in Seq(T)
  PROVE  \A a \in 1..(Len(toks) + 1), b \in 0..Len(toks) : Complete(toks, a, b)
  <1> DEFINE S == Parts(toks)
             h == [x \in S |-> Len(toks) + 1 + x[2] - x[1]]
             B == {x \in S : ~Complete(toks, x[1], x[2])}
  <1>1. Len(toks) \in Nat /\ \A x \in S : x[1] \in 1..(Len(toks) + 1) /\ x[2] \in 0..Len(toks)
    BY DEF Parts
  <1>2. \A x \in S : h[x] = Len(toks) + 1 + x[2] - x[1] /\ h[x] \in Nat
    BY <1>1
  <1>3. \A a \in 1..(Len(toks) + 1), b \in 0..Len(toks) : <<a, b>> \in S /\ <<a, b>>[1] = a /\ <<a, b>>[2] = b
    BY DEF Parts
  <1> HIDE DEF h, S
  <1>4. ASSUME B # {} PROVE FALSE
    <2>1. PICK x \in B : \A y \in S : h[y] < h[x] => y \notin B
      <3>1. B \in SUBSET S /\ \A y \in S : h[y] \in Nat
        BY <1>2
      <3> HIDE DEF B
      <3>2. QED
        BY <3>1, <1>4, LowestPlace
    <2>2. x \in S /\ x[1] \in 1..(Len(toks) + 1) /\ x[2] \in 0..Len(toks) /\ ~Complete(toks, x[1], x[2])
      BY <2>1, <1>1
    <2>3. ASSUME NEW c \in x[1]..(Len(toks) + 1), NEW d \in 0..x[2], c > x[1] \/ d < x[2]
          PROVE  Complete(toks, c, d)
      <3>1. c \in 1..(Len(toks) + 1) /\ d \in 0..Len(toks)
        BY <1>1, <2>2
      <3> DEFINE y == <<c, d>>
      <3>2. y \in S /\ y[1] = c /\ y[2] = d
        BY <1>3, <3>1
      <3> HIDE DEF y
      <3>3. h[y] = Len(toks) + 1 + d - c /\ h[x] = Len(toks) + 1 + x[2] - x[1]
        BY <3>2, <2>2, <1>2
      <3>4. h[y] < h[x]
        BY <3>1, <3>3, <2>2, <2>3, <1>1
      <3>5. QED
        BY <3>2, <3>4, <2>1
    <2>4. QED
      BY <2>2, <2>3, CompleteStep
  <1>5. QED
    <2> TAKE a \in 1..(Len(toks) + 1), b \in 0..Len(toks)
    <2>1. <<a, b>> \notin B
      BY <1>4
    <2>2. QED
      BY <2>1, <1>3

LEMMA DepthInt ==
  ASSUME NEW toks, NEW i \in Nat
  PROVE  Depth(toks, i) \in Int
  <1> DEFINE U(t) == {k \in 1..(i - 1) : toks[k] = t}
  <1>1. ASSUME NEW t PROVE Cardinality(U(t)) \in Nat
    <2>1. IsFiniteSet(1..(i - 1))
      BY FS_Interval
    <2>2. U(t) \subseteq 1..(i - 1)
      OBVIOUS
    <2>3. IsFiniteSet(U(t))
      BY <2>1, <2>2, FS_Subset
    <2> HIDE DEF U
    <2>4. QED
      BY <2>3, FS_CardinalityType
  <1>2. Depth(toks, i) = Cardinality(U("(")) - Cardinality(U(")"))
    BY DEF Depth
  <1> HIDE DEF U
  <1>3. QED
    BY <1>1, <1>2

(* What a rule has read at p up to q means what it says, and what follows  *)
(* is as deep; of what it has read nothing is less deep, and an "and" has  *)
(* no outermost "|", a "unary" neither that nor an outermost "&".          *)
Means(toks, p, q, s) ==
  /\ M(toks, p, q - 1) = {s}
  /\ Depth(toks, q) = Depth(toks, p)
  /\ \A i \in p..q : Depth(toks, i) >= Depth(toks, p)

Sound(toks, rule, p) ==
  LET r == Found(toks, rule, p)
  IN r.ok => /\ Means(toks, p, r.pos, r.sat)
             /\ rule # "or" => No(toks, "|", p, r.pos - 1)
             /\ rule = "unary" => No(toks, "&", p, r.pos - 1)

(* Past a token that is no parenthesis.                                    *)
LEMMA Level ==
  ASSUME NEW T, NEW toks \in Seq(T), NEW p \in 1..Len(toks), toks[p] \notin {"(", ")"}
  PROVE  Depth(toks, p + 1) = Depth(toks, p) /\ Depth(toks, p) \in Int
  <1>1. Depth(toks, p) \in Int /\ Depth(toks, p + 1) = Depth(toks, p) + 0 - 0
    BY DepthStep
  <1>2. QED
    BY <1>1

(* A token that is read before a part of the same depth.                   *)
LEMMA Before ==
  ASSUME NEW T, NEW toks \in Seq(T), NEW p \in 1..Len(toks), NEW q \in (p + 2)..(Len(toks) + 1),
         toks[p] \notin {"(", ")"}, NEW s, Means(toks, p + 1, q, s), NEW op
  PROVE  /\ Depth(toks, q) = Depth(toks, p)
         /\ \A i \in p..q : Depth(toks, i) >= Depth(toks, p)
         /\ toks[p] # op /\ No(toks, op, p + 1, q - 1) => No(toks, op, p, q - 1)
  <1>1. Depth(toks, p + 1) = Depth(toks, p) /\ Depth(toks, p) \in Int
    BY Level
  <1>2. Depth(toks, q) = Depth(toks, p)
    BY <1>1 DEF Means
  <1>3. ASSUME NEW i \in p..q PROVE Depth(toks, i) >= Depth(toks, p)
    <2>1. i = p \/ i \in (p + 1)..q
      OBVIOUS
    <2>2. CASE i = p
      BY <2>2, <1>1
    <2>3. CASE i \in (p + 1)..q
      BY <2>3, <1>1 DEF Means
    <2>4. QED
      BY <2>1, <2>2, <2>3
  <1>4. ASSUME toks[p] # op, No(toks, op, p + 1, q - 1) PROVE No(toks, op, p, q - 1)
    <2>1. \A i \in p..(q - 1) : i = p \/ i \in (p + 1)..(q - 1)
      OBVIOUS
    <2>2. Outermost(toks, op, p, q - 1) \subseteq Outermost(toks, op, p + 1, q - 1)
      BY <2>1, <1>1, <1>4 DEF Outermost
    <2>3. QED
      BY <2>2, <1>4 DEF No
  <1>5. QED
    BY <1>2, <1>3, <1>4

LEMMA UnarySound ==
  ASSUME NEW T, NEW toks \in Seq(T), NEW p \in 1..(Len(toks) + 1),
         \A rule \in Rules, c \in (p + 1)..(Len(toks) + 1) : Sound(toks, rule, c)
  PROVE  Sound(toks, "unary", p)
  <1> DEFINE r == Found(toks, "unary", p)
  <1> SUFFICES ASSUME r.ok
               PROVE  Means(toks, p, r.pos, r.sat) /\ No(toks, "|", p, r.pos - 1) /\ No(toks, "&", p, r.pos - 1)
    BY DEF Sound
  <1>a. r = ParseUnary(Parser(toks), toks, p)
    BY RulesAre, Zenon
  <1>1. r = ParseUnary(Parser(toks), toks, p) /\ Len(toks) \in Nat /\ p \in Nat
    BY <1>a
  <1>2. p \in 1..Len(toks)
    <2>1. CASE p = Len(toks) + 1
      <3>1. ~(p <= Len(toks))
        BY <1>1, <2>1
      <3>2. r = SyntaxError
        BY <1>1, <3>1 DEF ParseUnary, ParseAtom, Peek
      <3>3. QED
        BY <3>2, ResultsAre
    <2>2. QED
      BY <1>1, <2>1
  <1>3. p + 1 \in (p + 1)..(Len(toks) + 1) /\ p + 1 \in 1..(Len(toks) + 1) /\ "unary" \in Rules /\ "or" \in Rules
    BY <1>1, <1>2 DEF Rules
  <1>4. CASE toks[p] = "!"
    <2> DEFINE inner == Found(toks, "unary", p + 1)
    <2>1. r = IF inner.ok THEN Parsed(inner.pos, All \ inner.sat) ELSE SyntaxError
      BY <1>1, <1>2, <1>4 DEF ParseUnary, Peek, Found
    <2>2. inner.ok
      BY <2>1, ResultsAre
    <2>3. inner \in Ahead(toks, p + 1) /\ Sound(toks, "unary", p + 1)
      BY <1>3, RulesAre
    <2> DEFINE q == inner.pos
    <2>4. q \in (p + 2)..(Len(toks) + 1) /\ inner.sat \in SUBSET All
      BY <1>1, <2>2, <2>3 DEF Ahead, Results
    <2>5. Means(toks, p + 1, q, inner.sat) /\ No(toks, "|", p + 1, q - 1) /\ No(toks, "&", p + 1, q - 1)
      BY <2>2, <2>3 DEF Sound
    <2> HIDE DEF inner, q
    <2>6. toks[p] \notin {"(", ")"} /\ toks[p] # "|" /\ toks[p] # "&"
      BY <1>4
    <2>7. /\ Depth(toks, q) = Depth(toks, p) /\ \A i \in p..q : Depth(toks, i) >= Depth(toks, p)
          /\ No(toks, "|", p, q - 1) /\ No(toks, "&", p, q - 1)
      BY <1>2, <2>4, <2>5, <2>6, Before
    <2>8. q - 1 \in 0..Len(toks) /\ p <= q - 1
      BY <1>1, <2>4
    <2>9. M(toks, p, q - 1) = Rests(M(toks, p + 1, q - 1))
      BY <1>4, <2>7, <2>8, MeaningIs
    <2>10. M(toks, p, q - 1) = {All \ inner.sat}
      BY <2>5, <2>9, OneEach DEF Means
    <2>11. r.pos = q /\ r.sat = All \ inner.sat
      <3>1. q \in Nat /\ r = Parsed(q, All \ inner.sat)
        BY <2>1, <2>2, <2>4, <1>1 DEF q
      <3>2. QED
        BY <3>1, ResultsAre
    <2>12. QED
      BY <2>7, <2>10, <2>11 DEF Means
  <1>5. CASE toks[p] # "!" /\ toks[p] \in Tags
    <2>1. r = Parsed(p + 1, OfTag(toks[p]))
      BY <1>1, <1>2, <1>5 DEF ParseUnary, ParseAtom, Peek, OfTag
    <2>2. r.pos = p + 1 /\ r.sat = OfTag(toks[p])
      <3>1. p + 1 \in Nat
        BY <1>1
      <3>2. OfTag(toks[p]) \in SUBSET All
        BY Plain
      <3> HIDE DEF r
      <3>3. QED
        BY ONLY <2>1, <3>1, <3>2, ResultsAre
    <2>3. toks[p] \notin {"(", ")", "|", "&"}
      BY <1>5, TagsAssumption DEF Operators
    <2>4. Depth(toks, p + 1) = Depth(toks, p) /\ Depth(toks, p) \in Int
      BY <1>2, <2>3, Level
    <2>5. No(toks, "|", p, p) /\ No(toks, "&", p, p)
      BY <2>3, <1>1 DEF No, Outermost
    <2>6. p \in 0..Len(toks) /\ p <= p /\ (p + 1) - 1 = p
      BY <1>1, <1>2
    <2>7. M(toks, p, p) = {OfTag(toks[p])}
      BY <1>5, <2>5, <2>6, MeaningIs
    <2>8. \A i \in p..(p + 1) : Depth(toks, i) >= Depth(toks, p)
      <3>1. \A i \in p..(p + 1) : i = p \/ i = p + 1
        BY <1>1
      <3>2. QED
        BY <3>1, <2>4
    <2>9. QED
      BY <2>2, <2>4, <2>5, <2>6, <2>7, <2>8 DEF Means
  <1>6. CASE toks[p] # "!" /\ toks[p] \notin Tags
    <2> DEFINE inner == Found(toks, "or", p + 1)
    <2>1. r = IF ~Peek(toks, p, "(") THEN SyntaxError
              ELSE IF inner.ok /\ Peek(toks, inner.pos, ")") THEN Parsed(inner.pos + 1, inner.sat) ELSE SyntaxError
      BY <1>1, <1>2, <1>6 DEF ParseUnary, ParseAtom, Peek, Found
    <2>2. Peek(toks, p, "(") /\ inner.ok /\ Peek(toks, inner.pos, ")")
      BY <2>1, ResultsAre
    <2>3. inner \in Ahead(toks, p + 1) /\ Sound(toks, "or", p + 1)
      BY <1>3, RulesAre
    <2> DEFINE q == inner.pos
    <2>4. q \in (p + 2)..Len(toks) /\ inner.sat \in SUBSET All /\ toks[q] = ")" /\ toks[p] = "("
      BY <1>1, <2>2, <2>3 DEF Ahead, Results, Peek
    <2>5. Means(toks, p + 1, q, inner.sat)
      BY <2>2, <2>3 DEF Sound
    <2>a. r = Parsed(q + 1, inner.sat)
      BY <2>1, <2>2
    <2> HIDE DEF inner, q
    <2>6. q \in 1..Len(toks) /\ q \in Nat /\ q + 1 \in Nat
      BY <1>1, <2>4
    <2>7. Depth(toks, p) \in Int /\ Depth(toks, p + 1) = Depth(toks, p) + 1
      <3>1. Depth(toks, p) \in Int /\ Depth(toks, p + 1) = Depth(toks, p) + 1 - 0
        BY <1>2, <2>4, DepthStep
      <3>2. QED
        BY <3>1
    <2>8. Depth(toks, q) = Depth(toks, p) + 1 /\ Depth(toks, q + 1) = Depth(toks, p)
      <3>1. Depth(toks, q + 1) = Depth(toks, q) + 0 - 1
        BY <2>4, <2>6, DepthStep
      <3>2. Depth(toks, q) = Depth(toks, p) + 1
        BY <2>5, <2>7 DEF Means
      <3>3. QED
        BY <3>1, <3>2, <2>7
    <2>9. ASSUME NEW i \in (p + 1)..q PROVE Depth(toks, i) \in Int /\ Depth(toks, i) >= Depth(toks, p) + 1
      <3>1. i \in Nat
        BY <1>1
      <3>2. QED
        BY <3>1, <2>5, <2>7, DepthInt DEF Means
    <2>10. \A i \in p..(q + 1) : i = p \/ i \in (p + 1)..q \/ i = q + 1
      BY <1>1, <2>6
    <2>11. \A i \in p..(q + 1) : Depth(toks, i) >= Depth(toks, p)
      BY <2>7, <2>8, <2>9, <2>10
    <2>12. ASSUME NEW op, op # "(" PROVE No(toks, op, p, q)
      <3>1. \A i \in p..q : i = p \/ i \in (p + 1)..q
        BY <1>1, <2>6
      <3>2. \A i \in (p + 1)..q : Depth(toks, i) # Depth(toks, p)
        BY <2>7, <2>9
      <3>3. QED
        BY <3>1, <3>2, <2>4, <2>12 DEF No, Outermost
    <2>13. No(toks, "|", p, q) /\ No(toks, "&", p, q)
      BY <2>12
    <2>14. q \in 0..Len(toks) /\ p <= q /\ p # q /\ (q + 1) - 1 = q
      BY <1>1, <2>4
    <2>15. M(toks, p, q) = M(toks, p + 1, q - 1)
      BY <1>6, <2>4, <2>13, <2>14, MeaningIs
    <2>16. r.pos = q + 1 /\ r.sat = inner.sat
      BY <2>a, <2>4, <2>6, ResultsAre
    <2>17. QED
      BY <2>5, <2>8, <2>11, <2>13, <2>14, <2>15, <2>16 DEF Means
  <1>7. QED
    BY <1>4, <1>5, <1>6

(* Two parts and the operator between them.                                *)
LEMMA Between ==
  ASSUME NEW T, NEW toks \in Seq(T), NEW p \in 1..Len(toks), NEW k \in (p + 1)..Len(toks),
         NEW q \in (k + 2)..(Len(toks) + 1), toks[k] \in {"&", "|"},
         NEW l, Means(toks, p, k, l), NEW r, Means(toks, k + 1, q, r)
  PROVE  /\ Depth(toks, q) = Depth(toks, p)
         /\ \A i \in p..q : Depth(toks, i) >= Depth(toks, p)
         /\ \A op : No(toks, op, p, k - 1) =>
              IF op = toks[k] THEN ~No(toks, op, p, q - 1) /\ FirstAt(toks, op, p, q - 1) = k
              ELSE No(toks, op, k + 1, q - 1) => No(toks, op, p, q - 1)
  <1>1. k \in 1..Len(toks) /\ toks[k] \notin {"(", ")"} /\ Len(toks) \in Nat /\ p \in Nat /\ k \in Nat /\ q \in Nat
    OBVIOUS
  <1>2. Depth(toks, k + 1) = Depth(toks, k) /\ Depth(toks, k) \in Int /\ Depth(toks, k) = Depth(toks, p)
    BY <1>1, Level DEF Means
  <1>3. Depth(toks, q) = Depth(toks, p)
    BY <1>2 DEF Means
  <1>4. \A i \in p..q : i \in p..k \/ i \in (k + 1)..q
    BY <1>1
  <1>5. \A i \in p..q : Depth(toks, i) >= Depth(toks, p)
    BY <1>2, <1>4 DEF Means
  <1>6. ASSUME NEW op, No(toks, op, p, k - 1), op = toks[k]
        PROVE  ~No(toks, op, p, q - 1) /\ FirstAt(toks, op, p, q - 1) = k
    <2> DEFINE O == Outermost(toks, op, p, q - 1)
    <2>1. k \in p..(q - 1)
      BY <1>1
    <2>2. k \in O
      BY <2>1, <1>2, <1>6 DEF Outermost
    <2>3. O \in SUBSET (p..(q - 1)) /\ q - 1 \in Int
      BY <1>1 DEF Outermost
    <2>4. ASSUME NEW j \in O PROVE j >= k
      <3>1. j \in p..(q - 1) /\ toks[j] = op /\ Depth(toks, j) = Depth(toks, p)
        BY DEF Outermost
      <3>2. j \notin p..(k - 1)
        BY <3>1, <1>6 DEF No, Outermost
      <3>3. QED
        BY <1>1, <3>1, <3>2
    <2> HIDE DEF O
    <2>5. FirstOf(O) \in O /\ \A j \in O : FirstOf(O) <= j
      <3>1. O # {}
        BY <2>2
      <3>2. QED
        BY <1>1, <3>1, <2>3, FirstOfInterval, Zenon
    <2>6. FirstOf(O) <= k /\ FirstOf(O) >= k
      BY <2>2, <2>4, <2>5
    <2>a. FirstOf(O) \in p..(q - 1)
      BY <2>3, <2>5
    <2>7. FirstOf(O) = k
      BY <1>1, <2>6, <2>a
    <2>8. QED
      BY <2>2, <2>7 DEF O, No, FirstAt
  <1>7. ASSUME NEW op, No(toks, op, p, k - 1), op # toks[k], No(toks, op, k + 1, q - 1)
        PROVE  No(toks, op, p, q - 1)
    <2>1. \A i \in p..(q - 1) : i \in p..(k - 1) \/ i = k \/ i \in (k + 1)..(q - 1)
      BY <1>1
    <2>2. \A i \in Outermost(toks, op, p, q - 1) :
             i \in Outermost(toks, op, p, k - 1) \/ i \in Outermost(toks, op, k + 1, q - 1)
      BY <2>1, <1>2, <1>7 DEF Outermost
    <2>3. QED
      BY <2>2, <1>7 DEF No
  <1>8. QED
    BY <1>3, <1>5, <1>6, <1>7

(* What a loop comes to: its first part, or that and the rest.            *)
Outcome(toks, p, op, left, right, sat, r) ==
  \/ left.ok /\ r = left
  \/ /\ left.ok /\ right.ok /\ r.pos = right.pos /\ Peek(toks, left.pos, op)
     /\ r = Parsed(right.pos, sat)
     /\ left.pos \in (p + 1)..Len(toks) /\ toks[left.pos] = op
     /\ right.pos \in (left.pos + 2)..(Len(toks) + 1) /\ p \in 1..Len(toks)
     /\ left.sat \in SUBSET All /\ right.sat \in SUBSET All

LEMMA LoopSound ==
  ASSUME NEW T, NEW toks \in Seq(T), NEW p \in 1..(Len(toks) + 1),
         NEW left \in Ahead(toks, p), NEW right, NEW op \in {"|", "&"},
         left.ok /\ Peek(toks, left.pos, op) => right \in Ahead(toks, left.pos + 1),
         NEW sat, NEW r, r = Join(left, right, Peek(toks, left.pos, op), sat), r.ok
  PROVE  Outcome(toks, p, op, left, right, sat, r)
  <1>1. Len(toks) \in Nat /\ p \in Nat /\ left.pos \in Nat /\ left.sat \in SUBSET All
    BY DEF Ahead, Results
  <1>2. CASE ~left.ok \/ ~Peek(toks, left.pos, op)
    BY <1>2 DEF Join, Outcome
  <1>3. CASE left.ok /\ Peek(toks, left.pos, op)
    <2>1. r = IF right.ok THEN Parsed(right.pos, sat) ELSE SyntaxError
      BY <1>3 DEF Join
    <2>2. right.ok
      BY <2>1, ResultsAre
    <2>3. right \in Ahead(toks, left.pos + 1)
      BY <1>3
    <2>4. right.pos \in Nat /\ right.sat \in SUBSET All /\ left.pos + 1 < right.pos /\ right.pos <= Len(toks) + 1
      BY <2>2, <2>3 DEF Ahead, Results
    <2>5. p < left.pos /\ left.pos <= Len(toks) /\ toks[left.pos] = op
      BY <1>3 DEF Ahead, Peek
    <2>6. left.pos \in (p + 1)..Len(toks) /\ right.pos \in (left.pos + 2)..(Len(toks) + 1) /\ p \in 1..Len(toks)
      BY <1>1, <2>4, <2>5
    <2>7. r = Parsed(right.pos, sat) /\ r.pos = right.pos
      BY <2>1, <2>2 DEF Parsed
    <2>8. QED
      BY <1>1, <1>3, <2>2, <2>4, <2>5, <2>6, <2>7 DEF Outcome
  <1>4. QED
    BY <1>2, <1>3

LEMMA AndSound ==
  ASSUME NEW T, NEW toks \in Seq(T), NEW p \in 1..(Len(toks) + 1), Sound(toks, "unary", p),
         \A rule \in Rules, c \in (p + 1)..(Len(toks) + 1) : Sound(toks, rule, c)
  PROVE  Sound(toks, "and", p)
  <1> DEFINE r == Found(toks, "and", p)
             left == Found(toks, "unary", p)
             right == Found(toks, "and", left.pos + 1)
             sat == left.sat \cap right.sat
  <1> SUFFICES ASSUME r.ok
               PROVE  Means(toks, p, r.pos, r.sat) /\ No(toks, "|", p, r.pos - 1)
    BY DEF Sound
  <1>1. r = Join(left, right, Peek(toks, left.pos, "&"), sat)
    BY RulesAre, Zenon
  <1>2. left \in Ahead(toks, p)
    BY RulesAre DEF Rules
  <1>3. left.ok => Means(toks, p, left.pos, left.sat) /\ No(toks, "|", p, left.pos - 1) /\ No(toks, "&", p, left.pos - 1)
    BY DEF Sound
  <1>4. ASSUME left.ok, Peek(toks, left.pos, "&")
        PROVE  /\ right \in Ahead(toks, left.pos + 1)
               /\ right.ok => Means(toks, left.pos + 1, right.pos, right.sat) /\ No(toks, "|", left.pos + 1, right.pos - 1)
    <2>1. left.pos + 1 \in (p + 1)..(Len(toks) + 1) /\ left.pos + 1 \in 1..(Len(toks) + 1) /\ "and" \in Rules
      BY <1>2, <1>4 DEF Ahead, Results, Peek, Rules
    <2>2. right \in Ahead(toks, left.pos + 1)
      BY <2>1, RulesAre
    <2>3. Sound(toks, "and", left.pos + 1)
      BY <2>1
    <2>4. QED
      BY <2>2, <2>3 DEF Sound
  <1> HIDE DEF r, left, right, sat
  <1>5. Outcome(toks, p, "&", left, right, sat, r)
    <2>1. left.ok /\ Peek(toks, left.pos, "&") => right \in Ahead(toks, left.pos + 1)
      BY <1>4
    <2>2. QED
      BY <1>1, <1>2, <2>1, LoopSound
  <1>6. CASE left.ok /\ r = left
    BY <1>3, <1>6
  <1>7. CASE /\ left.ok /\ right.ok /\ r.pos = right.pos /\ Peek(toks, left.pos, "&")
             /\ r = Parsed(right.pos, sat)
             /\ left.pos \in (p + 1)..Len(toks) /\ toks[left.pos] = "&"
             /\ right.pos \in (left.pos + 2)..(Len(toks) + 1) /\ p \in 1..Len(toks)
             /\ left.sat \in SUBSET All /\ right.sat \in SUBSET All
    <2> DEFINE k == left.pos  q == right.pos  s == left.sat  t == right.sat
    <2>1. Means(toks, p, k, s) /\ No(toks, "|", p, k - 1) /\ No(toks, "&", p, k - 1)
          /\ Means(toks, k + 1, q, t) /\ No(toks, "|", k + 1, q - 1)
      BY <1>3, <1>4, <1>7
    <2>2. p \in 1..Len(toks) /\ k \in (p + 1)..Len(toks) /\ q \in (k + 2)..(Len(toks) + 1) /\ toks[k] = "&"
      BY <1>7
    <2>3. r.pos = q /\ r.sat = sat
      BY <1>7 DEF Parsed
    <2>4. sat = s \cap t
      BY DEF sat
    <2> HIDE DEF k, q, s, t
    <2>5. /\ Depth(toks, q) = Depth(toks, p)
          /\ \A i \in p..q : Depth(toks, i) >= Depth(toks, p)
          /\ No(toks, "|", p, q - 1)
          /\ ~No(toks, "&", p, q - 1) /\ FirstAt(toks, "&", p, q - 1) = k
      BY <2>1, <2>2, Between
    <2>6. q - 1 \in 0..Len(toks) /\ p <= q - 1
      BY <2>2
    <2>7. M(toks, p, q - 1) = Meets(M(toks, p, k - 1), M(toks, k + 1, q - 1))
      BY <2>5, <2>6, MeaningIs
    <2>8. M(toks, p, q - 1) = {s \cap t}
      BY <2>1, <2>7, OneEach DEF Means
    <2>9. QED
      BY <2>3, <2>4, <2>5, <2>8 DEF Means
  <1>8. QED
    BY <1>5, <1>6, <1>7 DEF Outcome

LEMMA OrSound ==
  ASSUME NEW T, NEW toks \in Seq(T), NEW p \in 1..(Len(toks) + 1), Sound(toks, "and", p),
         \A rule \in Rules, c \in (p + 1)..(Len(toks) + 1) : Sound(toks, rule, c)
  PROVE  Sound(toks, "or", p)
  <1> DEFINE r == Found(toks, "or", p)
             left == Found(toks, "and", p)
             right == Found(toks, "or", left.pos + 1)
             sat == left.sat \cup right.sat
  <1> SUFFICES ASSUME r.ok
               PROVE  Means(toks, p, r.pos, r.sat)
    BY DEF Sound
  <1>1. r = Join(left, right, Peek(toks, left.pos, "|"), sat)
    BY RulesAre, Zenon
  <1>2. left \in Ahead(toks, p)
    BY RulesAre DEF Rules
  <1>3. left.ok => Means(toks, p, left.pos, left.sat) /\ No(toks, "|", p, left.pos - 1)
    BY DEF Sound
  <1>4. ASSUME left.ok, Peek(toks, left.pos, "|")
        PROVE  /\ right \in Ahead(toks, left.pos + 1)
               /\ right.ok => Means(toks, left.pos + 1, right.pos, right.sat)
    <2>1. left.pos + 1 \in (p + 1)..(Len(toks) + 1) /\ left.pos + 1 \in 1..(Len(toks) + 1) /\ "or" \in Rules
      BY <1>2, <1>4 DEF Ahead, Results, Peek, Rules
    <2>2. right \in Ahead(toks, left.pos + 1)
      BY <2>1, RulesAre
    <2>3. Sound(toks, "or", left.pos + 1)
      BY <2>1
    <2>4. QED
      BY <2>2, <2>3 DEF Sound
  <1> HIDE DEF r, left, right, sat
  <1>5. Outcome(toks, p, "|", left, right, sat, r)
    <2>1. left.ok /\ Peek(toks, left.pos, "|") => right \in Ahead(toks, left.pos + 1)
      BY <1>4
    <2>2. QED
      BY <1>1, <1>2, <2>1, LoopSound
  <1>6. CASE left.ok /\ r = left
    BY <1>3, <1>6
  <1>7. CASE /\ left.ok /\ right.ok /\ r.pos = right.pos /\ Peek(toks, left.pos, "|")
             /\ r = Parsed(right.pos, sat)
             /\ left.pos \in (p + 1)..Len(toks) /\ toks[left.pos] = "|"
             /\ right.pos \in (left.pos + 2)..(Len(toks) + 1) /\ p \in 1..Len(toks)
             /\ left.sat \in SUBSET All /\ right.sat \in SUBSET All
    <2> DEFINE k == left.pos  q == right.pos  s == left.sat  t == right.sat
    <2>1. Means(toks, p, k, s) /\ No(toks, "|", p, k - 1) /\ Means(toks, k + 1, q, t)
      BY <1>3, <1>4, <1>7
    <2>2. p \in 1..Len(toks) /\ k \in (p + 1)..Len(toks) /\ q \in (k + 2)..(Len(toks) + 1) /\ toks[k] = "|"
      BY <1>7
    <2>3. r.pos = q /\ r.sat = sat
      BY <1>7 DEF Parsed
    <2>4. sat = s \cup t
      BY DEF sat
    <2> HIDE DEF k, q, s, t
    <2>5. /\ Depth(toks, q) = Depth(toks, p)
          /\ \A i \in p..q : Depth(toks, i) >= Depth(toks, p)
          /\ ~No(toks, "|", p, q - 1) /\ FirstAt(toks, "|", p, q - 1) = k
      BY <2>1, <2>2, Between
    <2>6. q - 1 \in 0..Len(toks) /\ p <= q - 1
      BY <2>2
    <2>7. M(toks, p, q - 1) = Unions(M(toks, p, k - 1), M(toks, k + 1, q - 1))
      BY <2>5, <2>6, MeaningIs
    <2>8. M(toks, p, q - 1) = {s \cup t}
      BY <2>1, <2>7, OneEach DEF Means
    <2>9. QED
      BY <2>3, <2>4, <2>5, <2>8 DEF Means
  <1>8. QED
    BY <1>5, <1>6, <1>7 DEF Outcome

LEMMA SoundAll ==
  ASSUME NEW T, NEW toks \in Seq(T)
  PROVE  \A rule \in Rules, p \in 1..(Len(toks) + 1) : Sound(toks, rule, p)
  <1> DEFINE S == 1..(Len(toks) + 1)
             h == [p \in S |-> Len(toks) + 1 - p]
             B == {p \in S : \E rule \in Rules : ~Sound(toks, rule, p)}
  <1>1. Len(toks) \in Nat /\ \A p \in S : h[p] = Len(toks) + 1 - p /\ h[p] \in Nat
    OBVIOUS
  <1> HIDE DEF h
  <1>2. ASSUME B # {} PROVE FALSE
    <2>1. PICK p \in B : \A y \in S : h[y] < h[p] => y \notin B
      <3>1. B \in SUBSET S /\ \A y \in S : h[y] \in Nat
        BY <1>1
      <3> HIDE DEF B, S
      <3>2. QED
        BY <3>1, <1>2, LowestPlace
    <2>2. p \in 1..(Len(toks) + 1) /\ \E rule \in Rules : ~Sound(toks, rule, p)
      BY <2>1
    <2>3. ASSUME NEW rule \in Rules, NEW c \in (p + 1)..(Len(toks) + 1) PROVE Sound(toks, rule, c)
      <3>1. c \in S /\ h[c] < h[p]
        BY <1>1, <2>2
      <3>2. QED
        BY <3>1, <2>1
    <2>4. Sound(toks, "unary", p)
      BY <2>2, <2>3, UnarySound
    <2>5. Sound(toks, "and", p)
      BY <2>2, <2>3, <2>4, AndSound
    <2>6. Sound(toks, "or", p)
      BY <2>2, <2>3, <2>5, OrSound
    <2>7. QED
      BY <2>2, <2>4, <2>5, <2>6 DEF Rules
  <1>3. QED
    BY <1>2

(* The parser accepts exactly the expressions that mean something, as what *)
(* they mean.                                                              *)
THEOREM ParserIsRight ==
  ASSUME NEW T, NEW toks \in Seq(T)
  PROVE  /\ Compile(toks).ok <=> Meaning(toks) # {}
         /\ Compile(toks).ok => Meaning(toks) = {Compile(toks).sat}
  <1> DEFINE p == Found(toks, "or", 1)
             last == Len(toks)
  <1>1. last \in Nat /\ 1 \in 1..(last + 1) /\ last \in 0..last
    OBVIOUS
  <1>2. Compile(toks) = IF p.ok /\ p.pos = last + 1 THEN p ELSE SyntaxError
    BY DEF Compile, Whole, Found
  <1>3. Meaning(toks) = M(toks, 1, last)
    BY DEF Meaning, M
  <1>4. ASSUME Compile(toks).ok PROVE Meaning(toks) = {Compile(toks).sat}
    <2>1. p.ok /\ p.pos = last + 1 /\ Compile(toks) = p
      BY <1>2, <1>4, ResultsAre
    <2>2. Sound(toks, "or", 1)
      BY <1>1, SoundAll DEF Rules
    <2>3. Means(toks, 1, p.pos, p.sat)
      BY <2>1, <2>2 DEF Sound
    <2>4. p.pos - 1 = last
      BY <1>1, <2>1
    <2>5. QED
      BY <1>3, <2>1, <2>3, <2>4 DEF Means
  <1>5. ASSUME Meaning(toks) # {} PROVE Compile(toks).ok
    <2>1. Complete(toks, 1, last)
      BY <1>1, CompleteAll
    <2>2. PICK s \in SUBSET All : ReadAs(toks, 1, last, s)
      BY <1>3, <1>5, <2>1 DEF Complete
    <2>3. ~Peek(toks, last + 1, "|") /\ ~Peek(toks, last + 1, "&")
      BY <1>1 DEF Peek
    <2>4. p = Parsed(last + 1, s)
      BY <2>2, <2>3 DEF ReadAs
    <2>5. last + 1 \in Nat
      BY <1>1
    <2>6. p.ok /\ p.pos = last + 1
      BY <2>2, <2>4, <2>5, ResultsAre
    <2>7. QED
      BY <1>2, <2>6
  <1>6. QED
    BY <1>4, <1>5

-----------------------------------------------------------------------------
(* The rules a finding of a project can be of.                             *)
LEMMA VerbRules ==
  ASSUME NEW cv, NEW env, NEW f \in CheckVerb(cv, env)
  PROVE  f.rule \in {2, 3, 10}
  <1> QED
    BY DEF CheckVerb, Fault, When

LEMMA DefsRules ==
  ASSUME NEW defs, NEW project, NEW f \in CheckDefs(defs, project)
  PROVE  f.rule \in {2, 3, 10}
  <1>1. PICK cv \in UNION {Range(d.verbs) : d \in Range(defs)} : f \in CheckVerb(cv, DOMAIN project.env)
    BY DEF CheckDefs
  <1>2. QED
    BY <1>1, VerbRules

RulesOf(fs) == {f.rule : f \in fs}

LEMMA OutputRules ==
  ASSUME NEW output, NEW flags
  PROVE  /\ OutputRefused(output, flags) => 17 \in RulesOf(CheckOutput(output)) \/ 18 \in RulesOf(CheckOutput(output))
         /\ 17 \in RulesOf(CheckOutput(output)) /\ flags.otlp = "" => OutputRefused(output, flags)
  <1> DEFINE otlp == Exporter(output, "otlp")
             empty == otlp.enabled = <<TRUE>> /\ otlp.endpoint = ""
             odd == otlp.protocol \notin {"", "grpc"}
             rules == RulesOf(CheckOutput(output))
  <1>1. CheckOutput(output) =
          When(~(DOMAIN output.exporters \subseteq KnownExporters), Smell(16))
          \cup When(empty, Fault(17, <<>>)) \cup When(odd, Fault(18, <<>>))
    BY DEF CheckOutput, Exporter
  <1> HIDE DEF otlp
  <1>2. Smell(16).rule = 16 /\ Fault(17, <<>>).rule = 17 /\ Fault(18, <<>>).rule = 18
    BY DEF Smell, Fault
  <1>3. \A f \in CheckOutput(output) : f.rule = 17 => empty
    <2>1. \A f \in CheckOutput(output) : f = Smell(16) \/ (f = Fault(17, <<>>) /\ empty) \/ f = Fault(18, <<>>)
      BY <1>1 DEF When
    <2> SUFFICES ASSUME NEW f \in CheckOutput(output), f.rule = 17 PROVE empty
      OBVIOUS
    <2>2. f # Smell(16) /\ f # Fault(18, <<>>)
      BY <1>2
    <2>3. QED
      BY <2>1, <2>2
  <1>4. empty => Fault(17, <<>>) \in CheckOutput(output)
    BY <1>1 DEF When
  <1>5. odd => Fault(18, <<>>) \in CheckOutput(output)
    BY <1>1 DEF When
  <1>6. (17 \in rules <=> empty) /\ (odd => 18 \in rules)
    BY <1>2, <1>3, <1>4, <1>5 DEF RulesOf
  <1> HIDE DEF rules
  <1>7. OutputRefused(output, flags) <=>
          (flags.otlp # "" \/ otlp.enabled = <<TRUE>>)
          /\ (odd \/ (IF flags.otlp # "" THEN flags.otlp ELSE otlp.endpoint) = "")
    BY DEF OutputRefused, OtlpEnabled, OtlpEndpoint, otlp
  <1>8. (OutputRefused(output, flags) => empty \/ odd) /\ (empty /\ flags.otlp = "" => OutputRefused(output, flags))
    BY <1>7
  <1>9. QED
    BY <1>6, <1>8 DEF rules

-----------------------------------------------------------------------------
(* What a list comes to, element by element.                               *)
LEMMA CountUp ==
  ASSUME NEW n \in Nat, NEW J, 0 \in J, \A i \in 1..n : i - 1 \in J => i \in J
  PROVE  \A i \in 0..n : i \in J
  <1> DEFINE Bad == {i \in 0..n : i \notin J}
  <1> SUFFICES ASSUME Bad # {} PROVE FALSE
    OBVIOUS
  <1>1. Bad \in SUBSET Nat
    OBVIOUS
  <1>2. PICK m \in Bad : \A k \in Bad : m <= k
    BY <1>1, LeastNumber
  <1>3. m \in 1..n /\ m - 1 \in 0..n /\ ~(m <= m - 1)
    BY <1>2
  <1>4. m - 1 \in J
    BY <1>2, <1>3
  <1>5. QED
    BY <1>2, <1>3, <1>4

LEMMA RangeOfLonger ==
  ASSUME NEW S, NEW s \in Seq(S), NEW x \in S
  PROVE  Append(s, x) \in Seq(S) /\ Range(Append(s, x)) = Range(s) \cup {x}
  <1>1. DOMAIN Append(s, x) = 1..(Len(s) + 1) /\ DOMAIN s = 1..Len(s) /\ Len(s) \in Nat
    OBVIOUS
  <1>2. \A i \in 1..(Len(s) + 1) : Append(s, x)[i] = IF i = Len(s) + 1 THEN x ELSE s[i]
    OBVIOUS
  <1>3. QED
    BY <1>1, <1>2 DEF Range

Kept(s, S, i, before) == IF i = 0 THEN <<>> ELSE IF s[i] \in S THEN Append(before, s[i]) ELSE before

LEMMA ThoseIs ==
  ASSUME NEW X, NEW s \in Seq(X), NEW S
  PROVE  \E kept \in [0..Len(s) -> Seq(X)] :
           /\ \A i \in 0..Len(s) : kept[i] = Kept(s, S, i, kept[i - 1])
           /\ Those(s, S) = kept[Len(s)]
  <1> DEFINE n == Len(s)
             V == Seq(X)
             G == [p \in V \X (1..n) |-> Kept(s, S, p[2], p[1])]
             is(f) == f = [i \in 0..n |-> IF i = 0 THEN <<>>
                             ELSE IF s[i] \in S THEN Append(f[i - 1], s[i]) ELSE f[i - 1]]
             q == CHOOSE f : is(f)
  <1>1. n \in Nat /\ <<>> \in V /\ \A i \in 1..n : s[i] \in X
    OBVIOUS
  <1>2. \A v \in V, i \in 1..n : G[<<v, i>>] = Kept(s, S, i, v)
    OBVIOUS
  <1>3. \A v \in V, i \in 1..n : Kept(s, S, i, v) \in V
    BY <1>1 DEF Kept
  <1> HIDE DEF V, G, n
  <1>4. PICK f \in [0..n -> V] : f[0] = <<>> /\ \A i \in 1..n : f[i] = G[<<f[i - 1], i>>]
    <2>1. Stepping(n, V, G)
      BY <1>2, <1>3 DEF Stepping
    <2>2. Lists(n, V, <<>>, G) # {}
      BY <1>1, <2>1, PrefixRecursion
    <2>3. QED
      BY <2>2 DEF Lists
  <1>5. \A i \in 0..n : f[i] = Kept(s, S, i, f[i - 1])
    <2> TAKE i \in 0..n
    <2>1. CASE i = 0
      BY <2>1, <1>4 DEF Kept
    <2>2. CASE i # 0
      <3>1. i \in 1..n /\ i - 1 \in 0..n
        BY <1>1, <2>2
      <3>2. QED
        BY <3>1, <1>2, <1>4
    <2>3. QED
      BY <2>1, <2>2
  <1>6. f = [i \in 0..n |-> f[i]]
    OBVIOUS
  <1>7. is(f)
    BY <1>5, <1>6 DEF Kept
  <1>8. is(q)
    BY <1>7
  <1>9. \A i \in 0..n : q[i] = Kept(s, S, i, q[i - 1])
    BY <1>8 DEF Kept
  <1>10. Those(s, S) = q[n]
    BY DEF Those, n
  <1>11. q = [i \in 0..n |-> q[i]]
    BY <1>8
  <1> HIDE DEF q
  <1>12. \A i \in 0..n : q[i] \in V
    <2> DEFINE J == {i \in 0..n : q[i] \in V}
    <2>1. 0 \in J
      BY <1>1, <1>9 DEF Kept
    <2>2. ASSUME NEW i \in 1..n, i - 1 \in J PROVE i \in J
      <3>1. q[i] = Kept(s, S, i, q[i - 1]) /\ q[i - 1] \in V
        BY <1>1, <1>9, <2>2
      <3>2. QED
        BY <3>1, <1>1, <1>3
    <2> HIDE DEF J
    <2>3. \A i \in 0..n : i \in J
      BY <1>1, <2>1, <2>2, CountUp
    <2>4. QED
      BY <2>3 DEF J
  <1>13. q \in [0..n -> V]
    BY <1>11, <1>12
  <1>14. QED
    BY <1>9, <1>10, <1>13 DEF n, V

(* Those elements of a list: all that are in S, in a list.                 *)
LEMMA ThoseAre ==
  ASSUME NEW X, NEW s \in Seq(X), NEW S
  PROVE  Those(s, S) \in Seq(X) /\ Range(Those(s, S)) = Range(s) \cap S
  <1> DEFINE n == Len(s)
  <1>1. PICK kept \in [0..n -> Seq(X)] :
           /\ \A i \in 0..n : kept[i] = Kept(s, S, i, kept[i - 1])
           /\ Those(s, S) = kept[n]
    BY ThoseIs
  <1> DEFINE upTo(i) == {s[j] : j \in 1..i} \cap S
             J == {i \in 0..n : Range(kept[i]) = upTo(i)}
  <1>2. n \in Nat /\ \A i \in 1..n : s[i] \in X
    OBVIOUS
  <1>3. 0 \in J
    <2>1. kept[0] = <<>> /\ 1..0 = {}
      BY <1>1, <1>2 DEF Kept
    <2>2. QED
      BY <2>1, <1>2 DEF Range
  <1>4. ASSUME NEW i \in 1..n, i - 1 \in J PROVE i \in J
    <2>0. i - 1 \in 0..n /\ i \in 0..n /\ s[i] \in X
      BY <1>2
    <2>1. i - 1 \in 0..n /\ i \in 0..n /\ kept[i - 1] \in Seq(X) /\ s[i] \in X
      BY <1>1, <2>0
    <2>2. kept[i] = IF s[i] \in S THEN Append(kept[i - 1], s[i]) ELSE kept[i - 1]
      BY <1>1, <2>1 DEF Kept
    <2>3. Range(kept[i - 1]) = upTo(i - 1)
      BY <1>4
    <2>4. upTo(i) = IF s[i] \in S THEN upTo(i - 1) \cup {s[i]} ELSE upTo(i - 1)
      <3>1. 1..i = (1..(i - 1)) \cup {i}
        BY <2>1
      <3>2. {s[j] : j \in 1..i} = {s[j] : j \in 1..(i - 1)} \cup {s[i]}
        BY <3>1
      <3>3. QED
        BY <3>2
    <2> HIDE DEF upTo
    <2>5. \A t \in Seq(X), e \in X : Range(Append(t, e)) = Range(t) \cup {e}
      BY RangeOfLonger
    <2>6. Range(kept[i]) = upTo(i)
      <3>1. CASE s[i] \in S
        BY <3>1, <2>1, <2>2, <2>3, <2>4, <2>5
      <3>2. CASE s[i] \notin S
        BY <3>2, <2>2, <2>3, <2>4
      <3>3. QED
        BY <3>1, <3>2
    <2>7. QED
      BY <2>1, <2>6
  <1> HIDE DEF J
  <1>5. \A i \in 0..n : i \in J
    BY <1>2, <1>3, <1>4, CountUp
  <1>6. Range(kept[n]) = upTo(n)
    BY <1>2, <1>5 DEF J
  <1>7. upTo(n) = Range(s) \cap S
    BY DEF Range
  <1>8. QED
    BY <1>1, <1>2, <1>6, <1>7

Fresh(scs, out, t) == {sc \in Range(scs) : Hits(sc, t) /\ \A k \in DOMAIN out : out[k].name # sc.name}

Added(scs, targets, i, before) ==
  IF i = 0 THEN <<>> ELSE before \o Those(scs, Fresh(scs, before, targets[i]))

(* Targets select some of the scenarios.                                   *)
LEMMA SelectedAreSome ==
  ASSUME NEW X, NEW scs \in Seq(X), NEW Y, NEW targets \in Seq(Y)
  PROVE  SelectScenarios(scs, targets) \in Seq(X)
  <1> DEFINE n == Len(targets)
             V == Seq(X)
             G == [p \in V \X (1..n) |-> Added(scs, targets, p[2], p[1])]
             is(f) == f = [i \in 0..n |-> IF i = 0 THEN <<>>
                             ELSE f[i - 1] \o Those(scs, Fresh(scs, f[i - 1], targets[i]))]
             q == CHOOSE f : is(f)
  <1>1. n \in Nat /\ <<>> \in V
    OBVIOUS
  <1>2. \A v \in V, i \in 1..n : G[<<v, i>>] = Added(scs, targets, i, v)
    OBVIOUS
  <1>3. \A v \in V, i \in 1..n : Added(scs, targets, i, v) \in V
    <2>1. \A S : Those(scs, S) \in V
      BY ThoseAre
    <2>2. \A v, w \in V : v \o w \in V
      OBVIOUS
    <2>3. QED
      BY <1>1, <2>1, <2>2 DEF Added
  <1>o. SelectScenarios(scs, targets) = IF targets = <<>> THEN scs ELSE q[n]
    BY DEF SelectScenarios, Fresh
  <1>v. scs \in V
    OBVIOUS
  <1> HIDE DEF V, G, n
  <1>4. PICK f \in [0..n -> V] : f[0] = <<>> /\ \A i \in 1..n : f[i] = G[<<f[i - 1], i>>]
    <2>1. Stepping(n, V, G)
      BY <1>2, <1>3 DEF Stepping
    <2>2. Lists(n, V, <<>>, G) # {}
      BY <1>1, <2>1, PrefixRecursion
    <2>3. QED
      BY <2>2 DEF Lists
  <1>5. \A i \in 0..n : f[i] = Added(scs, targets, i, f[i - 1])
    <2> TAKE i \in 0..n
    <2>1. CASE i = 0
      BY <2>1, <1>4 DEF Added
    <2>2. CASE i # 0
      <3>1. i \in 1..n /\ i - 1 \in 0..n
        BY <1>1, <2>2
      <3>2. QED
        BY <3>1, <1>2, <1>4
    <2>3. QED
      BY <2>1, <2>2
  <1>6. f = [i \in 0..n |-> f[i]]
    OBVIOUS
  <1>7. is(f)
    BY <1>5, <1>6 DEF Added
  <1>8. is(q)
    BY <1>7
  <1>9. \A i \in 0..n : q[i] = Added(scs, targets, i, q[i - 1])
    BY <1>8 DEF Added
  <1> HIDE DEF q
  <1> DEFINE J == {i \in 0..n : q[i] \in V}
  <1>10. 0 \in J
    BY <1>1, <1>9 DEF Added
  <1>11. ASSUME NEW i \in 1..n, i - 1 \in J PROVE i \in J
    <2>1. q[i] = Added(scs, targets, i, q[i - 1]) /\ q[i - 1] \in V
      BY <1>1, <1>9, <1>11
    <2>2. QED
      BY <2>1, <1>1, <1>3
  <1> HIDE DEF J
  <1>12. \A i \in 0..n : i \in J
    BY <1>1, <1>10, <1>11, CountUp
  <1>13. q[n] \in V
    BY <1>1, <1>12 DEF J
  <1>14. QED
    BY <1>o, <1>v, <1>13 DEF V

-----------------------------------------------------------------------------
(* What discovery returns: scenarios and providers are among the files.    *)
Of(docs, class) == {d \in Range(docs) : d.class = class}

Listed(docs) == {[name |-> d.name, suite |-> SuiteOf(d), file |-> d] : d \in Of(docs, "Scenario")}

Sets(docs) ==
  [project : Seq(Of(docs, "Project")), scenarios : Seq(Listed(docs)),
   providers : Seq(Of(docs, "Provider")), errs : Nat]

Classes == {"foreign", "unparseable", "unnamed", "malformed", "Project", "Scenario", "Provider"}

LEMMA LoadDocSets ==
  ASSUME NEW docs, NEW d \in Range(docs), d.class \in Classes, NEW s \in Sets(docs)
  PROVE  LoadDoc(s, d) \in Sets(docs)
  <1> DEFINE P == Of(docs, "Project")  L == Listed(docs)  V == Of(docs, "Provider")
             T == [project : Seq(P), scenarios : Seq(L), providers : Seq(V), errs : Nat]
             entry == [name |-> d.name, suite |-> SuiteOf(d), file |-> d]
  <1>1. /\ d.class = "Project" => d \in P
        /\ d.class = "Scenario" => entry \in L
        /\ d.class = "Provider" => d \in V
    BY DEF Of, Listed
  <1>2. Sets(docs) = T
    BY DEF Sets
  <1>3. /\ Recognized(d) <=> d.class # "foreign"
        /\ ParseError(d) <=> d.class \in {"unparseable", "unnamed", "malformed"}
    BY DEF Recognized, ParseError
  <1>4. \/ LoadDoc(s, d) = s
        \/ LoadDoc(s, d) = [s EXCEPT !.errs = @ + 1]
        \/ d.class = "Project" /\ LoadDoc(s, d) = [s EXCEPT !.project = <<d>>]
        \/ d.class = "Scenario" /\ LoadDoc(s, d) = [s EXCEPT !.scenarios = Append(@, entry)]
        \/ d.class = "Provider" /\ LoadDoc(s, d) = [s EXCEPT !.providers = Append(@, d)]
    <2>1. CASE ~Walked(d) \/ ~Recognized(d)
      BY <2>1 DEF LoadDoc
    <2>2. CASE Walked(d) /\ Recognized(d) /\ (ParseError(d) \/ (d.class = "Project" /\ s.project # <<>>))
      BY <2>2 DEF LoadDoc
    <2>3. CASE Walked(d) /\ Recognized(d) /\ ~(ParseError(d) \/ (d.class = "Project" /\ s.project # <<>>))
      <3>1. d.class \in {"Project", "Scenario", "Provider"}
        BY <2>3, <1>3 DEF Classes
      <3>2. QED
        BY <2>3, <3>1 DEF LoadDoc
    <2>4. QED
      BY <2>1, <2>2, <2>3
  <1> HIDE DEF P, L, V, entry
  <1>5. s \in T /\ s.errs + 1 \in Nat
    BY <1>2
  <1>6. d.class = "Project" => <<d>> \in Seq(P)
    BY <1>1
  <1>7. d.class = "Scenario" => Append(s.scenarios, entry) \in Seq(L)
    BY <1>1, <1>5
  <1>8. d.class = "Provider" => Append(s.providers, d) \in Seq(V)
    BY <1>1, <1>5
  <1>9. QED
    BY <1>2, <1>4, <1>5, <1>6, <1>7, <1>8

ReadDoc(docs, i, before) == IF i = 0 THEN EmptySet ELSE LoadDoc(before, docs[i])

LEMMA LoadSets ==
  ASSUME NEW docs, docs \in Seq(Range(docs)), \A d \in Range(docs) : d.class \in Classes
  PROVE  Load(docs).set \in Sets(docs)
  <1> DEFINE n == Len(docs)
             V == Sets(docs)
             G == [p \in V \X (1..n) |-> ReadDoc(docs, p[2], p[1])]
             is(f) == f = [i \in 0..n |-> IF i = 0 THEN EmptySet ELSE LoadDoc(f[i - 1], docs[i])]
             q == CHOOSE f : is(f)
  <1>1. n \in Nat /\ \A i \in 1..n : docs[i] \in Range(docs)
    BY DEF Range
  <1>e. EmptySet \in V
    <2>1. \A S : <<>> \in Seq(S)
      OBVIOUS
    <2>2. QED
      BY <2>1 DEF EmptySet, Sets
  <1>2. \A v \in V, i \in 1..n : G[<<v, i>>] = ReadDoc(docs, i, v)
    OBVIOUS
  <1>3. \A v \in V, i \in 1..n : ReadDoc(docs, i, v) \in V
    BY <1>1, <1>e, LoadDocSets DEF ReadDoc
  <1>o. Load(docs).set = q[n]
    BY DEF Load
  <1> HIDE DEF V, G, n
  <1>4. PICK f \in [0..n -> V] : f[0] = EmptySet /\ \A i \in 1..n : f[i] = G[<<f[i - 1], i>>]
    <2>1. Stepping(n, V, G)
      BY <1>2, <1>3 DEF Stepping
    <2>2. Lists(n, V, EmptySet, G) # {}
      BY <1>1, <1>e, <2>1, PrefixRecursion
    <2>3. QED
      BY <2>2 DEF Lists
  <1>5. \A i \in 0..n : f[i] = ReadDoc(docs, i, f[i - 1])
    <2> TAKE i \in 0..n
    <2>1. CASE i = 0
      BY <2>1, <1>4 DEF ReadDoc
    <2>2. CASE i # 0
      <3>1. i \in 1..n /\ i - 1 \in 0..n
        BY <1>1, <2>2
      <3>2. QED
        BY <3>1, <1>2, <1>4
    <2>3. QED
      BY <2>1, <2>2
  <1>6. f = [i \in 0..n |-> f[i]]
    OBVIOUS
  <1>7. is(f)
    BY <1>5, <1>6 DEF ReadDoc
  <1>8. is(q)
    BY <1>7
  <1>9. \A i \in 0..n : q[i] = ReadDoc(docs, i, q[i - 1])
    BY <1>8 DEF ReadDoc
  <1> HIDE DEF q
  <1> DEFINE J == {i \in 0..n : q[i] \in V}
  <1>10. 0 \in J
    BY <1>1, <1>e, <1>9 DEF ReadDoc
  <1>11. ASSUME NEW i \in 1..n, i - 1 \in J PROVE i \in J
    <2>1. q[i] = ReadDoc(docs, i, q[i - 1]) /\ q[i - 1] \in V
      BY <1>1, <1>9, <1>11
    <2>2. QED
      BY <2>1, <1>1, <1>3
  <1> HIDE DEF J
  <1>12. \A i \in 0..n : i \in J
    BY <1>1, <1>10, <1>11, CountUp
  <1>13. q[n] \in V
    BY <1>1, <1>12 DEF J
  <1>14. QED
    BY <1>o, <1>13 DEF V

MeansTags(expr, sc) == Range(sc.file.tags) \cap Tags \in UNION Meaning(expr)

-----------------------------------------------------------------------------
(* The stack while a scenario runs.                                        *)
FrameKinds == {"section", "branch", "body", "macro"}

Frames ==
  [kind : FrameKinds, todo : Seq(Steps), outputs : SUBSET STRING, writes : SUBSET STRING,
   params : SUBSET STRING, stop : BOOLEAN, via : {"plain", "declared"}, failed : BOOLEAN,
   rest : Seq(Seq(Steps)), wrote : SUBSET STRING]

SectionNames == {"setup", "steadyState", "method", "recovery", "verify", "teardown"}

Headings == [name : SectionNames, steps : Seq(Steps)]

Shape(s) ==
  \A i \in DOMAIN s : (s[i].kind = "section" <=> i = 1) /\ (i < Len(s) => s[i].todo # <<>>)

Swap(s, f) == Append(Front(s), f)

Shrink(s, f) == Append(SubSeq(s, 1, Len(s) - 2), f)

LEMMA PrefixIs ==
  ASSUME NEW F, NEW s \in Seq(F), NEW k \in 0..Len(s)
  PROVE  /\ SubSeq(s, 1, k) \in Seq(F) /\ Len(SubSeq(s, 1, k)) = k
         /\ \A i \in 1..k : SubSeq(s, 1, k)[i] = s[i]
  <1> DEFINE t == SubSeq(s, 1, k)
  <1>1. k \in Nat /\ \A i \in 1..k : s[i] \in F
    OBVIOUS
  <1>2. /\ t \in Seq(F) /\ Len(t) = IF 1 <= k THEN k - 1 + 1 ELSE 0
        /\ \A i \in 1..(k - 1 + 1) : t[i] = s[1 + i - 1]
    BY <1>1, SubSeqProperties
  <1> HIDE DEF t
  <1>3. t \in Seq(F) /\ Len(t) = k /\ \A i \in 1..k : t[i] = s[i]
    BY <1>1, <1>2
  <1>4. QED
    BY <1>3 DEF t

LEMMA LongerIs ==
  ASSUME NEW F, NEW r \in Seq(F), NEW n \in Nat, Len(r) = n, NEW f \in F, NEW t, t = Append(r, f)
  PROVE  t \in Seq(F) /\ Len(t) = n + 1 /\ t[n + 1] = f /\ \A i \in 1..n : t[i] = r[i]
  BY AppendProperties

LEMMA SwapIs ==
  ASSUME NEW F, NEW s \in Seq(F), s # <<>>, NEW f \in F
  PROVE  /\ Swap(s, f) \in Seq(F) /\ Len(Swap(s, f)) = Len(s) /\ Len(s) \in Nat \ {0}
         /\ Swap(s, f)[Len(s)] = f /\ \A i \in 1..(Len(s) - 1) : Swap(s, f)[i] = s[i]
         /\ [s EXCEPT ![Len(s)] = f] = Swap(s, f)
  <1> DEFINE n == Len(s)
             r == Front(s)
             w == Swap(s, f)
             t == [s EXCEPT ![n] = f]
  <1>1. n \in Nat \ {0} /\ DOMAIN s = 1..n
    OBVIOUS
  <1>2. r \in Seq(F) /\ Len(r) = n - 1 /\ \A i \in 1..(n - 1) : r[i] = s[i]
    <2>1. n - 1 \in 0..n /\ r = SubSeq(s, 1, n - 1)
      BY <1>1 DEF Front
    <2>2. QED
      BY <2>1, PrefixIs
  <1>3. w = Append(r, f)
    BY DEF Swap
  <1>4. t \in Seq(F) /\ Len(t) = n /\ \A i \in 1..n : t[i] = IF i = n THEN f ELSE s[i]
    <2>1. n \in 1..n
      BY <1>1
    <2>2. QED
      BY <2>1, ExceptSeq
  <1> HIDE DEF n, r, w, t
  <1>5. w \in Seq(F) /\ Len(w) = n /\ w[n] = f /\ \A i \in 1..(n - 1) : w[i] = s[i]
    <2>1. n - 1 \in Nat /\ n - 1 + 1 = n
      BY <1>1
    <2>2. w \in Seq(F) /\ Len(w) = n - 1 + 1 /\ w[n - 1 + 1] = f /\ \A i \in 1..(n - 1) : w[i] = r[i]
      BY <2>1, <1>2, <1>3, LongerIs
    <2>3. QED
      BY <2>1, <2>2, <1>2
  <1>6. \A i \in 1..n : t[i] = w[i]
    <2> TAKE i \in 1..n
    <2>1. i = n \/ i \in 1..(n - 1)
      BY <1>1
    <2>2. i \in 1..(n - 1) => i # n
      BY <1>1
    <2>3. QED
      BY <2>1, <2>2, <1>4, <1>5
  <1>7. t = w
    BY <1>4, <1>5, <1>6, SeqEqual
  <1>8. QED
    BY <1>1, <1>5, <1>7 DEF n, w, t

LEMMA ShrinkIs ==
  ASSUME NEW F, NEW s \in Seq(F), Len(s) >= 2, NEW f \in F
  PROVE  /\ Shrink(s, f) \in Seq(F) /\ Len(Shrink(s, f)) = Len(s) - 1 /\ Len(s) \in Nat
         /\ Shrink(s, f)[Len(s) - 1] = f /\ \A i \in 1..(Len(s) - 2) : Shrink(s, f)[i] = s[i]
  <1> DEFINE n == Len(s)
             r == SubSeq(s, 1, n - 2)
             w == Shrink(s, f)
  <1>1. n \in Nat /\ n >= 2
    OBVIOUS
  <1>2. r \in Seq(F) /\ Len(r) = n - 2 /\ \A i \in 1..(n - 2) : r[i] = s[i]
    <2>1. n - 2 \in 0..n
      BY <1>1
    <2>2. QED
      BY <2>1, PrefixIs
  <1>3. w = Append(r, f)
    BY DEF Shrink
  <1> HIDE DEF n, r, w
  <1>4. w \in Seq(F) /\ Len(w) = n - 1 /\ w[n - 1] = f /\ \A i \in 1..(n - 2) : w[i] = s[i]
    <2>1. n - 2 \in Nat /\ n - 2 + 1 = n - 1
      BY <1>1
    <2>2. w \in Seq(F) /\ Len(w) = n - 2 + 1 /\ w[n - 2 + 1] = f /\ \A i \in 1..(n - 2) : w[i] = r[i]
      BY <2>1, <1>2, <1>3, LongerIs
    <2>3. QED
      BY <2>1, <2>2, <1>2
  <1>5. QED
    BY <1>1, <1>4 DEF n, w

LEMMA PushIs ==
  ASSUME NEW F, NEW s \in Seq(F), NEW f \in F
  PROVE  /\ Append(s, f) \in Seq(F) /\ Len(Append(s, f)) = Len(s) + 1 /\ Len(s) \in Nat
         /\ Append(s, f)[Len(s) + 1] = f /\ \A i \in 1..Len(s) : Append(s, f)[i] = s[i]
  OBVIOUS

LEMMA SwapShape ==
  ASSUME NEW s \in Seq(Frames), s # <<>>, Shape(s), NEW f \in Frames, f.kind = s[Len(s)].kind
  PROVE  Shape(Swap(s, f))
  <1> DEFINE t == Swap(s, f)  n == Len(s)
  <1>1. /\ t \in Seq(Frames) /\ Len(t) = n /\ n \in Nat \ {0}
        /\ t[n] = f /\ \A i \in 1..(n - 1) : t[i] = s[i]
    BY SwapIs
  <1>2. DOMAIN t = 1..n /\ DOMAIN s = 1..n
    BY <1>1
  <1> HIDE DEF t, n
  <1>3. f.kind = s[n].kind
    BY DEF n
  <1>4. \A i \in 1..n : (s[i].kind = "section" <=> i = 1) /\ (i < n => s[i].todo # <<>>)
    BY <1>2 DEF Shape, n
  <1>5. ASSUME NEW i \in 1..n PROVE (t[i].kind = "section" <=> i = 1) /\ (i < n => t[i].todo # <<>>)
    BY <1>1, <1>3, <1>4
  <1>6. Shape(t)
    BY <1>1, <1>2, <1>5 DEF Shape
  <1>7. QED
    BY <1>6 DEF t

LEMMA ShrinkShape ==
  ASSUME NEW s \in Seq(Frames), Len(s) >= 2, Shape(s), NEW f \in Frames, f.kind = s[Len(s) - 1].kind
  PROVE  Shape(Shrink(s, f))
  <1> DEFINE t == Shrink(s, f)  n == Len(s)
  <1>1. /\ t \in Seq(Frames) /\ Len(t) = n - 1 /\ n \in Nat
        /\ t[n - 1] = f /\ \A i \in 1..(n - 2) : t[i] = s[i]
    BY ShrinkIs
  <1>2. DOMAIN t = 1..(n - 1) /\ DOMAIN s = 1..n
    BY <1>1
  <1>a. n >= 2
    OBVIOUS
  <1> HIDE DEF t, n
  <1>3. f.kind = s[n - 1].kind
    BY DEF n
  <1>4. \A i \in 1..n : (s[i].kind = "section" <=> i = 1) /\ (i < n => s[i].todo # <<>>)
    BY <1>2 DEF Shape, n
  <1>5. ASSUME NEW i \in 1..(n - 1) PROVE (t[i].kind = "section" <=> i = 1) /\ (i < n - 1 => t[i].todo # <<>>)
    BY <1>1, <1>3, <1>4, <1>a
  <1>6. Shape(t)
    BY <1>1, <1>2, <1>5 DEF Shape
  <1>7. QED
    BY <1>6 DEF t

LEMMA PushShape ==
  ASSUME NEW s \in Seq(Frames), s # <<>>, Shape(s), s[Len(s)].todo # <<>>, NEW f \in Frames, f.kind # "section"
  PROVE  Shape(Append(s, f))
  <1> DEFINE t == Append(s, f)  n == Len(s)
  <1>1. /\ t \in Seq(Frames) /\ Len(t) = n + 1 /\ n \in Nat /\ n # 0
        /\ t[n + 1] = f /\ \A i \in 1..n : t[i] = s[i]
    BY PushIs
  <1>2. DOMAIN t = 1..(n + 1) /\ DOMAIN s = 1..n
    BY <1>1
  <1> HIDE DEF t, n
  <1>3. s[n].todo # <<>>
    BY DEF n
  <1>4. \A i \in 1..n : (s[i].kind = "section" <=> i = 1) /\ (i < n => s[i].todo # <<>>)
    BY <1>2 DEF Shape, n
  <1>5. ASSUME NEW i \in 1..(n + 1) PROVE (t[i].kind = "section" <=> i = 1) /\ (i < n + 1 => t[i].todo # <<>>)
    BY <1>1, <1>3, <1>4
  <1>6. Shape(t)
    BY <1>1, <1>2, <1>5 DEF Shape
  <1>7. QED
    BY <1>6 DEF t

-----------------------------------------------------------------------------
(* The frames the actions make.                                            *)
LEMMA AfterIs ==
  ASSUME NEW f \in Frames, NEW ok \in BOOLEAN, NEW bad \in BOOLEAN, NEW binds \in SUBSET STRING, f.todo # <<>>
  PROVE  /\ After(f, ok, bad, binds) \in Frames
         /\ After(f, ok, bad, binds).kind = f.kind /\ After(f, ok, bad, binds).via = f.via
         /\ After(f, ok, bad, binds).todo = IF bad /\ f.stop THEN <<>> ELSE Tail(f.todo)
         /\ Range(After(f, ok, bad, binds).todo) \subseteq Range(f.todo)
  <1> DEFINE g == After(f, ok, bad, binds)
  <1>1. /\ f.kind \in FrameKinds /\ f.todo \in Seq(Steps)
        /\ f.outputs \in SUBSET STRING /\ f.writes \in SUBSET STRING /\ f.params \in SUBSET STRING
        /\ f.stop \in BOOLEAN /\ f.via \in {"plain", "declared"} /\ f.failed \in BOOLEAN
        /\ f.rest \in Seq(Seq(Steps)) /\ f.wrote \in SUBSET STRING
    BY DEF Frames
  <1>2. /\ DOMAIN g = DOMAIN f /\ g = [x \in DOMAIN g |-> g[x]]
        /\ g.kind = f.kind /\ g.params = f.params /\ g.stop = f.stop /\ g.via = f.via
        /\ g.rest = f.rest /\ g.wrote = f.wrote
        /\ g.todo = IF bad /\ f.stop THEN <<>> ELSE Tail(f.todo)
        /\ g.outputs = IF ok THEN f.outputs \cup binds ELSE f.outputs
        /\ g.writes = IF ok THEN f.writes \cup binds ELSE f.writes
        /\ g.failed = (f.failed \/ bad)
    BY DEF After, Frames
  <1>3. DOMAIN f = {"kind", "todo", "outputs", "writes", "params", "stop", "via", "failed", "rest", "wrote"}
    BY DEF Frames
  <1>4. /\ Tail(f.todo) \in Seq(Steps) /\ <<>> \in Seq(Steps)
        /\ Range(Tail(f.todo)) \subseteq Range(f.todo) /\ Range(<<>>) = {}
    BY <1>1 DEF Range
  <1> HIDE DEF g
  <1>5. g \in Frames
    BY <1>1, <1>2, <1>3, <1>4 DEF Frames
  <1>6. Range(g.todo) \subseteq Range(f.todo)
    BY <1>2, <1>4
  <1>7. QED
    BY <1>2, <1>5, <1>6 DEF g

LEMMA FrameIs ==
  ASSUME NEW kind \in FrameKinds, NEW todo \in Seq(Steps), NEW outputs \in SUBSET STRING,
         NEW params \in SUBSET STRING, NEW stop \in BOOLEAN, NEW via \in {"plain", "declared"}
  PROVE  Frame(kind, todo, outputs, params, stop, via) \in Frames
  <1>1. <<>> \in Seq(Seq(Steps))
    OBVIOUS
  <1>2. QED
    BY <1>1 DEF Frame, Frames

LEMMA BranchIs ==
  ASSUME NEW f \in Frames, NEW branches \in Seq(Seq(Steps)), branches # <<>>
  PROVE  /\ Branch(f, branches) \in Frames /\ Branch(f, branches).kind = "branch"
         /\ Branch(f, branches).todo = branches[1] /\ Branch(f, branches).rest = Tail(branches)
         /\ Branch(f, branches).outputs = f.outputs /\ Branch(f, branches).writes = {}
         /\ Branch(f, branches).via = f.via /\ Branch(f, branches).params = f.params
         /\ Branch(f, branches).stop = TRUE
  <1> DEFINE b == Frame("branch", branches[1], f.outputs, f.params, TRUE, f.via)
             g == Branch(f, branches)
  <1>1. branches[1] \in Seq(Steps) /\ Tail(branches) \in Seq(Seq(Steps))
    OBVIOUS
  <1>f. f.outputs \in SUBSET STRING /\ f.params \in SUBSET STRING /\ f.via \in {"plain", "declared"}
    BY DEF Frames
  <1>b. b = [kind |-> "branch", todo |-> branches[1], outputs |-> f.outputs, writes |-> {}, params |-> f.params,
             stop |-> TRUE, via |-> f.via, failed |-> FALSE, rest |-> <<>>, wrote |-> {}]
    BY DEF Frame
  <1>g. g = [b EXCEPT !.rest = Tail(branches)]
    BY DEF Branch
  <1> HIDE DEF b, g
  <1>2. /\ DOMAIN g = DOMAIN b /\ g = [x \in DOMAIN g |-> g[x]]
        /\ g.kind = "branch" /\ g.todo = branches[1] /\ g.outputs = f.outputs /\ g.writes = {}
        /\ g.params = f.params /\ g.stop = TRUE /\ g.via = f.via /\ g.failed = FALSE
        /\ g.rest = Tail(branches) /\ g.wrote = {}
    BY <1>b, <1>g
  <1>d. DOMAIN b = {"kind", "todo", "outputs", "writes", "params", "stop", "via", "failed", "rest", "wrote"}
    BY <1>b
  <1>3. g \in Frames
    BY <1>1, <1>2, <1>f, <1>d DEF Frames, FrameKinds
  <1>4. QED
    BY <1>2, <1>3 DEF g

Copied(do, k, before) == IF k = 0 THEN <<>> ELSE do \o before

LEMMA CopiesAre ==
  ASSUME NEW X, NEW do \in Seq(X), NEW n \in Nat
  PROVE  \E copies \in [0..n -> Seq(X)] :
           /\ \A k \in 0..n : copies[k] = Copied(do, k, copies[k - 1])
           /\ Copies(do, n) = copies[n]
  <1> DEFINE V == Seq(X)
             G == [p \in V \X (1..n) |-> Copied(do, p[2], p[1])]
             is(f) == f = [k \in 0..n |-> IF k = 0 THEN <<>> ELSE do \o f[k - 1]]
             q == CHOOSE f : is(f)
  <1>1. <<>> \in V
    OBVIOUS
  <1>2. \A v \in V, k \in 1..n : G[<<v, k>>] = Copied(do, k, v)
    OBVIOUS
  <1>3. \A v \in V, k \in 1..n : Copied(do, k, v) \in V
    <2>1. \A v \in V : do \o v \in V
      OBVIOUS
    <2>2. QED
      BY <1>1, <2>1 DEF Copied
  <1>o. Copies(do, n) = q[n]
    BY DEF Copies
  <1> HIDE DEF V, G
  <1>4. PICK f \in [0..n -> V] : f[0] = <<>> /\ \A k \in 1..n : f[k] = G[<<f[k - 1], k>>]
    <2>1. Stepping(n, V, G)
      BY <1>2, <1>3 DEF Stepping
    <2>2. Lists(n, V, <<>>, G) # {}
      BY <1>1, <2>1, PrefixRecursion
    <2>3. QED
      BY <2>2 DEF Lists
  <1>5. \A k \in 0..n : f[k] = Copied(do, k, f[k - 1])
    <2> TAKE k \in 0..n
    <2>1. CASE k = 0
      BY <2>1, <1>4 DEF Copied
    <2>2. CASE k # 0
      <3>1. k \in 1..n /\ k - 1 \in 0..n
        BY <2>2
      <3>2. QED
        BY <3>1, <1>2, <1>4
    <2>3. QED
      BY <2>1, <2>2
  <1>6. f = [k \in 0..n |-> f[k]]
    OBVIOUS
  <1>7. is(f)
    BY <1>5, <1>6 DEF Copied
  <1>8. is(q)
    BY <1>7
  <1>9. \A k \in 0..n : q[k] = Copied(do, k, q[k - 1])
    BY <1>8 DEF Copied
  <1>10. q = [k \in 0..n |-> q[k]]
    BY <1>8
  <1> HIDE DEF q
  <1> DEFINE J == {k \in 0..n : q[k] \in V}
  <1>11. 0 \in J
    BY <1>1, <1>9 DEF Copied
  <1>12. ASSUME NEW k \in 1..n, k - 1 \in J PROVE k \in J
    <2>1. q[k] = Copied(do, k, q[k - 1]) /\ q[k - 1] \in V
      BY <1>9, <1>12
    <2>2. QED
      BY <2>1, <1>3
  <1> HIDE DEF J
  <1>13. \A k \in 0..n : k \in J
    BY <1>11, <1>12, CountUp
  <1>14. q \in [0..n -> V]
    BY <1>10, <1>13 DEF J
  <1>15. QED
    BY <1>9, <1>o, <1>14 DEF V

-----------------------------------------------------------------------------
(* Providers: what a verb of theirs is.                                    *)
LEMMA InstanceIs ==
  ASSUME NEW docs, NEW defs \in Seq(Of(docs, "Provider")), NEW providers,
         NEW n \in DOMAIN Instances(defs, providers)
  PROVE  \/ /\ Instances(defs, providers)[n].def = <<>>
            /\ \E type \in DOMAIN Factories : Instances(defs, providers)[n].specs = Factories[type]
         \/ /\ Instances(defs, providers)[n].def # <<>>
            /\ Instances(defs, providers)[n].def[1] \in Of(docs, "Provider")
  <1> DEFINE cfg == providers[n]
             found == FindLocalProvider(defs, cfg.use)
             type == IF cfg.source = "" THEN n ELSE cfg.source
             inst == Instances(defs, providers)[n]
  <1>1. inst \in Configure(defs, n, cfg)
    BY DEF Instances
  <1>2. Configure(defs, n, cfg) =
          IF cfg.use # <<>>
          THEN IF Len(found) = 1 THEN {[def |-> found, specs |-> <<>>]} ELSE {}
          ELSE IF type \in DOMAIN Factories /\ cfg.config \notin BadConfigs
               THEN {[def |-> <<>>, specs |-> Factories[type]]} ELSE {}
    BY DEF Configure
  <1>3. found \in Seq(Of(docs, "Provider"))
    BY ThoseAre DEF FindLocalProvider
  <1> HIDE DEF found, type, cfg, inst
  <1>4. CASE cfg.use # <<>>
    <2>1. inst = [def |-> found, specs |-> <<>>] /\ Len(found) = 1
      BY <1>1, <1>2, <1>4
    <2>2. found # <<>> /\ found[1] \in Of(docs, "Provider")
      <3> HIDE DEF Of
      <3>1. \A S, t : t \in Seq(S) /\ Len(t) = 1 => t # <<>> /\ t[1] \in S
        OBVIOUS
      <3>2. QED
        BY <1>3, <2>1, <3>1
    <2>3. inst.def = found
      BY <2>1
    <2>4. QED
      BY <2>2, <2>3 DEF inst
  <1>5. CASE cfg.use = <<>>
    <2>1. inst = [def |-> <<>>, specs |-> Factories[type]] /\ type \in DOMAIN Factories
      BY <1>1, <1>2, <1>5
    <2>2. inst.def = <<>> /\ inst.specs = Factories[type]
      BY <2>1
    <2>3. QED
      BY <2>1, <2>2 DEF inst
  <1>6. QED
    BY <1>4, <1>5

(* A resolved run: value is a builtin or a verb of an instance.            *)
LEMMA ResolvedIs ==
  ASSUME NEW insts, NEW run \in DOMAIN Specs(insts)
  PROVE  \/ ~Dotted(run) /\ \E b \in DOMAIN Builtins : run = <<b>> /\ run[1] = b
         \/ Dotted(run) /\ run[1] \in DOMAIN insts /\ run[2] \in DOMAIN Verbs(insts[run[1]])
  <1>1. CASE \E b \in DOMAIN Builtins : run = <<b>>
    <2>1. PICK b \in DOMAIN Builtins : run = <<b>>
      BY <1>1
    <2>2. run[1] = b /\ Len(run) = 1
      BY <2>1
    <2>3. QED
      BY <2>1, <2>2 DEF Dotted
  <1>2. CASE \E n \in DOMAIN insts : \E v \in DOMAIN Verbs(insts[n]) : run = <<n, v>>
    <2>1. PICK n \in DOMAIN insts : \E v \in DOMAIN Verbs(insts[n]) : run = <<n, v>>
      BY <1>2
    <2>2. PICK v \in DOMAIN Verbs(insts[n]) : run = <<n, v>>
      BY <2>1
    <2>3. run[1] = n /\ run[2] = v /\ Len(run) = 2
      BY <2>2
    <2>4. QED
      BY <2>1, <2>2, <2>3 DEF Dotted
  <1>3. QED
    BY <1>1, <1>2 DEF Specs

VerbOf(insts, run) == Verbs(insts[run[1]])[run[2]]

FieldsOf(g, f) ==
  /\ g.kind = f.kind /\ g.todo = f.todo /\ g.params = f.params /\ g.stop = f.stop /\ g.via = f.via
  /\ g.rest = f.rest /\ g.wrote = f.wrote

LEMMA BoundIs ==
  ASSUME NEW f \in Frames, NEW outputs \in SUBSET STRING, NEW writes \in SUBSET STRING
  PROVE  /\ [f EXCEPT !.outputs = outputs, !.writes = writes] \in Frames
         /\ FieldsOf([f EXCEPT !.outputs = outputs, !.writes = writes], f)
         /\ [f EXCEPT !.outputs = outputs, !.writes = writes].outputs = outputs
         /\ [f EXCEPT !.outputs = outputs, !.writes = writes].writes = writes
         /\ [f EXCEPT !.outputs = outputs, !.writes = writes].failed = f.failed
         /\ [f EXCEPT !.outputs = outputs] \in Frames
         /\ FieldsOf([f EXCEPT !.outputs = outputs], f)
         /\ [f EXCEPT !.outputs = outputs].outputs = outputs
         /\ [f EXCEPT !.outputs = outputs].writes = f.writes
         /\ [f EXCEPT !.outputs = outputs].failed = f.failed
  <1> DEFINE g == [f EXCEPT !.outputs = outputs, !.writes = writes]
             h == [f EXCEPT !.outputs = outputs]
  <1>1. /\ f.kind \in FrameKinds /\ f.todo \in Seq(Steps)
        /\ f.outputs \in SUBSET STRING /\ f.writes \in SUBSET STRING /\ f.params \in SUBSET STRING
        /\ f.stop \in BOOLEAN /\ f.via \in {"plain", "declared"} /\ f.failed \in BOOLEAN
        /\ f.rest \in Seq(Seq(Steps)) /\ f.wrote \in SUBSET STRING
        /\ DOMAIN f = {"kind", "todo", "outputs", "writes", "params", "stop", "via", "failed", "rest", "wrote"}
    BY DEF Frames
  <1>2. /\ DOMAIN g = DOMAIN f /\ g = [x \in DOMAIN g |-> g[x]] /\ FieldsOf(g, f)
        /\ g.outputs = outputs /\ g.writes = writes /\ g.failed = f.failed
    BY <1>1 DEF FieldsOf
  <1>3. /\ DOMAIN h = DOMAIN f /\ h = [x \in DOMAIN h |-> h[x]] /\ FieldsOf(h, f)
        /\ h.outputs = outputs /\ h.writes = f.writes /\ h.failed = f.failed
    BY <1>1 DEF FieldsOf
  <1> HIDE DEF g, h
  <1>4. g \in Frames
    BY <1>1, <1>2 DEF Frames, FieldsOf
  <1>5. h \in Frames
    BY <1>1, <1>3 DEF Frames, FieldsOf
  <1>6. QED
    BY <1>2, <1>3, <1>4, <1>5 DEF g, h

NextOf(f, wrote, failed) == [f EXCEPT !.wrote = wrote, !.failed = failed]

LEMMA NextIs ==
  ASSUME NEW f \in Frames, NEW wrote \in SUBSET STRING, NEW failed \in BOOLEAN
  PROVE  /\ NextOf(f, wrote, failed) \in Frames
         /\ NextOf(f, wrote, failed).wrote = wrote /\ NextOf(f, wrote, failed).failed = failed
         /\ NextOf(f, wrote, failed).kind = f.kind /\ NextOf(f, wrote, failed).todo = f.todo
         /\ NextOf(f, wrote, failed).rest = f.rest /\ NextOf(f, wrote, failed).stop = f.stop
         /\ NextOf(f, wrote, failed).via = f.via /\ NextOf(f, wrote, failed).params = f.params
         /\ NextOf(f, wrote, failed).outputs = f.outputs /\ NextOf(f, wrote, failed).writes = f.writes
  <1> DEFINE g == NextOf(f, wrote, failed)
  <1>1. /\ f.kind \in FrameKinds /\ f.todo \in Seq(Steps)
        /\ f.outputs \in SUBSET STRING /\ f.writes \in SUBSET STRING /\ f.params \in SUBSET STRING
        /\ f.stop \in BOOLEAN /\ f.via \in {"plain", "declared"} /\ f.failed \in BOOLEAN
        /\ f.rest \in Seq(Seq(Steps)) /\ f.wrote \in SUBSET STRING
        /\ DOMAIN f = {"kind", "todo", "outputs", "writes", "params", "stop", "via", "failed", "rest", "wrote"}
    BY DEF Frames
  <1>2. /\ DOMAIN g = DOMAIN f /\ g = [x \in DOMAIN g |-> g[x]]
        /\ g.wrote = wrote /\ g.failed = failed
        /\ g.kind = f.kind /\ g.todo = f.todo /\ g.params = f.params /\ g.stop = f.stop /\ g.via = f.via
        /\ g.rest = f.rest /\ g.outputs = f.outputs /\ g.writes = f.writes
    BY <1>1 DEF NextOf
  <1> HIDE DEF g
  <1>3. g \in Frames
    BY <1>1, <1>2 DEF Frames
  <1>4. QED
    BY <1>2, <1>3 DEF g

SectionFrame(sec, outputs) == Frame("section", sec.steps, outputs, {}, Stops(sec.name), "plain")

LEMMA SectionIs ==
  ASSUME NEW sec \in Headings, NEW outputs \in SUBSET STRING
  PROVE  /\ SectionFrame(sec, outputs) \in Frames
         /\ <<SectionFrame(sec, outputs)>> \in Seq(Frames) /\ Shape(<<SectionFrame(sec, outputs)>>)
  <1> DEFINE g == SectionFrame(sec, outputs)
  <1>1. sec.steps \in Seq(Steps) /\ Stops(sec.name) \in BOOLEAN
    BY DEF Headings, Stops
  <1>2. g \in Frames
    BY <1>1, FrameIs DEF SectionFrame, FrameKinds
  <1>3. g.kind = "section"
    BY DEF SectionFrame, Frame
  <1> HIDE DEF g
  <1>4. <<g>> \in Seq(Frames) /\ DOMAIN <<g>> = {1} /\ Len(<<g>>) = 1 /\ <<g>>[1] = g
    BY <1>2
  <1>5. Shape(<<g>>)
    BY <1>3, <1>4 DEF Shape
  <1>6. QED
    BY <1>2, <1>4, <1>5 DEF g

(* The sections of a run, each with its steps.                             *)
SectionsOf(sc) ==
  LET secs == Sections(sc)
  IN <<secs[1], secs[2], secs[3], [name |-> "recovery", steps |-> sc.steady], secs[4], secs[5]>>

LEMMA SectionsAre ==
  ASSUME NEW sc, {sc.setup, sc.steady, sc.method, sc.verify, sc.teardown} \subseteq Seq(Steps)
  PROVE  SectionsOf(sc) \in Seq(Headings)
  <1> DEFINE a == [name |-> "setup", steps |-> sc.setup]
             b == [name |-> "steadyState", steps |-> sc.steady]
             c == [name |-> "method", steps |-> sc.method]
             d == [name |-> "recovery", steps |-> sc.steady]
             e == [name |-> "verify", steps |-> sc.verify]
             f == [name |-> "teardown", steps |-> sc.teardown]
  <1>1. a \in Headings /\ b \in Headings /\ c \in Headings /\ d \in Headings /\ e \in Headings /\ f \in Headings
    <2>1. /\ sc.setup \in Seq(Steps) /\ sc.steady \in Seq(Steps) /\ sc.method \in Seq(Steps)
          /\ sc.verify \in Seq(Steps) /\ sc.teardown \in Seq(Steps)
      OBVIOUS
    <2>2. a \in Headings /\ b \in Headings /\ c \in Headings
      BY <2>1 DEF Headings, SectionNames
    <2>3. d \in Headings /\ e \in Headings /\ f \in Headings
      BY <2>1 DEF Headings, SectionNames
    <2>4. QED
      BY <2>2, <2>3
  <1>2. SectionsOf(sc) = <<a, b, c, d, e, f>>
    <2>1. Sections(sc) = <<a, b, c, e, f>>
      BY DEF Sections
    <2> HIDE DEF a, b, c, e, f
    <2>2. QED
      BY <2>1 DEF SectionsOf
  <1> HIDE DEF a, b, c, d, e, f
  <1>3. <<a, b, c, d, e, f>> \in Seq(Headings)
    BY <1>1
  <1>4. QED
    BY <1>2, <1>3

LEMMA NestedBelow ==
  ASSUME NEW st \in Steps, NEW s \in Range(st.nested)
  PROVE  s \in Steps /\ StepHeight[s] < StepHeight[st]
  <1>1. st.nested \in Seq(Steps)
    BY StepsAssumption
  <1>2. s \in Steps
    BY <1>1 DEF Range
  <1>3. s \in UNION {Range(b) : b \in Range(st.branches) \cup {st.nested, st.do}}
    OBVIOUS
  <1>4. QED
    BY <1>2, <1>3, StepsAssumption

LEMMA NoErrors ==
  ASSUME NEW defs, NEW providers, NewErrors(defs, providers) = {}
  PROVE  \A b \in Bodies(Instances(defs, providers)) :
           ~TooDeep(Instances(defs, providers), b) /\ ~Unknown(Instances(defs, providers), b)
  <1> DEFINE insts == Instances(defs, providers)
  <1>1. NewErrors(defs, providers) =
          IF DOMAIN insts # DOMAIN providers THEN {"refused"}
          ELSE (IF \E b \in Bodies(insts) : Unknown(insts, b) THEN {"refused"} ELSE {})
               \cup (IF \E b \in Bodies(insts) : TooDeep(insts, b) THEN {"nesting"} ELSE {})
    BY DEF NewErrors
  <1> HIDE DEF insts
  <1>2. \A b \in Bodies(insts) : ~TooDeep(insts, b) /\ ~Unknown(insts, b)
    BY <1>1
  <1>3. QED
    BY <1>2 DEF insts

LEMMA ProbeBody ==
  ASSUME NEW insts, NEW cv, InferredSpec(insts, cv).kind # "action", ~TooDeep(insts, cv.body),
         NEW st \in Range(cv.body), st.kind = ""
  PROVE  IF IsComposed(insts, st.run)
         THEN Exists(insts, st.run) =>
                \A s \in Range(Nested(insts, st)) :
                  s.kind = "" => ~IsComposed(insts, s.run) /\ ~Leaf(insts, s, <<>>).sideEffects
         ELSE ~Leaf(insts, st, <<>>).sideEffects
  <1> DEFINE inner == [run \in {s.run : s \in CallsComposed(insts, cv.body)} |->
                         BodyKind(insts, Verbs(insts[run[1]])[run[2]].body, <<>>)]
  <1>1. InferredSpec(insts, cv).kind = BodyKind(insts, cv.body, inner).kind
    BY DEF InferredSpec, Signature
  <1>2. \A run \in {s.run : s \in CallsComposed(insts, cv.body)} :
          inner[run] = BodyKind(insts, Verbs(insts[run[1]])[run[2]].body, <<>>)
    OBVIOUS
  <1> HIDE DEF inner
  <1>3. ~Mutates(insts, st, inner)
    <2>1. BodyKind(insts, cv.body, inner).kind =
            IF \E s \in Range(cv.body) : Mutates(insts, s, inner) THEN "action"
            ELSE IF \E s \in Range(cv.body) : Asserts(insts, s, inner) THEN "assertion" ELSE "probe"
      BY DEF BodyKind
    <2>2. QED
      BY <1>1, <2>1
  <1>4. ~Leaf(insts, st, inner).sideEffects
    BY <1>3 DEF Mutates
  <1>5. CASE ~IsComposed(insts, st.run)
    <2>1. Leaf(insts, st, inner) = Leaf(insts, st, <<>>)
      BY <1>5 DEF Leaf
    <2>2. QED
      BY <1>4, <1>5, <2>1
  <1>6. CASE IsComposed(insts, st.run)
    <2> SUFFICES ASSUME Exists(insts, st.run), NEW s \in Range(Nested(insts, st)), s.kind = ""
                 PROVE  ~IsComposed(insts, s.run) /\ ~Leaf(insts, s, <<>>).sideEffects
      BY <1>6
    <2>1. st \in CallsComposed(insts, cv.body)
      BY <1>6 DEF CallsComposed, Inferred
    <2>2. inner[st.run] = BodyKind(insts, Nested(insts, st), <<>>)
      BY <1>2, <2>1 DEF Nested
    <2>3. Leaf(insts, st, inner) = inner[st.run]
      BY <1>6 DEF Leaf, IsComposed
    <2>4. ~BodyKind(insts, Nested(insts, st), <<>>).sideEffects
      BY <1>4, <2>2, <2>3
    <2>5. ~Mutates(insts, s, <<>>)
      <3>1. BodyKind(insts, Nested(insts, st), <<>>).sideEffects =
              (\E t \in Range(Nested(insts, st)) : Mutates(insts, t, <<>>))
        BY DEF BodyKind
      <3>2. QED
        BY <2>4, <3>1
    <2>6. CallsComposed(insts, Nested(insts, st)) = {}
      BY <2>1 DEF TooDeep
    <2>7. ~IsComposed(insts, s.run)
      BY <2>6 DEF CallsComposed, Inferred
    <2>8. QED
      BY <2>5, <2>7 DEF Mutates
  <1>7. QED
    BY <1>5, <1>6

LEMMA BackgroundIs == Builtins["background"].kind = "action" /\ Builtins["background"].sideEffects
  BY DEF Builtins, Spec0

-----------------------------------------------------------------------------
(* The names an expression is seen to read: namespace and name.            *)
Pairs == STRING \X (STRING \cup {""})

LEMMA PairIn ==
  ASSUME NEW A, NEW B, NEW a \in A, NEW b \in B
  PROVE  <<a, b>> \in A \X B
  OBVIOUS

LEMMA FieldIs ==
  ASSUME NEW path \in Seq(STRING), path # <<>>
  PROVE  FieldRef(path) \in Pairs
  <1>1. Len(path) \in Nat \ {0} /\ \A i \in 1..Len(path) : path[i] \in STRING
    OBVIOUS
  <1>2. path[1] \in STRING /\ (Len(path) > 1 => path[2] \in STRING)
    BY <1>1
  <1>3. (IF Len(path) > 1 THEN path[2] ELSE "") \in STRING \cup {""}
    BY <1>2
  <1> DEFINE a == path[1]  b == IF Len(path) > 1 THEN path[2] ELSE ""
             A == STRING  B == STRING \cup {""}
  <1>4. FieldRef(path) = <<a, b>>
    BY DEF FieldRef
  <1>5. a \in A /\ b \in B
    BY <1>2, <1>3
  <1> HIDE DEF a, b, A, B
  <1>6. FieldRef(path) \in A \X B
    BY <1>4, <1>5, PairIn
  <1>7. QED
    BY <1>6 DEF Pairs, A, B

LEMMA WalkIs ==
  ASSUME NEW e \in Exprs, NEW f, \A p \in PartsOf(e) : f[p] \in SUBSET Pairs
  PROVE  Walk(f, e) \in SUBSET Pairs
  <1>1. e.op \in {"field", "pipe", "both", "call"} /\ (e.op = "field" => e.path \in Seq(STRING) /\ e.path # <<>>)
    BY ExprsAssumption
  <1>2. CASE e.op = "field"
    <2>1. Walk(f, e) = {FieldRef(e.path)}
      BY <1>2 DEF Walk
    <2>2. QED
      BY <1>1, <1>2, <2>1, FieldIs
  <1>3. CASE e.op = "pipe"
    BY <1>3 DEF Walk, PartsOf
  <1>4. CASE e.op = "both"
    BY <1>4 DEF Walk, PartsOf
  <1>5. CASE e.op = "call"
    BY <1>5 DEF Walk
  <1>6. QED
    BY <1>1, <1>2, <1>3, <1>4, <1>5

LEMMA WalkLocal ==
  ASSUME NEW e \in Exprs, NEW f, NEW g, \A p \in PartsOf(e) : f[p] = g[p]
  PROVE  Walk(f, e) = Walk(g, e)
  <1>1. e.op \in {"field", "pipe", "both", "call"}
    BY ExprsAssumption
  <1>2. CASE e.op = "field"
    BY <1>2 DEF Walk
  <1>3. CASE e.op = "pipe"
    BY <1>3 DEF Walk, PartsOf
  <1>4. CASE e.op = "both"
    BY <1>4 DEF Walk, PartsOf
  <1>5. CASE e.op = "call"
    BY <1>5 DEF Walk
  <1>6. QED
    BY <1>1, <1>2, <1>3, <1>4, <1>5

RefTable == CHOOSE f : f = [x \in Exprs |-> Walk(f, x)]

LEMMA RefsSolved ==
  ASSUME NEW e \in Exprs
  PROVE  NSRefs(e) = RefTable[e] /\ RefTable[e] = Walk(RefTable, e) /\ RefTable[e] \in SUBSET Pairs
  <1> DEFINE S == Exprs
             h == ExprHeight
             V == [x \in S |-> SUBSET Pairs]
             T == Tables(S, V)
             F == [p \in T \X S |-> Walk(p[1], p[2])]
             is(f) == f = [x \in S |-> Walk(f, x)]
             q == RefTable
  <1>1. \A f \in T, x \in S : F[<<f, x>>] = Walk(f, x)
    OBVIOUS
  <1>2. \A x \in S : h[x] \in Nat /\ V[x] = SUBSET Pairs
    BY ExprsAssumption
  <1>3. \A x \in S : \A p \in PartsOf(x) : p \in S /\ h[p] < h[x]
    BY ExprsAssumption
  <1>4. \A f \in T, x \in S : f[x] \in SUBSET Pairs
    BY <1>2 DEF Tables
  <1>5. NSRefs(e) = q[e] /\ q = CHOOSE f : is(f)
    BY DEF NSRefs, RefTable
  <1> HIDE DEF F, V, h, q
  <1>6. Lowering(S, V, h, F)
    <2>1. ASSUME NEW f \in T, NEW x \in S PROVE F[<<f, x>>] \in V[x]
      <3>1. \A p \in PartsOf(x) : f[p] \in SUBSET Pairs
        BY <1>3, <1>4
      <3>2. Walk(f, x) \in SUBSET Pairs
        BY <3>1, WalkIs
      <3>3. QED
        BY <1>1, <1>2, <3>2
    <2>2. ASSUME NEW f \in T, NEW g \in T, NEW x \in S, \A y \in S : h[y] < h[x] => f[y] = g[y]
          PROVE  F[<<f, x>>] = F[<<g, x>>]
      <3>1. \A p \in PartsOf(x) : f[p] = g[p]
        BY <1>3, <2>2
      <3>2. Walk(f, x) = Walk(g, x)
        BY <3>1, WalkLocal
      <3>3. QED
        BY <1>1, <3>2
    <2>3. \A x \in S : h[x] \in Nat /\ V[x] # {}
      BY <1>2
    <2>4. QED
      BY <2>1, <2>2, <2>3 DEF Lowering
  <1>7. PICK f \in T : \A x \in S : f[x] = F[<<f, x>>]
    <2> HIDE DEF T
    <2>1. \E f \in Tables(S, V) : \A x \in S : f[x] = F[<<f, x>>]
      BY ONLY <1>6, Recursion
    <2>2. QED
      BY <2>1 DEF T
  <1>8. is(f)
    <2>1. f = [x \in S |-> f[x]]
      BY DEF Tables
    <2>2. QED
      BY <2>1, <1>1, <1>7
  <1>9. is(q)
    BY <1>5, <1>8
  <1>10. \A x \in S : q[x] = Walk(q, x)
    BY <1>9
  <1> DEFINE B == {x \in S : q[x] \notin SUBSET Pairs}
  <1>11. B = {}
    <2> SUFFICES ASSUME B # {} PROVE FALSE
      OBVIOUS
    <2>1. PICK x \in B : \A y \in S : h[y] < h[x] => y \notin B
      <3>1. B \in SUBSET S
        OBVIOUS
      <3> HIDE DEF B
      <3>2. QED
        BY <1>2, <3>1, LowestPlace
    <2>2. \A p \in PartsOf(x) : q[p] \in SUBSET Pairs
      BY <1>3, <2>1
    <2>3. q[x] \in SUBSET Pairs
      BY <1>10, <2>2, WalkIs
    <2>4. QED
      BY <2>1, <2>3
  <1>12. QED
    BY <1>5, <1>10, <1>11 DEF q

LEMMA NamesArePairs ==
  ASSUME NEW e \in Exprs
  PROVE  NSRefs(e) \in SUBSET Pairs
  BY RefsSolved

(* What is seen of an expression, from what is seen of its parts.          *)
LEMMA NSRefsAre ==
  ASSUME NEW e \in Exprs
  PROVE  NSRefs(e) = CASE e.op = "field" -> {FieldRef(e.path)}
                       [] e.op = "pipe"  -> NSRefs(e.l)
                       [] e.op = "both"  -> NSRefs(e.l) \cup NSRefs(e.r)
                       [] e.op = "call"  -> {}
  <1>1. \A p \in PartsOf(e) : RefTable[p] = NSRefs(p)
    BY ExprsAssumption, RefsSolved
  <1>2. NSRefs(e) = Walk(RefTable, e) /\ e.op \in {"field", "pipe", "both", "call"}
    BY RefsSolved, ExprsAssumption
  <1>3. CASE e.op = "field"
    BY <1>2, <1>3 DEF Walk
  <1>4. CASE e.op = "pipe"
    BY <1>1, <1>2, <1>4 DEF Walk, PartsOf
  <1>5. CASE e.op = "both"
    BY <1>1, <1>2, <1>5 DEF Walk, PartsOf
  <1>6. CASE e.op = "call"
    BY <1>2, <1>6 DEF Walk
  <1>7. QED
    BY <1>2, <1>3, <1>4, <1>5, <1>6

LEMMA RefsArePairs ==
  ASSUME NEW st \in Steps
  PROVE  ExprsOf(st) \in SUBSET Exprs /\ RefsOf(st) \in SUBSET Pairs
  <1>1. st.reads \cup st.guard \subseteq Exprs /\ \A n \in Range(st.nested) : n.reads \subseteq Exprs
    BY NestedBelow, StepsAssumption
  <1>2. ExprsOf(st) \in SUBSET Exprs
    BY <1>1 DEF ExprsOf
  <1>3. QED
    BY <1>2, NamesArePairs DEF RefsOf

-----------------------------------------------------------------------------
(* What a step binds, with what is inside it: all of it, and what          *)
(* collectBindings sees of it.                                             *)
Inside(st, all) == Inner(st) \cup (IF all THEN Range(st.do) ELSE {})

Gathers(f, st, all) == st.binds \cup UNION {f[s] : s \in Inside(st, all)}

LEMMA InsideBelow ==
  ASSUME NEW st \in Steps, NEW all \in BOOLEAN, NEW s \in Inside(st, all)
  PROVE  s \in Steps /\ StepHeight[s] < StepHeight[st]
  <1>1. st.do \in Seq(Steps) /\ st.branches \in Seq(Seq(Steps))
    BY StepsAssumption
  <1>2. \A S, t : t \in Seq(S) => Range(t) \subseteq S
    BY DEF Range
  <1>3. s \in Steps /\ s \in UNION {Range(b) : b \in Range(st.branches) \cup {st.nested, st.do}}
    <2>1. CASE s \in Range(st.do)
      BY <1>1, <1>2, <2>1
    <2>2. CASE s \in Inner(st)
      <3>1. PICK b \in Range(st.branches) : s \in Range(b)
        BY <2>2 DEF Inner
      <3>2. b \in Seq(Steps)
        BY <1>1, <1>2, <3>1
      <3>3. QED
        BY <1>2, <3>1, <3>2
    <2>3. QED
      BY <2>1, <2>2 DEF Inside
  <1>4. QED
    BY <1>3, StepsAssumption

(* A solution of the recursion there is, and every one is typed.           *)
GatherOf(all) == CHOOSE f : f = [st \in Steps |-> Gathers(f, st, all)]

LEMMA GatherIs ==
  ASSUME NEW all \in BOOLEAN
  PROVE  \A st \in Steps : GatherOf(all)[st] \in SUBSET STRING /\ GatherOf(all)[st] = Gathers(GatherOf(all), st, all)
  <1> DEFINE S == Steps
             h == StepHeight
             V == [x \in S |-> SUBSET STRING]
             T == Tables(S, V)
             F == [p \in T \X S |-> Gathers(p[1], p[2], all)]
             is(f) == f = [x \in S |-> Gathers(f, x, all)]
             q == GatherOf(all)
  <1>1. \A f \in T, x \in S : F[<<f, x>>] = Gathers(f, x, all)
    OBVIOUS
  <1>2. \A x \in S : h[x] \in Nat /\ V[x] = SUBSET STRING /\ x.binds \subseteq STRING
    BY StepsAssumption
  <1>3. \A x \in S : \A s \in Inside(x, all) : s \in S /\ h[s] < h[x]
    BY InsideBelow
  <1>4. \A f \in T, x \in S : f[x] \in SUBSET STRING
    BY <1>2 DEF Tables
  <1>5. ASSUME NEW x \in S, NEW f, \A s \in Inside(x, all) : f[s] \in SUBSET STRING
        PROVE  Gathers(f, x, all) \in SUBSET STRING
    BY <1>2, <1>5 DEF Gathers
  <1>6. ASSUME NEW x \in S, NEW f, NEW g, \A s \in Inside(x, all) : f[s] = g[s]
        PROVE  Gathers(f, x, all) = Gathers(g, x, all)
    BY <1>6 DEF Gathers
  <1>7. q = CHOOSE f : is(f)
    BY DEF GatherOf
  <1> HIDE DEF F, V, h, q
  <1>8. Lowering(S, V, h, F)
    <2>1. ASSUME NEW f \in T, NEW x \in S PROVE F[<<f, x>>] \in V[x]
      <3>1. \A y \in Inside(x, all) : f[y] \in SUBSET STRING
        BY <1>3, <1>4
      <3>2. Gathers(f, x, all) \in SUBSET STRING
        BY <3>1, <1>5
      <3>3. QED
        BY <1>1, <1>2, <3>2
    <2>2. ASSUME NEW f \in T, NEW g \in T, NEW x \in S, \A y \in S : h[y] < h[x] => f[y] = g[y]
          PROVE  F[<<f, x>>] = F[<<g, x>>]
      <3>1. \A y \in Inside(x, all) : f[y] = g[y]
        BY <1>3, <2>2
      <3>2. Gathers(f, x, all) = Gathers(g, x, all)
        BY <3>1, <1>6
      <3>3. QED
        BY <1>1, <3>2
    <2>3. \A x \in S : h[x] \in Nat /\ V[x] # {}
      BY <1>2
    <2>4. QED
      BY <2>1, <2>2, <2>3 DEF Lowering
  <1>9. PICK f \in T : \A x \in S : f[x] = F[<<f, x>>]
    <2> HIDE DEF T
    <2>1. \E f \in Tables(S, V) : \A x \in S : f[x] = F[<<f, x>>]
      BY ONLY <1>8, Recursion
    <2>2. QED
      BY <2>1 DEF T
  <1>10. is(f)
    <2>1. f = [x \in S |-> f[x]]
      BY DEF Tables
    <2>2. QED
      BY <2>1, <1>1, <1>9
  <1>11. is(q)
    BY <1>7, <1>10
  <1>12. \A x \in S : q[x] = Gathers(q, x, all)
    BY <1>11
  <1> DEFINE B == {x \in S : q[x] \notin SUBSET STRING}
  <1>13. B = {}
    <2> SUFFICES ASSUME B # {} PROVE FALSE
      OBVIOUS
    <2>1. PICK x \in B : \A y \in S : h[y] < h[x] => y \notin B
      <3>1. B \in SUBSET S
        OBVIOUS
      <3> HIDE DEF B
      <3>2. QED
        BY <1>2, <3>1, LowestPlace
    <2>2. \A s \in Inside(x, all) : q[s] \in SUBSET STRING
      BY <1>3, <2>1
    <2>3. q[x] \in SUBSET STRING
      BY <1>5, <1>12, <2>2
    <2>4. QED
      BY <2>1, <2>3
  <1>14. QED
    BY <1>12, <1>13 DEF q

Bound(st) == GatherOf(TRUE)[st]

Seen(st) == GatherOf(FALSE)[st]

LEMMA BoundEq ==
  ASSUME NEW st \in Steps
  PROVE  /\ Bound(st) \in SUBSET STRING
         /\ Bound(st) = st.binds \cup UNION {Bound(s) : s \in Range(st.do) \cup Inner(st)}
         /\ Seen(st) \in SUBSET STRING
         /\ Seen(st) = st.binds \cup UNION {Seen(s) : s \in Inner(st)}
  <1> DEFINE p == GatherOf(TRUE)  q == GatherOf(FALSE)
  <1>1. p[st] \in SUBSET STRING /\ p[st] = st.binds \cup UNION {p[s] : s \in Inner(st) \cup Range(st.do)}
    BY GatherIs DEF Gathers, Inside
  <1>2. q[st] \in SUBSET STRING /\ q[st] = st.binds \cup UNION {q[s] : s \in Inner(st) \cup {}}
    BY GatherIs DEF Gathers, Inside
  <1>3. /\ Inner(st) \cup Range(st.do) = Range(st.do) \cup Inner(st)
        /\ Inner(st) \cup {} = Inner(st)
    OBVIOUS
  <1> HIDE DEF p, q
  <1>4. /\ p[st] \in SUBSET STRING /\ p[st] = st.binds \cup UNION {p[s] : s \in Range(st.do) \cup Inner(st)}
        /\ q[st] \in SUBSET STRING /\ q[st] = st.binds \cup UNION {q[s] : s \in Inner(st)}
    BY <1>1, <1>2, <1>3
  <1>5. QED
    BY <1>4 DEF Bound, Seen, p, q

LEMMA AllBindsAre ==
  ASSUME NEW steps
  PROVE  AllBinds(steps) = UNION {Bound(s) : s \in Range(steps)}
  <1>1. \A f : [st \in Steps |-> st.binds \cup UNION {f[s] : s \in Range(st.do) \cup Inner(st)}]
               = [st \in Steps |-> Gathers(f, st, TRUE)]
    BY DEF Gathers, Inside
  <1>2. GatherOf(TRUE) = CHOOSE f : f = [st \in Steps |-> st.binds \cup UNION {f[s] : s \in Range(st.do) \cup Inner(st)}]
    BY <1>1 DEF GatherOf
  <1>3. QED
    BY <1>2 DEF AllBinds, Bound

LEMMA BindingsAre ==
  ASSUME NEW steps
  PROVE  Bindings(steps) = UNION {Seen(s) : s \in Range(steps)}
  <1>1. \A f : [st \in Steps |-> st.binds \cup UNION {f[s] : s \in Inner(st)}]
               = [st \in Steps |-> Gathers(f, st, FALSE)]
    BY DEF Gathers, Inside
  <1>2. GatherOf(FALSE) = CHOOSE f : f = [st \in Steps |-> st.binds \cup UNION {f[s] : s \in Inner(st)}]
    BY <1>1 DEF GatherOf
  <1>3. QED
    BY <1>2 DEF Bindings, Seen

LEMMA SeenIsBound == \A st \in Steps : Seen(st) \subseteq Bound(st)
  <1> DEFINE B == {x \in Steps : ~(Seen(x) \subseteq Bound(x))}
  <1> SUFFICES ASSUME B # {} PROVE FALSE
    OBVIOUS
  <1>1. PICK x \in B : \A y \in Steps : StepHeight[y] < StepHeight[x] => y \notin B
    <2>1. B \in SUBSET Steps /\ \A y \in Steps : StepHeight[y] \in Nat
      BY StepsAssumption
    <2> HIDE DEF B
    <2>2. QED
      BY <2>1, LowestPlace
  <1>2. \A s \in Inner(x) : s \in Steps /\ Seen(s) \subseteq Bound(s)
    BY <1>1, InsideBelow DEF Inside
  <1>3. Seen(x) = x.binds \cup UNION {Seen(s) : s \in Inner(x)}
        /\ Bound(x) = x.binds \cup UNION {Bound(s) : s \in Range(x.do) \cup Inner(x)}
    BY BoundEq
  <1>4. Seen(x) \subseteq Bound(x)
    BY <1>2, <1>3
  <1>5. QED
    BY <1>1, <1>4

-----------------------------------------------------------------------------
(* The pass over a list of steps: what it reports only grows, and what it  *)
(* takes to be bound is bound by the steps it has been over.               *)
Grown(v, B) == {w \in Pass : v.out \subseteq w.out /\ w.defined \subseteq v.defined \cup B}

Spot(st, v, among) == [st |-> st, v |-> v, among |-> among]

Sofar(steps, k) == UNION {Bound(steps[j]) : j \in 1..(k - 1)}

Goes(check, steps, among) ==
  \A i \in 1..Len(steps), w \in Pass : check[Spot(steps[i], w, among)] \in Grown(w, Bound(steps[i]))

Passing(check, v, among, steps, p) ==
  /\ p \in [0..Len(steps) -> Pass] /\ p[0] = v
  /\ \A i \in 1..Len(steps) : p[i] = check[Spot(steps[i], p[i - 1], among)]
  /\ CheckSteps(check, v, among, steps) = p[Len(steps)]

(* A list of values, each made of the one before.                          *)
Made(n, V, G, q) == \A i \in 1..n : q[i - 1] \in V => q[i] = G[<<q[i - 1], i>>]

LEMMA ListIs ==
  ASSUME NEW n \in Nat, NEW V, NEW a \in V, NEW G, Stepping(n, V, G),
         NEW q, q = [i \in 0..n |-> q[i]], q[0] = a, Made(n, V, G, q)
  PROVE  q \in [0..n -> V]
  <1> DEFINE J == {i \in 0..n : q[i] \in V}
  <1>1. 0 \in J
    OBVIOUS
  <1>2. ASSUME NEW i \in 1..n, i - 1 \in J PROVE i \in J
    <2>1. q[i] = G[<<q[i - 1], i>>] /\ q[i - 1] \in V
      BY <1>2 DEF Made
    <2>2. q[i] \in V
      BY <2>1 DEF Stepping
    <2>3. i \in 0..n
      OBVIOUS
    <2>4. QED
      BY <2>2, <2>3
  <1>3. \A i \in 0..n : i \in J
    <2> HIDE DEF J
    <2>1. QED
      BY <1>1, <1>2, CountUp
  <1>4. \A i \in 0..n : q[i] \in V
    BY <1>3
  <1>5. QED
    BY <1>4

LEMMA PassIs ==
  ASSUME NEW check, NEW v \in Pass, NEW among, NEW steps \in Seq(Steps), Goes(check, steps, among)
  PROVE  \E p : Passing(check, v, among, steps, p)
  <1> DEFINE n == Len(steps)
             V == Pass
             G == [p \in V \X (1..n) |-> check[Spot(steps[p[2]], p[1], among)]]
             is(f) == f = [i \in 0..n |-> IF i = 0 THEN v
                             ELSE check[[st |-> steps[i], v |-> f[i - 1], among |-> among]]]
             q == CHOOSE f : is(f)
  <1>1. n \in Nat /\ v \in V
    OBVIOUS
  <1>2. \A w \in V, i \in 1..n : G[<<w, i>>] = check[Spot(steps[i], w, among)]
    OBVIOUS
  <1>3. \A w \in V, i \in 1..n : G[<<w, i>>] \in V
    BY <1>2 DEF Goes, Grown
  <1>o. CheckSteps(check, v, among, steps) = q[n]
    BY DEF CheckSteps
  <1>4. Stepping(n, V, G)
    BY <1>3 DEF Stepping
  <1> HIDE DEF V, G, n
  <1>5. PICK f \in [0..n -> V] : f[0] = v /\ \A i \in 1..n : f[i] = G[<<f[i - 1], i>>]
    <2>1. Lists(n, V, v, G) # {}
      BY <1>1, <1>4, PrefixRecursion
    <2>2. QED
      BY <2>1 DEF Lists
  <1>6. \A i \in 0..n : f[i] = IF i = 0 THEN v ELSE check[Spot(steps[i], f[i - 1], among)]
    <2> TAKE i \in 0..n
    <2>1. CASE i = 0
      BY <2>1, <1>5
    <2>2. CASE i # 0
      <3>1. i \in 1..n /\ i - 1 \in 0..n
        BY <1>1, <2>2
      <3>2. f[i - 1] \in V
        BY <3>1
      <3>3. QED
        BY <2>2, <3>1, <3>2, <1>2, <1>5
    <2>3. QED
      BY <2>1, <2>2
  <1>7. f = [i \in 0..n |-> f[i]]
    OBVIOUS
  <1>8. is(f)
    BY <1>6, <1>7, Zenon DEF Spot
  <1>9. is(q)
    BY <1>8
  <1>10. q = [i \in 0..n |-> q[i]]
    BY <1>9
  <1>11. \A i \in 0..n : q[i] = IF i = 0 THEN v ELSE check[Spot(steps[i], q[i - 1], among)]
    BY <1>9 DEF Spot
  <1> HIDE DEF q
  <1>12. q[0] = v
    BY <1>1, <1>11
  <1>13. \A i \in 1..n : q[i] = check[Spot(steps[i], q[i - 1], among)]
    <2>1. \A i \in 1..n : i \in 0..n /\ i # 0
      BY <1>1
    <2>2. QED
      BY <2>1, <1>11
  <1>14. Made(n, V, G, q)
    BY <1>2, <1>13 DEF Made
  <1>15. q \in [0..n -> V]
    BY ONLY <1>1, <1>4, <1>10, <1>12, <1>14, ListIs
  <1>16. Passing(check, v, among, steps, q)
    BY <1>o, <1>12, <1>13, <1>15 DEF Passing, n, V
  <1>17. QED
    BY <1>16

LEMMA SofarIs ==
  ASSUME NEW steps \in Seq(Steps)
  PROVE  /\ Sofar(steps, 1) = {}
         /\ \A i \in 1..Len(steps) : Sofar(steps, i + 1) = Sofar(steps, i) \cup Bound(steps[i])
         /\ Sofar(steps, Len(steps) + 1) = AllBinds(steps)
         /\ \A i \in 1..Len(steps) : Sofar(steps, i) \cup Bound(steps[i]) \subseteq AllBinds(steps)
  <1> DEFINE n == Len(steps)
  <1>1. n \in Nat /\ DOMAIN steps = 1..n
    OBVIOUS
  <1>2. Sofar(steps, 1) = {}
    <2>1. 1..(1 - 1) = {}
      OBVIOUS
    <2>2. QED
      BY <2>1 DEF Sofar
  <1>3. ASSUME NEW i \in 1..n PROVE Sofar(steps, i + 1) = Sofar(steps, i) \cup Bound(steps[i])
    <2>1. 1..(i + 1 - 1) = (1..(i - 1)) \cup {i}
      OBVIOUS
    <2>2. QED
      BY <2>1 DEF Sofar
  <1>4. Sofar(steps, n + 1) = AllBinds(steps)
    <2>1. 1..(n + 1 - 1) = DOMAIN steps
      BY <1>1
    <2>2. AllBinds(steps) = UNION {Bound(s) : s \in Range(steps)}
      BY AllBindsAre
    <2>3. UNION {Bound(s) : s \in Range(steps)} = UNION {Bound(steps[j]) : j \in DOMAIN steps}
      BY DEF Range
    <2>4. QED
      BY <2>1, <2>2, <2>3 DEF Sofar
  <1>5. ASSUME NEW i \in 1..n PROVE Sofar(steps, i) \cup Bound(steps[i]) \subseteq AllBinds(steps)
    <2>1. 1..(i - 1) \subseteq 1..(n + 1 - 1) /\ i \in 1..(n + 1 - 1)
      BY <1>1
    <2>2. QED
      BY <2>1, <1>4 DEF Sofar
  <1>6. QED
    BY <1>2, <1>3, <1>4, <1>5

LEMMA PassGrows ==
  ASSUME NEW check, NEW v \in Pass, NEW among, NEW steps \in Seq(Steps), Goes(check, steps, among),
         NEW p, Passing(check, v, among, steps, p)
  PROVE  /\ \A i \in 0..Len(steps) :
              p[i] \in Pass /\ p[i].out \subseteq p[Len(steps)].out
              /\ p[i].defined \subseteq v.defined \cup Sofar(steps, i + 1)
         /\ CheckSteps(check, v, among, steps) \in Grown(v, AllBinds(steps))
  <1> DEFINE n == Len(steps)
             J == {i \in 0..n : p[i].defined \subseteq v.defined \cup Sofar(steps, i + 1)
                                /\ \A k \in 0..i : p[k].out \subseteq p[i].out}
  <1>1. n \in Nat /\ p \in [0..n -> Pass] /\ p[0] = v /\ CheckSteps(check, v, among, steps) = p[n]
    BY DEF Passing
  <1>2. \A i \in 1..n : p[i] \in Grown(p[i - 1], Bound(steps[i]))
    <2>1. \A i \in 1..n : i - 1 \in 0..n
      BY <1>1
    <2>2. \A i \in 1..n : p[i - 1] \in Pass
      BY <1>1, <2>1
    <2>3. QED
      BY <2>2 DEF Goes, Passing
  <1>b. Sofar(steps, 1) = {} /\ \A i \in 1..n : Sofar(steps, i + 1) = Sofar(steps, i) \cup Bound(steps[i])
        /\ Sofar(steps, n + 1) = AllBinds(steps)
    BY SofarIs
  <1> HIDE DEF n
  <1>3. 0 \in J
    <2>1. 0 \in 0..n /\ 0..0 = {0} /\ 0 + 1 = 1
      BY <1>1
    <2>2. QED
      BY <2>1, <1>1
  <1>4. ASSUME NEW i \in 1..n, i - 1 \in J PROVE i \in J
    <2>1. i \in 0..n /\ 0..i = (0..(i - 1)) \cup {i} /\ i - 1 + 1 = i
      BY <1>1
    <2>2. p[i].out \in SUBSET p[i].out /\ p[i - 1].out \subseteq p[i].out
          /\ p[i].defined \subseteq p[i - 1].defined \cup Bound(steps[i])
      BY <1>2 DEF Grown
    <2>3. p[i - 1].defined \subseteq v.defined \cup Sofar(steps, i) /\ \A k \in 0..(i - 1) : p[k].out \subseteq p[i - 1].out
      BY <1>4, <2>1
    <2>4. p[i].defined \subseteq v.defined \cup Sofar(steps, i + 1)
      BY <1>b, <2>2, <2>3
    <2>5. \A k \in 0..i : p[k].out \subseteq p[i].out
      BY <2>1, <2>2, <2>3
    <2>6. QED
      BY <2>1, <2>4, <2>5
  <1>5. \A i \in 0..n : i \in J
    <2> HIDE DEF J
    <2>1. QED
      BY <1>1, <1>3, <1>4, CountUp
  <1>6. n \in 0..n /\ 0 \in 0..n
    BY <1>1
  <1>7. \A i \in 0..n : p[i].out \subseteq p[n].out
    BY <1>5, <1>6
  <1>8. \A i \in 0..n : p[i].defined \subseteq v.defined \cup Sofar(steps, i + 1)
    BY <1>5
  <1>9. \A i \in 0..n : p[i] \in Pass
    BY <1>1
  <1>10. p[n] \in Grown(v, AllBinds(steps))
    BY <1>1, <1>6, <1>7, <1>8, <1>9, <1>b DEF Grown
  <1>11. QED
    BY <1>1, <1>7, <1>8, <1>9, <1>10 DEF n

(* Two checkers that agree on the steps of a list agree on it.             *)
LEMMA PassSame ==
  ASSUME NEW check, NEW other, NEW v \in Pass, NEW among, NEW steps \in Seq(Steps),
         Goes(check, steps, among), Goes(other, steps, among),
         \A i \in 1..Len(steps), w \in Pass : check[Spot(steps[i], w, among)] = other[Spot(steps[i], w, among)]
  PROVE  CheckSteps(check, v, among, steps) = CheckSteps(other, v, among, steps)
  <1> DEFINE n == Len(steps)
  <1>1. PICK p : Passing(check, v, among, steps, p)
    BY PassIs
  <1>2. PICK q : Passing(other, v, among, steps, q)
    BY PassIs
  <1> DEFINE J == {i \in 0..n : p[i] = q[i]}
  <1>3. n \in Nat /\ p \in [0..n -> Pass] /\ p[0] = q[0]
        /\ CheckSteps(check, v, among, steps) = p[n] /\ CheckSteps(other, v, among, steps) = q[n]
    BY <1>1, <1>2 DEF Passing
  <1>4. \A i \in 1..n : p[i] = check[Spot(steps[i], p[i - 1], among)] /\ q[i] = other[Spot(steps[i], q[i - 1], among)]
    BY <1>1, <1>2 DEF Passing
  <1>5. 0 \in J
    BY <1>3
  <1>6. ASSUME NEW i \in 1..n, i - 1 \in J PROVE i \in J
    <2>1. i \in 0..n /\ i - 1 \in 0..n
      BY <1>3
    <2>2. p[i - 1] \in Pass /\ p[i - 1] = q[i - 1]
      BY <1>3, <1>6, <2>1
    <2>3. p[i] = q[i]
      BY <1>4, <2>2
    <2>4. QED
      BY <2>1, <2>3
  <1>7. \A i \in 0..n : i \in J
    <2> HIDE DEF J, n
    <2>1. QED
      BY <1>3, <1>5, <1>6, CountUp
  <1>8. n \in 0..n
    BY <1>3
  <1>9. QED
    BY <1>3, <1>7, <1>8

-----------------------------------------------------------------------------
(* What the checks of a step report, and that they keep to their shape.    *)
PassFields == {"defined", "bg", "out", "captures", "flags"}

LEMMA PassMade ==
  ASSUME NEW w, w = [x \in DOMAIN w |-> w[x]], DOMAIN w = PassFields,
         w.defined \in SUBSET STRING, w.bg \in SUBSET STRING, w.out \in SUBSET Findings,
         w.captures \in SUBSET STRING, w.flags \in SUBSET Flags
  PROVE  w \in Pass
  BY DEF Pass, PassFields

LEMMA PassHas ==
  ASSUME NEW w \in Pass
  PROVE  /\ w = [x \in DOMAIN w |-> w[x]] /\ DOMAIN w = PassFields
         /\ w.defined \in SUBSET STRING /\ w.bg \in SUBSET STRING /\ w.out \in SUBSET Findings
         /\ w.captures \in SUBSET STRING /\ w.flags \in SUBSET Flags
  BY DEF Pass, PassFields

Alike(w, v) == w.defined = v.defined /\ w.out = v.out /\ w.bg = v.bg

LEMMA ReportIs ==
  ASSUME NEW v \in Pass, NEW fs \in SUBSET Findings
  PROVE  /\ Report(v, fs) \in Pass /\ Report(v, fs).out = v.out \cup fs
         /\ Report(v, fs).defined = v.defined /\ Report(v, fs).bg = v.bg
  <1> DEFINE w == Report(v, fs)
  <1>1. /\ v.defined \in SUBSET STRING /\ v.bg \in SUBSET STRING /\ v.out \in SUBSET Findings
        /\ v.captures \in SUBSET STRING /\ v.flags \in SUBSET Flags /\ DOMAIN v = PassFields
    BY PassHas
  <1>2. /\ w = [x \in DOMAIN w |-> w[x]] /\ DOMAIN w = PassFields /\ w.out = v.out \cup fs
        /\ w.defined = v.defined /\ w.bg = v.bg /\ w.captures = v.captures /\ w.flags = v.flags
    BY <1>1 DEF Report, PassFields
  <1> HIDE DEF w
  <1>3. w \in Pass
    BY <1>1, <1>2, PassMade
  <1>4. QED
    BY <1>2, <1>3 DEF w

LEMMA FlagIs ==
  ASSUME NEW v \in Pass, NEW cond, NEW flag \in Flags
  PROVE  Flag(v, cond, flag) \in Pass /\ Alike(Flag(v, cond, flag), v)
  <1> DEFINE w == [v EXCEPT !.flags = @ \cup {flag}]
  <1>1. /\ v.defined \in SUBSET STRING /\ v.bg \in SUBSET STRING /\ v.out \in SUBSET Findings
        /\ v.captures \in SUBSET STRING /\ v.flags \in SUBSET Flags /\ DOMAIN v = PassFields
    BY PassHas
  <1>2. /\ w = [x \in DOMAIN w |-> w[x]] /\ DOMAIN w = PassFields /\ w.out = v.out
        /\ w.defined = v.defined /\ w.bg = v.bg /\ w.captures = v.captures /\ w.flags = v.flags \cup {flag}
    BY <1>1 DEF PassFields
  <1>3. Flag(v, cond, flag) = IF cond THEN w ELSE v
    BY DEF Flag
  <1> HIDE DEF w
  <1>4. w.flags \in SUBSET Flags
    BY <1>1, <1>2
  <1>5. w \in Pass
    BY <1>1, <1>2, <1>4, PassMade
  <1>6. QED
    BY <1>2, <1>3, <1>5 DEF Alike

LEMMA CapturesIs ==
  ASSUME NEW v \in Pass, NEW c \in SUBSET STRING
  PROVE  [v EXCEPT !.captures = c] \in Pass /\ Alike([v EXCEPT !.captures = c], v)
  <1> DEFINE w == [v EXCEPT !.captures = c]
  <1>1. /\ v.defined \in SUBSET STRING /\ v.bg \in SUBSET STRING /\ v.out \in SUBSET Findings
        /\ v.captures \in SUBSET STRING /\ v.flags \in SUBSET Flags /\ DOMAIN v = PassFields
    BY PassHas
  <1>2. /\ w = [x \in DOMAIN w |-> w[x]] /\ DOMAIN w = PassFields /\ w.out = v.out
        /\ w.defined = v.defined /\ w.bg = v.bg /\ w.captures = c /\ w.flags = v.flags
    BY <1>1 DEF PassFields
  <1> HIDE DEF w
  <1>3. w \in Pass
    BY <1>1, <1>2, PassMade
  <1>4. QED
    BY <1>2, <1>3 DEF w, Alike

Marked(v, b, d) == [v EXCEPT !.bg = b, !.defined = d]

LEMMA DefinedIs ==
  ASSUME NEW v \in Pass, NEW d \in SUBSET STRING, NEW b \in SUBSET STRING
  PROVE  /\ [v EXCEPT !.defined = d] \in Pass
         /\ [v EXCEPT !.defined = d].defined = d /\ [v EXCEPT !.defined = d].out = v.out
         /\ Marked(v, b, d) \in Pass /\ Marked(v, b, d).defined = d /\ Marked(v, b, d).out = v.out
  <1> DEFINE w == [v EXCEPT !.defined = d]
             y == [v EXCEPT !.bg = b, !.defined = d]
  <1>1. /\ v.defined \in SUBSET STRING /\ v.bg \in SUBSET STRING /\ v.out \in SUBSET Findings
        /\ v.captures \in SUBSET STRING /\ v.flags \in SUBSET Flags /\ DOMAIN v = PassFields
    BY PassHas
  <1>2. /\ w = [x \in DOMAIN w |-> w[x]] /\ DOMAIN w = PassFields /\ w.out = v.out
        /\ w.defined = d /\ w.bg = v.bg /\ w.captures = v.captures /\ w.flags = v.flags
    BY <1>1 DEF PassFields
  <1>3. /\ y = [x \in DOMAIN y |-> y[x]] /\ DOMAIN y = PassFields /\ y.out = v.out
        /\ y.defined = d /\ y.bg = b /\ y.captures = v.captures /\ y.flags = v.flags
    BY <1>1 DEF PassFields
  <1> HIDE DEF w, y
  <1>4. w \in Pass
    BY <1>1, <1>2, PassMade
  <1>5. y \in Pass
    BY <1>1, <1>3, PassMade
  <1>6. QED
    BY <1>2, <1>3, <1>4, <1>5 DEF w, y, Marked

-----------------------------------------------------------------------------
Refs == {<<>>} \cup UNION {RefsOf(st) : st \in Steps}

LEMMA FaultIs ==
  ASSUME NEW rule \in 1..18, NEW ref \in Refs
  PROVE  /\ Fault(rule, ref) \in Findings /\ Smell(rule) \in Findings
         /\ Fault(rule, ref).severity = "error" /\ Smell(rule).severity = "warn"
  BY DEF Fault, Smell, Findings, Refs

LEMMA FaultsAre ==
  ASSUME NEW rule \in 1..18
  PROVE  Fault(rule, <<>>) \in Findings /\ Smell(rule) \in Findings
  <1>1. <<>> \in Refs
    BY DEF Refs
  <1>2. QED
    BY <1>1, FaultIs

LEMMA Plains ==
  /\ \A rule \in {2, 3, 5, 6, 8, 9, 10, 11, 12, 13, 14, 15} :
       Fault(rule, <<>>) \in Findings /\ Smell(rule) \in Findings
  /\ \A c, f : f \in Findings => When(c, f) \in SUBSET Findings
  <1>1. \A rule \in {2, 3, 5, 6, 8, 9, 10, 11, 12, 13, 14, 15} : rule \in 1..18
    OBVIOUS
  <1>2. \A c, f : f \in Findings => When(c, f) \in SUBSET Findings
    BY DEF When
  <1>3. QED
    BY <1>1, <1>2, FaultsAre

LEMMA ArgsFindings ==
  ASSUME NEW ctx, NEW st
  PROVE  CheckArgs(ctx, st) \in SUBSET Findings /\ CheckNested(ctx, st) \in SUBSET Findings
  <1>1. /\ Fault(2, <<>>) \in Findings /\ Fault(5, <<>>) \in Findings /\ Fault(3, <<>>) \in Findings
        /\ \A c, f : f \in Findings => When(c, f) \in SUBSET Findings
    BY Plains
  <1>2. CheckArgs(ctx, st) \in SUBSET Findings
    BY <1>1 DEF CheckArgs
  <1>3. CheckNested(ctx, st) \in SUBSET Findings
    BY <1>1 DEF CheckNested
  <1>4. QED
    BY <1>2, <1>3

LEMMA RefFindings ==
  ASSUME NEW v, NEW ctx, NEW among, NEW st \in Steps, NEW r \in RefsOf(st)
  PROVE  CheckRef(v, ctx, among, r) \in SUBSET Findings
  <1>1. r \in Refs
    BY DEF Refs
  <1>2. 10 \in 1..18 /\ 12 \in 1..18 /\ 6 \in 1..18
    OBVIOUS
  <1>3. Fault(10, r) \in Findings /\ Fault(12, r) \in Findings /\ Fault(6, r) \in Findings
    BY <1>1, <1>2, FaultIs
  <1>4. \A c, f : f \in Findings => When(c, f) \in SUBSET Findings
    BY Plains
  <1>5. QED
    BY <1>3, <1>4 DEF CheckRef

LEMMA TrackIs ==
  ASSUME NEW v \in Pass, NEW ctx, NEW st \in Steps
  PROVE  Track(v, ctx, st) \in Pass /\ Alike(Track(v, ctx, st), v)
  <1> DEFINE spec    == ctx.specs[st.run]
             kind    == IF st.kind # "" THEN st.kind ELSE spec.kind
             effect  == IF st.effect # "" THEN st.effect ELSE spec.effect
             method  == ctx.section = "method"
             verify  == ctx.section = "verify"
             awaited == {r[2] : r \in {q \in RefsOf(st) : q[1] = "outputs"}} \cap v.captures
             c1 == st.run = <<"sample">> \/ st.latency
             c2 == method /\ effect = "outage"
             c3 == method /\ effect = "degradation"
             c4 == verify /\ kind # "assertion" /\ awaited # {}
             c5 == verify /\ st.finding
             c6 == verify /\ st.run = <<"assert">> /\ st.when = "none" /\ st.once
             v1 == Flag(v, c1, "observed")
             v2 == Flag(v1, c2, "outage")
             v3 == Flag(v2, c3, "degraded")
             v4 == Flag(v3, c4, "awaited")
             v5 == Flag(v4, c5, "finding")
             v6 == Flag(v5, c6, "once")
             c == IF method /\ kind = "action" THEN v6.captures \cup st.binds ELSE v6.captures
  <1>1. Track(v, ctx, st) = [v6 EXCEPT !.captures = c]
    BY DEF Track
  <1>2. {"observed", "outage", "degraded", "awaited", "finding", "once"} \subseteq Flags
    BY DEF Flags
  <1> HIDE DEF spec, kind, effect, method, verify, awaited, c1, c2, c3, c4, c5, c6
  <1>3. v1 \in Pass /\ Alike(v1, v)
    BY <1>2, FlagIs
  <1> HIDE DEF v1
  <1>4. v2 \in Pass /\ Alike(v2, v1)
    BY <1>2, <1>3, FlagIs
  <1> HIDE DEF v2
  <1>5. v3 \in Pass /\ Alike(v3, v2)
    BY <1>2, <1>4, FlagIs
  <1> HIDE DEF v3
  <1>6. v4 \in Pass /\ Alike(v4, v3)
    BY <1>2, <1>5, FlagIs
  <1> HIDE DEF v4
  <1>7. v5 \in Pass /\ Alike(v5, v4)
    BY <1>2, <1>6, FlagIs
  <1> HIDE DEF v5
  <1>8. v6 \in Pass /\ Alike(v6, v5)
    BY <1>2, <1>7, FlagIs
  <1> HIDE DEF v6
  <1>9. c \in SUBSET STRING
    BY <1>8, PassHas, StepsAssumption
  <1> HIDE DEF c
  <1>10. [v6 EXCEPT !.captures = c] \in Pass /\ Alike([v6 EXCEPT !.captures = c], v6)
    BY <1>8, <1>9, CapturesIs
  <1>11. QED
    BY <1>1, <1>3, <1>4, <1>5, <1>6, <1>7, <1>8, <1>10 DEF Alike

(* A leaf.                                                                 *)
LeafFound(v, ctx, among, st) ==
  LET spec == ctx.specs[st.run]
      kind == IF st.kind # "" THEN st.kind ELSE spec.kind
  IN When(ctx.section = "steadyState" /\ kind = "action" /\ spec.sideEffects, Smell(9))
     \cup CheckNested(ctx, st)
     \cup When(st.when = "const", Smell(10))
     \cup (UNION {CheckRef(v, ctx, among, r) : r \in RefsOf(st)})
     \cup When(st.run = <<"background">> /\ st.name # "" /\ st.name \in v.bg, Fault(6, <<>>))

LEMMA LeafFindings ==
  ASSUME NEW v, NEW ctx, NEW among, NEW st \in Steps
  PROVE  LeafFound(v, ctx, among, st) \in SUBSET Findings
  <1>1. /\ Smell(9) \in Findings /\ Smell(10) \in Findings /\ Fault(6, <<>>) \in Findings
        /\ \A c, f : f \in Findings => When(c, f) \in SUBSET Findings
    BY Plains
  <1>2. CheckNested(ctx, st) \in SUBSET Findings
    BY ArgsFindings
  <1>3. UNION {CheckRef(v, ctx, among, r) : r \in RefsOf(st)} \in SUBSET Findings
    BY RefFindings
  <1>4. QED
    BY <1>1, <1>2, <1>3 DEF LeafFound

LEMMA CheckLeafIs ==
  ASSUME NEW v \in Pass, NEW ctx, NEW among, NEW st \in Steps
  PROVE  /\ CheckLeaf(v, ctx, among, st) \in Pass
         /\ CheckLeaf(v, ctx, among, st).out = v.out \cup LeafFound(v, ctx, among, st)
         /\ CheckLeaf(v, ctx, among, st).defined = v.defined \cup st.binds
  <1> DEFINE starts == st.run = <<"background">> /\ st.name # ""
             found == LeafFound(v, ctx, among, st)
             w == Track(Report(v, found), ctx, st)
             b == IF starts THEN w.bg \cup {st.name}
                  ELSE IF st.run = <<"stop_background">> THEN w.bg \ {st.name} ELSE w.bg
             d == w.defined \cup st.binds
  <1>1. found \in SUBSET Findings
    BY LeafFindings
  <1>2. CheckLeaf(v, ctx, among, st) = [w EXCEPT !.bg = b, !.defined = d]
    <2> DEFINE y == Track(Report(v, found), ctx, st)
    <2>1. CheckLeaf(v, ctx, among, st)
          = [y EXCEPT !.bg = IF starts THEN @ \cup {st.name}
                             ELSE IF st.run = <<"stop_background">> THEN @ \ {st.name} ELSE @,
                      !.defined = @ \cup st.binds]
      BY Zenon DEF CheckLeaf, LeafFound
    <2> HIDE DEF found
    <2>2. y \in Pass
      BY <1>1, ReportIs, TrackIs
    <2>3. w = y
      OBVIOUS
    <2> HIDE DEF w, y
    <2>4. DOMAIN y = PassFields
      BY <2>2, PassHas
    <2>5. [y EXCEPT !.bg = IF starts THEN @ \cup {st.name}
                             ELSE IF st.run = <<"stop_background">> THEN @ \ {st.name} ELSE @,
                      !.defined = @ \cup st.binds]
          = [y EXCEPT !.bg = IF starts THEN y.bg \cup {st.name}
                             ELSE IF st.run = <<"stop_background">> THEN y.bg \ {st.name} ELSE y.bg,
                      !.defined = y.defined \cup st.binds]
      BY <2>4 DEF PassFields
    <2>6. QED
      BY <2>1, <2>3, <2>5
  <1> HIDE DEF found
  <1>3. Report(v, found) \in Pass /\ Report(v, found).out = v.out \cup found /\ Report(v, found).defined = v.defined
    BY <1>1, ReportIs
  <1>4. w \in Pass /\ w.out = v.out \cup found /\ w.defined = v.defined
    BY <1>3, TrackIs DEF Alike
  <1> HIDE DEF w
  <1>5. b \in SUBSET STRING /\ d \in SUBSET STRING
    <2>1. w.bg \in SUBSET STRING /\ w.defined \in SUBSET STRING
      BY <1>4, PassHas
    <2>2. st.name \in STRING /\ st.binds \subseteq STRING
      BY StepsAssumption
    <2>3. QED
      BY <2>1, <2>2
  <1>6. d = v.defined \cup st.binds
    BY <1>4
  <1> HIDE DEF b, d
  <1>7. Marked(w, b, d) \in Pass /\ Marked(w, b, d).defined = d /\ Marked(w, b, d).out = w.out
    BY <1>4, <1>5, DefinedIs
  <1>8. QED
    BY <1>2, <1>4, <1>6, <1>7 DEF found, Marked

-----------------------------------------------------------------------------
(* A checker that is right of the steps below a height, and two that agree *)
(* there.                                                                  *)
Amongs == [bound : Seq(SUBSET STRING), self : Nat]

Lower(check, h) == \A y \in Place : StepHeight[y.st] < h => check[y] \in Grown(y.v, Bound(y.st))

Agree(check, other, h) == \A y \in Place : StepHeight[y.st] < h => check[y] = other[y]

LEMMA SpotIs ==
  ASSUME NEW st \in Steps, NEW v \in Pass, NEW among \in Amongs
  PROVE  Spot(st, v, among) \in Place /\ Spot(st, v, among).st = st /\ Spot(st, v, among).v = v
         /\ Spot(st, v, among).among = among
  BY DEF Spot, Place, Amongs

LEMMA AloneIs == Alone \in Amongs
  BY DEF Alone, Amongs

LEMMA GoesLower ==
  ASSUME NEW check, NEW h, Lower(check, h), NEW among \in Amongs, NEW steps \in Seq(Steps),
         \A s \in Range(steps) : StepHeight[s] < h
  PROVE  Goes(check, steps, among)
  <1>1. ASSUME NEW i \in 1..Len(steps), NEW w \in Pass
        PROVE  check[Spot(steps[i], w, among)] \in Grown(w, Bound(steps[i]))
    <2>1. steps[i] \in Steps /\ steps[i] \in Range(steps)
      BY DEF Range
    <2>2. StepHeight[steps[i]] < h
      BY <2>1
    <2> DEFINE y == Spot(steps[i], w, among)
    <2>3. y \in Place /\ y.st = steps[i] /\ y.v = w
      BY <2>1, SpotIs
    <2> HIDE DEF y
    <2>4. check[y] \in Grown(y.v, Bound(y.st))
      BY <2>2, <2>3 DEF Lower
    <2>5. QED
      BY <2>3, <2>4 DEF y
  <1>2. QED
    BY <1>1 DEF Goes

LEMMA StepsSame ==
  ASSUME NEW check, NEW other, NEW h, Lower(check, h), Lower(other, h), Agree(check, other, h),
         NEW v \in Pass, NEW among \in Amongs, NEW steps \in Seq(Steps), \A s \in Range(steps) : StepHeight[s] < h
  PROVE  CheckSteps(check, v, among, steps) = CheckSteps(other, v, among, steps)
  <1>1. Goes(check, steps, among) /\ Goes(other, steps, among)
    BY GoesLower
  <1>2. ASSUME NEW i \in 1..Len(steps), NEW w \in Pass
        PROVE  check[Spot(steps[i], w, among)] = other[Spot(steps[i], w, among)]
    <2>1. steps[i] \in Steps /\ steps[i] \in Range(steps)
      BY DEF Range
    <2>2. StepHeight[steps[i]] < h
      BY <2>1
    <2> DEFINE y == Spot(steps[i], w, among)
    <2>3. y \in Place /\ y.st = steps[i]
      BY <2>1, SpotIs
    <2> HIDE DEF y
    <2>4. check[y] = other[y]
      BY <2>2, <2>3 DEF Agree
    <2>5. QED
      BY <2>4 DEF y
  <1>3. QED
    BY <1>1, <1>2, PassSame

LEMMA StepsGrow ==
  ASSUME NEW check, NEW h, Lower(check, h), NEW v \in Pass, NEW among \in Amongs, NEW steps \in Seq(Steps),
         \A s \in Range(steps) : StepHeight[s] < h
  PROVE  CheckSteps(check, v, among, steps) \in Grown(v, AllBinds(steps))
  <1>1. Goes(check, steps, among)
    BY GoesLower
  <1>2. PICK p : Passing(check, v, among, steps, p)
    BY <1>1, PassIs
  <1>3. QED
    BY <1>1, <1>2, PassGrows

-----------------------------------------------------------------------------
(* The branches of a block.                                                *)
BranchBounds(st) == [b \in DOMAIN st.branches |-> Bindings(st.branches[b])]

AmongOf(st, i) == [bound |-> BranchBounds(st), self |-> i]

Inwards(check, w, st, i) ==
  IF st.branches[i] = <<>> THEN Report(w, {Fault(12, <<>>)})
  ELSE CheckSteps(check, w, AmongOf(st, i), st.branches[i])

BranchIn(check, v, st, w, i) == [Inwards(check, w, st, i) EXCEPT !.defined = v.defined]

LEMMA StepParts ==
  ASSUME NEW st \in Steps
  PROVE  /\ StepHeight[st] \in Nat /\ st.do \in Seq(Steps) /\ st.branches \in Seq(Seq(Steps))
         /\ \A i \in 1..Len(st.branches) :
              /\ st.branches[i] \in Seq(Steps)
              /\ \A s \in Range(st.branches[i]) : s \in Inner(st) /\ StepHeight[s] < StepHeight[st]
              /\ AllBinds(st.branches[i]) \subseteq Bound(st) /\ Bindings(st.branches[i]) \subseteq Bound(st)
              /\ Bindings(st.branches[i]) \in SUBSET STRING
         /\ \A s \in Range(st.do) : StepHeight[s] < StepHeight[st]
         /\ AllBinds(st.do) \subseteq Bound(st) /\ st.binds \subseteq Bound(st)
         /\ (st.do = <<>> /\ st.branches = <<>> => Bound(st) = st.binds)
  <1>1. StepHeight[st] \in Nat /\ st.do \in Seq(Steps) /\ st.branches \in Seq(Seq(Steps))
    BY StepsAssumption
  <1>2. Bound(st) \in SUBSET STRING /\ Bound(st) = st.binds \cup UNION {Bound(s) : s \in Range(st.do) \cup Inner(st)}
    BY BoundEq
  <1>3. \A s \in Range(st.do) : StepHeight[s] < StepHeight[st]
    BY InsideBelow DEF Inside
  <1>4. \A s \in Inner(st) : s \in Steps /\ StepHeight[s] < StepHeight[st]
    BY InsideBelow DEF Inside
  <1>5. AllBinds(st.do) \subseteq Bound(st)
    BY <1>2, AllBindsAre
  <1>6. ASSUME NEW i \in 1..Len(st.branches)
        PROVE  /\ st.branches[i] \in Seq(Steps)
               /\ \A s \in Range(st.branches[i]) : s \in Inner(st) /\ StepHeight[s] < StepHeight[st]
               /\ AllBinds(st.branches[i]) \subseteq Bound(st) /\ Bindings(st.branches[i]) \subseteq Bound(st)
               /\ Bindings(st.branches[i]) \in SUBSET STRING
    <2> DEFINE b == st.branches[i]
    <2>1. b \in Seq(Steps) /\ b \in Range(st.branches)
      BY <1>1 DEF Range
    <2>2. \A s \in Range(b) : s \in Inner(st)
      BY <2>1 DEF Inner
    <2>3. AllBinds(b) = UNION {Bound(s) : s \in Range(b)} /\ Bindings(b) = UNION {Seen(s) : s \in Range(b)}
      BY AllBindsAre, BindingsAre
    <2> HIDE DEF b
    <2>4. \A s \in Range(b) : Seen(s) \subseteq Bound(s) /\ Bound(s) \subseteq Bound(st)
      BY <1>2, <1>4, <2>2, SeenIsBound
    <2>5. AllBinds(b) \subseteq Bound(st) /\ Bindings(b) \subseteq Bound(st)
      BY <2>3, <2>4
    <2>6. QED
      BY <1>2, <1>4, <2>1, <2>2, <2>5 DEF b
  <1>7. st.do = <<>> /\ st.branches = <<>> => Bound(st) = st.binds
    <2>1. Range(<<>>) = {}
      BY DEF Range
    <2>2. QED
      BY <1>2, <2>1 DEF Inner
  <1>8. QED
    BY <1>1, <1>2, <1>3, <1>5, <1>6, <1>7

LEMMA AmongIs ==
  ASSUME NEW st \in Steps, NEW i \in 1..Len(st.branches)
  PROVE  AmongOf(st, i) \in Amongs /\ UNION Range(BranchBounds(st)) \subseteq Bound(st)
  <1> DEFINE n == Len(st.branches)  f == BranchBounds(st)
  <1>1. n \in Nat /\ DOMAIN st.branches = 1..n
    BY StepsAssumption
  <1>2. \A b \in 1..n : Bindings(st.branches[b]) \in SUBSET STRING /\ Bindings(st.branches[b]) \subseteq Bound(st)
    BY StepParts
  <1>3. f \in [1..n -> SUBSET STRING]
    BY <1>1, <1>2 DEF BranchBounds
  <1>4. \A b \in 1..n : f[b] \subseteq Bound(st)
    BY <1>1, <1>2 DEF BranchBounds
  <1>i. i \in Nat
    BY <1>1
  <1> HIDE DEF n, f
  <1>5. f \in Seq(SUBSET STRING)
    BY <1>1, <1>3
  <1>6. UNION Range(f) \subseteq Bound(st)
    BY <1>3, <1>4 DEF Range
  <1>7. QED
    BY <1>5, <1>6, <1>i DEF AmongOf, Amongs, f

LEMMA InwardsIs ==
  ASSUME NEW st \in Steps, NEW check, Lower(check, StepHeight[st]), NEW w \in Pass, NEW i \in 1..Len(st.branches)
  PROVE  Inwards(check, w, st, i) \in Grown(w, Bound(st))
  <1>1. CASE st.branches[i] = <<>>
    <2>1. {Fault(12, <<>>)} \in SUBSET Findings
      BY Plains
    <2>2. QED
      BY <1>1, <2>1, ReportIs DEF Inwards, Grown
  <1>2. CASE st.branches[i] # <<>>
    <2> DEFINE b == st.branches[i]  h == StepHeight[st]  among == AmongOf(st, i)
    <2>1. b \in Seq(Steps) /\ (\A s \in Range(b) : StepHeight[s] < h) /\ AllBinds(b) \subseteq Bound(st)
      BY StepParts
    <2>2. among \in Amongs
      BY AmongIs
    <2>3. Lower(check, h) /\ Inwards(check, w, st, i) = CheckSteps(check, w, among, b)
      BY <1>2 DEF Inwards
    <2> HIDE DEF b, h, among
    <2>4. CheckSteps(check, w, among, b) \in Grown(w, AllBinds(b))
      BY <2>1, <2>2, <2>3, StepsGrow
    <2>5. QED
      BY <2>1, <2>3, <2>4 DEF Grown
  <1>3. QED
    BY <1>1, <1>2

LEMMA BranchInIs ==
  ASSUME NEW st \in Steps, NEW check, Lower(check, StepHeight[st]), NEW v \in Pass, NEW w \in Pass,
         NEW i \in 1..Len(st.branches)
  PROVE  /\ BranchIn(check, v, st, w, i) \in Pass /\ w.out \subseteq BranchIn(check, v, st, w, i).out
         /\ BranchIn(check, v, st, w, i).defined = v.defined
         /\ BranchIn(check, v, st, w, i).out = Inwards(check, w, st, i).out
  <1> DEFINE y == Inwards(check, w, st, i)  d == v.defined
  <1>1. y \in Pass /\ w.out \subseteq y.out
    BY InwardsIs DEF Grown
  <1>2. d \in SUBSET STRING
    BY PassHas
  <1>b. {} \in SUBSET STRING
    OBVIOUS
  <1>3. BranchIn(check, v, st, w, i) = [y EXCEPT !.defined = d]
    BY DEF BranchIn
  <1> HIDE DEF y, d
  <1>4. [y EXCEPT !.defined = d] \in Pass /\ [y EXCEPT !.defined = d].defined = d /\ [y EXCEPT !.defined = d].out = y.out
    BY <1>1, <1>2, <1>b, DefinedIs
  <1>5. QED
    BY <1>1, <1>3, <1>4 DEF y, d

-----------------------------------------------------------------------------
(* The pass over the branches of a block.                                  *)
Branching(check, v, st, p) ==
  /\ p \in [0..Len(st.branches) -> Pass] /\ p[0] = v
  /\ \A i \in 1..Len(st.branches) : p[i] = BranchIn(check, v, st, p[i - 1], i)
  /\ CheckBranches(check, v, st)
     = IF st.branches = <<>> THEN Report(v, {Fault(12, <<>>)})
       ELSE [p[Len(st.branches)] EXCEPT !.defined = @ \cup UNION Range(BranchBounds(st))]

LEMMA BranchesAre ==
  ASSUME NEW st \in Steps, NEW check, Lower(check, StepHeight[st]), NEW v \in Pass
  PROVE  \E p : Branching(check, v, st, p)
  <1> DEFINE n == Len(st.branches)
             V == Pass
             G == [p \in V \X (1..n) |-> BranchIn(check, v, st, p[1], p[2])]
             is(f) == f = [i \in 0..n |-> IF i = 0 THEN v ELSE BranchIn(check, v, st, f[i - 1], i)]
             q == CHOOSE f : is(f)
  <1>1. n \in Nat /\ v \in V
    BY StepsAssumption
  <1>2. \A w \in V, i \in 1..n : G[<<w, i>>] = BranchIn(check, v, st, w, i)
    OBVIOUS
  <1>3. \A w \in V, i \in 1..n : G[<<w, i>>] \in V
    BY <1>2, BranchInIs
  <1>o. CheckBranches(check, v, st)
        = IF st.branches = <<>> THEN Report(v, {Fault(12, <<>>)})
          ELSE [q[n] EXCEPT !.defined = @ \cup UNION Range(BranchBounds(st))]
    BY Zenon DEF CheckBranches, BranchIn, Inwards, AmongOf, BranchBounds
  <1>4. Stepping(n, V, G)
    BY <1>3 DEF Stepping
  <1> HIDE DEF V, G, n
  <1>5. PICK f \in [0..n -> V] : f[0] = v /\ \A i \in 1..n : f[i] = G[<<f[i - 1], i>>]
    <2>1. Lists(n, V, v, G) # {}
      BY <1>1, <1>4, PrefixRecursion
    <2>2. QED
      BY <2>1 DEF Lists
  <1>6. \A i \in 0..n : f[i] = IF i = 0 THEN v ELSE BranchIn(check, v, st, f[i - 1], i)
    <2> TAKE i \in 0..n
    <2>1. CASE i = 0
      BY <2>1, <1>5
    <2>2. CASE i # 0
      <3>1. i \in 1..n /\ i - 1 \in 0..n
        BY <1>1, <2>2
      <3>2. f[i - 1] \in V
        BY <3>1
      <3>3. QED
        BY <2>2, <3>1, <3>2, <1>2, <1>5
    <2>3. QED
      BY <2>1, <2>2
  <1>7. f = [i \in 0..n |-> f[i]]
    OBVIOUS
  <1>8. is(f)
    BY <1>6, <1>7, Zenon
  <1>9. is(q)
    BY <1>8
  <1>10. q = [i \in 0..n |-> q[i]]
    BY <1>9
  <1>11. \A i \in 0..n : q[i] = IF i = 0 THEN v ELSE BranchIn(check, v, st, q[i - 1], i)
    BY <1>9
  <1> HIDE DEF q
  <1>12. q[0] = v
    BY <1>1, <1>11
  <1>13. \A i \in 1..n : q[i] = BranchIn(check, v, st, q[i - 1], i)
    <2>1. \A i \in 1..n : i \in 0..n /\ i # 0
      BY <1>1
    <2>2. QED
      BY <2>1, <1>11
  <1>14. Made(n, V, G, q)
    BY <1>2, <1>13 DEF Made
  <1>15. q \in [0..n -> V]
    BY ONLY <1>1, <1>4, <1>10, <1>12, <1>14, ListIs
  <1>16. Branching(check, v, st, q)
    BY <1>o, <1>12, <1>13, <1>15 DEF Branching, n, V
  <1>17. QED
    BY <1>16

LEMMA BranchesGrow ==
  ASSUME NEW st \in Steps, NEW check, Lower(check, StepHeight[st]), NEW v \in Pass,
         NEW p, Branching(check, v, st, p)
  PROVE  /\ \A i \in 0..Len(st.branches) :
              p[i] \in Pass /\ p[i].defined = v.defined /\ p[i].out \subseteq p[Len(st.branches)].out
         /\ v.out \subseteq p[Len(st.branches)].out
         /\ st.branches # <<>> => CheckBranches(check, v, st).out = p[Len(st.branches)].out
         /\ CheckBranches(check, v, st) \in Grown(v, Bound(st))
  <1> DEFINE n == Len(st.branches)
             J == {i \in 0..n : p[i].defined = v.defined /\ \A k \in 0..i : p[k].out \subseteq p[i].out}
  <1>1. n \in Nat /\ p \in [0..n -> Pass] /\ p[0] = v
    BY StepsAssumption DEF Branching
  <1>2. \A i \in 1..n : p[i - 1].out \subseteq p[i].out /\ p[i].defined = v.defined
    <2> TAKE i \in 1..n
    <2>1. i - 1 \in 0..n
      BY <1>1
    <2>2. p[i - 1] \in Pass
      BY <1>1, <2>1
    <2>3. p[i] = BranchIn(check, v, st, p[i - 1], i)
      BY DEF Branching
    <2> DEFINE w == p[i - 1]
    <2>4. w \in Pass /\ p[i] = BranchIn(check, v, st, w, i) /\ i \in 1..Len(st.branches)
      BY <2>2, <2>3
    <2> HIDE DEF w, n
    <2>5. p[i].defined = v.defined /\ w.out \subseteq p[i].out
      BY <2>4, BranchInIs
    <2>6. QED
      BY <2>5 DEF w
  <1>e. n = 0 <=> st.branches = <<>>
    BY StepsAssumption
  <1>o. st.branches # <<>> =>
          CheckBranches(check, v, st) = [p[n] EXCEPT !.defined = @ \cup UNION Range(BranchBounds(st))]
    BY DEF Branching
  <1>z. st.branches = <<>> => CheckBranches(check, v, st) = Report(v, {Fault(12, <<>>)})
    BY DEF Branching
  <1>a. n # 0 => UNION Range(BranchBounds(st)) \subseteq Bound(st)
    <2>1. n # 0 => 1 \in 1..n
      BY <1>1
    <2>2. QED
      BY <2>1, AmongIs
  <1> HIDE DEF n
  <1>3. 0 \in J
    <2>1. 0 \in 0..n /\ 0..0 = {0}
      BY <1>1
    <2>2. QED
      BY <2>1, <1>1
  <1>4. ASSUME NEW i \in 1..n, i - 1 \in J PROVE i \in J
    <2>1. i \in 0..n /\ 0..i = (0..(i - 1)) \cup {i}
      BY <1>1
    <2>2. \A k \in 0..(i - 1) : p[k].out \subseteq p[i - 1].out
      BY <1>4
    <2>3. \A k \in 0..i : p[k].out \subseteq p[i].out
      BY <1>2, <2>1, <2>2
    <2>4. QED
      BY <1>2, <2>1, <2>3
  <1>5. \A i \in 0..n : i \in J
    <2> HIDE DEF J
    <2>1. QED
      BY <1>1, <1>3, <1>4, CountUp
  <1>6. n \in 0..n /\ 0 \in 0..n
    BY <1>1
  <1>7. \A i \in 0..n : p[i] \in Pass /\ p[i].defined = v.defined /\ p[i].out \subseteq p[n].out
    BY <1>1, <1>5, <1>6
  <1>8. ASSUME st.branches # <<>>
        PROVE  CheckBranches(check, v, st).out = p[n].out /\ CheckBranches(check, v, st) \in Grown(v, Bound(st))
    <2> DEFINE y == p[n]  r == UNION Range(BranchBounds(st))  d == y.defined \cup r
    <2>1. y \in Pass /\ y.defined = v.defined /\ v.out \subseteq y.out
      BY <1>1, <1>6, <1>7
    <2>2. r \subseteq Bound(st) /\ Bound(st) \in SUBSET STRING
      BY <1>8, <1>a, <1>e, BoundEq
    <2>3. CheckBranches(check, v, st) = [y EXCEPT !.defined = d]
      BY <1>8, <1>o
    <2>4. v.defined \in SUBSET STRING /\ {} \in SUBSET STRING
      BY PassHas
    <2> HIDE DEF y, r
    <2>5. d \in SUBSET STRING /\ d \subseteq v.defined \cup Bound(st)
      BY <2>1, <2>2, <2>4
    <2> HIDE DEF d
    <2>6. [y EXCEPT !.defined = d] \in Pass /\ [y EXCEPT !.defined = d].defined = d /\ [y EXCEPT !.defined = d].out = y.out
      BY <2>1, <2>4, <2>5, DefinedIs
    <2>7. QED
      BY <2>1, <2>3, <2>5, <2>6 DEF Grown, y
  <1>9. ASSUME st.branches = <<>> PROVE CheckBranches(check, v, st) \in Grown(v, Bound(st))
    <2>1. {Fault(12, <<>>)} \in SUBSET Findings
      BY Plains
    <2>2. QED
      BY <2>1, <1>9, <1>z, ReportIs DEF Grown
  <1>10. v.out \subseteq p[n].out
    BY <1>1, <1>6, <1>7
  <1>11. QED
    BY <1>7, <1>8, <1>9, <1>10 DEF n

LEMMA InwardsSame ==
  ASSUME NEW st \in Steps, NEW check, NEW other, Lower(check, StepHeight[st]), Lower(other, StepHeight[st]),
         Agree(check, other, StepHeight[st]), NEW w \in Pass, NEW i \in 1..Len(st.branches)
  PROVE  Inwards(check, w, st, i) = Inwards(other, w, st, i)
  <1> DEFINE b == st.branches[i]  h == StepHeight[st]  among == AmongOf(st, i)
  <1>1. b \in Seq(Steps) /\ (\A s \in Range(b) : StepHeight[s] < h)
    BY StepParts
  <1>2. among \in Amongs
    BY AmongIs
  <1>3. Lower(check, h) /\ Lower(other, h) /\ Agree(check, other, h)
    OBVIOUS
  <1>4. \A c : Inwards(c, w, st, i) = IF b = <<>> THEN Report(w, {Fault(12, <<>>)}) ELSE CheckSteps(c, w, among, b)
    BY DEF Inwards
  <1> HIDE DEF b, h, among
  <1>5. CheckSteps(check, w, among, b) = CheckSteps(other, w, among, b)
    BY <1>1, <1>2, <1>3, StepsSame
  <1>6. QED
    BY <1>4, <1>5

LEMMA BranchesSame ==
  ASSUME NEW st \in Steps, NEW check, NEW other, Lower(check, StepHeight[st]), Lower(other, StepHeight[st]),
         Agree(check, other, StepHeight[st]), NEW v \in Pass
  PROVE  CheckBranches(check, v, st) = CheckBranches(other, v, st)
  <1> DEFINE n == Len(st.branches)
  <1>1. PICK p : Branching(check, v, st, p)
    BY BranchesAre
  <1>2. PICK q : Branching(other, v, st, q)
    BY BranchesAre
  <1> DEFINE J == {i \in 0..n : p[i] = q[i]}
  <1>3. n \in Nat /\ p \in [0..n -> Pass] /\ p[0] = q[0]
    BY <1>1, <1>2, StepsAssumption DEF Branching
  <1>4. \A i \in 1..n : p[i] = BranchIn(check, v, st, p[i - 1], i) /\ q[i] = BranchIn(other, v, st, q[i - 1], i)
    BY <1>1, <1>2 DEF Branching
  <1>5. 0 \in J
    BY <1>3
  <1>6. ASSUME NEW i \in 1..n, i - 1 \in J PROVE i \in J
    <2>1. i \in 0..n /\ i - 1 \in 0..n
      BY <1>3
    <2>2. p[i - 1] \in Pass /\ p[i - 1] = q[i - 1]
      BY <1>3, <1>6, <2>1
    <2>3. Inwards(check, p[i - 1], st, i) = Inwards(other, p[i - 1], st, i)
      BY <2>2, InwardsSame
    <2>4. p[i] = q[i]
      BY <1>4, <2>2, <2>3 DEF BranchIn
    <2>5. QED
      BY <2>1, <2>4
  <1>7. \A i \in 0..n : i \in J
    <2> HIDE DEF J, n
    <2>1. QED
      BY <1>3, <1>5, <1>6, CountUp
  <1>8. p[n] = q[n]
    BY <1>3, <1>7
  <1>9. QED
    BY <1>1, <1>2, <1>8 DEF Branching

-----------------------------------------------------------------------------
(* The body of a repeat, and any step.                                     *)
BodyFound(st) ==
  LET named(verb) == {s.name : s \in {t \in Range(st.do) : t.run = <<verb>>}} \ {""}
  IN When(st.times < 1, Fault(13, <<>>))
     \cup When(\E s \in Range(st.do) : s.finding, Fault(13, <<>>))
     \cup When(~(named("background") \subseteq named("stop_background")), Fault(13, <<>>))

LEMMA BodyFindings ==
  ASSUME NEW st
  PROVE  BodyFound(st) \in SUBSET Findings
         /\ When(st.times < 1, Fault(13, <<>>)) \cup {Fault(13, <<>>)} \in SUBSET Findings
  <1>1. Fault(13, <<>>) \in Findings /\ \A c, f : f \in Findings => When(c, f) \in SUBSET Findings
    BY Plains
  <1>2. QED
    BY <1>1 DEF BodyFound

LEMMA CheckBodyIs ==
  ASSUME NEW st \in Steps, NEW check, Lower(check, StepHeight[st]), NEW v \in Pass
  PROVE  /\ CheckBody(check, v, st) =
              IF st.do = <<>> THEN Report(v, When(st.times < 1, Fault(13, <<>>)) \cup {Fault(13, <<>>)})
              ELSE CheckSteps(check, Report(v, BodyFound(st)), Alone, st.do)
         /\ CheckBody(check, v, st) \in Grown(v, Bound(st))
  <1> DEFINE h == StepHeight[st]  do == st.do
  <1>1. CheckBody(check, v, st) =
              IF do = <<>> THEN Report(v, When(st.times < 1, Fault(13, <<>>)) \cup {Fault(13, <<>>)})
              ELSE CheckSteps(check, Report(v, BodyFound(st)), Alone, do)
    BY Zenon DEF CheckBody, BodyFound
  <1>2. do \in Seq(Steps) /\ (\A s \in Range(do) : StepHeight[s] < h) /\ AllBinds(do) \subseteq Bound(st)
    BY StepParts
  <1>3. Lower(check, h)
    OBVIOUS
  <1> DEFINE w == Report(v, BodyFound(st))
  <1>4. w \in Pass /\ v.out \subseteq w.out /\ w.defined = v.defined
    BY BodyFindings, ReportIs
  <1>5. Report(v, When(st.times < 1, Fault(13, <<>>)) \cup {Fault(13, <<>>)}) \in Grown(v, Bound(st))
    BY BodyFindings, ReportIs DEF Grown
  <1>6. CheckSteps(check, w, Alone, do) \in Grown(v, Bound(st))
    <2> HIDE DEF w, h, do
    <2>1. CheckSteps(check, w, Alone, do) \in Grown(w, AllBinds(do))
      BY <1>2, <1>3, <1>4, AloneIs, StepsGrow
    <2>2. QED
      BY <2>1, <1>2, <1>4 DEF Grown
  <1>7. QED
    BY <1>1, <1>5, <1>6

LEMMA CheckBodySame ==
  ASSUME NEW st \in Steps, NEW check, NEW other, Lower(check, StepHeight[st]), Lower(other, StepHeight[st]),
         Agree(check, other, StepHeight[st]), NEW v \in Pass
  PROVE  CheckBody(check, v, st) = CheckBody(other, v, st)
  <1> DEFINE h == StepHeight[st]  do == st.do  w == Report(v, BodyFound(st))
  <1>1. do \in Seq(Steps) /\ (\A s \in Range(do) : StepHeight[s] < h)
    BY StepParts
  <1>2. Lower(check, h) /\ Lower(other, h) /\ Agree(check, other, h)
    OBVIOUS
  <1>3. w \in Pass
    BY BodyFindings, ReportIs
  <1>4. CheckSteps(check, w, Alone, do) = CheckSteps(other, w, Alone, do)
    <2> HIDE DEF w, h, do
    <2>1. QED
      BY <1>1, <1>2, <1>3, AloneIs, StepsSame
  <1>5. QED
    BY <1>4, CheckBodyIs

-----------------------------------------------------------------------------
(* Any step: what is reported of it before what is inside it is looked at. *)
StepFound(ctx, st) ==
  CheckArgs(ctx, st)
  \cup When(Block(st) /\ (st.envelope \/ st.binds # {}), Fault(IF st.run = <<"repeat">> THEN 13 ELSE 12, <<>>))

Knows(ctx) == {<<"parallel">>, <<"repeat">>} \subseteq DOMAIN ctx.specs

Warned(x) == Report(x.v, When(x.st.finding /\ ~x.st.id, Smell(15)))

Entered(ctx, x) == Report(Warned(x), StepFound(ctx, x.st))

LEMMA EnteredIs ==
  ASSUME NEW ctx, NEW x \in Place
  PROVE  /\ x.st \in Steps /\ x.v \in Pass /\ x.among \in Amongs
         /\ Warned(x) \in Pass /\ x.v.out \subseteq Warned(x).out /\ Warned(x).defined = x.v.defined
         /\ Entered(ctx, x) \in Pass /\ x.v.out \subseteq Entered(ctx, x).out
         /\ Entered(ctx, x).defined = x.v.defined /\ StepFound(ctx, x.st) \subseteq Entered(ctx, x).out
  <1> DEFINE v == x.v  w == Warned(x)  found == StepFound(ctx, x.st)
             first == When(x.st.finding /\ ~x.st.id, Smell(15))
  <1>1. x.st \in Steps /\ v \in Pass /\ x.among \in Amongs
    BY DEF Place, Amongs
  <1>2. first \in SUBSET Findings
    BY Plains
  <1>3. found \in SUBSET Findings
    <2>1. Fault(IF x.st.run = <<"repeat">> THEN 13 ELSE 12, <<>>) \in Findings
      BY Plains
    <2>2. QED
      BY <2>1, Plains, ArgsFindings DEF StepFound
  <1>4. w = Report(v, first) /\ Entered(ctx, x) = Report(w, found)
    BY DEF Warned, Entered
  <1> HIDE DEF v, w, found, first
  <1>5. w \in Pass /\ w.out = v.out \cup first /\ w.defined = v.defined
    BY <1>1, <1>2, <1>4, ReportIs
  <1>6. Report(w, found) \in Pass /\ Report(w, found).out = w.out \cup found /\ Report(w, found).defined = w.defined
    BY <1>3, <1>5, ReportIs
  <1>7. QED
    BY <1>1, <1>4, <1>5, <1>6 DEF v, w, found

LEMMA CheckStepIs ==
  ASSUME NEW check, NEW ctx, Knows(ctx), NEW x \in Place
  PROVE  CheckStep(check, ctx, x) =
           IF x.st.run \notin DOMAIN ctx.specs THEN Report(Warned(x), When(~x.st.absent, Fault(3, <<>>)))
           ELSE IF x.st.run = <<"parallel">> THEN CheckBranches(check, Entered(ctx, x), x.st)
           ELSE IF x.st.run = <<"repeat">> THEN CheckBody(check, Entered(ctx, x), x.st)
           ELSE CheckLeaf(Entered(ctx, x), ctx, x.among, x.st)
  <1> DEFINE st == x.st
             a == Report(Warned(x), When(~st.absent, Fault(3, <<>>)))
             b == CheckBranches(check, Entered(ctx, x), st)
             c == CheckBody(check, Entered(ctx, x), st)
             d == CheckLeaf(Entered(ctx, x), ctx, x.among, st)
  <1>1. CheckStep(check, ctx, x) =
          CASE st.run \notin DOMAIN ctx.specs -> a
            [] st.run = <<"parallel">> -> b
            [] st.run = <<"repeat">>   -> c
            [] OTHER -> d
    BY Zenon DEF CheckStep, Warned, Entered, StepFound, Block
  <1>2. <<"parallel">> # <<"repeat">>
    OBVIOUS
  <1> DEFINE A == st.run \in DOMAIN ctx.specs  P == st.run = <<"parallel">>  R == st.run = <<"repeat">>
  <1>3. (P => A) /\ (R => A) /\ ~(P /\ R)
    BY <1>2 DEF Knows
  <1>4. CheckStep(check, ctx, x) = CASE ~A -> a [] P -> b [] R -> c [] OTHER -> d
    BY <1>1
  <1> HIDE DEF st, a, b, c, d, A, P, R
  <1>5. CheckStep(check, ctx, x) = IF ~A THEN a ELSE IF P THEN b ELSE IF R THEN c ELSE d
    BY <1>3, <1>4
  <1>6. QED
    BY <1>5 DEF st, a, b, c, d, A, P, R

LEMMA CheckStepGrows ==
  ASSUME NEW check, NEW ctx, Knows(ctx), NEW x \in Place, Lower(check, StepHeight[x.st])
  PROVE  CheckStep(check, ctx, x) \in Grown(x.v, Bound(x.st))
  <1> DEFINE st == x.st  v == x.v  w == Warned(x)  y == Entered(ctx, x)
  <1>1. /\ st \in Steps /\ v \in Pass
        /\ w \in Pass /\ v.out \subseteq w.out /\ w.defined = v.defined
        /\ y \in Pass /\ v.out \subseteq y.out /\ y.defined = v.defined
    BY EnteredIs
  <1>2. Lower(check, StepHeight[st])
    OBVIOUS
  <1>3. CheckStep(check, ctx, x) =
           IF st.run \notin DOMAIN ctx.specs THEN Report(w, When(~st.absent, Fault(3, <<>>)))
           ELSE IF st.run = <<"parallel">> THEN CheckBranches(check, y, st)
           ELSE IF st.run = <<"repeat">> THEN CheckBody(check, y, st)
           ELSE CheckLeaf(y, ctx, x.among, st)
    BY CheckStepIs
  <1> HIDE DEF st, v, w, y
  <1>4. \A z \in Grown(y, Bound(st)) : z \in Grown(v, Bound(st))
    BY <1>1 DEF Grown
  <1>5. Report(w, When(~st.absent, Fault(3, <<>>))) \in Grown(v, Bound(st))
    <2>1. When(~st.absent, Fault(3, <<>>)) \in SUBSET Findings
      BY Plains
    <2>2. QED
      BY <1>1, <2>1, ReportIs DEF Grown
  <1>6. CheckBranches(check, y, st) \in Grown(v, Bound(st))
    <2>1. PICK p : Branching(check, y, st, p)
      BY <1>1, <1>2, BranchesAre
    <2>2. QED
      BY <1>1, <1>2, <1>4, <2>1, BranchesGrow
  <1>7. CheckBody(check, y, st) \in Grown(v, Bound(st))
    BY <1>1, <1>2, <1>4, CheckBodyIs
  <1>8. CheckLeaf(y, ctx, x.among, st) \in Grown(v, Bound(st))
    <2>1. CheckLeaf(y, ctx, x.among, st) \in Pass /\ y.out \subseteq CheckLeaf(y, ctx, x.among, st).out
          /\ CheckLeaf(y, ctx, x.among, st).defined = y.defined \cup st.binds
      BY <1>1, CheckLeafIs
    <2>2. st.binds \subseteq Bound(st)
      BY <1>1, StepParts
    <2>3. QED
      BY <1>1, <2>1, <2>2 DEF Grown
  <1>9. CheckStep(check, ctx, x) \in Grown(v, Bound(st))
    BY <1>3, <1>5, <1>6, <1>7, <1>8
  <1>10. QED
    BY <1>9 DEF v, st

LEMMA CheckStepSame ==
  ASSUME NEW check, NEW other, NEW ctx, Knows(ctx), NEW x \in Place, Lower(check, StepHeight[x.st]),
         Lower(other, StepHeight[x.st]), Agree(check, other, StepHeight[x.st])
  PROVE  CheckStep(check, ctx, x) = CheckStep(other, ctx, x)
  <1> DEFINE st == x.st  y == Entered(ctx, x)
  <1>1. st \in Steps /\ y \in Pass
    BY EnteredIs
  <1>2. Lower(check, StepHeight[st]) /\ Lower(other, StepHeight[st]) /\ Agree(check, other, StepHeight[st])
    OBVIOUS
  <1>3. \A c : CheckStep(c, ctx, x) =
           IF st.run \notin DOMAIN ctx.specs THEN Report(Warned(x), When(~x.st.absent, Fault(3, <<>>)))
           ELSE IF st.run = <<"parallel">> THEN CheckBranches(c, y, st)
           ELSE IF st.run = <<"repeat">> THEN CheckBody(c, y, st)
           ELSE CheckLeaf(y, ctx, x.among, st)
    BY CheckStepIs
  <1> HIDE DEF st, y
  <1>4. CheckBranches(check, y, st) = CheckBranches(other, y, st)
    BY <1>1, <1>2, BranchesSame
  <1>5. CheckBody(check, y, st) = CheckBody(other, y, st)
    BY <1>1, <1>2, CheckBodySame
  <1>6. QED
    BY <1>3, <1>4, <1>5

-----------------------------------------------------------------------------
(* The checker is its own definition's solution.                           *)
LEMMA CheckerIs ==
  ASSUME NEW ctx, Knows(ctx)
  PROVE  \A x \in Place : /\ Checker(ctx)[x] = CheckStep(Checker(ctx), ctx, x)
                          /\ Checker(ctx)[x] \in Grown(x.v, Bound(x.st))
  <1> DEFINE S == Place
             h == [x \in S |-> StepHeight[x.st]]
             V == [x \in S |-> Grown(x.v, Bound(x.st))]
             T == Tables(S, V)
             F == [p \in T \X S |-> CheckStep(p[1], ctx, p[2])]
             is(f) == f = [x \in S |-> CheckStep(f, ctx, x)]
             q == Checker(ctx)
  <1>1. \A f \in T, x \in S : F[<<f, x>>] = CheckStep(f, ctx, x)
    OBVIOUS
  <1>2. \A x \in S : h[x] = StepHeight[x.st] /\ h[x] \in Nat /\ V[x] = Grown(x.v, Bound(x.st)) /\ V[x] # {}
    <2> TAKE x \in S
    <2>1. x.st \in Steps /\ x.v \in Pass
      BY EnteredIs
    <2>2. x.v \in Grown(x.v, Bound(x.st))
      BY <2>1 DEF Grown
    <2>3. StepHeight[x.st] \in Nat
      BY <2>1, StepParts
    <2>4. QED
      BY <2>2, <2>3
  <1>3. \A f \in T, x \in S : f[x] \in Grown(x.v, Bound(x.st))
    BY <1>2 DEF Tables
  <1>4. q = CHOOSE f : is(f)
    BY DEF Checker
  <1> HIDE DEF F, V, h, q
  <1>5. \A f \in T, x \in S : Lower(f, StepHeight[x.st])
    BY <1>3 DEF Lower
  <1>6. Lowering(S, V, h, F)
    <2>1. ASSUME NEW f \in T, NEW x \in S PROVE F[<<f, x>>] \in V[x]
      <3>1. CheckStep(f, ctx, x) \in Grown(x.v, Bound(x.st))
        BY <1>5, CheckStepGrows
      <3>2. QED
        BY <1>1, <1>2, <3>1
    <2>2. ASSUME NEW f \in T, NEW g \in T, NEW x \in S, \A y \in S : h[y] < h[x] => f[y] = g[y]
          PROVE  F[<<f, x>>] = F[<<g, x>>]
      <3>1. Agree(f, g, StepHeight[x.st])
        BY <1>2, <2>2 DEF Agree
      <3>2. CheckStep(f, ctx, x) = CheckStep(g, ctx, x)
        BY <1>5, <3>1, CheckStepSame
      <3>3. QED
        BY <1>1, <3>2
    <2>3. QED
      BY <1>2, <2>1, <2>2 DEF Lowering
  <1>7. PICK f \in T : \A x \in S : f[x] = F[<<f, x>>]
    <2> HIDE DEF T
    <2>1. \E f \in Tables(S, V) : \A x \in S : f[x] = F[<<f, x>>]
      BY ONLY <1>6, Recursion
    <2>2. QED
      BY <2>1 DEF T
  <1>8. is(f)
    <2>1. f = [x \in S |-> f[x]]
      BY DEF Tables
    <2>2. QED
      BY <2>1, <1>1, <1>7
  <1>9. is(q)
    BY <1>4, <1>8
  <1>10. \A x \in S : q[x] = CheckStep(q, ctx, x)
    BY <1>9
  <1> DEFINE B == {x \in S : q[x] \notin Grown(x.v, Bound(x.st))}
  <1>11. B = {}
    <2> SUFFICES ASSUME B # {} PROVE FALSE
      OBVIOUS
    <2>1. PICK x \in B : \A y \in S : h[y] < h[x] => y \notin B
      <3>1. B \in SUBSET S
        OBVIOUS
      <3> HIDE DEF B
      <3>2. QED
        BY <1>2, <3>1, LowestPlace
    <2>2. Lower(q, StepHeight[x.st])
      BY <1>2, <2>1 DEF Lower
    <2>3. CheckStep(q, ctx, x) \in Grown(x.v, Bound(x.st))
      BY <2>2, CheckStepGrows
    <2>4. QED
      BY <1>10, <2>1, <2>3
  <1>12. QED
    BY <1>10, <1>11 DEF q

-----------------------------------------------------------------------------
(* A step the checks find no fault with, when the names in D are bound; k  *)
(* is what the checks know of the scenario.                                *)
Faultless(v) == \A f \in v.out : f.severity # "error"

Sees(ctx, k) == ctx.specs = k.specs /\ ctx.vars = k.vars /\ ctx.env = k.env /\ Knows(ctx)

StepClean(k, st, D) ==
  \E ctx : Sees(ctx, k) /\ \E x \in Place : x.st = st /\ x.v.defined \subseteq D /\ Faultless(Checker(ctx)[x])

SeqClean(k, todo, D) == \A i \in 1..Len(todo) : StepClean(k, todo[i], D \cup Sofar(todo, i))

RefClean(k, r, D) ==
  /\ r[1] \in {"vars", "env", "outputs"}
  /\ (r[1] = "vars" => r[2] \in k.vars) /\ (r[1] = "env" => r[2] \in k.env) /\ (r[1] = "outputs" => r[2] \in D)

LEMMA FewerFaults ==
  ASSUME NEW v, NEW w, Faultless(w), v.out \subseteq w.out
  PROVE  Faultless(v)
  BY DEF Faultless

LEMMA CheckerLower ==
  ASSUME NEW ctx, Knows(ctx), NEW h
  PROVE  Lower(Checker(ctx), h)
  BY CheckerIs DEF Lower

LEMMA CheckerGoes ==
  ASSUME NEW ctx, Knows(ctx), NEW among \in Amongs, NEW steps \in Seq(Steps)
  PROVE  Goes(Checker(ctx), steps, among)
  <1>1. ASSUME NEW i \in 1..Len(steps), NEW w \in Pass
        PROVE  Checker(ctx)[Spot(steps[i], w, among)] \in Grown(w, Bound(steps[i]))
    <2> DEFINE y == Spot(steps[i], w, among)
    <2>1. steps[i] \in Steps
      OBVIOUS
    <2>2. y \in Place /\ y.st = steps[i] /\ y.v = w
      BY <2>1, SpotIs
    <2> HIDE DEF y
    <2>3. Checker(ctx)[y] \in Grown(y.v, Bound(y.st))
      BY <2>2, CheckerIs
    <2>4. QED
      BY <2>2, <2>3 DEF y
  <1>2. QED
    BY <1>1 DEF Goes

LEMMA CleanSteps ==
  ASSUME NEW k, NEW ctx, Sees(ctx, k), NEW v \in Pass, NEW among \in Amongs, NEW steps \in Seq(Steps),
         Faultless(CheckSteps(Checker(ctx), v, among, steps)), NEW D, v.defined \subseteq D
  PROVE  SeqClean(k, steps, D)
  <1> DEFINE check == Checker(ctx)  n == Len(steps)
  <1>1. Knows(ctx) /\ n \in Nat
    BY DEF Sees
  <1>2. Goes(check, steps, among)
    BY <1>1, CheckerGoes
  <1>f. Faultless(CheckSteps(check, v, among, steps))
    OBVIOUS
  <1> HIDE DEF check
  <1>3. PICK p : Passing(check, v, among, steps, p)
    BY <1>2, PassIs
  <1>4. \A i \in 0..n : p[i] \in Pass /\ p[i].out \subseteq p[n].out /\ p[i].defined \subseteq v.defined \cup Sofar(steps, i + 1)
    BY <1>2, <1>3, PassGrows
  <1>5. Faultless(p[n]) /\ \A i \in 1..n : p[i] = check[Spot(steps[i], p[i - 1], among)]
    BY <1>3, <1>f DEF Passing
  <1> HIDE DEF n
  <1>6. ASSUME NEW i \in 1..n PROVE StepClean(k, steps[i], D \cup Sofar(steps, i))
    <2> DEFINE w == p[i - 1]  x == Spot(steps[i], w, among)
    <2>1. i - 1 \in 0..n /\ i \in 0..n /\ i - 1 + 1 = i
      BY <1>1
    <2>2. steps[i] \in Steps
      BY DEF n
    <2>3. w \in Pass /\ w.defined \subseteq v.defined \cup Sofar(steps, i)
      BY <1>4, <2>1
    <2>4. p[i] = check[x] /\ p[i].out \subseteq p[n].out
      BY <1>4, <1>5, <2>1
    <2> HIDE DEF w
    <2>5. x \in Place /\ x.st = steps[i] /\ x.v = w
      BY <2>2, <2>3, SpotIs
    <2> HIDE DEF x
    <2>6. Faultless(check[x])
      BY <1>5, <2>4, FewerFaults
    <2>7. x.v.defined \subseteq D \cup Sofar(steps, i)
      BY <2>3, <2>5
    <2>8. QED
      BY <2>5, <2>6, <2>7 DEF StepClean, check
  <1>7. QED
    BY <1>6 DEF SeqClean, n

LEMMA CleanRef ==
  ASSUME NEW k, NEW ctx, Sees(ctx, k), NEW v, NEW among, NEW st \in Steps, NEW r \in RefsOf(st),
         \A f \in CheckRef(v, ctx, among, r) : f.severity # "error", NEW D, v.defined \subseteq D
  PROVE  RefClean(k, r, D)
  <1> DEFINE a == IF BoundInSibling(among, r[2]) THEN 12
                  ELSE IF r[2] \in DOMAIN ctx.later
                          /\ (ctx.later[r[2]] = <<"stop_background">> \/ r[2] \in v.bg) THEN 6 ELSE 10
  <1>1. \A rule, ref : Fault(rule, ref).severity = "error"
    BY DEF Fault
  <1>2. \A c, rule, ref : (\A f \in When(c, Fault(rule, ref)) : f.severity # "error") => ~c
    BY <1>1 DEF When
  <1>3. CheckRef(v, ctx, among, r) =
          CASE r[1] = "vars" -> When(r[2] \notin ctx.vars, Fault(10, r))
            [] r[1] = "env"  -> When(r[2] \notin ctx.env, Fault(10, r))
            [] r[1] = "outputs" -> When(r[2] \notin v.defined, Fault(a, r))
            [] OTHER -> {Fault(10, r)}
    BY Zenon DEF CheckRef
  <1> HIDE DEF a
  <1>4. CASE r[1] = "vars"
    <2>1. CheckRef(v, ctx, among, r) = When(r[2] \notin ctx.vars, Fault(10, r))
      BY <1>3, <1>4
    <2>2. QED
      BY <2>1, <1>2, <1>4 DEF RefClean, Sees
  <1>5. CASE r[1] = "env"
    <2>1. CheckRef(v, ctx, among, r) = When(r[2] \notin ctx.env, Fault(10, r))
      BY <1>3, <1>5
    <2>2. QED
      BY <2>1, <1>2, <1>5 DEF RefClean, Sees
  <1>6. CASE r[1] = "outputs"
    <2>1. CheckRef(v, ctx, among, r) = When(r[2] \notin v.defined, Fault(a, r))
      BY <1>3, <1>6
    <2>2. QED
      BY <2>1, <1>2, <1>6 DEF RefClean, Sees
  <1>7. CASE r[1] \notin {"vars", "env", "outputs"}
    <2>1. CheckRef(v, ctx, among, r) = {Fault(10, r)}
      BY <1>3, <1>7
    <2>2. QED
      BY <2>1, <1>1
  <1>8. QED
    BY <1>4, <1>5, <1>6, <1>7

(* What it takes for a step to be clean.                                   *)
LEMMA CleanStep ==
  ASSUME NEW k, NEW st \in Steps, NEW D, StepClean(k, st, D), st.run \in DOMAIN k.specs
  PROVE  /\ Block(st) => st.binds = {}
         /\ st.run = <<"parallel">> => \A i \in 1..Len(st.branches) : SeqClean(k, st.branches[i], D)
         /\ st.run = <<"repeat">> => SeqClean(k, st.do, D)
         /\ ~Block(st) => \A r \in RefsOf(st) : RefClean(k, r, D)
  <1>1. PICK ctx : Sees(ctx, k) /\ \E x \in Place : x.st = st /\ x.v.defined \subseteq D /\ Faultless(Checker(ctx)[x])
    BY DEF StepClean
  <1>2. PICK x \in Place : x.st = st /\ x.v.defined \subseteq D /\ Faultless(Checker(ctx)[x])
    BY <1>1
  <1> DEFINE check == Checker(ctx)  y == Entered(ctx, x)
  <1>3. Knows(ctx) /\ ctx.specs = k.specs
    BY <1>1 DEF Sees
  <1>4. check[x] = CheckStep(check, ctx, x) /\ check[x] \in Grown(x.v, Bound(st))
    BY <1>2, <1>3, CheckerIs
  <1>5. check[x] = IF st.run = <<"parallel">> THEN CheckBranches(check, y, st)
           ELSE IF st.run = <<"repeat">> THEN CheckBody(check, y, st)
           ELSE CheckLeaf(y, ctx, x.among, st)
    BY <1>2, <1>3, <1>4, CheckStepIs
  <1>6. y \in Pass /\ y.defined \subseteq D /\ StepFound(ctx, st) \subseteq y.out /\ x.among \in Amongs
    BY <1>2, EnteredIs
  <1>7. Lower(check, StepHeight[st])
    BY <1>3, CheckerLower
  <1>f. Faultless(check[x])
    BY <1>2
  <1>b. <<"parallel">> # <<"repeat">>
    OBVIOUS
  <1> HIDE DEF y
  <1>8. ASSUME st.run = <<"parallel">>
        PROVE  y.out \subseteq check[x].out /\ \A i \in 1..Len(st.branches) : SeqClean(k, st.branches[i], D)
    <2> DEFINE n == Len(st.branches)
    <2> HIDE DEF check
    <2>1. PICK p : Branching(check, y, st, p)
      BY <1>6, <1>7, BranchesAre
    <2>2. /\ \A i \in 0..n : p[i] \in Pass /\ p[i].defined = y.defined /\ p[i].out \subseteq p[n].out
          /\ st.branches # <<>> => CheckBranches(check, y, st).out = p[n].out
          /\ CheckBranches(check, y, st) \in Grown(y, Bound(st))
      BY <1>6, <1>7, <2>1, BranchesGrow
    <2>3. check[x] = CheckBranches(check, y, st)
      BY <1>5, <1>8
    <2>4. ASSUME NEW i \in 1..n PROVE SeqClean(k, st.branches[i], D)
      <3> DEFINE w == p[i - 1]  b == st.branches[i]  among == AmongOf(st, i)
      <3>1. n \in Nat /\ st.branches # <<>>
        BY StepsAssumption
      <3>2. i \in 0..n /\ i - 1 \in 0..n
        BY <3>1
      <3>3. w \in Pass /\ w.defined = y.defined /\ p[i].out \subseteq p[n].out
        BY <2>2, <3>2
      <3>4. p[i] = BranchIn(check, y, st, w, i)
        BY <2>1 DEF Branching
      <3>5. among \in Amongs /\ b \in Seq(Steps)
        BY AmongIs, StepParts
      <3>6. Inwards(check, w, st, i) = IF b = <<>> THEN Report(w, {Fault(12, <<>>)}) ELSE CheckSteps(check, w, among, b)
        BY DEF Inwards
      <3> HIDE DEF w, b, among
      <3>a. y \in Pass /\ Lower(check, StepHeight[st]) /\ i \in 1..Len(st.branches)
        BY <1>6, <1>7
      <3>7. Inwards(check, w, st, i).out = p[i].out
        <4> HIDE DEF n
        <4>1. BranchIn(check, y, st, w, i).out = Inwards(check, w, st, i).out
          BY <3>a, <3>3, BranchInIs
        <4>2. QED
          BY <3>4, <4>1
      <3>8. Faultless(Inwards(check, w, st, i))
        BY <1>f, <2>2, <2>3, <3>1, <3>3, <3>7 DEF Faultless
      <3>9. CASE b = <<>>
        <4>1. Len(b) = 0 /\ 1..0 = {}
          BY <3>9
        <4>2. SeqClean(k, b, D)
          BY <4>1 DEF SeqClean
        <4>3. QED
          BY <4>2 DEF b
      <3>10. CASE b # <<>>
        <4>1. Faultless(CheckSteps(Checker(ctx), w, among, b))
          BY <3>6, <3>8, <3>10 DEF check
        <4>2. w.defined \subseteq D
          BY <1>6, <3>3
        <4>3. SeqClean(k, b, D)
          BY <1>1, <3>3, <3>5, <4>1, <4>2, CleanSteps
        <4>4. QED
          BY <4>3 DEF b
      <3>11. QED
        BY <3>9, <3>10
    <2>5. QED
      BY <2>2, <2>3, <2>4 DEF Grown
  <1>9. ASSUME st.run = <<"repeat">> PROVE y.out \subseteq check[x].out /\ SeqClean(k, st.do, D)
    <2> DEFINE do == st.do  w == Report(y, BodyFound(st))
    <2>1. do \in Seq(Steps)
      BY StepsAssumption
    <2>2. w \in Pass /\ w.defined = y.defined
      BY <1>6, BodyFindings, ReportIs
    <2>3. check[x] = CheckBody(check, y, st)
      BY <1>5, <1>9, <1>b
    <2>4. CheckBody(check, y, st) \in Grown(y, Bound(st))
          /\ (do # <<>> => CheckBody(check, y, st) = CheckSteps(check, w, Alone, do))
      BY <1>6, <1>7, CheckBodyIs
    <2> HIDE DEF do, w
    <2>5. SeqClean(k, do, D)
      <3>1. CASE do = <<>>
        <4>1. Len(do) = 0 /\ 1..0 = {}
          BY <3>1
        <4>2. QED
          BY <4>1 DEF SeqClean
      <3>2. CASE do # <<>>
        <4>1. Faultless(CheckSteps(Checker(ctx), w, Alone, do))
          BY <1>f, <2>3, <2>4, <3>2
        <4>2. w.defined \subseteq D
          BY <1>6, <2>2
        <4>3. QED
          BY <1>1, <2>1, <2>2, <4>1, <4>2, AloneIs, CleanSteps
      <3>3. QED
        BY <3>1, <3>2
    <2>6. QED
      BY <2>3, <2>4, <2>5 DEF Grown, do
  <1>10. ASSUME ~Block(st) PROVE \A r \in RefsOf(st) : RefClean(k, r, D)
    <2>1. check[x] = CheckLeaf(y, ctx, x.among, st)
      BY <1>5, <1>10 DEF Block
    <2>2. CheckLeaf(y, ctx, x.among, st).out = y.out \cup LeafFound(y, ctx, x.among, st)
      BY <1>6, CheckLeafIs
    <2>3. \A f \in LeafFound(y, ctx, x.among, st) : f.severity # "error"
      BY <1>f, <2>1, <2>2 DEF Faultless
    <2>4. ASSUME NEW r \in RefsOf(st) PROVE RefClean(k, r, D)
      <3>1. CheckRef(y, ctx, x.among, r) \subseteq LeafFound(y, ctx, x.among, st)
        BY DEF LeafFound
      <3>2. \A f \in CheckRef(y, ctx, x.among, r) : f.severity # "error"
        BY <2>3, <3>1
      <3>3. QED
        BY <1>1, <1>6, <3>2, CleanRef
    <2>5. QED
      BY <2>4
  <1>11. ASSUME Block(st) PROVE st.binds = {}
    <2>1. y.out \subseteq check[x].out
      BY <1>8, <1>9, <1>11 DEF Block
    <2>2. \A f \in StepFound(ctx, st) : f.severity # "error"
      BY <1>6, <1>f, <2>1 DEF Faultless
    <2> SUFFICES ASSUME st.binds # {} PROVE FALSE
      OBVIOUS
    <2> DEFINE f == Fault(IF st.run = <<"repeat">> THEN 13 ELSE 12, <<>>)
    <2>3. f \in StepFound(ctx, st)
      BY <1>11 DEF StepFound, When
    <2>4. f.severity = "error"
      BY DEF Fault
    <2>5. QED
      BY <2>2, <2>3, <2>4
  <1>12. QED
    BY <1>8, <1>9, <1>10, <1>11

-----------------------------------------------------------------------------
(* The same of a list of steps in any frame: the body of a composed verb   *)
(* reads params, and of vars nothing is known there.                       *)
MacroClean(k, params, st, D) ==
  \A r \in RefsOf(st) :
    /\ r[1] \in {"params", "outputs", "env", "vars"}
    /\ (r[1] = "params" => r[2] \in params) /\ (r[1] = "env" => r[2] \in k.env) /\ (r[1] = "outputs" => r[2] \in D)

StepFine(kind, params, k, st, D) == IF kind = "macro" THEN MacroClean(k, params, st, D) ELSE StepClean(k, st, D)

SeqFine(kind, params, k, todo, D) ==
  \A i \in 1..Len(todo) : StepFine(kind, params, k, todo[i], D \cup Sofar(todo, i))

LEMMA FineIsClean ==
  ASSUME NEW kind, kind # "macro", NEW params, NEW k, NEW todo, NEW D
  PROVE  SeqFine(kind, params, k, todo, D) <=> SeqClean(k, todo, D)
  BY DEF SeqFine, StepFine, SeqClean

LEMMA StepMore ==
  ASSUME NEW kind, NEW params, NEW k, NEW st, NEW D, NEW E, D \subseteq E, StepFine(kind, params, k, st, D)
  PROVE  StepFine(kind, params, k, st, E)
  <1>1. CASE kind = "macro"
    <2>1. MacroClean(k, params, st, D)
      BY <1>1 DEF StepFine
    <2>2. MacroClean(k, params, st, E)
      BY <2>1 DEF MacroClean
    <2>3. QED
      BY <1>1, <2>2 DEF StepFine
  <1>2. CASE kind # "macro"
    <2>1. PICK ctx : Sees(ctx, k) /\ \E x \in Place : x.st = st /\ x.v.defined \subseteq D /\ Faultless(Checker(ctx)[x])
      BY <1>2 DEF StepFine, StepClean
    <2>2. PICK x \in Place : x.st = st /\ x.v.defined \subseteq D /\ Faultless(Checker(ctx)[x])
      BY <2>1
    <2>3. x.v.defined \subseteq E
      BY <2>2
    <2>4. StepClean(k, st, E)
      BY <2>1, <2>2, <2>3 DEF StepClean
    <2>5. QED
      BY <1>2, <2>4 DEF StepFine
  <1>3. QED
    BY <1>1, <1>2

LEMMA FineMore ==
  ASSUME NEW kind, NEW params, NEW k, NEW todo, NEW D, NEW E, D \subseteq E, SeqFine(kind, params, k, todo, D)
  PROVE  SeqFine(kind, params, k, todo, E)
  <1>1. ASSUME NEW i \in 1..Len(todo) PROVE StepFine(kind, params, k, todo[i], E \cup Sofar(todo, i))
    <2> DEFINE A == D \cup Sofar(todo, i)  B == E \cup Sofar(todo, i)
    <2>1. StepFine(kind, params, k, todo[i], A)
      BY DEF SeqFine
    <2>2. A \subseteq B
      OBVIOUS
    <2> HIDE DEF A, B
    <2>3. StepFine(kind, params, k, todo[i], B)
      BY <2>1, <2>2, StepMore
    <2>4. QED
      BY <2>3 DEF B
  <1>2. QED
    BY <1>1 DEF SeqFine

LEMMA FineEmpty ==
  ASSUME NEW kind, NEW params, NEW k, NEW D
  PROVE  SeqFine(kind, params, k, <<>>, D)
  <1>1. Len(<<>>) = 0 /\ 1..0 = {}
    OBVIOUS
  <1>2. QED
    BY <1>1 DEF SeqFine

LEMMA TailIs ==
  ASSUME NEW X, NEW s \in Seq(X), s # <<>>
  PROVE  /\ Tail(s) \in Seq(X) /\ Len(s) \in Nat \ {0} /\ Len(Tail(s)) = Len(s) - 1 /\ Head(s) = s[1] /\ Head(s) \in X
         /\ \A i \in 1..(Len(s) - 1) : Tail(s)[i] = s[i + 1]
  OBVIOUS

LEMMA FineTail ==
  ASSUME NEW kind, NEW params, NEW k, NEW todo \in Seq(Steps), todo # <<>>, NEW D, NEW E,
         SeqFine(kind, params, k, todo, D), D \cup Bound(Head(todo)) \subseteq E
  PROVE  SeqFine(kind, params, k, Tail(todo), E)
  <1> DEFINE rest == Tail(todo)  n == Len(todo)
  <1>1. /\ rest \in Seq(Steps) /\ n \in Nat \ {0} /\ Len(rest) = n - 1 /\ Head(todo) = todo[1]
        /\ \A i \in 1..(n - 1) : rest[i] = todo[i + 1]
    BY TailIs
  <1> HIDE DEF rest, n
  <1>2. ASSUME NEW i \in 1..(n - 1) PROVE StepFine(kind, params, k, rest[i], E \cup Sofar(rest, i))
    <2> DEFINE A == D \cup Sofar(todo, i + 1)  B == E \cup Sofar(rest, i)  st == rest[i]
    <2>1. i + 1 \in 1..n /\ rest[i] = todo[i + 1]
      BY <1>1
    <2>2. StepFine(kind, params, k, st, A)
      BY <2>1 DEF SeqFine, n
    <2>3. Sofar(todo, i + 1) \subseteq Bound(Head(todo)) \cup Sofar(rest, i)
      <3>1. ASSUME NEW j \in 1..(i + 1 - 1)
            PROVE  Bound(todo[j]) \subseteq Bound(Head(todo)) \cup Sofar(rest, i)
        <4>1. CASE j = 1
          BY <4>1, <1>1
        <4>2. CASE j # 1
          <5>1. j - 1 \in 1..(i - 1) /\ j - 1 \in 1..(n - 1) /\ j - 1 + 1 = j
            BY <4>2, <1>1
          <5>2. rest[j - 1] = todo[j]
            BY <5>1, <1>1
          <5>3. Bound(rest[j - 1]) \subseteq Sofar(rest, i)
            BY <5>1 DEF Sofar
          <5>4. QED
            BY <5>2, <5>3
        <4>3. QED
          BY <4>1, <4>2
      <3>2. QED
        BY <3>1 DEF Sofar
    <2>4. A \subseteq B
      BY <2>3
    <2> HIDE DEF A, B, st
    <2>5. StepFine(kind, params, k, st, B)
      BY <2>2, <2>4, StepMore
    <2>6. QED
      BY <2>5 DEF B, st
  <1>3. SeqFine(kind, params, k, rest, E)
    BY <1>1, <1>2 DEF SeqFine
  <1>4. QED
    BY <1>3 DEF rest

LEMMA ConcatIs ==
  ASSUME NEW X, NEW s \in Seq(X), NEW t \in Seq(X)
  PROVE  /\ s \o t \in Seq(X) /\ Len(s \o t) = Len(s) + Len(t) /\ Len(s) \in Nat /\ Len(t) \in Nat
         /\ \A i \in 1..(Len(s) + Len(t)) : (s \o t)[i] = IF i <= Len(s) THEN s[i] ELSE t[i - Len(s)]
  OBVIOUS

LEMMA FineConcat ==
  ASSUME NEW kind, NEW params, NEW k, NEW s \in Seq(Steps), NEW t \in Seq(Steps), NEW D,
         SeqFine(kind, params, k, s, D), SeqFine(kind, params, k, t, D \cup AllBinds(s))
  PROVE  SeqFine(kind, params, k, s \o t, D)
  <1> DEFINE c == s \o t  m == Len(s)  n == Len(t)
  <1>1. /\ c \in Seq(Steps) /\ Len(c) = m + n /\ m \in Nat /\ n \in Nat
        /\ \A i \in 1..(m + n) : c[i] = IF i <= m THEN s[i] ELSE t[i - m]
    BY ConcatIs
  <1>a. AllBinds(s) = Sofar(s, m + 1)
    BY SofarIs
  <1> HIDE DEF c, m, n
  <1>2. ASSUME NEW i \in 1..(m + n) PROVE StepFine(kind, params, k, c[i], D \cup Sofar(c, i))
    <2> DEFINE B == D \cup Sofar(c, i)
    <2>1. CASE i <= m
      <3>1. i \in 1..m /\ c[i] = s[i]
        BY <2>1, <1>1
      <3>2. StepFine(kind, params, k, s[i], D \cup Sofar(s, i))
        BY <3>1 DEF SeqFine, m
      <3>3. D \cup Sofar(s, i) \subseteq B
        <4>1. ASSUME NEW j \in 1..(i - 1) PROVE Bound(s[j]) \subseteq Sofar(c, i)
          <5>1. c[j] = s[j]
            BY <3>1, <1>1
          <5>2. QED
            BY <5>1 DEF Sofar
        <4>2. QED
          BY <4>1 DEF Sofar
      <3> DEFINE A == D \cup Sofar(s, i)
      <3> HIDE DEF A, B
      <3>4. StepFine(kind, params, k, s[i], B)
        BY <3>2, <3>3, StepMore DEF A
      <3>5. QED
        BY <3>1, <3>4 DEF B
    <2>2. CASE ~(i <= m)
      <3> DEFINE l == i - m  A == D \cup AllBinds(s) \cup Sofar(t, l)
      <3>1. l \in 1..n /\ c[i] = t[l] /\ m + l = i
        BY <2>2, <1>1
      <3>2. StepFine(kind, params, k, t[l], A)
        BY <3>1 DEF SeqFine, n
      <3>3. ASSUME NEW j \in 1..m PROVE Bound(s[j]) \subseteq Sofar(c, i)
        <4>1. j \in 1..(i - 1) /\ c[j] = s[j]
          BY <2>2, <1>1
        <4>2. QED
          BY <4>1 DEF Sofar
      <3>4. ASSUME NEW j \in 1..(l - 1) PROVE Bound(t[j]) \subseteq Sofar(c, i)
        <4>1. m + j \in 1..(i - 1) /\ c[m + j] = t[j]
          <5>1. m + j \in 1..(m + n) /\ m + j \in 1..(i - 1) /\ ~(m + j <= m) /\ m + j - m = j
            BY <3>1, <1>1
          <5>2. QED
            BY <5>1, <1>1
        <4>2. QED
          BY <4>1 DEF Sofar
      <3>5. AllBinds(s) \subseteq Sofar(c, i) /\ Sofar(t, l) \subseteq Sofar(c, i)
        <4>1. (m + 1) - 1 = m
          BY <1>1
        <4>2. AllBinds(s) = UNION {Bound(s[j]) : j \in 1..m}
          <5>1. Sofar(s, m + 1) = UNION {Bound(s[j]) : j \in 1..((m + 1) - 1)}
            BY DEF Sofar
          <5>2. QED
            BY <1>a, <4>1, <5>1
        <4>3. Sofar(t, l) = UNION {Bound(t[j]) : j \in 1..(l - 1)}
          BY DEF Sofar
        <4> DEFINE C == Sofar(c, i)
        <4> HIDE DEF l, C
        <4>4. UNION {Bound(s[j]) : j \in 1..m} \subseteq C
          BY <3>3 DEF C
        <4>5. UNION {Bound(t[j]) : j \in 1..(l - 1)} \subseteq C
          BY <3>4 DEF C
        <4>6. QED
          BY <4>2, <4>3, <4>4, <4>5 DEF C
      <3>6. A \subseteq B
        BY <3>5
      <3> HIDE DEF A, B, l
      <3>7. StepFine(kind, params, k, t[l], B)
        BY <3>2, <3>6, StepMore
      <3>8. QED
        BY <3>1, <3>7 DEF B
    <2>3. QED
      BY <2>1, <2>2
  <1>3. SeqFine(kind, params, k, c, D)
    BY <1>1, <1>2 DEF SeqFine
  <1>4. QED
    BY <1>3 DEF c

LEMMA FineCopies ==
  ASSUME NEW kind, NEW params, NEW k, NEW do \in Seq(Steps), NEW n \in Nat, NEW D,
         SeqFine(kind, params, k, do, D)
  PROVE  /\ Copies(do, n) \in Seq(Steps) /\ SeqFine(kind, params, k, Copies(do, n), D)
         /\ n # 0 => AllBinds(do) \subseteq AllBinds(Copies(do, n))
  <1>1. PICK copies \in [0..n -> Seq(Steps)] :
           /\ \A i \in 0..n : copies[i] = Copied(do, i, copies[i - 1])
           /\ Copies(do, n) = copies[n]
    BY CopiesAre
  <1> DEFINE J == {i \in 0..n : SeqFine(kind, params, k, copies[i], D)}
  <1>2. 0 \in J
    <2>1. copies[0] = <<>> /\ 0 \in 0..n
      BY <1>1 DEF Copied
    <2>2. QED
      BY <2>1, FineEmpty
  <1>3. \A i \in 1..n : i \in 0..n /\ i - 1 \in 0..n /\ copies[i - 1] \in Seq(Steps) /\ copies[i] = do \o copies[i - 1]
    <2> TAKE i \in 1..n
    <2>1. i \in 0..n /\ i - 1 \in 0..n /\ i # 0
      OBVIOUS
    <2>2. QED
      BY <1>1, <2>1 DEF Copied
  <1>4. ASSUME NEW i \in 1..n, i - 1 \in J PROVE i \in J
    <2> DEFINE t == copies[i - 1]  E == D \cup AllBinds(do)
    <2>1. t \in Seq(Steps) /\ copies[i] = do \o t /\ i \in 0..n /\ SeqFine(kind, params, k, t, D)
      BY <1>3, <1>4
    <2>2. D \subseteq E
      OBVIOUS
    <2> HIDE DEF t
    <2>3. SeqFine(kind, params, k, t, E)
      <3> HIDE DEF E
      <3>1. QED
        BY <2>1, <2>2, FineMore
    <2>4. SeqFine(kind, params, k, do \o t, D)
      BY <2>1, <2>3, FineConcat
    <2>5. QED
      BY <2>1, <2>4
  <1>5. \A i \in 0..n : i \in J
    <2> HIDE DEF J
    <2>1. QED
      BY <1>2, <1>4, CountUp
  <1>6. n \in 0..n
    OBVIOUS
  <1>7. ASSUME n # 0 PROVE AllBinds(do) \subseteq AllBinds(Copies(do, n))
    <2> DEFINE t == copies[n - 1]
    <2>1. n \in 1..n
      BY <1>7
    <2>2. t \in Seq(Steps) /\ Copies(do, n) = do \o t
      BY <1>1, <1>3, <2>1
    <2> HIDE DEF t
    <2>3. Range(do) \subseteq Range(do \o t)
      <3>1. DOMAIN (do \o t) = 1..(Len(do) + Len(t)) /\ DOMAIN do = 1..Len(do) /\ Len(do) \in Nat /\ Len(t) \in Nat
        BY <2>2
      <3>2. \A i \in 1..Len(do) : i \in 1..(Len(do) + Len(t)) /\ (do \o t)[i] = do[i]
        BY <2>2, <3>1, ConcatIs
      <3>3. QED
        BY <3>1, <3>2 DEF Range
    <2>4. QED
      BY <2>2, <2>3, AllBindsAre
  <1>8. QED
    BY <1>1, <1>5, <1>6, <1>7

-----------------------------------------------------------------------------
(* The sections of a scenario, each from what the ones before it bind.     *)
Over(secs, i) == UNION {AllBinds(secs[j].steps) : j \in 1..(i - 1)}

SectionCtx(ctx, name) == [ctx EXCEPT !.section = name]

Sectioning(ctx, secs, p) ==
  /\ p \in [0..Len(secs) -> Pass] /\ p[0] = Start
  /\ \A i \in 1..Len(secs) : p[i] = CheckSection(ctx, p[i - 1], secs[i])
  /\ CheckSections(ctx, secs) = p[Len(secs)]

LEMMA StartIs == Start \in Pass /\ Start.defined = {}
  <1> DEFINE w == Start
  <1>1. /\ w = [x \in DOMAIN w |-> w[x]] /\ DOMAIN w = PassFields
        /\ w.defined = {} /\ w.bg = {} /\ w.out = {} /\ w.captures = {} /\ w.flags = {}
    BY DEF Start, PassFields
  <1> HIDE DEF w
  <1>2. w \in Pass
    BY <1>1, PassMade
  <1>3. QED
    BY <1>1, <1>2 DEF w

LEMMA SectionGrows ==
  ASSUME NEW ctx, NEW sec, sec.steps \in Seq(Steps), Knows(SectionCtx(ctx, sec.name)), NEW v \in Pass
  PROVE  /\ CheckSection(ctx, v, sec) = CheckSteps(Checker(SectionCtx(ctx, sec.name)), v, Alone, sec.steps)
         /\ CheckSection(ctx, v, sec) \in Grown(v, AllBinds(sec.steps))
  <1> DEFINE c == SectionCtx(ctx, sec.name)  steps == sec.steps
  <1>1. CheckSection(ctx, v, sec) = CheckSteps(Checker(c), v, Alone, steps)
    BY DEF CheckSection, SectionCtx
  <1>2. Knows(c) /\ steps \in Seq(Steps)
    OBVIOUS
  <1> HIDE DEF c, steps
  <1>3. Goes(Checker(c), steps, Alone)
    BY <1>2, CheckerGoes, AloneIs
  <1>4. PICK p : Passing(Checker(c), v, Alone, steps, p)
    BY <1>2, <1>3, PassIs
  <1>5. CheckSteps(Checker(c), v, Alone, steps) \in Grown(v, AllBinds(steps))
    BY <1>2, <1>3, <1>4, PassGrows
  <1>6. QED
    BY <1>1, <1>5 DEF c, steps

LEMMA SectioningIs ==
  ASSUME NEW ctx, NEW secs, Len(secs) \in Nat,
         \A i \in 1..Len(secs) : secs[i].steps \in Seq(Steps) /\ Knows(SectionCtx(ctx, secs[i].name))
  PROVE  \E p : Sectioning(ctx, secs, p)
  <1> DEFINE n == Len(secs)
             V == Pass
             G == [p \in V \X (1..n) |-> CheckSection(ctx, p[1], secs[p[2]])]
             is(f) == f = [i \in 0..n |-> IF i = 0 THEN Start ELSE CheckSection(ctx, f[i - 1], secs[i])]
             q == CHOOSE f : is(f)
  <1>1. n \in Nat /\ Start \in V
    BY StartIs
  <1>2. \A w \in V, i \in 1..n : G[<<w, i>>] = CheckSection(ctx, w, secs[i])
    OBVIOUS
  <1>3. \A w \in V, i \in 1..n : G[<<w, i>>] \in V
    BY <1>2, SectionGrows DEF Grown
  <1>o. CheckSections(ctx, secs) = q[n]
    BY DEF CheckSections
  <1>4. Stepping(n, V, G)
    BY <1>3 DEF Stepping
  <1> HIDE DEF V, G, n
  <1>5. PICK f \in [0..n -> V] : f[0] = Start /\ \A i \in 1..n : f[i] = G[<<f[i - 1], i>>]
    <2>1. Lists(n, V, Start, G) # {}
      BY <1>1, <1>4, PrefixRecursion
    <2>2. QED
      BY <2>1 DEF Lists
  <1>6. \A i \in 0..n : f[i] = IF i = 0 THEN Start ELSE CheckSection(ctx, f[i - 1], secs[i])
    <2> TAKE i \in 0..n
    <2>1. CASE i = 0
      BY <2>1, <1>5
    <2>2. CASE i # 0
      <3>1. i \in 1..n /\ i - 1 \in 0..n
        BY <1>1, <2>2
      <3>2. f[i - 1] \in V
        BY <3>1
      <3>3. QED
        BY <2>2, <3>1, <3>2, <1>2, <1>5
    <2>3. QED
      BY <2>1, <2>2
  <1>7. f = [i \in 0..n |-> f[i]]
    OBVIOUS
  <1>8. is(f)
    BY <1>6, <1>7, Zenon
  <1>9. is(q)
    BY <1>8
  <1>10. q = [i \in 0..n |-> q[i]]
    BY <1>9
  <1>11. \A i \in 0..n : q[i] = IF i = 0 THEN Start ELSE CheckSection(ctx, q[i - 1], secs[i])
    BY <1>9
  <1> HIDE DEF q
  <1>12. q[0] = Start
    BY <1>1, <1>11
  <1>13. \A i \in 1..n : q[i] = CheckSection(ctx, q[i - 1], secs[i])
    <2>1. \A i \in 1..n : i \in 0..n /\ i # 0
      BY <1>1
    <2>2. QED
      BY <2>1, <1>11
  <1>14. Made(n, V, G, q)
    BY <1>2, <1>13 DEF Made
  <1>15. q \in [0..n -> V]
    BY ONLY <1>1, <1>4, <1>10, <1>12, <1>14, ListIs
  <1>16. Sectioning(ctx, secs, q)
    BY <1>o, <1>12, <1>13, <1>15 DEF Sectioning, n, V
  <1>17. QED
    BY <1>16

LEMMA SectionsClean ==
  ASSUME NEW ctx, NEW k, NEW secs, Len(secs) \in Nat,
         \A i \in 1..Len(secs) : secs[i].steps \in Seq(Steps) /\ Sees(SectionCtx(ctx, secs[i].name), k),
         Faultless(CheckSections(ctx, secs))
  PROVE  \A i \in 1..Len(secs) : SeqClean(k, secs[i].steps, Over(secs, i))
  <1> DEFINE n == Len(secs)
  <1>1. \A i \in 1..n : secs[i].steps \in Seq(Steps) /\ Knows(SectionCtx(ctx, secs[i].name))
    BY DEF Sees
  <1>2. PICK p : Sectioning(ctx, secs, p)
    BY <1>1, SectioningIs
  <1>3. n \in Nat /\ p \in [0..n -> Pass] /\ p[0] = Start /\ Faultless(p[n])
        /\ \A i \in 1..n : p[i] = CheckSection(ctx, p[i - 1], secs[i])
    BY <1>2 DEF Sectioning
  <1> HIDE DEF n
  <1>4. ASSUME NEW i \in 1..n
        PROVE  p[i].out \in SUBSET p[i].out /\ p[i - 1].out \subseteq p[i].out
               /\ p[i].defined \subseteq p[i - 1].defined \cup AllBinds(secs[i].steps)
    <2> DEFINE v == p[i - 1]  sec == secs[i]
    <2>1. i - 1 \in 0..n
      BY <1>3
    <2>2. v \in Pass /\ p[i] = CheckSection(ctx, v, sec) /\ sec.steps \in Seq(Steps) /\ Knows(SectionCtx(ctx, sec.name))
      BY <1>1, <1>3, <2>1
    <2> HIDE DEF v, sec
    <2>3. p[i] \in Grown(v, AllBinds(sec.steps))
      BY <2>2, SectionGrows
    <2>4. QED
      BY <2>3 DEF Grown, v, sec
  <1> DEFINE J == {i \in 0..n : p[i].defined \subseteq Over(secs, i + 1) /\ \A j \in 0..i : p[j].out \subseteq p[i].out}
  <1>5. 0 \in J
    <2>1. 0 \in 0..n /\ 0..0 = {0}
      BY <1>3
    <2>2. QED
      BY <2>1, <1>3, StartIs
  <1>6. ASSUME NEW i \in 1..n, i - 1 \in J PROVE i \in J
    <2>1. i \in 0..n /\ 0..i = (0..(i - 1)) \cup {i} /\ (i - 1) + 1 = i /\ i \in Nat
      BY <1>3
    <2>2. p[i - 1].defined \subseteq Over(secs, i) /\ \A j \in 0..(i - 1) : p[j].out \subseteq p[i - 1].out
      BY <1>6, <2>1
    <2>3. Over(secs, i) \cup AllBinds(secs[i].steps) \subseteq Over(secs, i + 1)
      <3>1. 1..(i - 1) \subseteq 1..((i + 1) - 1) /\ i \in 1..((i + 1) - 1)
        BY <2>1
      <3>2. QED
        BY <3>1 DEF Over
    <2>4. p[i].defined \subseteq Over(secs, i + 1)
      BY <1>4, <2>2, <2>3
    <2>5. \A j \in 0..i : p[j].out \subseteq p[i].out
      BY <1>4, <2>1, <2>2
    <2>6. QED
      BY <2>1, <2>4, <2>5
  <1>7. \A i \in 0..n : i \in J
    <2> HIDE DEF J
    <2>1. QED
      BY <1>3, <1>5, <1>6, CountUp
  <1>8. ASSUME NEW i \in 1..n PROVE SeqClean(k, secs[i].steps, Over(secs, i))
    <2> DEFINE v == p[i - 1]  sec == secs[i]  c == SectionCtx(ctx, sec.name)  D == Over(secs, i)
    <2>1. i - 1 \in 0..n /\ i \in 0..n /\ n \in 0..n /\ (i - 1) + 1 = i
      BY <1>3
    <2>2. p[i].out \subseteq p[n].out
      BY <1>7, <2>1
    <2>3. Faultless(p[i])
      BY <1>3, <2>2, FewerFaults
    <2>4. v \in Pass /\ p[i] = CheckSection(ctx, v, sec) /\ v.defined \subseteq D
      BY <1>3, <1>7, <2>1
    <2>5. sec.steps \in Seq(Steps) /\ Sees(c, k) /\ Knows(c)
      BY <1>1 DEF n
    <2>6. p[i] = CheckSteps(Checker(c), v, Alone, sec.steps)
      BY <2>4, <2>5, SectionGrows
    <2> HIDE DEF v, sec, c, D
    <2>7. SeqClean(k, sec.steps, D)
      BY <2>3, <2>4, <2>5, <2>6, AloneIs, CleanSteps
    <2>8. QED
      BY <2>7 DEF sec, D
  <1>9. QED
    BY <1>8 DEF n

-----------------------------------------------------------------------------
(* What a validation without errors says of a scenario.                    *)
KnownOf(sc, project, insts) ==
  [specs |-> Specs(insts), vars |-> project.vars \cup sc.vars, env |-> DOMAIN project.env]

LEMMA BlocksResolve ==
  ASSUME NEW insts
  PROVE  <<"parallel">> \in DOMAIN Specs(insts) /\ <<"repeat">> \in DOMAIN Specs(insts)
  <1>1. "parallel" \in DOMAIN Builtins /\ "repeat" \in DOMAIN Builtins
    BY DEF Builtins
  <1>2. {<<b>> : b \in DOMAIN Builtins} \subseteq DOMAIN Specs(insts)
    BY DEF Specs
  <1>3. QED
    BY <1>1, <1>2

LEMMA CtxIs ==
  ASSUME NEW ctx, "specs" \in DOMAIN ctx, "vars" \in DOMAIN ctx, "env" \in DOMAIN ctx, NEW name
  PROVE  /\ SectionCtx(ctx, name).specs = ctx.specs /\ SectionCtx(ctx, name).vars = ctx.vars
         /\ SectionCtx(ctx, name).env = ctx.env
  BY DEF SectionCtx

LEMMA ScenarioClean ==
  ASSUME NEW sc, {sc.setup, sc.steady, sc.method, sc.verify, sc.teardown} \subseteq Seq(Steps), NEW project, NEW insts,
         \A f \in CheckScenario(sc, project, insts) : f.severity # "error"
  PROVE  \A i \in 1..5 : SeqClean(KnownOf(sc, project, insts), Sections(sc)[i].steps, Over(Sections(sc), i))
  <1> DEFINE secs == Sections(sc)
             k == KnownOf(sc, project, insts)
             later == FoldLeft(LAMBDA acc, sec : BindersOf(sec.steps) @@ acc, <<>>, secs)
             ctx == [specs |-> Specs(insts), vars |-> project.vars \cup sc.vars, env |-> DOMAIN project.env,
                     later |-> later, section |-> ""]
             v == CheckSections(ctx, secs)
  <1>1. CheckScenario(sc, project, insts) = CheckWhole(v, sc, insts)
    BY Zenon DEF CheckScenario
  <1>2. Len(secs) = 5 /\ \A i \in 1..5 : secs[i].steps \in Seq(Steps)
    BY DEF Sections
  <1> HIDE DEF later
  <1>3. ASSUME NEW name PROVE Sees(SectionCtx(ctx, name), k)
    <2>2. /\ SectionCtx(ctx, name).specs = Specs(insts) /\ SectionCtx(ctx, name).vars = project.vars \cup sc.vars
          /\ SectionCtx(ctx, name).env = DOMAIN project.env
      <3>1. /\ ctx.specs = Specs(insts) /\ ctx.vars = project.vars \cup sc.vars /\ ctx.env = DOMAIN project.env
            /\ "specs" \in DOMAIN ctx /\ "vars" \in DOMAIN ctx /\ "env" \in DOMAIN ctx
        OBVIOUS
      <3> HIDE DEF ctx
      <3>2. QED
        BY <3>1, CtxIs
    <2>3. k.specs = Specs(insts) /\ k.vars = project.vars \cup sc.vars /\ k.env = DOMAIN project.env
      BY DEF KnownOf
    <2>4. QED
      BY <2>2, <2>3, BlocksResolve DEF Sees, Knows
  <1> HIDE DEF ctx, secs, k
  <1>4. Faultless(v)
    <2> HIDE DEF v
    <2>1. v.out \subseteq CheckWhole(v, sc, insts)
      BY DEF CheckWhole
    <2>2. QED
      BY <2>1, <1>1 DEF Faultless
  <1> HIDE DEF v
  <1>5. Faultless(CheckSections(ctx, secs)) /\ Len(secs) \in Nat /\ 1..5 = 1..Len(secs)
    BY <1>2, <1>4 DEF v
  <1>6. \A i \in 1..Len(secs) : secs[i].steps \in Seq(Steps) /\ Sees(SectionCtx(ctx, secs[i].name), k)
    BY <1>2, <1>3
  <1>7. \A i \in 1..Len(secs) : SeqClean(k, secs[i].steps, Over(secs, i))
    BY ONLY <1>5, <1>6, SectionsClean
  <1>8. QED
    BY <1>2, <1>7 DEF k, secs

LEMMA ReportClean ==
  ASSUME NEW defs, NEW project, NEW sc, NEW found \in ScenarioFindings(defs, project, sc), Errors(found) = {}
  PROVE  /\ NewErrors(defs, MergeProviders(project.providers, sc.providers)) = {}
         /\ \A f \in CheckScenario(sc, project, Instances(defs, MergeProviders(project.providers, sc.providers))) :
              f.severity # "error"
  <1> DEFINE merged == MergeProviders(project.providers, sc.providers)
             stops == NewErrors(defs, merged)
             none == CheckScenario(sc, project, Instances(defs, merged))
  <1>1. ScenarioFindings(defs, project, sc) =
          IF stops # {} THEN {{Fault(IF e = "nesting" THEN 4 ELSE 3, <<>>)} : e \in stops} ELSE {none}
    BY Zenon DEF ScenarioFindings
  <1> HIDE DEF stops, none
  <1>2. \A f \in found : f.severity # "error"
    BY DEF Errors
  <1>3. stops = {}
    <2> SUFFICES ASSUME stops # {} PROVE FALSE
      OBVIOUS
    <2>1. PICK e \in stops : found = {Fault(IF e = "nesting" THEN 4 ELSE 3, <<>>)}
      BY <1>1
    <2>2. QED
      BY <2>1, <1>2 DEF Fault
  <1>4. found = none
    BY <1>1, <1>3
  <1>5. QED
    BY <1>2, <1>3, <1>4 DEF stops, none

(* ... and of the body of a composed verb.                                 *)
LEMMA VerbClean ==
  ASSUME NEW cv, cv.body \in Seq(Steps), NEW k, \A f \in CheckVerb(cv, k.env) : f.severity # "error"
  PROVE  SeqFine("macro", Range(cv.params), k, cv.body, {})
  <1> DEFINE names == Range(cv.params)
             env == k.env
             body == cv.body
             bound(i) == UNION {cv.body[j].binds : j \in 1..(i - 1)}
             ref(i, r) == CASE r[1] = "params"  -> When(r[2] \notin names, Fault(10, r))
                            [] r[1] = "outputs" -> When(r[2] \notin bound(i), Fault(10, r))
                            [] r[1] = "env"     -> When(r[2] \notin env, Fault(10, r))
                            [] r[1] = "vars"    -> {}
                            [] OTHER -> {Fault(10, r)}
  <1>1. DOMAIN body = 1..Len(body) /\ body \in Seq(Steps) /\ Len(body) \in Nat
    OBVIOUS
  <1>2. ASSUME NEW i \in DOMAIN body, NEW r \in RefsOf(body[i]) PROVE ref(i, r) \subseteq CheckVerb(cv, env)
    BY DEF CheckVerb
  <1>3. \A c, x : (\A f \in When(c, Fault(10, x)) : f.severity # "error") => ~c
    BY DEF When, Fault
  <1>4. \A x : Fault(10, x).severity = "error"
    BY DEF Fault
  <1>5. ASSUME NEW i \in 1..Len(body) PROVE bound(i) \subseteq Sofar(body, i)
    <2>1. ASSUME NEW j \in 1..(i - 1) PROVE body[j].binds \subseteq Bound(body[j])
      <3>1. body[j] \in Steps
        BY <1>1
      <3>2. QED
        BY <3>1, StepParts
    <2>2. QED
      BY <2>1 DEF Sofar
  <1>6. ASSUME NEW i \in 1..Len(body), NEW r \in RefsOf(body[i])
        PROVE  /\ r[1] \in {"params", "outputs", "env", "vars"}
               /\ (r[1] = "params" => r[2] \in names) /\ (r[1] = "env" => r[2] \in env)
               /\ (r[1] = "outputs" => r[2] \in bound(i))
    <2> DEFINE R == ref(i, r)
    <2>1. \A f \in R : f.severity # "error"
      BY <1>1, <1>2
    <2>2. R = CASE r[1] = "params"  -> When(r[2] \notin names, Fault(10, r))
                [] r[1] = "outputs" -> When(r[2] \notin bound(i), Fault(10, r))
                [] r[1] = "env"     -> When(r[2] \notin env, Fault(10, r))
                [] r[1] = "vars"    -> {}
                [] OTHER -> {Fault(10, r)}
      OBVIOUS
    <2> HIDE DEF R, bound, names, env, body
    <2>3. r[1] = "params" => R = When(r[2] \notin names, Fault(10, r))
      BY <2>2
    <2>4. r[1] = "outputs" => R = When(r[2] \notin bound(i), Fault(10, r))
      BY <2>2
    <2>5. r[1] = "env" => R = When(r[2] \notin env, Fault(10, r))
      BY <2>2
    <2>6. r[1] \notin {"params", "outputs", "env", "vars"} => R = {Fault(10, r)}
      BY <2>2
    <2>7. QED
      BY <2>1, <2>3, <2>4, <2>5, <2>6, <1>3, <1>4
  <1>7. ASSUME NEW i \in 1..Len(body) PROVE StepFine("macro", names, k, body[i], {} \cup Sofar(body, i))
    <2>1. MacroClean(k, names, body[i], {} \cup Sofar(body, i))
      BY <1>5, <1>6 DEF MacroClean
    <2>2. QED
      BY <2>1 DEF StepFine
  <1>8. QED
    BY <1>7 DEF SeqFine

-----------------------------------------------------------------------------
(* A frame of a run without faults: its steps are clean, of the names its  *)
(* scope binds and the ones in G, which are excused.  A frame and the one  *)
(* it is opened from: what the step it is opened for binds is bound there  *)
(* in the end, to come, or excused.                                        *)
Cover(f, G) == f.outputs \cup G \cup AllBinds(f.todo)

RestBinds(rest) == UNION {AllBinds(b) : b \in Range(rest)}

FrameFine(k, f, G) == SeqFine(f.kind, f.params, k, f.todo, f.outputs \cup G)

Link(k, b, t, G) ==
  /\ t.kind = "branch" =>
       /\ Bound(Head(b.todo)) \subseteq b.outputs \cup t.wrote \cup Cover(t, G) \cup RestBinds(t.rest)
       /\ \A i \in 1..Len(t.rest) : SeqClean(k, t.rest[i], b.outputs \cup G)
  /\ t.kind = "body" => b.outputs \subseteq t.outputs \cup G /\ Bound(Head(b.todo)) \subseteq Cover(t, G)
  /\ t.kind = "macro" => Bound(Head(b.todo)) = Head(b.todo).binds

StackFine(k, s, G) ==
  \A i \in 1..Len(s) : FrameFine(k, s[i], G) /\ (i # 1 => Link(k, s[i - 1], s[i], G))

(* What becomes of a frame.                                                *)
Moves(k, f, g, G, H) ==
  /\ g.kind = f.kind /\ g.rest = f.rest /\ g.wrote = f.wrote /\ g.stop = f.stop
  /\ G \subseteq H /\ f.outputs \cup G \subseteq g.outputs \cup H
  /\ Cover(f, G) \subseteq Cover(g, H)
  /\ FrameFine(k, g, H)

LEMMA MovesOn ==
  ASSUME NEW k, NEW f, NEW g, NEW h, NEW G, NEW H, NEW I, Moves(k, f, g, G, H), Moves(k, g, h, H, I)
  PROVE  Moves(k, f, h, G, I)
  BY DEF Moves

LEMMA FrameGrows ==
  ASSUME NEW k, NEW f, NEW G, NEW H, G \subseteq H, FrameFine(k, f, G)
  PROVE  FrameFine(k, f, H)
  <1> DEFINE D == f.outputs \cup G  E == f.outputs \cup H
  <1>1. D \subseteq E /\ SeqFine(f.kind, f.params, k, f.todo, D)
    BY DEF FrameFine
  <1> HIDE DEF D, E
  <1>2. SeqFine(f.kind, f.params, k, f.todo, E)
    BY <1>1, FineMore
  <1>3. QED
    BY <1>2 DEF FrameFine, E

LEMMA CleanMore ==
  ASSUME NEW k, NEW todo, NEW D, NEW E, D \subseteq E, SeqClean(k, todo, D)
  PROVE  SeqClean(k, todo, E)
  <1>1. SeqFine("section", {}, k, todo, D)
    BY FineIsClean
  <1>2. SeqFine("section", {}, k, todo, E)
    BY <1>1, FineMore
  <1>3. QED
    BY <1>2, FineIsClean

LEMMA LinkMoves ==
  ASSUME NEW k, NEW b, NEW t, NEW u, NEW G, NEW H, Link(k, b, t, G), Moves(k, t, u, G, H)
  PROVE  Link(k, b, u, H)
  <1>1. /\ u.kind = t.kind /\ u.rest = t.rest /\ u.wrote = t.wrote /\ G \subseteq H
        /\ t.outputs \cup G \subseteq u.outputs \cup H /\ Cover(t, G) \subseteq Cover(u, H)
    BY DEF Moves
  <1>2. ASSUME u.kind = "branch"
        PROVE  /\ Bound(Head(b.todo)) \subseteq b.outputs \cup u.wrote \cup Cover(u, H) \cup RestBinds(u.rest)
               /\ \A i \in 1..Len(u.rest) : SeqClean(k, u.rest[i], b.outputs \cup H)
    <2>1. /\ Bound(Head(b.todo)) \subseteq b.outputs \cup t.wrote \cup Cover(t, G) \cup RestBinds(t.rest)
          /\ \A i \in 1..Len(t.rest) : SeqClean(k, t.rest[i], b.outputs \cup G)
      BY <1>1, <1>2 DEF Link
    <2> DEFINE D == b.outputs \cup G  E == b.outputs \cup H
    <2>2. D \subseteq E
      BY <1>1
    <2>3. \A i \in 1..Len(t.rest) : SeqClean(k, t.rest[i], D)
      BY <2>1
    <2> HIDE DEF D, E
    <2>4. \A i \in 1..Len(t.rest) : SeqClean(k, t.rest[i], E)
      BY <2>2, <2>3, CleanMore
    <2>5. QED
      BY <1>1, <2>1, <2>4 DEF E
  <1>3. ASSUME u.kind = "body"
        PROVE  b.outputs \subseteq u.outputs \cup H /\ Bound(Head(b.todo)) \subseteq Cover(u, H)
    <2>1. b.outputs \subseteq t.outputs \cup G /\ Bound(Head(b.todo)) \subseteq Cover(t, G)
      BY <1>1, <1>3 DEF Link
    <2>2. QED
      BY <1>1, <2>1
  <1>4. u.kind = "macro" => Bound(Head(b.todo)) = Head(b.todo).binds
    BY <1>1 DEF Link
  <1>5. QED
    BY <1>2, <1>3, <1>4 DEF Link

LEMMA StillMoves ==
  ASSUME NEW k, NEW f, NEW G, NEW H, G \subseteq H, FrameFine(k, f, G)
  PROVE  Moves(k, f, f, G, H)
  <1>1. FrameFine(k, f, H)
    BY FrameGrows
  <1>2. QED
    BY <1>1 DEF Moves, Cover

LEMMA FineAt ==
  ASSUME NEW k, NEW s \in Seq(Frames), NEW G, StackFine(k, s, G), NEW i \in 1..Len(s)
  PROVE  FrameFine(k, s[i], G) /\ (i # 1 => Link(k, s[i - 1], s[i], G))
  BY DEF StackFine

(* A stack cut to n frames, the last one of which is another.              *)
Recut(s, t, n, f) == Len(t) = n /\ t[n] = f /\ \A i \in 1..(n - 1) : t[i] = s[i]

(* What becomes of the section at the bottom.                              *)
Bottom(s, t, G, H) == t # <<>> /\ t[1].stop = s[1].stop /\ Cover(s[1], G) \subseteq Cover(t[1], H)

LEMMA BottomIs ==
  ASSUME NEW s, NEW t, NEW G, NEW H, G \subseteq H, NEW n \in Nat \ {0}, NEW f, Recut(s, t, n, f),
         n = 1 => f.stop = s[1].stop /\ Cover(s[1], G) \subseteq Cover(f, H)
  PROVE  Bottom(s, t, G, H)
  <1>1. Len(t) = n /\ t[n] = f /\ \A i \in 1..(n - 1) : t[i] = s[i]
    BY DEF Recut
  <1>2. t # <<>>
    BY <1>1
  <1>3. CASE n = 1
    BY <1>1, <1>2, <1>3 DEF Bottom
  <1>4. CASE n # 1
    <2>1. 1 \in 1..(n - 1)
      BY <1>4
    <2>2. t[1] = s[1]
      BY <1>1, <2>1
    <2>3. QED
      BY <1>2, <2>2 DEF Bottom, Cover
  <1>5. QED
    BY <1>3, <1>4

LEMMA FineRecut ==
  ASSUME NEW k, NEW s \in Seq(Frames), NEW G, NEW H, G \subseteq H, StackFine(k, s, G),
         NEW n \in Nat \ {0}, n <= Len(s) + 1, NEW f, NEW t, Recut(s, t, n, f),
         FrameFine(k, f, H), n # 1 => Link(k, s[n - 1], f, H)
  PROVE  StackFine(k, t, H)
  <1>1. Len(t) = n /\ t[n] = f /\ Len(s) \in Nat /\ \A i \in 1..(n - 1) : t[i] = s[i]
    BY DEF Recut
  <1>2. ASSUME NEW i \in 1..(n - 1) PROVE FrameFine(k, t[i], H) /\ (i # 1 => Link(k, t[i - 1], t[i], H))
    <2>1. i \in 1..Len(s) /\ t[i] = s[i] /\ (i # 1 => i - 1 \in 1..(n - 1))
      BY <1>1
    <2>2. FrameFine(k, s[i], G) /\ (i # 1 => Link(k, s[i - 1], s[i], G))
      BY <2>1, FineAt
    <2> DEFINE g == s[i]  b == s[i - 1]
    <2>3. Moves(k, g, g, G, H) /\ FrameFine(k, g, H)
      BY <2>2, StillMoves DEF Moves
    <2> HIDE DEF g, b
    <2>4. i # 1 => Link(k, b, g, H)
      BY <2>2, <2>3, LinkMoves DEF g, b
    <2>5. i # 1 => t[i - 1] = s[i - 1]
      BY <1>1, <2>1
    <2>6. QED
      BY <2>1, <2>3, <2>4, <2>5 DEF g, b
  <1>3. n # 1 => t[n - 1] = s[n - 1]
    <2>1. n # 1 => n - 1 \in 1..(n - 1)
      OBVIOUS
    <2>2. QED
      BY <1>1, <2>1
  <1>4. ASSUME NEW i \in 1..n PROVE FrameFine(k, t[i], H) /\ (i # 1 => Link(k, t[i - 1], t[i], H))
    <2>1. CASE i = n
      BY <2>1, <1>1, <1>3
    <2>2. CASE i # n
      <3>1. i \in 1..(n - 1)
        BY <2>2
      <3>2. QED
        BY <3>1, <1>2
    <2>3. QED
      BY <2>1, <2>2
  <1>5. QED
    BY <1>1, <1>4 DEF StackFine

LEMMA FineSwap ==
  ASSUME NEW k, NEW s \in Seq(Frames), s # <<>>, NEW G, NEW H, StackFine(k, s, G), NEW f \in Frames,
         Moves(k, s[Len(s)], f, G, H)
  PROVE  StackFine(k, Swap(s, f), H) /\ Bottom(s, Swap(s, f), G, H)
  <1> DEFINE n == Len(s)  t == Swap(s, f)
  <1>1. Recut(s, t, n, f) /\ n \in Nat \ {0} /\ n <= Len(s) + 1
    <2>1. Len(t) = n /\ n \in Nat \ {0} /\ t[n] = f /\ \A i \in 1..(n - 1) : t[i] = s[i]
      BY SwapIs
    <2>2. n <= Len(s) + 1
      BY <2>1
    <2> HIDE DEF n, t
    <2>3. QED
      BY <2>1, <2>2 DEF Recut
  <1>2. n \in 1..Len(s) /\ G \subseteq H /\ FrameFine(k, f, H)
    BY <1>1 DEF Moves
  <1>3. n # 1 => Link(k, s[n - 1], s[n], G)
    BY <1>2, FineAt
  <1>m. Moves(k, s[n], f, G, H)
    OBVIOUS
  <1> HIDE DEF n, t
  <1>4. n # 1 => Link(k, s[n - 1], f, H)
    BY <1>3, <1>m, LinkMoves
  <1>5. StackFine(k, t, H)
    BY <1>1, <1>2, <1>4, FineRecut
  <1>6. n = 1 => f.stop = s[1].stop /\ Cover(s[1], G) \subseteq Cover(f, H)
    BY <1>m DEF Moves
  <1>7. Bottom(s, t, G, H)
    BY <1>1, <1>2, <1>6, BottomIs
  <1>8. QED
    BY <1>5, <1>7 DEF t

LEMMA FineShrink ==
  ASSUME NEW k, NEW s \in Seq(Frames), Len(s) >= 2, NEW G, NEW H, StackFine(k, s, G), NEW f \in Frames,
         Moves(k, s[Len(s) - 1], f, G, H)
  PROVE  StackFine(k, Shrink(s, f), H) /\ Bottom(s, Shrink(s, f), G, H)
  <1> DEFINE n == Len(s) - 1  t == Shrink(s, f)
  <1>1. Recut(s, t, n, f) /\ n \in Nat \ {0} /\ n <= Len(s) + 1 /\ n \in 1..Len(s)
    <2>1. /\ Len(t) = Len(s) - 1 /\ Len(s) \in Nat /\ t[Len(s) - 1] = f /\ \A i \in 1..(Len(s) - 2) : t[i] = s[i]
      BY ShrinkIs
    <2>2. (Len(s) - 1) - 1 = Len(s) - 2
      BY <2>1
    <2> HIDE DEF t
    <2>3. Recut(s, t, n, f)
      BY <2>1, <2>2 DEF Recut
    <2>4. QED
      BY <2>1, <2>3
  <1>2. G \subseteq H /\ FrameFine(k, f, H)
    BY DEF Moves
  <1>3. n # 1 => Link(k, s[n - 1], s[n], G)
    BY <1>1, FineAt
  <1>m. Moves(k, s[n], f, G, H)
    OBVIOUS
  <1> HIDE DEF n, t
  <1>4. n # 1 => Link(k, s[n - 1], f, H)
    BY <1>3, <1>m, LinkMoves
  <1>5. StackFine(k, t, H)
    BY <1>1, <1>2, <1>4, FineRecut
  <1>6. n = 1 => f.stop = s[1].stop /\ Cover(s[1], G) \subseteq Cover(f, H)
    BY <1>m DEF Moves
  <1>7. Bottom(s, t, G, H)
    BY <1>1, <1>2, <1>6, BottomIs
  <1>8. QED
    BY <1>5, <1>7 DEF t

LEMMA FinePush ==
  ASSUME NEW k, NEW s \in Seq(Frames), s # <<>>, NEW G, NEW H, G \subseteq H, StackFine(k, s, G), NEW f \in Frames,
         FrameFine(k, f, H), Link(k, s[Len(s)], f, H)
  PROVE  StackFine(k, Append(s, f), H) /\ Bottom(s, Append(s, f), G, H)
  <1> DEFINE n == Len(s) + 1  t == Append(s, f)
  <1>1. Recut(s, t, n, f) /\ n \in Nat \ {0} /\ n <= Len(s) + 1 /\ n - 1 = Len(s)
    BY PushIs DEF Recut
  <1>2. Link(k, s[n - 1], f, H)
    BY <1>1
  <1>n. Len(s) + 1 # 1
    OBVIOUS
  <1> HIDE DEF n, t
  <1>3. StackFine(k, t, H)
    BY <1>1, <1>2, FineRecut
  <1>4. n # 1
    BY <1>n DEF n
  <1>5. Bottom(s, t, G, H)
    BY <1>1, <1>4, BottomIs
  <1>6. QED
    BY <1>3, <1>5 DEF t

(* A frame whose step is over.                                             *)
Ended(g, f, ok, bad, binds) ==
  /\ g.kind = f.kind /\ g.rest = f.rest /\ g.wrote = f.wrote /\ g.params = f.params /\ g.stop = f.stop
  /\ g.todo = (IF bad /\ f.stop THEN <<>> ELSE Tail(f.todo))
  /\ g.outputs = (IF ok THEN f.outputs \cup binds ELSE f.outputs)

LEMMA AfterHas ==
  ASSUME NEW f \in Frames, NEW ok \in BOOLEAN, NEW bad \in BOOLEAN, NEW binds
  PROVE  Ended(After(f, ok, bad, binds), f, ok, bad, binds)
  BY DEF After, Frames, Ended

LEMMA BindsOfTail ==
  ASSUME NEW todo \in Seq(Steps), todo # <<>>
  PROVE  /\ AllBinds(todo) = Bound(Head(todo)) \cup AllBinds(Tail(todo)) /\ AllBinds(<<>>) = {}
         /\ AllBinds(<<Head(todo)>>) = Bound(Head(todo))
  <1>1. \A X : \A s \in Seq(X) : s # <<>> => Range(s) = {Head(s)} \cup Range(Tail(s))
    <2> TAKE X
    <2> TAKE s \in Seq(X)
    <2> HAVE s # <<>>
    <2> DEFINE t == Tail(s)  n == Len(s)
    <2>1. t \in Seq(X) /\ n \in Nat \ {0} /\ Len(t) = n - 1 /\ Head(s) = s[1] /\ \A i \in 1..(n - 1) : t[i] = s[i + 1]
      BY TailIs
    <2>2. DOMAIN s = 1..n /\ DOMAIN t = 1..(n - 1)
      BY <2>1
    <2> HIDE DEF t, n
    <2>3. \A i \in 1..n : s[i] \in {Head(s)} \cup Range(t)
      <3> TAKE i \in 1..n
      <3>1. i = 1 \/ (i - 1 \in 1..(n - 1) /\ (i - 1) + 1 = i)
        BY <2>1
      <3>2. QED
        BY <2>1, <2>2, <3>1 DEF Range
    <2>4. \A i \in 1..(n - 1) : i + 1 \in 1..n /\ t[i] = s[i + 1]
      BY <2>1
    <2>5. 1 \in 1..n
      BY <2>1
    <2>6. Range(s) = {Head(s)} \cup Range(t)
      BY <2>1, <2>2, <2>3, <2>4, <2>5 DEF Range
    <2>7. QED
      BY <2>6 DEF t
  <1>2. Range(todo) = {Head(todo)} \cup Range(Tail(todo))
    BY <1>1
  <1>3. \A x : Range(<<x>>) = {x}
    BY DEF Range
  <1>4. Range(<<>>) = {}
    BY DEF Range
  <1> DEFINE one == Head(todo)  rest == Tail(todo)
  <1>5. Range(todo) = {one} \cup Range(rest)
    BY <1>2
  <1> HIDE DEF one, rest
  <1>6. Range(<<one>>) = {one}
    BY <1>3
  <1>7. AllBinds(todo) = Bound(one) \cup AllBinds(rest)
    BY <1>5, AllBindsAre
  <1>8. AllBinds(<<>>) = {}
    BY <1>4, AllBindsAre
  <1>9. AllBinds(<<one>>) = Bound(one)
    BY <1>6, AllBindsAre
  <1>10. QED
    BY <1>7, <1>8, <1>9 DEF one, rest

Excused(r, G) == r[1] = "outputs" /\ r[2] \in G

LEMMA HeadFine ==
  ASSUME NEW k, NEW f \in Frames, f.todo # <<>>, NEW G, FrameFine(k, f, G)
  PROVE  StepFine(f.kind, f.params, k, Head(f.todo), f.outputs \cup G)
  <1> DEFINE todo == f.todo  D == f.outputs \cup G
  <1>1. todo \in Seq(Steps) /\ todo # <<>>
    BY DEF Frames
  <1>2. SeqFine(f.kind, f.params, k, todo, D)
    BY DEF FrameFine
  <1> HIDE DEF todo, D
  <1>3. 1 \in 1..Len(todo) /\ Head(todo) = todo[1]
    BY <1>1, TailIs
  <1>4. StepFine(f.kind, f.params, k, todo[1], D \cup Sofar(todo, 1))
    BY <1>2, <1>3 DEF SeqFine
  <1>5. D \cup Sofar(todo, 1) = D
    BY <1>1, SofarIs
  <1>6. StepFine(f.kind, f.params, k, Head(todo), D)
    BY <1>3, <1>4, <1>5
  <1>7. QED
    BY <1>6 DEF todo, D

LEMMA PairParts == \A r \in Pairs : r = <<r[1], r[2]>>
  <1>1. \A A, B : \A r \in A \X B : r = <<r[1], r[2]>>
    OBVIOUS
  <1>2. QED
    BY <1>1 DEF Pairs

-----------------------------------------------------------------------------
(* What a block's steps bind, and the frames it opens.                     *)
LEMMA RangeOfTail ==
  ASSUME NEW X, NEW s \in Seq(X), s # <<>>
  PROVE  Range(s) = {s[1]} \cup Range(Tail(s))
  <1> DEFINE t == Tail(s)  n == Len(s)
  <1>1. t \in Seq(X) /\ n \in Nat \ {0} /\ Len(t) = n - 1 /\ \A i \in 1..(n - 1) : t[i] = s[i + 1]
    BY TailIs
  <1>2. DOMAIN s = 1..n /\ DOMAIN t = 1..(n - 1)
    BY <1>1
  <1> HIDE DEF t, n
  <1>3. \A i \in 1..n : s[i] \in {s[1]} \cup Range(t)
    <2> TAKE i \in 1..n
    <2>1. i = 1 \/ (i - 1 \in 1..(n - 1) /\ (i - 1) + 1 = i)
      BY <1>1
    <2>2. QED
      BY <1>1, <1>2, <2>1 DEF Range
  <1>4. \A i \in 1..(n - 1) : i + 1 \in 1..n /\ t[i] = s[i + 1]
    BY <1>1
  <1>5. 1 \in 1..n
    BY <1>1
  <1>6. Range(s) = {s[1]} \cup Range(t)
    BY <1>1, <1>2, <1>3, <1>4, <1>5 DEF Range
  <1>7. QED
    BY <1>6 DEF t

LEMMA RestIs ==
  ASSUME NEW branches \in Seq(Seq(Steps)), branches # <<>>
  PROVE  /\ branches[1] \in Seq(Steps) /\ Tail(branches) \in Seq(Seq(Steps)) /\ 1 \in 1..Len(branches)
         /\ RestBinds(branches) = AllBinds(branches[1]) \cup RestBinds(Tail(branches))
         /\ \A i \in 1..Len(Tail(branches)) : i + 1 \in 1..Len(branches) /\ Tail(branches)[i] = branches[i + 1]
  <1> DEFINE X == Seq(Steps)  rest == Tail(branches)  n == Len(branches)
  <1>1. branches \in Seq(X) /\ branches # <<>>
    OBVIOUS
  <1>2. Range(branches) = {branches[1]} \cup Range(rest)
    BY <1>1, RangeOfTail
  <1>3. /\ rest \in Seq(X) /\ n \in Nat \ {0} /\ Len(rest) = n - 1 /\ Head(branches) = branches[1] /\ Head(branches) \in X
        /\ \A i \in 1..(n - 1) : rest[i] = branches[i + 1]
    BY <1>1, TailIs
  <1> HIDE DEF X, rest, n
  <1>4. RestBinds(branches) = AllBinds(branches[1]) \cup RestBinds(rest)
    BY <1>2 DEF RestBinds
  <1>5. 1 \in 1..n /\ \A i \in 1..Len(rest) : i + 1 \in 1..n /\ rest[i] = branches[i + 1]
    BY <1>3
  <1>6. QED
    BY <1>3, <1>4, <1>5 DEF X, rest, n

LEMMA RestEmpty == RestBinds(<<>>) = {}
  BY DEF RestBinds, Range

LEMMA BlockBinds ==
  ASSUME NEW st \in Steps, st.binds = {}
  PROVE  /\ st.run = <<"parallel">> => Bound(st) = RestBinds(st.branches)
         /\ st.run = <<"repeat">> => Bound(st) = AllBinds(st.do)
  <1>1. Bound(st) = UNION {Bound(s) : s \in Range(st.do) \cup Inner(st)}
    BY BoundEq
  <1>2. <<"parallel">> # <<"repeat">>
    OBVIOUS
  <1>3. Range(<<>>) = {}
    BY DEF Range
  <1>4. ASSUME st.run = <<"parallel">> PROVE Bound(st) = RestBinds(st.branches)
    <2>1. st.do = <<>>
      BY <1>2, <1>4, StepsAssumption
    <2>2. Bound(st) = UNION {Bound(s) : s \in UNION {Range(b) : b \in Range(st.branches)}}
      BY <1>1, <1>3, <2>1 DEF Inner
    <2>3. RestBinds(st.branches) = UNION {UNION {Bound(s) : s \in Range(b)} : b \in Range(st.branches)}
      BY AllBindsAre DEF RestBinds
    <2>4. QED
      BY <2>2, <2>3
  <1>5. ASSUME st.run = <<"repeat">> PROVE Bound(st) = AllBinds(st.do)
    <2>1. st.branches = <<>>
      BY <1>2, <1>5, StepsAssumption
    <2>2. Inner(st) = {}
      BY <1>3, <2>1 DEF Inner
    <2>3. QED
      BY <1>1, <2>2, AllBindsAre
  <1>6. QED
    BY <1>4, <1>5

LEMMA PlainBinds ==
  ASSUME NEW st \in Steps, ~Block(st)
  PROVE  Bound(st) = st.binds
  <1>1. st.do = <<>> /\ st.branches = <<>>
    BY StepsAssumption DEF Block
  <1>2. QED
    BY <1>1, StepParts

BlocksKnown(k) == <<"parallel">> \in DOMAIN k.specs /\ <<"repeat">> \in DOMAIN k.specs

LEMMA BranchFine ==
  ASSUME NEW k, NEW f \in Frames, NEW branches \in Seq(Seq(Steps)), branches # <<>>, NEW G,
         \A i \in 1..Len(branches) : SeqClean(k, branches[i], f.outputs \cup G),
         NEW g, g.kind = "branch", g.todo = branches[1], g.rest = Tail(branches), g.outputs = f.outputs,
         Bound(Head(f.todo)) \subseteq f.outputs \cup g.wrote \cup G \cup RestBinds(branches)
  PROVE  FrameFine(k, g, G) /\ Link(k, f, g, G)
  <1> DEFINE D == f.outputs \cup G  rest == Tail(branches)  one == branches[1]
  <1>1. /\ 1 \in 1..Len(branches) /\ RestBinds(branches) = AllBinds(one) \cup RestBinds(rest)
        /\ \A i \in 1..Len(rest) : i + 1 \in 1..Len(branches) /\ rest[i] = branches[i + 1]
    BY RestIs
  <1>2. SeqClean(k, one, D) /\ \A i \in 1..Len(rest) : SeqClean(k, rest[i], D)
    BY <1>1
  <1> HIDE DEF rest, one
  <1>3. SeqFine("branch", g.params, k, one, D)
    BY <1>2, FineIsClean
  <1>4. FrameFine(k, g, G)
    BY <1>3 DEF FrameFine, one
  <1>5. Cover(g, G) = f.outputs \cup G \cup AllBinds(one)
    BY DEF Cover, one
  <1>6. Bound(Head(f.todo)) \subseteq f.outputs \cup g.wrote \cup Cover(g, G) \cup RestBinds(g.rest)
    BY <1>1, <1>5 DEF rest
  <1>7. \A i \in 1..Len(g.rest) : SeqClean(k, g.rest[i], f.outputs \cup G)
    BY <1>2 DEF rest
  <1>8. Link(k, f, g, G)
    BY <1>6, <1>7 DEF Link
  <1>9. QED
    BY <1>4, <1>8

LEMMA ParallelFine ==
  ASSUME NEW k, BlocksKnown(k), NEW f \in Frames, f.todo # <<>>, f.kind # "macro", NEW G, FrameFine(k, f, G),
         NEW st, st = Head(f.todo), st.run = <<"parallel">>, st.branches # <<>>
  PROVE  FrameFine(k, Branch(f, st.branches), G) /\ Link(k, f, Branch(f, st.branches), G)
  <1> DEFINE D == f.outputs \cup G  g == Branch(f, st.branches)  branches == st.branches
  <1>1. st \in Steps
    <2>1. f.todo \in Seq(Steps)
      BY DEF Frames
    <2>2. QED
      BY <2>1, TailIs
  <1>2. StepClean(k, st, D)
    BY HeadFine DEF StepFine
  <1>3. st.binds = {} /\ \A i \in 1..Len(branches) : SeqClean(k, branches[i], D)
    <2> HIDE DEF D
    <2>1. QED
      BY <1>1, <1>2, CleanStep DEF BlocksKnown, Block
  <1>4. Bound(st) = RestBinds(branches)
    BY <1>1, <1>3, BlockBinds
  <1>5. branches \in Seq(Seq(Steps)) /\ branches # <<>>
    BY <1>1, StepsAssumption
  <1>6. g.kind = "branch" /\ g.todo = branches[1] /\ g.rest = Tail(branches) /\ g.outputs = f.outputs
    BY <1>5, BranchIs
  <1>7. Bound(Head(f.todo)) \subseteq f.outputs \cup g.wrote \cup G \cup RestBinds(branches)
    BY <1>4
  <1> HIDE DEF g, branches
  <1>8. FrameFine(k, g, G) /\ Link(k, f, g, G)
    BY <1>3, <1>5, <1>6, <1>7, BranchFine
  <1>9. QED
    BY <1>8 DEF g, branches

-----------------------------------------------------------------------------
(* Composed verbs.                                                         *)
LEMMA VerbListed ==
  ASSUME NEW docs, NEW defs \in Seq(Of(docs, "Provider")), NEW providers, NEW run,
         IsComposed(Instances(defs, providers), run), Exists(Instances(defs, providers), run)
  PROVE  VerbOf(Instances(defs, providers), run) \in UNION {Range(d.verbs) : d \in Range(defs)}
  <1> DEFINE insts == Instances(defs, providers)  n == run[1]  d == insts[n].def[1]  v == run[2]
  <1>1. n \in DOMAIN insts /\ insts[n].def # <<>> /\ v \in DOMAIN Verbs(insts[n])
    BY DEF IsComposed, Exists
  <1>2. defs \in Seq(Of(defs, "Provider"))
    <2>1. \A X, Y : \A s \in Seq(X) : Range(s) \subseteq Y => s \in Seq(Y)
      BY DEF Range
    <2>2. Range(defs) \subseteq Of(defs, "Provider")
      <3>1. \A X : \A s \in Seq(X) : Range(s) \subseteq X
        BY DEF Range
      <3>2. Range(defs) \subseteq Of(docs, "Provider")
        BY <3>1
      <3>3. QED
        BY <3>2 DEF Of
    <2>3. QED
      BY <2>1, <2>2
  <1>3. d \in Of(defs, "Provider")
    BY <1>1, <1>2, InstanceIs
  <1>4. Verbs(insts[n]) = d.verbs
    BY <1>1 DEF Verbs
  <1>5. VerbOf(insts, run) = d.verbs[v]
    BY <1>4 DEF VerbOf
  <1> HIDE DEF insts, n, d, v
  <1>6. d \in Range(defs) /\ d.verbs[v] \in Range(d.verbs)
    BY <1>1, <1>3, <1>4 DEF Of, Range
  <1>7. QED
    BY <1>5, <1>6 DEF insts

-----------------------------------------------------------------------------
(* The sections to come, when the names in D are bound.                    *)
SectionsFine(k, secs, D) == \A j \in 1..Len(secs) : SeqClean(k, secs[j].steps, D \cup Over(secs, j))

LEMMA OverTail ==
  ASSUME NEW secs \in Seq(Headings), secs # <<>>, NEW j \in 1..(Len(secs) - 1)
  PROVE  Over(secs, j + 1) \subseteq AllBinds(secs[1].steps) \cup Over(Tail(secs), j)
  <1> DEFINE t == Tail(secs)  n == Len(secs)
  <1>1. n \in Nat \ {0} /\ \A i \in 1..(n - 1) : t[i] = secs[i + 1]
    BY TailIs
  <1> HIDE DEF t
  <1>2. ASSUME NEW i \in 1..((j + 1) - 1)
        PROVE  AllBinds(secs[i].steps) \subseteq AllBinds(secs[1].steps) \cup Over(t, j)
    <2>1. CASE i = 1
      BY <2>1
    <2>2. CASE i # 1
      <3> DEFINE l == i - 1
      <3>1. l \in 1..(j - 1) /\ l \in 1..(n - 1) /\ l + 1 = i
        BY <2>2, <1>1
      <3>2. t[l] = secs[i]
        BY <3>1, <1>1
      <3> HIDE DEF l
      <3>3. AllBinds(t[l].steps) \subseteq Over(t, j)
        BY <3>1 DEF Over
      <3>4. QED
        BY <3>2, <3>3
    <2>3. QED
      BY <2>1, <2>2
  <1> DEFINE C == AllBinds(secs[1].steps) \cup Over(t, j)  m == j + 1
  <1>3. \A i \in 1..(m - 1) : AllBinds(secs[i].steps) \subseteq C
    BY <1>2
  <1> HIDE DEF C, m
  <1>4. Over(secs, m) \subseteq C
    BY <1>3 DEF Over
  <1>5. QED
    BY <1>4 DEF C, m, t

LEMMA SectionsTail ==
  ASSUME NEW k, NEW secs \in Seq(Headings), secs # <<>>, NEW D, SectionsFine(k, secs, D),
         NEW E, D \cup AllBinds(secs[1].steps) \subseteq E
  PROVE  SectionsFine(k, Tail(secs), E)
  <1> DEFINE t == Tail(secs)  n == Len(secs)
  <1>1. n \in Nat \ {0} /\ Len(t) = n - 1 /\ \A i \in 1..(n - 1) : t[i] = secs[i + 1]
    BY TailIs
  <1> HIDE DEF t, n
  <1>2. ASSUME NEW j \in 1..(n - 1) PROVE SeqClean(k, t[j].steps, E \cup Over(t, j))
    <2> DEFINE l == j + 1  A == D \cup Over(secs, l)  B == E \cup Over(t, j)  todo == t[j].steps
    <2>1. l \in 1..n /\ t[j] = secs[l]
      BY <1>1
    <2>2. Over(secs, l) \subseteq AllBinds(secs[1].steps) \cup Over(t, j)
      BY OverTail DEF t, n
    <2>3. A \subseteq B
      BY <2>2
    <2> HIDE DEF l, B
    <2>4. SeqClean(k, todo, A)
      BY <2>1 DEF SectionsFine, n
    <2> HIDE DEF A, todo
    <2>5. SeqClean(k, todo, B)
      BY <2>3, <2>4, CleanMore
    <2>6. QED
      BY <2>5 DEF B, todo
  <1>3. SectionsFine(k, t, E)
    BY <1>1, <1>2 DEF SectionsFine
  <1>4. QED
    BY <1>3 DEF t

LEMMA SectionsMore ==
  ASSUME NEW k, NEW secs, NEW D, NEW E, D \subseteq E, SectionsFine(k, secs, D)
  PROVE  SectionsFine(k, secs, E)
  <1>1. ASSUME NEW j \in 1..Len(secs) PROVE SeqClean(k, secs[j].steps, E \cup Over(secs, j))
    <2> DEFINE A == D \cup Over(secs, j)  B == E \cup Over(secs, j)  todo == secs[j].steps
    <2>1. A \subseteq B /\ SeqClean(k, todo, A)
      BY DEF SectionsFine
    <2> HIDE DEF A, B, todo
    <2>2. SeqClean(k, todo, B)
      BY <2>1, CleanMore
    <2>3. QED
      BY <2>2 DEF B, todo
  <1>2. QED
    BY <1>1 DEF SectionsFine

(* The first one can be entered, and so can the last one alone when what   *)
(* the others bind is excused.                                             *)
LEMMA SectionsFirst ==
  ASSUME NEW k, NEW secs \in Seq(Headings), secs # <<>>, NEW D, SectionsFine(k, secs, D)
  PROVE  SeqClean(k, secs[1].steps, D)
  <1>1. 1 \in 1..Len(secs) /\ 1..(1 - 1) = {}
    BY TailIs
  <1>2. SeqClean(k, secs[1].steps, D \cup Over(secs, 1))
    BY <1>1 DEF SectionsFine
  <1>3. Over(secs, 1) = {}
    BY <1>1 DEF Over
  <1>4. D \cup Over(secs, 1) = D
    BY <1>3
  <1>5. QED
    BY <1>2, <1>4

SkippedBinds(secs) == UNION {AllBinds(s.steps) : s \in Range(Front(secs))}

LEMMA SectionsLast ==
  ASSUME NEW k, NEW secs \in Seq(Headings), secs # <<>>, NEW D, SectionsFine(k, secs, D),
         NEW E, D \cup SkippedBinds(secs) \subseteq E
  PROVE  SeqClean(k, Last(secs).steps, E)
  <1> DEFINE n == Len(secs)  f == Front(secs)
  <1>1. n \in Nat \ {0} /\ n \in 1..n /\ Last(secs) = secs[n]
    BY TailIs DEF Last
  <1>2. Len(f) = n - 1 /\ (\A i \in 1..(n - 1) : f[i] = secs[i]) /\ DOMAIN f = 1..(n - 1)
    <2> DEFINE l == n - 1
    <2>1. l \in 0..Len(secs) /\ f = SubSeq(secs, 1, l)
      BY <1>1 DEF Front
    <2> HIDE DEF f, n, l
    <2>2. f \in Seq(Headings) /\ Len(f) = l /\ \A i \in 1..l : f[i] = secs[i]
      BY <2>1, PrefixIs
    <2>3. DOMAIN f = 1..l
      BY <2>2
    <2>4. QED
      BY <2>2, <2>3 DEF l
  <1>4. SeqClean(k, secs[n].steps, D \cup Over(secs, n))
    BY <1>1 DEF SectionsFine
  <1> HIDE DEF f, n
  <1>5. Over(secs, n) \subseteq SkippedBinds(secs)
    <2>1. ASSUME NEW i \in 1..(n - 1) PROVE secs[i] \in Range(f)
      BY <1>2 DEF Range
    <2>2. QED
      BY <2>1 DEF Over, SkippedBinds, f
  <1> DEFINE A == D \cup Over(secs, n)  todo == secs[n].steps
  <1>6. A \subseteq E /\ SeqClean(k, todo, A)
    BY <1>4, <1>5
  <1> HIDE DEF A, todo
  <1>7. SeqClean(k, todo, E)
    BY <1>6, CleanMore
  <1>8. QED
    BY <1>1, <1>7 DEF todo

-----------------------------------------------------------------------------
(* The sections to come are fine whatever becomes of the open one, and the *)
(* last one, which is entered when one before it fails, never stops.       *)
ToCome(k, s, secs, G) ==
  /\ secs # <<>> => ~Stops(Last(secs).name)
  /\ IF s = <<>> THEN SectionsFine(k, secs, G)
     ELSE s[1].stop = Stops(secs[1].name) /\ SectionsFine(k, Tail(secs), Cover(s[1], G))

LEMMA EntersFine ==
  ASSUME NEW k, NEW sec \in Headings, NEW outputs \in SUBSET STRING, NEW G,
         SeqClean(k, sec.steps, outputs \cup G),
         NEW left, SectionsFine(k, left, outputs \cup G \cup AllBinds(sec.steps))
  PROVE  /\ StackFine(k, <<SectionFrame(sec, outputs)>>, G)
         /\ <<SectionFrame(sec, outputs)>> # <<>>
         /\ <<SectionFrame(sec, outputs)>>[1].stop = Stops(sec.name)
         /\ SectionsFine(k, left, Cover(<<SectionFrame(sec, outputs)>>[1], G))
  <1> DEFINE g == SectionFrame(sec, outputs)  D == outputs \cup G
  <1>1. /\ g.kind = "section" /\ g.todo = sec.steps /\ g.outputs = outputs /\ g.params = {}
        /\ g.stop = Stops(sec.name)
    BY DEF SectionFrame, Frame
  <1>2. SeqClean(k, sec.steps, D)
    OBVIOUS
  <1> HIDE DEF g, D
  <1>3. SeqFine("section", {}, k, sec.steps, D)
    BY <1>2, FineIsClean
  <1>4. FrameFine(k, g, G)
    BY <1>1, <1>3 DEF FrameFine, D
  <1>5. Len(<<g>>) = 1 /\ <<g>>[1] = g /\ 1..1 = {1} /\ <<g>> # <<>>
    OBVIOUS
  <1>6. StackFine(k, <<g>>, G)
    BY <1>4, <1>5 DEF StackFine
  <1>7. Cover(g, G) = outputs \cup G \cup AllBinds(sec.steps)
    BY <1>1 DEF Cover
  <1>8. SectionsFine(k, left, Cover(g, G))
    BY <1>7
  <1>9. QED
    BY <1>1, <1>5, <1>6, <1>8 DEF g

-----------------------------------------------------------------------------
(* Validation without errors, and what is read after it.                   *)
FileClean(defs, project, sc) ==
  /\ NewErrors(defs, MergeProviders(project.providers, sc.providers)) = {}
  /\ \A f \in CheckScenario(sc, project, Instances(defs, MergeProviders(project.providers, sc.providers))) :
       f.severity # "error"

LEMMA StartFine ==
  ASSUME NEW sc, {sc.setup, sc.steady, sc.method, sc.verify, sc.teardown} \subseteq Seq(Steps), NEW k,
         \A i \in 1..5 : SeqClean(k, Sections(sc)[i].steps, Over(Sections(sc), i))
  PROVE  SectionsFine(k, SectionsOf(sc), {}) /\ ~Stops(Last(SectionsOf(sc)).name)
  <1> DEFINE old == Sections(sc)  new == SectionsOf(sc)
             was(j) == IF j <= 3 THEN j ELSE IF j = 4 THEN 2 ELSE j - 1
             is(i) == IF i <= 3 THEN i ELSE i + 1
  <1>1. /\ Len(new) = 6 /\ new[6].name = "teardown"
        /\ new[1].steps = sc.setup /\ new[2].steps = sc.steady /\ new[3].steps = sc.method
        /\ new[4].steps = sc.steady /\ new[5].steps = sc.verify /\ new[6].steps = sc.teardown
    BY DEF SectionsOf, Sections
  <1>2. /\ old[1].steps = sc.setup /\ old[2].steps = sc.steady /\ old[3].steps = sc.method
        /\ old[4].steps = sc.verify /\ old[5].steps = sc.teardown
    BY DEF Sections
  <1> HIDE DEF old, new
  <1>3. ASSUME NEW j \in 1..6
        PROVE  was(j) \in 1..5 /\ new[j].steps = old[was(j)].steps
               /\ \A i \in 1..(was(j) - 1) : is(i) \in 1..(j - 1) /\ new[is(i)].steps = old[i].steps
    <2>1. j = 1 \/ j = 2 \/ j = 3 \/ j = 4 \/ j = 5 \/ j = 6
      OBVIOUS
    <2>2. was(j) \in 1..5 /\ new[j].steps = old[was(j)].steps
      BY <1>1, <1>2, <2>1
    <2>3. ASSUME NEW i \in 1..(was(j) - 1) PROVE is(i) \in 1..(j - 1) /\ new[is(i)].steps = old[i].steps
      <3>1. is(i) \in 1..(j - 1)
        BY <2>1
      <3>2. i = 1 \/ i = 2 \/ i = 3 \/ i = 4
        BY <2>1
      <3>3. new[is(i)].steps = old[i].steps
        BY <1>1, <1>2, <3>2
      <3>4. QED
        BY <3>1, <3>3
    <2>4. QED
      BY <2>2, <2>3
  <1>4. ASSUME NEW j \in 1..6 PROVE SeqClean(k, new[j].steps, {} \cup Over(new, j))
    <2> DEFINE w == was(j)  A == Over(old, w)  B == {} \cup Over(new, j)  todo == new[j].steps
    <2>1. w \in 1..5 /\ todo = old[w].steps
          /\ \A i \in 1..(w - 1) : is(i) \in 1..(j - 1) /\ new[is(i)].steps = old[i].steps
      BY <1>3
    <2> HIDE DEF w, todo, is
    <2>2. A \subseteq B
      BY <2>1 DEF Over
    <2> HIDE DEF B
    <2>3. SeqClean(k, todo, A)
      BY <2>1 DEF old
    <2> HIDE DEF A
    <2>4. SeqClean(k, todo, B)
      BY <2>2, <2>3, CleanMore
    <2>5. QED
      BY <2>4 DEF B, todo
  <1>5. SectionsFine(k, new, {})
    BY <1>1, <1>4 DEF SectionsFine
  <1>6. ~Stops(Last(new).name)
    BY <1>1 DEF Last, Stops
  <1>7. QED
    BY <1>5, <1>6 DEF new

-----------------------------------------------------------------------------
(* The static walk sees nothing that evaluation does not read.             *)
Bases == Exprs \X Paths

HeightOf == [x \in Bases |-> ExprHeight[x[1]]]

LEMMA BaseIs ==
  ASSUME NEW x \in Bases
  PROVE  /\ x[1] \in Exprs /\ x[2] \in Paths /\ HeightOf[x] = ExprHeight[x[1]] /\ HeightOf[x] \in Nat
         /\ x[1].op \in {"field", "pipe", "both", "call"}
         /\ x[1].op = "field" => {b \o x[1].path : b \in x[2]} \in Paths
  <1>1. x[1] \in Exprs /\ x[2] \in Paths
    BY DEF Bases
  <1>2. HeightOf[x] = ExprHeight[x[1]]
    BY DEF HeightOf
  <1>3. ExprHeight[x[1]] \in Nat /\ x[1].op \in {"field", "pipe", "both", "call"}
        /\ (x[1].op = "field" => x[1].path \in Seq(STRING))
    BY <1>1, ExprsAssumption
  <1>4. ASSUME x[1].op = "field" PROVE {b \o x[1].path : b \in x[2]} \in Paths
    <2>1. x[1].path \in Seq(STRING) /\ x[2] \subseteq Seq(STRING)
      BY <1>1, <1>3, <1>4 DEF Paths
    <2>2. \A b \in x[2] : b \o x[1].path \in Seq(STRING)
      BY <2>1
    <2>3. QED
      BY <2>2 DEF Paths
  <1>5. QED
    BY <1>1, <1>2, <1>3, <1>4

LEMMA PartIs ==
  ASSUME NEW x \in Bases, NEW p \in PartsOf(x[1]), NEW base \in Paths
  PROVE  <<p, base>> \in Bases /\ HeightOf[<<p, base>>] < HeightOf[x]
  <1>1. p \in Exprs /\ ExprHeight[p] < ExprHeight[x[1]]
    BY BaseIs, ExprsAssumption
  <1>2. <<p, base>> \in Bases
    BY <1>1 DEF Bases
  <1>3. HeightOf[<<p, base>>] = ExprHeight[p]
    BY <1>2, BaseIs
  <1>4. QED
    BY <1>1, <1>2, <1>3, BaseIs

LEMMA SidesAre ==
  ASSUME NEW e
  PROVE  /\ e.op \in {"pipe", "both"} => e.l \in PartsOf(e) /\ e.r \in PartsOf(e)
         /\ e.op = "call" => e.arg \in PartsOf(e)
  BY DEF PartsOf

(* What an expression yields is a place, and it is no matter whose table   *)
(* of the lower ones says so.                                              *)
LEMMA ResultAtIs ==
  ASSUME NEW x \in Bases, NEW f, \A y \in Bases : HeightOf[y] < HeightOf[x] => f[y] \in Paths
  PROVE  /\ ResultAt(f, x) \in Paths
         /\ \A g : (\A y \in Bases : HeightOf[y] < HeightOf[x] => f[y] = g[y]) => ResultAt(f, x) = ResultAt(g, x)
  <1>1. {} \in Paths
    BY DEF Paths
  <1>2. CASE x[1].op = "pipe"
    <2> DEFINE l == <<x[1].l, x[2]>>  r == <<x[1].r, f[l]>>
    <2>1. l \in Bases /\ HeightOf[l] < HeightOf[x]
      BY <1>2, BaseIs, PartIs, SidesAre
    <2>2. f[l] \in Paths
      BY <2>1
    <2> HIDE DEF l
    <2>3. r \in Bases /\ HeightOf[r] < HeightOf[x]
      BY <1>2, <2>2, PartIs, SidesAre
    <2>4. f[r] \in Paths
      BY <2>3
    <2>5. ASSUME NEW g, \A y \in Bases : HeightOf[y] < HeightOf[x] => f[y] = g[y]
          PROVE  f[r] = g[<<x[1].r, g[l]>>]
      <3>1. f[l] = g[l]
        BY <2>1, <2>5
      <3>2. f[r] = g[r]
        BY <2>3, <2>5
      <3>3. QED
        BY <3>1, <3>2
    <2>6. \A h : ResultAt(h, x) = h[<<x[1].r, h[l]>>]
      BY <1>2 DEF ResultAt, l
    <2>7. QED
      BY <2>4, <2>5, <2>6
  <1>3. CASE x[1].op = "field"
    <2>1. \A h : ResultAt(h, x) = {b \o x[1].path : b \in x[2]}
      BY <1>3 DEF ResultAt
    <2>2. QED
      BY <1>3, <2>1, BaseIs
  <1>4. CASE x[1].op \in {"both", "call"}
    <2>1. \A h : ResultAt(h, x) = {}
      BY <1>4 DEF ResultAt
    <2>2. QED
      BY <1>1, <2>1
  <1>5. QED
    BY <1>2, <1>3, <1>4, BaseIs

LEMMA ResultIs ==
  ASSUME NEW e \in Exprs, NEW base \in Paths
  PROVE  ResultOf(e, base) \in Paths
  <1> DEFINE S == Bases
             h == HeightOf
             V == [x \in S |-> Paths]
             T == Tables(S, V)
             F == [p \in T \X S |-> ResultAt(p[1], p[2])]
             is(f) == f = [x \in S |-> ResultAt(f, x)]
             q == CHOOSE f : is(f)
  <1>1. \A f \in T, x \in S : F[<<f, x>>] = ResultAt(f, x)
    OBVIOUS
  <1>2. \A x \in S : h[x] \in Nat /\ V[x] = Paths
    BY BaseIs
  <1>3. \A f \in T, x \in S : f[x] \in Paths
    BY <1>2 DEF Tables
  <1>4. ResultOf(e, base) = q[<<e, base>>]
    BY DEF ResultOf, Bases
  <1>5. \A f, x : x \in S /\ (\A y \in S : h[y] < h[x] => f[y] \in Paths) => ResultAt(f, x) \in Paths
    BY ResultAtIs
  <1>6. \A f, g, x : x \in S /\ (\A y \in S : h[y] < h[x] => f[y] \in Paths)
                     /\ (\A y \in S : h[y] < h[x] => f[y] = g[y]) => ResultAt(f, x) = ResultAt(g, x)
    BY ResultAtIs
  <1>7. <<e, base>> \in S
    BY DEF Bases
  <1>8. Paths # {}
    BY DEF Paths
  <1> HIDE DEF F, V, h, S
  <1>9. Lowering(S, V, h, F)
    <2>1. ASSUME NEW f \in T, NEW x \in S PROVE F[<<f, x>>] \in V[x]
      <3>1. ResultAt(f, x) \in Paths
        BY <1>3, <1>5
      <3>2. QED
        BY <1>1, <1>2, <3>1
    <2>2. ASSUME NEW f \in T, NEW g \in T, NEW x \in S, \A y \in S : h[y] < h[x] => f[y] = g[y]
          PROVE  F[<<f, x>>] = F[<<g, x>>]
      <3>1. ResultAt(f, x) = ResultAt(g, x)
        BY <1>3, <1>6, <2>2
      <3>2. QED
        BY <1>1, <3>1
    <2>3. QED
      BY <2>1, <2>2, <1>2, <1>8 DEF Lowering
  <1>10. PICK f \in T : \A x \in S : f[x] = F[<<f, x>>]
    <2> HIDE DEF T
    <2>1. \E f \in Tables(S, V) : \A x \in S : f[x] = F[<<f, x>>]
      BY ONLY <1>9, Recursion
    <2>2. QED
      BY <2>1 DEF T
  <1>11. is(f)
    <2>1. f = [x \in S |-> f[x]]
      BY DEF Tables
    <2>2. QED
      BY <2>1, <1>1, <1>10
  <1>12. is(q)
    BY <1>11
  <1>13. \A x \in S : q[x] = ResultAt(q, x)
    BY <1>12
  <1> HIDE DEF q
  <1> DEFINE B == {x \in S : q[x] \notin Paths}
  <1>14. B = {}
    <2> SUFFICES ASSUME B # {} PROVE FALSE
      OBVIOUS
    <2>1. PICK x \in B : \A y \in S : h[y] < h[x] => y \notin B
      <3>1. B \in SUBSET S
        OBVIOUS
      <3> HIDE DEF B
      <3>2. QED
        BY <1>2, <3>1, LowestPlace
    <2>2. q[x] \in Paths
      BY <1>5, <1>13, <2>1
    <2>3. QED
      BY <2>1, <2>2
  <1>15. QED
    BY <1>4, <1>7, <1>14

(* The same of what it reads.                                              *)
LEMMA ReadsAtIs ==
  ASSUME NEW x \in Bases, NEW f, \A y \in Bases : HeightOf[y] < HeightOf[x] => f[y] \in Paths
  PROVE  /\ ReadsAt(f, x) \in Paths
         /\ \A g : (\A y \in Bases : HeightOf[y] < HeightOf[x] => f[y] = g[y]) => ReadsAt(f, x) = ReadsAt(g, x)
         /\ x[1].op \in {"pipe", "both"} => f[<<x[1].l, x[2]>>] \subseteq ReadsAt(f, x)
         /\ x[1].op = "both" => f[<<x[1].r, x[2]>>] \subseteq ReadsAt(f, x)
  <1>1. \A a, b : a \in Paths /\ b \in Paths => a \cup b \in Paths
    BY DEF Paths
  <1>2. CASE x[1].op = "pipe"
    <2> DEFINE l == <<x[1].l, x[2]>>  r == <<x[1].r, ResultOf(x[1].l, x[2])>>
    <2>0. x[1].l \in Exprs /\ x[1].l \in PartsOf(x[1]) /\ x[1].r \in PartsOf(x[1])
      BY <1>2, BaseIs, ExprsAssumption, SidesAre
    <2>1. l \in Bases /\ HeightOf[l] < HeightOf[x]
      BY <2>0, BaseIs, PartIs
    <2>2. r \in Bases /\ HeightOf[r] < HeightOf[x]
      BY <2>0, BaseIs, PartIs, ResultIs
    <2>3. \A h : ReadsAt(h, x) = h[l] \cup h[r]
      BY <1>2 DEF ReadsAt
    <2>4. x[1].op # "both" /\ l = <<x[1].l, x[2]>>
      BY <1>2
    <2> HIDE DEF l, r
    <2>5. f[l] \in Paths /\ f[r] \in Paths
      BY <2>1, <2>2
    <2>6. ReadsAt(f, x) \in Paths /\ f[l] \subseteq ReadsAt(f, x) /\ f[r] \subseteq ReadsAt(f, x)
      BY <1>1, <2>3, <2>5
    <2>7. ASSUME NEW g, \A y \in Bases : HeightOf[y] < HeightOf[x] => f[y] = g[y]
          PROVE  ReadsAt(f, x) = ReadsAt(g, x)
      BY <2>1, <2>2, <2>3, <2>7
    <2>8. QED
      BY <2>4, <2>6, <2>7
  <1>3. CASE x[1].op = "both"
    <2> DEFINE l == <<x[1].l, x[2]>>  r == <<x[1].r, x[2]>>
    <2>0. x[1].l \in PartsOf(x[1]) /\ x[1].r \in PartsOf(x[1])
      BY <1>3, SidesAre
    <2>1. l \in Bases /\ HeightOf[l] < HeightOf[x]
      BY <2>0, BaseIs, PartIs
    <2>2. r \in Bases /\ HeightOf[r] < HeightOf[x]
      BY <2>0, BaseIs, PartIs
    <2>3. \A h : ReadsAt(h, x) = h[l] \cup h[r]
      BY <1>3 DEF ReadsAt
    <2>4. l = <<x[1].l, x[2]>> /\ r = <<x[1].r, x[2]>>
      OBVIOUS
    <2> HIDE DEF l, r
    <2>5. f[l] \in Paths /\ f[r] \in Paths
      BY <2>1, <2>2
    <2>6. ReadsAt(f, x) \in Paths /\ f[l] \subseteq ReadsAt(f, x) /\ f[r] \subseteq ReadsAt(f, x)
      BY <1>1, <2>3, <2>5
    <2>7. ASSUME NEW g, \A y \in Bases : HeightOf[y] < HeightOf[x] => f[y] = g[y]
          PROVE  ReadsAt(f, x) = ReadsAt(g, x)
      BY <2>1, <2>2, <2>3, <2>7
    <2>8. QED
      BY <2>4, <2>6, <2>7
  <1>4. CASE x[1].op = "call"
    <2> DEFINE l == <<x[1].arg, x[2]>>
    <2>1. l \in Bases /\ HeightOf[l] < HeightOf[x]
      BY <1>4, BaseIs, PartIs, SidesAre
    <2>3. \A h : ReadsAt(h, x) = h[l]
      BY <1>4 DEF ReadsAt
    <2>4. x[1].op \notin {"pipe", "both"}
      BY <1>4
    <2> HIDE DEF l
    <2>5. QED
      BY <2>1, <2>3, <2>4
  <1>5. CASE x[1].op = "field"
    <2>1. \A h : ReadsAt(h, x) = {b \o x[1].path : b \in x[2]}
      BY <1>5 DEF ReadsAt
    <2>2. QED
      BY <1>5, <2>1, BaseIs
  <1>6. QED
    BY <1>2, <1>3, <1>4, <1>5, BaseIs

ReadTable == CHOOSE f : f = [x \in Bases |-> ReadsAt(f, x)]

LEMMA ReadsAre ==
  /\ \A e, base : Reads(e, base) = ReadTable[<<e, base>>]
  /\ \A x \in Bases : ReadTable[x] = ReadsAt(ReadTable, x) /\ ReadTable[x] \in Paths
  <1> DEFINE S == Bases
             h == HeightOf
             V == [x \in S |-> Paths]
             T == Tables(S, V)
             F == [p \in T \X S |-> ReadsAt(p[1], p[2])]
             is(f) == f = [x \in S |-> ReadsAt(f, x)]
             q == ReadTable
  <1>1. \A f \in T, x \in S : F[<<f, x>>] = ReadsAt(f, x)
    OBVIOUS
  <1>2. \A x \in S : h[x] \in Nat /\ V[x] = Paths
    BY BaseIs
  <1>3. \A f \in T, x \in S : f[x] \in Paths
    BY <1>2 DEF Tables
  <1>4. \A e, base : Reads(e, base) = ReadTable[<<e, base>>]
    BY DEF Reads, Bases, ReadTable
  <1>5. \A f, x : x \in S /\ (\A y \in S : h[y] < h[x] => f[y] \in Paths) => ReadsAt(f, x) \in Paths
    BY ReadsAtIs
  <1>6. \A f, g, x : x \in S /\ (\A y \in S : h[y] < h[x] => f[y] \in Paths)
                     /\ (\A y \in S : h[y] < h[x] => f[y] = g[y]) => ReadsAt(f, x) = ReadsAt(g, x)
    BY ReadsAtIs
  <1>7. q = CHOOSE f : is(f)
    BY DEF ReadTable
  <1>8. Paths # {}
    BY DEF Paths
  <1> HIDE DEF F, V, h, S, q
  <1>9. Lowering(S, V, h, F)
    <2>1. ASSUME NEW f \in T, NEW x \in S PROVE F[<<f, x>>] \in V[x]
      <3>1. ReadsAt(f, x) \in Paths
        BY <1>3, <1>5
      <3>2. QED
        BY <1>1, <1>2, <3>1
    <2>2. ASSUME NEW f \in T, NEW g \in T, NEW x \in S, \A y \in S : h[y] < h[x] => f[y] = g[y]
          PROVE  F[<<f, x>>] = F[<<g, x>>]
      <3>1. ReadsAt(f, x) = ReadsAt(g, x)
        BY <1>3, <1>6, <2>2
      <3>2. QED
        BY <1>1, <3>1
    <2>3. QED
      BY <2>1, <2>2, <1>2, <1>8 DEF Lowering
  <1>10. PICK f \in T : \A x \in S : f[x] = F[<<f, x>>]
    <2> HIDE DEF T
    <2>1. \E f \in Tables(S, V) : \A x \in S : f[x] = F[<<f, x>>]
      BY ONLY <1>9, Recursion
    <2>2. QED
      BY <2>1 DEF T
  <1>11. is(f)
    <2>1. f = [x \in S |-> f[x]]
      BY DEF Tables
    <2>2. QED
      BY <2>1, <1>1, <1>10
  <1>12. is(q)
    BY <1>7, <1>11
  <1>13. \A x \in S : q[x] = ReadsAt(q, x)
    BY <1>12
  <1> DEFINE B == {x \in S : q[x] \notin Paths}
  <1>14. B = {}
    <2> SUFFICES ASSUME B # {} PROVE FALSE
      OBVIOUS
    <2>1. PICK x \in B : \A y \in S : h[y] < h[x] => y \notin B
      <3>1. B \in SUBSET S
        OBVIOUS
      <3> HIDE DEF B
      <3>2. QED
        BY <1>2, <3>1, LowestPlace
    <2>2. q[x] \in Paths
      BY <1>5, <1>13, <2>1
    <2>3. QED
      BY <2>1, <2>2
  <1>15. QED
    BY <1>4, <1>13, <1>14 DEF q, S

(* A reference with a name that the walk sees is read.                     *)
ReadPairs(e) == {SubSeq(p, 1, 2) : p \in {p \in Reads(e, {<<>>}) : Len(p) >= 2}}

LEMMA PairOf == \A a, b : <<a, b>>[1] = a /\ <<a, b>>[2] = b /\ Len(<<a, b>>) = 2
  OBVIOUS

LEMMA TwoOf ==
  ASSUME NEW S, NEW s \in Seq(S), Len(s) > 1
  PROVE  Len(s) >= 2 /\ SubSeq(s, 1, 2) = <<s[1], s[2]>>
  <1>1. 2 \in 0..Len(s)
    OBVIOUS
  <1>2. SubSeq(s, 1, 2) \in Seq(S) /\ Len(SubSeq(s, 1, 2)) = 2 /\ \A i \in 1..2 : SubSeq(s, 1, 2)[i] = s[i]
    BY <1>1, PrefixIs
  <1>3. s[1] \in S /\ s[2] \in S
    BY <1>1
  <1>4. <<s[1], s[2]>> \in Seq(S) /\ Len(<<s[1], s[2]>>) = 2
        /\ <<s[1], s[2]>>[1] = s[1] /\ <<s[1], s[2]>>[2] = s[2]
    BY <1>3
  <1> DEFINE t == SubSeq(s, 1, 2)  u == <<s[1], s[2]>>
  <1>5. t \in Seq(S) /\ u \in Seq(S) /\ Len(t) = 2 /\ Len(u) = 2 /\ \A i \in 1..2 : t[i] = u[i]
    <2>1. \A i \in 1..2 : i = 1 \/ i = 2
      OBVIOUS
    <2>2. QED
      BY <1>2, <1>4, <2>1
  <1> HIDE DEF t, u
  <1>6. t = u
    BY <1>5, SeqEqual
  <1>7. QED
    BY <1>1, <1>6 DEF t, u

LEMMA FieldRead ==
  ASSUME NEW path \in Seq(STRING), path # <<>>, FieldRef(path)[2] # ""
  PROVE  Len(path) >= 2 /\ FieldRef(path) = SubSeq(path, 1, 2)
  <1> DEFINE second == IF Len(path) > 1 THEN path[2] ELSE ""
             first == path[1]
  <1>1. FieldRef(path) = <<first, second>>
    BY DEF FieldRef
  <1>2. Len(path) > 1 => second = path[2]
    OBVIOUS
  <1>3. ~(Len(path) > 1) => second = ""
    OBVIOUS
  <1> HIDE DEF first, second
  <1>4. second # ""
    BY <1>1, PairOf
  <1>5. Len(path) > 1 /\ FieldRef(path) = <<first, path[2]>>
    BY <1>1, <1>2, <1>3, <1>4
  <1>6. Len(path) >= 2 /\ SubSeq(path, 1, 2) = <<path[1], path[2]>>
    BY <1>5, TwoOf
  <1>7. QED
    BY <1>5, <1>6 DEF first

LEMMA WalkReads ==
  \A e \in Exprs : \A r \in NSRefs(e) : r[2] # "" => r \in ReadPairs(e)
  <1> DEFINE Off == {e \in Exprs : ~\A r \in NSRefs(e) : r[2] # "" => r \in ReadPairs(e)}
             root == {<<>>}
  <1> SUFFICES ASSUME Off # {} PROVE FALSE
    OBVIOUS
  <1>0. root \in Paths
    <2>1. <<>> \in Seq(STRING)
      BY EmptySeq
    <2>2. {<<>>} \subseteq Seq(STRING)
      BY <2>1
    <2>3. QED
      BY <2>2 DEF Paths
  <1>1. PICK e \in Off : \A p \in Exprs : ExprHeight[p] < ExprHeight[e] => p \notin Off
    <2>1. Off \in SUBSET Exprs /\ \A p \in Exprs : ExprHeight[p] \in Nat
      BY ExprsAssumption
    <2> HIDE DEF Off
    <2>2. QED
      BY <2>1, LowestPlace
  <1>2. \A p \in PartsOf(e) : p \in Exprs /\ \A r \in NSRefs(p) : r[2] # "" => r \in ReadPairs(p)
    BY <1>1, ExprsAssumption
  <1>3. e \in Exprs /\ e.op \in {"field", "pipe", "both", "call"}
        /\ (e.op = "field" => e.path \in Seq(STRING) /\ e.path # <<>>)
    BY ExprsAssumption
  <1> DEFINE x == <<e, root>>  T == ReadTable
  <1>4. x \in Bases /\ x[1] = e /\ x[2] = root
    BY <1>0 DEF Bases
  <1>5. Reads(e, root) = ReadsAt(T, x)
    BY <1>4, ReadsAre
  <1>6. \A y \in Bases : T[y] \in Paths
    BY ReadsAre
  <1>7. \A p : Reads(p, root) = T[<<p, root>>]
    BY ReadsAre
  <1> HIDE DEF x, T
  <1>8. ASSUME NEW p \in PartsOf(e), T[<<p, root>>] \subseteq ReadsAt(T, x)
        PROVE  \A r \in NSRefs(p) : r[2] # "" => r \in ReadPairs(e)
    <2>1. Reads(p, {<<>>}) \subseteq Reads(e, {<<>>})
      BY <1>5, <1>7, <1>8
    <2>2. ReadPairs(p) \subseteq ReadPairs(e)
      BY <2>1 DEF ReadPairs
    <2>3. QED
      BY <1>2, <2>2
  <1>9. NSRefs(e) = CASE e.op = "field" -> {FieldRef(e.path)}
                      [] e.op = "pipe"  -> NSRefs(e.l)
                      [] e.op = "both"  -> NSRefs(e.l) \cup NSRefs(e.r)
                      [] e.op = "call"  -> {}
    BY <1>3, NSRefsAre
  <1>10. \A r \in NSRefs(e) : r[2] # "" => r \in ReadPairs(e)
    <2>1. CASE e.op = "field"
      <3>1. NSRefs(e) = {FieldRef(e.path)}
        BY <1>9, <2>1
      <3>2. SUFFICES ASSUME FieldRef(e.path)[2] # "" PROVE FieldRef(e.path) \in ReadPairs(e)
        BY <3>1
      <3>3. Len(e.path) >= 2 /\ FieldRef(e.path) = SubSeq(e.path, 1, 2)
        BY <1>3, <2>1, <3>2, FieldRead
      <3>4. ReadsAt(T, x) = {b \o e.path : b \in root}
        BY <1>4, <2>1 DEF ReadsAt
      <3>5. <<>> \o e.path = e.path
        BY <1>3, <2>1, ConcatEmptySeq
      <3>6. e.path \in Reads(e, {<<>>})
        BY <1>5, <3>4, <3>5
      <3>7. QED
        BY <3>3, <3>6 DEF ReadPairs
    <2>2. CASE e.op = "pipe"
      <3>1. T[<<e.l, root>>] \subseteq ReadsAt(T, x)
        BY <1>4, <1>6, <2>2, ReadsAtIs
      <3>2. e.l \in PartsOf(e) /\ NSRefs(e) = NSRefs(e.l)
        BY <1>9, <2>2, SidesAre
      <3>3. QED
        BY <1>8, <3>1, <3>2
    <2>3. CASE e.op = "both"
      <3>1. T[<<e.l, root>>] \subseteq ReadsAt(T, x) /\ T[<<e.r, root>>] \subseteq ReadsAt(T, x)
        BY <1>4, <1>6, <2>3, ReadsAtIs
      <3>2. e.l \in PartsOf(e) /\ e.r \in PartsOf(e) /\ NSRefs(e) = NSRefs(e.l) \cup NSRefs(e.r)
        BY <1>9, <2>3, SidesAre
      <3>3. QED
        BY <1>8, <3>1, <3>2
    <2>4. CASE e.op = "call"
      BY <1>9, <2>4
    <2>5. QED
      BY <1>3, <2>1, <2>2, <2>3, <2>4
  <1>11. QED
    BY <1>1, <1>10

(* What validation takes a step to read by name, evaluation reads.         *)
LEMMA SeenAreRead ==
  ASSUME NEW st \in Steps, NEW r \in RefsOf(st), r[2] # ""
  PROVE  r \in Names(ExprsOf(st)) \ Unseen(ExprsOf(st))
  <1>1. PICK e \in ExprsOf(st) : r \in NSRefs(e)
    BY DEF RefsOf
  <1>2. e \in Exprs
    BY RefsArePairs
  <1>3. r \in ReadPairs(e)
    BY <1>1, <1>2, WalkReads
  <1>4. PICK p \in Reads(e, {<<>>}) : Len(p) >= 2 /\ r = SubSeq(p, 1, 2)
    BY <1>3 DEF ReadPairs
  <1>5. r \in Names(ExprsOf(st))
    BY <1>4 DEF Names
  <1>6. r \notin Unseen(ExprsOf(st))
    BY <1>1 DEF Unseen
  <1>7. QED
    BY <1>5, <1>6

(* The captures a step reads itself.                                       *)
Awaits(st) == {r[2] : r \in {q \in RefsOf(st) : q[1] = "outputs"}} \ {""}

LEMMA AwaitsNames ==
  ASSUME NEW st \in Steps
  PROVE  Awaits(st) \in SUBSET STRING
  <1>1. \A A, B : \A r \in A \X B : r[2] \in B
    OBVIOUS
  <1>2. \A r \in RefsOf(st) : r[2] \in STRING \cup {""}
    BY <1>1, RefsArePairs DEF Pairs
  <1>3. \A n \in Awaits(st) : n \in STRING
    BY <1>2 DEF Awaits
  <1>4. QED
    BY <1>3

-----------------------------------------------------------------------------
(* What the checks take a step to bind for the ones after it; k is what    *)
(* they know of the scenario.                                              *)
Gains(k, f, st) ==
  IF st.run \notin DOMAIN k.specs THEN {}
  ELSE IF st.run = <<"parallel">> THEN UNION {Seen(s) : s \in Inner(st)}
  ELSE IF st.run = <<"repeat">> THEN UNION {f[s] : s \in Range(st.do)}
  ELSE st.binds

GainOf(k) == CHOOSE f : f = [st \in Steps |-> Gains(k, f, st)]

LEMMA GainIs ==
  ASSUME NEW k
  PROVE  \A st \in Steps : GainOf(k)[st] \in SUBSET STRING /\ GainOf(k)[st] = Gains(k, GainOf(k), st)
  <1> DEFINE S == Steps
             h == StepHeight
             V == [x \in S |-> SUBSET STRING]
             T == Tables(S, V)
             F == [p \in T \X S |-> Gains(k, p[1], p[2])]
             is(f) == f = [x \in S |-> Gains(k, f, x)]
             q == GainOf(k)
  <1>1. \A f \in T, x \in S : F[<<f, x>>] = Gains(k, f, x)
    OBVIOUS
  <1>2. \A x \in S : h[x] \in Nat /\ V[x] = SUBSET STRING /\ x.binds \subseteq STRING
    BY StepsAssumption
  <1>3. \A x \in S : \A s \in Range(x.do) : s \in S /\ h[s] < h[x]
    BY InsideBelow DEF Inside
  <1>a. \A x \in S : \A s \in Inner(x) : Seen(s) \subseteq STRING
    BY InsideBelow, BoundEq DEF Inside
  <1>4. \A f \in T, x \in S : f[x] \in SUBSET STRING
    BY <1>2 DEF Tables
  <1>5. ASSUME NEW x \in S, NEW f, \A s \in Range(x.do) : f[s] \in SUBSET STRING
        PROVE  Gains(k, f, x) \in SUBSET STRING
    <2>1. UNION {Seen(s) : s \in Inner(x)} \in SUBSET STRING
      BY <1>a
    <2>2. UNION {f[s] : s \in Range(x.do)} \in SUBSET STRING
      BY <1>5
    <2>3. QED
      BY <1>2, <2>1, <2>2 DEF Gains
  <1>6. ASSUME NEW x \in S, NEW f, NEW g, \A s \in Range(x.do) : f[s] = g[s]
        PROVE  Gains(k, f, x) = Gains(k, g, x)
    BY <1>6 DEF Gains
  <1>7. q = CHOOSE f : is(f)
    BY DEF GainOf
  <1> HIDE DEF F, V, h, q
  <1>8. Lowering(S, V, h, F)
    <2>1. ASSUME NEW f \in T, NEW x \in S PROVE F[<<f, x>>] \in V[x]
      <3>1. \A y \in Range(x.do) : f[y] \in SUBSET STRING
        BY <1>3, <1>4
      <3>2. Gains(k, f, x) \in SUBSET STRING
        BY <3>1, <1>5
      <3>3. QED
        BY <1>1, <1>2, <3>2
    <2>2. ASSUME NEW f \in T, NEW g \in T, NEW x \in S, \A y \in S : h[y] < h[x] => f[y] = g[y]
          PROVE  F[<<f, x>>] = F[<<g, x>>]
      <3>1. \A y \in Range(x.do) : f[y] = g[y]
        BY <1>3, <2>2
      <3>2. Gains(k, f, x) = Gains(k, g, x)
        BY <3>1, <1>6
      <3>3. QED
        BY <1>1, <3>2
    <2>3. \A x \in S : h[x] \in Nat /\ V[x] # {}
      BY <1>2
    <2>4. QED
      BY <2>1, <2>2, <2>3 DEF Lowering
  <1>9. PICK f \in T : \A x \in S : f[x] = F[<<f, x>>]
    <2> HIDE DEF T
    <2>1. \E f \in Tables(S, V) : \A x \in S : f[x] = F[<<f, x>>]
      BY ONLY <1>8, Recursion
    <2>2. QED
      BY <2>1 DEF T
  <1>10. is(f)
    <2>1. f = [x \in S |-> f[x]]
      BY DEF Tables
    <2>2. QED
      BY <2>1, <1>1, <1>9
  <1>11. is(q)
    BY <1>7, <1>10
  <1>12. \A x \in S : q[x] = Gains(k, q, x)
    BY <1>11
  <1> DEFINE B == {x \in S : q[x] \notin SUBSET STRING}
  <1>13. B = {}
    <2> SUFFICES ASSUME B # {} PROVE FALSE
      OBVIOUS
    <2>1. PICK x \in B : \A y \in S : h[y] < h[x] => y \notin B
      <3>1. B \in SUBSET S
        OBVIOUS
      <3> HIDE DEF B
      <3>2. QED
        BY <1>2, <3>1, LowestPlace
    <2>2. \A s \in Range(x.do) : q[s] \in SUBSET STRING
      BY <1>3, <2>1
    <2>3. q[x] \in SUBSET STRING
      BY <1>5, <1>12, <2>2
    <2>4. QED
      BY <2>1, <2>3
  <1>14. QED
    BY <1>12, <1>13 DEF q

(* The names the steps of a list read before one of them binds them, and   *)
(* what a step reads, with what is inside it, that is not bound before it. *)
Unmet(need, gain, steps) ==
  {n \in STRING : \E i \in 1..Len(steps) :
     n \in need[steps[i]] /\ \A j \in 1..(i - 1) : n \notin gain[steps[j]]}

Needs(k, f, st) ==
  IF st.run \notin DOMAIN k.specs THEN {}
  ELSE IF st.run = <<"parallel">> THEN UNION {Unmet(f, GainOf(k), b) : b \in Range(st.branches)}
  ELSE IF st.run = <<"repeat">> THEN Unmet(f, GainOf(k), st.do)
  ELSE Awaits(st)

NeedOf(k) == CHOOSE f : f = [st \in Steps |-> Needs(k, f, st)]

LEMMA UnmetSame ==
  ASSUME NEW f, NEW g, NEW gain, NEW steps \in Seq(Steps), \A s \in Range(steps) : f[s] = g[s]
  PROVE  Unmet(f, gain, steps) = Unmet(g, gain, steps)
  <1>1. \A i \in 1..Len(steps) : steps[i] \in Range(steps)
    BY DEF Range
  <1>2. \A i \in 1..Len(steps) : f[steps[i]] = g[steps[i]]
    BY <1>1
  <1>3. QED
    BY <1>2 DEF Unmet

LEMMA BranchesBelow ==
  ASSUME NEW st \in Steps
  PROVE  /\ st.do \in Seq(Steps) /\ \A s \in Range(st.do) : s \in Steps /\ StepHeight[s] < StepHeight[st]
         /\ \A b \in Range(st.branches) :
              b \in Seq(Steps) /\ \A s \in Range(b) : s \in Steps /\ StepHeight[s] < StepHeight[st]
  <1>1. st.do \in Seq(Steps) /\ \A s \in Range(st.do) : s \in Steps /\ StepHeight[s] < StepHeight[st]
    BY StepParts, InsideBelow DEF Inside
  <1>2. st.branches \in Seq(Seq(Steps))
    BY StepParts
  <1>3. ASSUME NEW b \in Range(st.branches)
        PROVE  b \in Seq(Steps) /\ \A s \in Range(b) : s \in Steps /\ StepHeight[s] < StepHeight[st]
    <2>1. b \in Seq(Steps)
      BY <1>2 DEF Range
    <2>2. \A s \in Range(b) : s \in Inside(st, TRUE)
      BY DEF Inner, Inside
    <2>3. QED
      BY <2>1, <2>2, InsideBelow
  <1>4. QED
    BY <1>1, <1>3

LEMMA NeedIs ==
  ASSUME NEW k
  PROVE  \A st \in Steps : NeedOf(k)[st] \in SUBSET STRING /\ NeedOf(k)[st] = Needs(k, NeedOf(k), st)
  <1> DEFINE S == Steps
             h == StepHeight
             V == [x \in S |-> SUBSET STRING]
             T == Tables(S, V)
             F == [p \in T \X S |-> Needs(k, p[1], p[2])]
             is(f) == f = [x \in S |-> Needs(k, f, x)]
             q == NeedOf(k)
  <1>1. \A f \in T, x \in S : F[<<f, x>>] = Needs(k, f, x)
    OBVIOUS
  <1>2. \A x \in S : h[x] \in Nat /\ V[x] = SUBSET STRING
    BY StepsAssumption
  <1>4. \A f \in T, x \in S : f[x] \in SUBSET STRING
    BY <1>2 DEF Tables
  <1>5. \A x \in S : \A f : Needs(k, f, x) \in SUBSET STRING
    <2> TAKE x \in S
    <2> TAKE f
    <2>1. \A b : Unmet(f, GainOf(k), b) \in SUBSET STRING
      BY DEF Unmet
    <2>2. Awaits(x) \in SUBSET STRING
      BY AwaitsNames
    <2>3. UNION {Unmet(f, GainOf(k), b) : b \in Range(x.branches)} \in SUBSET STRING
      BY <2>1
    <2>4. QED
      BY <2>1, <2>2, <2>3 DEF Needs
  <1>6. ASSUME NEW x \in S, NEW f, NEW g, \A y \in S : h[y] < h[x] => f[y] = g[y]
        PROVE  Needs(k, f, x) = Needs(k, g, x)
    <2>1. \A b \in Range(x.branches) : Unmet(f, GainOf(k), b) = Unmet(g, GainOf(k), b)
      <3> TAKE b \in Range(x.branches)
      <3>1. b \in Seq(Steps) /\ \A s \in Range(b) : f[s] = g[s]
        BY <1>6, BranchesBelow
      <3>2. QED
        BY <3>1, UnmetSame
    <2>2. Unmet(f, GainOf(k), x.do) = Unmet(g, GainOf(k), x.do)
      <3>1. x.do \in Seq(Steps) /\ \A s \in Range(x.do) : f[s] = g[s]
        BY <1>6, BranchesBelow
      <3>2. QED
        BY <3>1, UnmetSame
    <2>3. UNION {Unmet(f, GainOf(k), b) : b \in Range(x.branches)}
          = UNION {Unmet(g, GainOf(k), b) : b \in Range(x.branches)}
      BY <2>1
    <2>4. QED
      BY <2>2, <2>3 DEF Needs
  <1>7. q = CHOOSE f : is(f)
    BY DEF NeedOf
  <1> HIDE DEF F, V, h, q
  <1>8. Lowering(S, V, h, F)
    <2>1. ASSUME NEW f \in T, NEW x \in S
          PROVE  F[<<f, x>>] \in V[x]
      <3>1. Needs(k, f, x) \in SUBSET STRING
        BY <1>5
      <3>2. QED
        BY <1>1, <1>2, <3>1
    <2>2. ASSUME NEW f \in T, NEW g \in T, NEW x \in S, \A y \in S : h[y] < h[x] => f[y] = g[y]
          PROVE  F[<<f, x>>] = F[<<g, x>>]
      <3>2. Needs(k, f, x) = Needs(k, g, x)
        BY <2>2, <1>6
      <3>3. QED
        BY <1>1, <3>2
    <2>3. \A x \in S : h[x] \in Nat /\ V[x] # {}
      BY <1>2
    <2>4. QED
      BY <2>1, <2>2, <2>3 DEF Lowering
  <1>9. PICK f \in T : \A x \in S : f[x] = F[<<f, x>>]
    <2> HIDE DEF T
    <2>1. \E f \in Tables(S, V) : \A x \in S : f[x] = F[<<f, x>>]
      BY ONLY <1>8, Recursion
    <2>2. QED
      BY <2>1 DEF T
  <1>10. is(f)
    <2>1. f = [x \in S |-> f[x]]
      BY DEF Tables
    <2>2. QED
      BY <2>1, <1>1, <1>9
  <1>11. is(q)
    BY <1>7, <1>10
  <1>12. \A x \in S : q[x] = Needs(k, q, x)
    BY <1>11
  <1>13. QED
    BY <1>5, <1>12 DEF q

-----------------------------------------------------------------------------
Gain(k, st) == GainOf(k)[st]

Need(k, st) == NeedOf(k)[st]

GainAll(k, steps) == UNION {Gain(k, s) : s \in Range(steps)}

NeedAll(k, steps) == Unmet(NeedOf(k), GainOf(k), steps)

LEMMA NeedAllIs ==
  ASSUME NEW k, NEW steps
  PROVE  NeedAll(k, steps) =
           {n \in STRING : \E i \in 1..Len(steps) :
              n \in Need(k, steps[i]) /\ \A j \in 1..(i - 1) : n \notin Gain(k, steps[j])}
  BY DEF NeedAll, Unmet, Need, Gain

(* A step by what it is.                                                   *)
LEMMA GainEq ==
  ASSUME NEW k, NEW st \in Steps
  PROVE  /\ Gain(k, st) \in SUBSET STRING /\ Need(k, st) \in SUBSET STRING
         /\ st.run \notin DOMAIN k.specs => Gain(k, st) = {} /\ Need(k, st) = {}
         /\ st.run \in DOMAIN k.specs /\ ~Block(st) => Gain(k, st) = st.binds /\ Need(k, st) = Awaits(st)
         /\ st.run \in DOMAIN k.specs /\ st.run = <<"parallel">> =>
              /\ Gain(k, st) = UNION {Seen(s) : s \in Inner(st)}
              /\ Need(k, st) = UNION {NeedAll(k, b) : b \in Range(st.branches)}
         /\ st.run \in DOMAIN k.specs /\ st.run = <<"repeat">> =>
              Gain(k, st) = GainAll(k, st.do) /\ Need(k, st) = NeedAll(k, st.do)
  <1> DEFINE g == GainOf(k)  f == NeedOf(k)
  <1>1. g[st] \in SUBSET STRING /\ g[st] = Gains(k, g, st)
    BY GainIs
  <1>2. f[st] \in SUBSET STRING /\ f[st] = Needs(k, f, st)
    BY NeedIs
  <1>3. Block(st) <=> st.run = <<"parallel">> \/ st.run = <<"repeat">>
    BY DEF Block
  <1>4. <<"parallel">> # <<"repeat">>
    OBVIOUS
  <1> HIDE DEF g, f
  <1>5. /\ st.run \notin DOMAIN k.specs => g[st] = {} /\ f[st] = {}
        /\ st.run \in DOMAIN k.specs /\ ~Block(st) => g[st] = st.binds /\ f[st] = Awaits(st)
    BY <1>1, <1>2, <1>3 DEF Gains, Needs
  <1>6. ASSUME st.run \in DOMAIN k.specs, st.run = <<"parallel">>
        PROVE  /\ g[st] = UNION {Seen(s) : s \in Inner(st)}
               /\ f[st] = UNION {Unmet(f, GainOf(k), b) : b \in Range(st.branches)}
    BY <1>1, <1>2, <1>6 DEF Gains, Needs
  <1>7. ASSUME st.run \in DOMAIN k.specs, st.run = <<"repeat">>
        PROVE  g[st] = UNION {g[s] : s \in Range(st.do)} /\ f[st] = Unmet(f, GainOf(k), st.do)
    BY <1>1, <1>2, <1>4, <1>7 DEF Gains, Needs
  <1>8. /\ Gain(k, st) = g[st] /\ Need(k, st) = f[st]
        /\ GainAll(k, st.do) = UNION {g[s] : s \in Range(st.do)}
        /\ \A b : NeedAll(k, b) = Unmet(f, GainOf(k), b)
    BY DEF Gain, Need, GainAll, NeedAll, g, f
  <1>9. QED
    BY <1>1, <1>2, <1>5, <1>6, <1>7, <1>8

(* What a list of steps reads and binds, step by step.                     *)
LEMMA GainAllIs ==
  ASSUME NEW k, NEW steps \in Seq(Steps)
  PROVE  /\ GainAll(k, steps) \in SUBSET STRING /\ NeedAll(k, steps) \in SUBSET STRING
         /\ \A i \in 1..Len(steps) : steps[i] \in Steps /\ Gain(k, steps[i]) \subseteq GainAll(k, steps)
         /\ \A n \in GainAll(k, steps) : \E i \in 1..Len(steps) : n \in Gain(k, steps[i])
         /\ GainAll(k, <<>>) = {} /\ NeedAll(k, <<>>) = {}
  <1>1. \A i \in 1..Len(steps) : steps[i] \in Steps /\ steps[i] \in Range(steps)
    BY DEF Range
  <1>2. \A s \in Range(steps) : \E i \in 1..Len(steps) : s = steps[i]
    BY DEF Range
  <1>3. \A s \in Range(steps) : Gain(k, s) \in SUBSET STRING
    BY <1>1, <1>2, GainEq
  <1>4. Range(<<>>) = {} /\ Len(<<>>) = 0
    BY DEF Range
  <1>5. GainAll(k, <<>>) = {} /\ NeedAll(k, <<>>) = {}
    BY <1>4, NeedAllIs DEF GainAll
  <1>6. NeedAll(k, steps) \in SUBSET STRING
    BY NeedAllIs
  <1>7. GainAll(k, steps) \in SUBSET STRING
    BY <1>3 DEF GainAll
  <1>8. QED
    BY <1>1, <1>2, <1>5, <1>6, <1>7 DEF GainAll

LEMMA NeedOfTail ==
  ASSUME NEW k, NEW steps \in Seq(Steps), steps # <<>>
  PROVE  /\ NeedAll(k, steps) \subseteq
              Need(k, Head(steps)) \cup (NeedAll(k, Tail(steps)) \ Gain(k, Head(steps)))
         /\ GainAll(k, Tail(steps)) \subseteq GainAll(k, steps)
         /\ Gain(k, Head(steps)) \subseteq GainAll(k, steps)
         /\ GainAll(k, steps) \subseteq Gain(k, Head(steps)) \cup GainAll(k, Tail(steps))
  <1> DEFINE N == Len(steps)  t == Tail(steps)
  <1>1. /\ t \in Seq(Steps) /\ N \in Nat \ {0} /\ Len(t) = N - 1 /\ Head(steps) = steps[1]
        /\ \A i \in 1..(N - 1) : t[i] = steps[i + 1]
    BY TailIs
  <1> HIDE DEF t, N
  <1>2. ASSUME NEW n \in NeedAll(k, steps), n \notin Need(k, steps[1])
        PROVE  n \in NeedAll(k, t) \ Gain(k, steps[1])
    <2>1. PICK i \in 1..N : n \in Need(k, steps[i]) /\ \A j \in 1..(i - 1) : n \notin Gain(k, steps[j])
      BY <1>2, NeedAllIs DEF N
    <2>2. i # 1
      BY <1>2, <2>1
    <2>3. i - 1 \in 1..(N - 1) /\ t[i - 1] = steps[i] /\ 1 \in 1..(i - 1)
      BY <1>1, <2>2
    <2>4. ASSUME NEW j \in 1..(i - 1 - 1)
          PROVE  n \notin Gain(k, t[j])
      <3>1. j + 1 \in 1..(i - 1) /\ j \in 1..(N - 1)
        BY <1>1, <2>3
      <3>2. QED
        BY <1>1, <2>1, <3>1
    <2>5. n \in STRING
      BY <1>2, NeedAllIs
    <2>6. n \in NeedAll(k, t)
      BY <1>1, <2>1, <2>3, <2>4, <2>5, NeedAllIs
    <2>7. QED
      BY <2>1, <2>3, <2>6
  <1>3. ASSUME NEW n \in GainAll(k, t)
        PROVE  n \in GainAll(k, steps)
    <2>1. PICK i \in 1..Len(t) : n \in Gain(k, t[i])
      BY <1>1, <1>3, GainAllIs
    <2>2. i + 1 \in 1..N /\ t[i] = steps[i + 1]
      BY <1>1
    <2>3. QED
      BY <2>1, <2>2, GainAllIs DEF N
  <1>4. ASSUME NEW n \in GainAll(k, steps), n \notin Gain(k, steps[1])
        PROVE  n \in GainAll(k, t)
    <2>1. PICK i \in 1..N : n \in Gain(k, steps[i])
      BY <1>4, GainAllIs DEF N
    <2>2. i # 1
      BY <1>4, <2>1
    <2>3. i - 1 \in 1..Len(t) /\ t[i - 1] = steps[i]
      BY <1>1, <2>2
    <2>4. QED
      BY <1>1, <2>1, <2>3, GainAllIs
  <1>5. 1 \in 1..Len(steps)
    BY <1>1 DEF N
  <1>6. Gain(k, steps[1]) \subseteq GainAll(k, steps)
    BY <1>5, GainAllIs
  <1>7. QED
    BY <1>1, <1>2, <1>3, <1>4, <1>6 DEF t

LEMMA NeedOfPrefix ==
  ASSUME NEW k, NEW s \in Seq(Steps), NEW t \in Seq(Steps)
  PROVE  NeedAll(k, s) \subseteq NeedAll(k, s \o t)
  <1>1. /\ Len(s \o t) = Len(s) + Len(t) /\ Len(s) \in Nat /\ Len(t) \in Nat
        /\ \A i \in 1..(Len(s) + Len(t)) : (s \o t)[i] = IF i <= Len(s) THEN s[i] ELSE t[i - Len(s)]
    BY ConcatIs
  <1> DEFINE c == s \o t
  <1> HIDE DEF c
  <1>2. Len(c) = Len(s) + Len(t) /\ \A i \in 1..Len(s) : c[i] = s[i]
    BY <1>1 DEF c
  <1>3. SUFFICES ASSUME NEW n \in NeedAll(k, s) PROVE n \in NeedAll(k, c)
    BY DEF c
  <1>4. PICK i \in 1..Len(s) : n \in Need(k, s[i]) /\ \A j \in 1..(i - 1) : n \notin Gain(k, s[j])
    BY NeedAllIs
  <1>5. i \in 1..Len(c) /\ c[i] = s[i]
    BY <1>1, <1>2
  <1>6. ASSUME NEW j \in 1..(i - 1)
        PROVE  n \notin Gain(k, c[j])
    <2>1. j \in 1..Len(s)
      BY <1>1
    <2>2. QED
      BY <1>2, <1>4, <2>1
  <1>7. n \in STRING
    BY NeedAllIs
  <1>8. QED
    BY <1>4, <1>5, <1>6, <1>7, NeedAllIs

LEMMA NeedOfCopies ==
  ASSUME NEW k, NEW do \in Seq(Steps), NEW n \in Nat, n # 0
  PROVE  /\ NeedAll(k, do) \subseteq NeedAll(k, Copies(do, n))
         /\ Copies(do, n) \in Seq(Steps) /\ Range(Copies(do, n)) \subseteq Range(do)
         /\ GainAll(k, Copies(do, n)) \subseteq GainAll(k, do)
  <1>1. PICK copies \in [0..n -> Seq(Steps)] :
           /\ \A i \in 0..n : copies[i] = Copied(do, i, copies[i - 1])
           /\ Copies(do, n) = copies[n]
    BY CopiesAre
  <1>2. n \in 0..n /\ n - 1 \in 0..n /\ n # 0
    OBVIOUS
  <1>3. copies[n] = do \o copies[n - 1] /\ copies[n] \in Seq(Steps) /\ copies[n - 1] \in Seq(Steps)
    BY <1>1, <1>2 DEF Copied
  <1>4. NeedAll(k, do) \subseteq NeedAll(k, Copies(do, n))
    BY <1>1, <1>3, NeedOfPrefix
  <1> DEFINE J == {i \in 0..n : Range(copies[i]) \subseteq Range(do)}
  <1>5. 0 \in J
    <2>1. copies[0] = <<>>
      BY <1>1 DEF Copied
    <2>2. Range(<<>>) = {}
      BY DEF Range
    <2>3. QED
      BY <2>1, <2>2
  <1>6. ASSUME NEW i \in 1..n, i - 1 \in J
        PROVE  i \in J
    <2>1. i \in 0..n /\ i # 0 /\ i - 1 \in 0..n
      OBVIOUS
    <2>2. copies[i] = do \o copies[i - 1] /\ copies[i - 1] \in Seq(Steps)
      BY <1>1, <2>1 DEF Copied
    <2>3. Range(do \o copies[i - 1]) \subseteq Range(do) \cup Range(copies[i - 1])
      <3> DEFINE t == copies[i - 1]  c == do \o t
      <3>0. t \in Seq(Steps)
        BY <2>2
      <3> HIDE DEF t
      <3>1. /\ Len(c) = Len(do) + Len(t) /\ Len(do) \in Nat /\ Len(t) \in Nat /\ c \in Seq(Steps)
            /\ \A m \in 1..(Len(do) + Len(t)) : c[m] = IF m <= Len(do) THEN do[m] ELSE t[m - Len(do)]
        BY <3>0, ConcatIs
      <3> HIDE DEF c
      <3>2. ASSUME NEW m \in 1..Len(c)
            PROVE  c[m] \in Range(do) \cup Range(t)
        <4>1. CASE m <= Len(do)
          <5>1. m \in 1..Len(do) /\ c[m] = do[m]
            BY <3>1, <4>1
          <5>2. QED
            BY <5>1 DEF Range
        <4>2. CASE m > Len(do)
          <5>1. m - Len(do) \in 1..Len(t) /\ c[m] = t[m - Len(do)]
            BY <3>1, <4>2
          <5>2. QED
            BY <3>0, <5>1 DEF Range
        <4>3. QED
          BY <3>1, <4>1, <4>2
      <3>3. Range(c) \subseteq Range(do) \cup Range(t)
        <4>1. \A x \in Range(c) : \E m \in 1..Len(c) : x = c[m]
          BY <3>1 DEF Range
        <4>2. QED
          BY <3>2, <4>1
      <3>4. QED
        BY <3>3 DEF c, t
    <2>4. QED
      BY <1>6, <2>1, <2>2, <2>3
  <1>7. n \in J
    <2> HIDE DEF J
    <2>1. \A i \in 0..n : i \in J
      BY <1>5, <1>6, CountUp
    <2>2. QED
      BY <1>2, <2>1
  <1>8. Range(Copies(do, n)) \subseteq Range(do)
    BY <1>1, <1>7
  <1>9. GainAll(k, Copies(do, n)) \subseteq GainAll(k, do)
    BY <1>8 DEF GainAll
  <1>10. QED
    BY <1>1, <1>3, <1>4, <1>8, <1>9

-----------------------------------------------------------------------------
(* The captures that findings are about.                                   *)
About(f, n) == n # "" /\ f.ref # <<>> /\ f.ref[1] = "outputs" /\ f.ref[2] = n

BlamedIn(fs) == {n \in STRING : \E f \in fs : About(f, n)}

NoRefs(fs) == \A f \in fs : f.ref = <<>>

LEMMA BlamedParts ==
  ASSUME NEW A, NEW B
  PROVE  BlamedIn(A \cup B) = BlamedIn(A) \cup BlamedIn(B) /\ (A \subseteq B => BlamedIn(A) \subseteq BlamedIn(B))
  BY DEF BlamedIn

LEMMA BlamedNone ==
  ASSUME NEW A, NEW B, NoRefs(A)
  PROVE  BlamedIn(A) = {} /\ BlamedIn(A \cup B) = BlamedIn(B) /\ BlamedIn(B \cup A) = BlamedIn(B)
  <1>1. BlamedIn(A) = {}
    BY DEF BlamedIn, About, NoRefs
  <1>2. QED
    BY <1>1, BlamedParts

LEMMA PlainFindings ==
  ASSUME NEW ctx, NEW st, NEW x
  PROVE  /\ NoRefs(StepFound(ctx, st)) /\ NoRefs(CheckNested(ctx, st)) /\ NoRefs(BodyFound(st))
         /\ NoRefs(When(x.st.finding /\ ~x.st.id, Smell(15)))
         /\ NoRefs(When(~st.absent, Fault(3, <<>>))) /\ NoRefs({Fault(12, <<>>)})
         /\ NoRefs(When(st.times < 1, Fault(13, <<>>)) \cup {Fault(13, <<>>)})
  <1>1. \A rule : Fault(rule, <<>>).ref = <<>> /\ Smell(rule).ref = <<>>
    BY DEF Fault, Smell
  <1>2. \A c, f : f.ref = <<>> => NoRefs(When(c, f)) /\ NoRefs({f})
    BY DEF NoRefs, When
  <1>3. \A A, B : NoRefs(A) /\ NoRefs(B) => NoRefs(A \cup B)
    BY DEF NoRefs
  <1>4. NoRefs(CheckArgs(ctx, st))
    <2>1. \A f \in CheckArgs(ctx, st) : f = Fault(2, <<>>) \/ f = Fault(5, <<>>)
      BY DEF CheckArgs, When
    <2>2. QED
      BY <1>1, <2>1 DEF NoRefs
  <1>5. NoRefs(CheckNested(ctx, st))
    <2>1. \A f \in CheckNested(ctx, st) : f = Fault(2, <<>>) \/ f = Fault(3, <<>>)
      BY DEF CheckNested, When
    <2>2. QED
      BY <1>1, <2>1 DEF NoRefs
  <1>6. NoRefs(StepFound(ctx, st))
    <2> DEFINE rule == IF st.run = <<"repeat">> THEN 13 ELSE 12
               cond == Block(st) /\ (st.envelope \/ st.binds # {})
    <2>1. StepFound(ctx, st) = CheckArgs(ctx, st) \cup When(cond, Fault(rule, <<>>))
      BY DEF StepFound
    <2> HIDE DEF cond, rule
    <2>2. QED
      BY <1>1, <1>2, <1>3, <1>4, <2>1
  <1>7. NoRefs(BodyFound(st))
    <2>1. \A f \in BodyFound(st) : f = Fault(13, <<>>)
      BY DEF BodyFound, When
    <2>2. QED
      BY <1>1, <2>1 DEF NoRefs
  <1>8. QED
    BY <1>1, <1>2, <1>3, <1>5, <1>6, <1>7

LEMMA BlamedRef ==
  ASSUME NEW v, NEW ctx, NEW among, NEW r, NEW n \in BlamedIn(CheckRef(v, ctx, among, r))
  PROVE  n # "" /\ r[1] = "outputs" /\ r[2] = n /\ n \notin v.defined
  <1>1. PICK f \in CheckRef(v, ctx, among, r) : About(f, n)
    BY DEF BlamedIn
  <1>2. \A rule : Fault(rule, r).ref = r
    BY DEF Fault
  <1>3. r[1] = "outputs" => r[2] \notin v.defined /\ f.ref = r
    BY <1>1, <1>2 DEF CheckRef, When
  <1>4. r[1] # "outputs" => f.ref = r
    BY <1>1, <1>2 DEF CheckRef, When
  <1>5. QED
    BY <1>1, <1>3, <1>4 DEF About

LEMMA BlamedLeaf ==
  ASSUME NEW v, NEW ctx, NEW among, NEW st \in Steps
  PROVE  BlamedIn(LeafFound(v, ctx, among, st)) \subseteq Awaits(st) \ v.defined
  <1> DEFINE refs == UNION {CheckRef(v, ctx, among, r) : r \in RefsOf(st)}
             found == LeafFound(v, ctx, among, st)
  <1>1. \A f \in found : f.ref = <<>> \/ f \in refs
    <2>1. NoRefs(CheckNested(ctx, st))
      BY PlainFindings
    <2>2. \A f \in found : f \in refs \/ f \in CheckNested(ctx, st) \/ \E rule : f = Fault(rule, <<>>) \/ f = Smell(rule)
      BY DEF LeafFound, When
    <2>3. \A rule : Fault(rule, <<>>).ref = <<>> /\ Smell(rule).ref = <<>>
      BY DEF Fault, Smell
    <2> HIDE DEF found, refs
    <2>4. QED
      BY <2>1, <2>2, <2>3 DEF NoRefs
  <1> HIDE DEF found
  <1>2. ASSUME NEW n \in BlamedIn(found)
        PROVE  n \in Awaits(st) \ v.defined
    <2>1. PICK f \in found : About(f, n)
      BY <1>2 DEF BlamedIn
    <2>2. f \in refs
      BY <1>1, <2>1 DEF About
    <2>3. PICK r \in RefsOf(st) : f \in CheckRef(v, ctx, among, r)
      BY <2>2
    <2>4. n \in BlamedIn(CheckRef(v, ctx, among, r))
      BY <1>2, <2>1, <2>3 DEF BlamedIn
    <2>5. n # "" /\ r[1] = "outputs" /\ r[2] = n /\ n \notin v.defined
      BY <2>4, BlamedRef
    <2>6. QED
      BY <2>3, <2>5 DEF Awaits
  <1>3. QED
    BY <1>2 DEF found

(* What a pass over a step or a list of them comes to: it takes to be      *)
(* bound what is bound, and blames only what is read too early.            *)
Right(w, v, gain, need) ==
  v.defined \cup gain \subseteq w.defined /\ BlamedIn(w.out) \subseteq BlamedIn(v.out) \cup (need \ v.defined)

LEMMA ListRight ==
  ASSUME NEW k, NEW check, NEW v \in Pass, NEW among, NEW steps \in Seq(Steps), Goes(check, steps, among),
         \A i \in 1..Len(steps), w \in Pass :
           Right(check[Spot(steps[i], w, among)], w, Gain(k, steps[i]), Need(k, steps[i]))
  PROVE  Right(CheckSteps(check, v, among, steps), v, GainAll(k, steps), NeedAll(k, steps))
  <1> DEFINE n == Len(steps)
             all == NeedAll(k, steps)
  <1>1. PICK p : Passing(check, v, among, steps, p)
    BY PassIs
  <1> DEFINE J == {i \in 0..n : /\ v.defined \subseteq p[i].defined
                                /\ \A j \in 1..i : Gain(k, steps[j]) \subseteq p[i].defined
                                /\ BlamedIn(p[i].out) \subseteq BlamedIn(v.out) \cup (all \ v.defined)}
  <1>2. n \in Nat /\ p \in [0..n -> Pass] /\ p[0] = v /\ CheckSteps(check, v, among, steps) = p[n]
    BY <1>1 DEF Passing
  <1>3. \A i \in 1..n : Right(p[i], p[i - 1], Gain(k, steps[i]), Need(k, steps[i]))
    <2>1. \A i \in 1..n : i - 1 \in 0..n /\ p[i - 1] \in Pass /\ p[i] = check[Spot(steps[i], p[i - 1], among)]
      BY <1>1, <1>2 DEF Passing
    <2>2. QED
      BY <2>1
  <1>4. \A i \in 1..n : \A m \in Need(k, steps[i]) : (\A j \in 1..(i - 1) : m \notin Gain(k, steps[j])) => m \in all
    <2>1. \A i \in 1..n : Need(k, steps[i]) \in SUBSET STRING
      BY GainEq
    <2>2. QED
      BY <2>1, NeedAllIs
  <1> HIDE DEF n, all
  <1>5. 0 \in J
    BY <1>2
  <1>6. ASSUME NEW i \in 1..n, i - 1 \in J
        PROVE  i \in J
    <2>1. i \in 0..n /\ 1..i = (1..(i - 1)) \cup {i}
      BY <1>2
    <2> DEFINE w == p[i - 1]  u == p[i]  g == Gain(k, steps[i])  d == Need(k, steps[i])
    <2>2. w.defined \cup g \subseteq u.defined /\ BlamedIn(u.out) \subseteq BlamedIn(w.out) \cup (d \ w.defined)
      BY <1>3 DEF Right
    <2>3. /\ v.defined \subseteq w.defined
          /\ \A j \in 1..(i - 1) : Gain(k, steps[j]) \subseteq w.defined
          /\ BlamedIn(w.out) \subseteq BlamedIn(v.out) \cup (all \ v.defined)
      BY <1>6
    <2>4. \A m \in d \ w.defined : m \in all \ v.defined
      BY <1>4, <2>3
    <2> HIDE DEF w, u, d
    <2>5. BlamedIn(u.out) \subseteq BlamedIn(v.out) \cup (all \ v.defined)
      BY <2>2, <2>3, <2>4
    <2>6. v.defined \subseteq u.defined
      BY <2>2, <2>3
    <2>7. \A j \in 1..i : Gain(k, steps[j]) \subseteq u.defined
      BY <2>1, <2>2, <2>3
    <2>8. QED
      BY <2>1, <2>5, <2>6, <2>7 DEF u
  <1>7. n \in J
    <2> HIDE DEF J
    <2>1. \A i \in 0..n : i \in J
      BY <1>2, <1>5, <1>6, CountUp
    <2>2. QED
      BY <1>2, <2>1
  <1>8. GainAll(k, steps) \subseteq p[n].defined
    <2>1. \A m \in GainAll(k, steps) : \E i \in 1..n : m \in Gain(k, steps[i])
      BY GainAllIs DEF n
    <2>2. \A j \in 1..n : Gain(k, steps[j]) \subseteq p[n].defined
      BY <1>7
    <2>3. QED
      BY <2>1, <2>2
  <1>9. v.defined \subseteq p[n].defined /\ BlamedIn(p[n].out) \subseteq BlamedIn(v.out) \cup (all \ v.defined)
    BY <1>7
  <1>10. QED
    BY <1>2, <1>8, <1>9 DEF Right, all

(* A checker that is right of the steps below a height.                    *)
RightBelow(k, check, h) ==
  \A y \in Place : StepHeight[y.st] < h => Right(check[y], y.v, Gain(k, y.st), Need(k, y.st))

LEMMA ListBelow ==
  ASSUME NEW k, NEW check, NEW h, Lower(check, h), RightBelow(k, check, h), NEW v \in Pass, NEW among \in Amongs,
         NEW steps \in Seq(Steps), \A s \in Range(steps) : StepHeight[s] < h
  PROVE  Right(CheckSteps(check, v, among, steps), v, GainAll(k, steps), NeedAll(k, steps))
  <1>1. Goes(check, steps, among)
    BY GoesLower
  <1>2. \A i \in 1..Len(steps) : steps[i] \in Steps /\ StepHeight[steps[i]] < h
    BY DEF Range
  <1>3. ASSUME NEW i \in 1..Len(steps), NEW w \in Pass
        PROVE  Right(check[Spot(steps[i], w, among)], w, Gain(k, steps[i]), Need(k, steps[i]))
    <2> DEFINE y == Spot(steps[i], w, among)
    <2>1. y \in Place /\ y.st = steps[i] /\ y.v = w
      BY <1>2, SpotIs
    <2> HIDE DEF y
    <2>2. StepHeight[y.st] < h
      BY <1>2, <2>1
    <2>3. Right(check[y], y.v, Gain(k, y.st), Need(k, y.st))
      BY <2>1, <2>2 DEF RightBelow
    <2>4. QED
      BY <2>1, <2>3 DEF y
  <1>4. QED
    BY <1>1, <1>3, ListRight

LEMMA RightReport ==
  ASSUME NEW v \in Pass, NEW fs \in SUBSET Findings, NoRefs(fs)
  PROVE  /\ Report(v, fs) \in Pass /\ Report(v, fs).defined = v.defined
         /\ BlamedIn(Report(v, fs).out) = BlamedIn(v.out)
  <1>1. Report(v, fs) \in Pass /\ Report(v, fs).out = v.out \cup fs /\ Report(v, fs).defined = v.defined
    BY ReportIs
  <1>2. QED
    BY <1>1, BlamedNone

LEMMA EmptyBranch == NoRefs({Fault(12, <<>>)}) /\ {Fault(12, <<>>)} \in SUBSET Findings
  <1>1. {Fault(12, <<>>)} \in SUBSET Findings
    BY Plains
  <1>2. Fault(12, <<>>).ref = <<>>
    BY DEF Fault
  <1>3. QED
    BY <1>1, <1>2 DEF NoRefs

LEMMA BoundsAre ==
  ASSUME NEW st \in Steps
  PROVE  UNION {Seen(s) : s \in Inner(st)} \subseteq UNION Range(BranchBounds(st))
  <1>1. st.branches \in Seq(Seq(Steps))
    BY StepParts
  <1>2. ASSUME NEW s \in Inner(st)
        PROVE  Seen(s) \subseteq UNION Range(BranchBounds(st))
    <2>1. PICK b \in Range(st.branches) : s \in Range(b)
      BY DEF Inner
    <2>2. PICK i \in DOMAIN st.branches : b = st.branches[i]
      BY <2>1 DEF Range
    <2>3. Seen(s) \subseteq Bindings(b)
      BY <2>1, BindingsAre
    <2>4. i \in DOMAIN BranchBounds(st) /\ BranchBounds(st)[i] = Bindings(b)
      BY <2>2 DEF BranchBounds
    <2>5. Bindings(b) \in Range(BranchBounds(st))
      BY <2>4 DEF Range
    <2>6. QED
      BY <2>3, <2>5
  <1>3. QED
    BY <1>2

LEMMA ParallelRight ==
  ASSUME NEW k, NEW st \in Steps, st.run = <<"parallel">>, st.run \in DOMAIN k.specs,
         NEW check, Lower(check, StepHeight[st]), RightBelow(k, check, StepHeight[st]), NEW v \in Pass
  PROVE  Right(CheckBranches(check, v, st), v, Gain(k, st), Need(k, st))
  <1> DEFINE n == Len(st.branches)  all == Need(k, st)
  <1>1. n \in Nat /\ st.branches \in Seq(Seq(Steps))
    BY StepParts
  <1>2. /\ Gain(k, st) \subseteq UNION Range(BranchBounds(st))
        /\ Need(k, st) = UNION {NeedAll(k, b) : b \in Range(st.branches)}
    <2>1. /\ Gain(k, st) = UNION {Seen(s) : s \in Inner(st)}
          /\ Need(k, st) = UNION {NeedAll(k, b) : b \in Range(st.branches)}
      BY GainEq
    <2>2. UNION {Seen(s) : s \in Inner(st)} \subseteq UNION Range(BranchBounds(st))
      BY BoundsAre
    <2>3. QED
      BY <2>1, <2>2
  <1>3. PICK p : Branching(check, v, st, p)
    BY BranchesAre
  <1>4. /\ \A i \in 0..n : p[i] \in Pass /\ p[i].defined = v.defined
        /\ st.branches # <<>> => CheckBranches(check, v, st).out = p[n].out
        /\ p[0] = v /\ \A i \in 1..n : p[i] = BranchIn(check, v, st, p[i - 1], i)
    <2>1. /\ \A i \in 0..n : p[i] \in Pass /\ p[i].defined = v.defined
          /\ st.branches # <<>> => CheckBranches(check, v, st).out = p[n].out
      <3>1. /\ \A i \in 0..Len(st.branches) :
                 p[i] \in Pass /\ p[i].defined = v.defined /\ p[i].out \subseteq p[Len(st.branches)].out
            /\ v.out \subseteq p[Len(st.branches)].out
            /\ st.branches # <<>> => CheckBranches(check, v, st).out = p[Len(st.branches)].out
            /\ CheckBranches(check, v, st) \in Grown(v, Bound(st))
        BY <1>3, BranchesGrow
      <3>2. QED
        BY <3>1
    <2>2. p[0] = v /\ \A i \in 1..n : p[i] = BranchIn(check, v, st, p[i - 1], i)
      BY <1>3 DEF Branching
    <2>3. QED
      BY <2>1, <2>2
  <1>5. CASE st.branches = <<>>
    <2>1. CheckBranches(check, v, st) = Report(v, {Fault(12, <<>>)})
      BY <1>3, <1>5 DEF Branching
    <2>2. NoRefs({Fault(12, <<>>)}) /\ {Fault(12, <<>>)} \in SUBSET Findings
      BY EmptyBranch
    <2>3. Inner(st) = {}
      BY <1>5 DEF Inner, Range
    <2>4. Gain(k, st) = {}
      BY <2>3, GainEq
    <2>5. QED
      BY <2>1, <2>2, <2>4, RightReport DEF Right
  <1>6. CASE st.branches # <<>>
    <2> DEFINE J == {i \in 0..n : BlamedIn(p[i].out) \subseteq BlamedIn(v.out) \cup (all \ v.defined)}
    <2> HIDE DEF all
    <2>1. 0 \in J
      BY <1>1, <1>4
    <2>2. ASSUME NEW i \in 1..n, i - 1 \in J
          PROVE  i \in J
      <3> DEFINE w == p[i - 1]  b == st.branches[i]
      <3>1. i \in 0..n /\ i - 1 \in 0..n
        BY <1>1
      <3>2. w \in Pass /\ w.defined = v.defined /\ BlamedIn(w.out) \subseteq BlamedIn(v.out) \cup (all \ v.defined)
        BY <1>4, <2>2, <3>1
      <3>3. AmongOf(st, i) \in Amongs /\ b \in Seq(Steps) /\ (\A s \in Range(b) : StepHeight[s] < StepHeight[st])
            /\ b \in Range(st.branches)
        <4>1. AmongOf(st, i) \in Amongs
          BY AmongIs
        <4>2. b \in Seq(Steps) /\ \A s \in Range(b) : StepHeight[s] < StepHeight[st]
          BY StepParts
        <4>3. b \in Range(st.branches)
          BY <1>1 DEF Range
        <4>4. QED
          BY <4>1, <4>2, <4>3
      <3>4. p[i] = BranchIn(check, v, st, w, i)
        BY <1>4
      <3>5. Inwards(check, w, st, i) = IF b = <<>> THEN Report(w, {Fault(12, <<>>)})
                                       ELSE CheckSteps(check, w, AmongOf(st, i), b)
        BY DEF Inwards
      <3>a. i \in 1..Len(st.branches) /\ Lower(check, StepHeight[st])
        OBVIOUS
      <3> HIDE DEF w, b, n
      <3>6. p[i].out = Inwards(check, w, st, i).out
        <4>1. BranchIn(check, v, st, w, i).out = Inwards(check, w, st, i).out
          <5>1. w \in Pass
            BY <3>2
          <5>2. /\ BranchIn(check, v, st, w, i) \in Pass /\ w.out \subseteq BranchIn(check, v, st, w, i).out
                /\ BranchIn(check, v, st, w, i).defined = v.defined
                /\ BranchIn(check, v, st, w, i).out = Inwards(check, w, st, i).out
            BY <5>1, <3>a, BranchInIs
          <5>3. QED
            BY <5>2
        <4>2. QED
          BY <3>4, <4>1
      <3>7. NeedAll(k, b) \subseteq all
        BY <1>2, <3>3 DEF all
      <3>8. Right(CheckSteps(check, w, AmongOf(st, i), b), w, GainAll(k, b), NeedAll(k, b))
        BY <3>2, <3>3, ListBelow
      <3>9. NoRefs({Fault(12, <<>>)}) /\ {Fault(12, <<>>)} \in SUBSET Findings
        BY EmptyBranch
      <3>10. BlamedIn(Report(w, {Fault(12, <<>>)}).out) = BlamedIn(w.out)
        BY <3>2, <3>9, RightReport
      <3>11. BlamedIn(p[i].out) \subseteq BlamedIn(w.out) \cup (all \ w.defined)
        BY <3>5, <3>6, <3>7, <3>8, <3>10 DEF Right
      <3>12. QED
        BY <3>1, <3>2, <3>11
    <2>3. n \in J
      <3> HIDE DEF J, n
      <3>1. \A i \in 0..n : i \in J
        BY <1>1, <2>1, <2>2, CountUp
      <3>2. QED
        BY <1>1, <3>1
    <2>4. CheckBranches(check, v, st) = [p[n] EXCEPT !.defined = @ \cup UNION Range(BranchBounds(st))]
      BY <1>3, <1>6 DEF Branching
    <2>5. n \in 0..n
      BY <1>1
    <2>6. p[n] \in Pass /\ p[n].defined = v.defined
      BY <1>4, <2>5
    <2> DEFINE u == p[n]  more == UNION Range(BranchBounds(st))  e == u.defined \cup more
    <2>7. u \in Pass /\ CheckBranches(check, v, st) = [u EXCEPT !.defined = e]
      BY <2>4, <2>6
    <2>8. CheckBranches(check, v, st).defined = v.defined \cup more
      <3> HIDE DEF u, more
      <3>1. DOMAIN u = PassFields
        BY <2>7, PassHas
      <3>2. [u EXCEPT !.defined = e].defined = e
        BY <3>1 DEF PassFields
      <3>3. u.defined = v.defined
        BY <2>6 DEF u
      <3>4. QED
        BY <2>7, <3>2, <3>3
    <2>9. BlamedIn(CheckBranches(check, v, st).out) \subseteq BlamedIn(v.out) \cup (all \ v.defined)
      BY <1>4, <1>6, <2>3
    <2>10. QED
      BY <1>2, <2>8, <2>9 DEF Right, all
  <1>7. QED
    BY <1>5, <1>6

LEMMA RepeatRight ==
  ASSUME NEW k, NEW st \in Steps, st.run = <<"repeat">>, st.run \in DOMAIN k.specs,
         NEW check, Lower(check, StepHeight[st]), RightBelow(k, check, StepHeight[st]), NEW v \in Pass
  PROVE  Right(CheckBody(check, v, st), v, Gain(k, st), Need(k, st))
  <1> DEFINE do == st.do  w == Report(v, BodyFound(st))
             bare == When(st.times < 1, Fault(13, <<>>)) \cup {Fault(13, <<>>)}
  <1>1. do \in Seq(Steps) /\ \A s \in Range(do) : StepHeight[s] < StepHeight[st]
    BY StepParts
  <1>2. CheckBody(check, v, st) = IF do = <<>> THEN Report(v, bare) ELSE CheckSteps(check, w, Alone, do)
    BY CheckBodyIs
  <1>3. Gain(k, st) = GainAll(k, do) /\ Need(k, st) = NeedAll(k, do)
    BY GainEq
  <1>4. /\ w \in Pass /\ w.defined = v.defined /\ BlamedIn(w.out) = BlamedIn(v.out)
        /\ Report(v, bare).defined = v.defined /\ BlamedIn(Report(v, bare).out) = BlamedIn(v.out)
    BY BodyFindings, PlainFindings, RightReport
  <1> HIDE DEF w, do, bare
  <1>5. CASE do = <<>>
    <2>1. GainAll(k, do) = {}
      BY <1>1, <1>5, GainAllIs
    <2>2. QED
      BY <1>2, <1>3, <1>4, <1>5, <2>1 DEF Right
  <1>6. CASE do # <<>>
    <2>1. Right(CheckSteps(check, w, Alone, do), w, GainAll(k, do), NeedAll(k, do))
      BY <1>1, <1>4, AloneIs, ListBelow
    <2>2. QED
      BY <1>2, <1>3, <1>4, <1>6, <2>1 DEF Right
  <1>7. QED
    BY <1>5, <1>6

LEMMA ReportOut ==
  ASSUME NEW v \in Pass, NEW fs
  PROVE  Report(v, fs).out = v.out \cup fs /\ Report(v, fs).defined = v.defined
  <1>1. DOMAIN v = PassFields
    BY PassHas
  <1>2. QED
    BY <1>1 DEF Report, PassFields

LEMMA EnteredRight ==
  ASSUME NEW ctx, NEW x \in Place
  PROVE  /\ BlamedIn(Warned(x).out) = BlamedIn(x.v.out) /\ BlamedIn(Entered(ctx, x).out) = BlamedIn(x.v.out)
         /\ Warned(x).defined = x.v.defined /\ Entered(ctx, x).defined = x.v.defined
         /\ \A fs : NoRefs(fs) => BlamedIn(Report(Warned(x), fs).out) = BlamedIn(x.v.out)
                                  /\ Report(Warned(x), fs).defined = x.v.defined
  <1> DEFINE w == Warned(x)
  <1>1. x.v \in Pass /\ w \in Pass /\ w.defined = x.v.defined /\ Entered(ctx, x).defined = x.v.defined
    BY EnteredIs
  <1>2. w = Report(x.v, When(x.st.finding /\ ~x.st.id, Smell(15))) /\ Entered(ctx, x) = Report(w, StepFound(ctx, x.st))
    BY DEF Warned, Entered
  <1>3. NoRefs(When(x.st.finding /\ ~x.st.id, Smell(15))) /\ NoRefs(StepFound(ctx, x.st))
    BY PlainFindings
  <1> HIDE DEF w
  <1>4. BlamedIn(w.out) = BlamedIn(x.v.out)
    BY <1>1, <1>2, <1>3, ReportOut, BlamedNone
  <1>5. ASSUME NEW fs, NoRefs(fs)
        PROVE  BlamedIn(Report(w, fs).out) = BlamedIn(x.v.out) /\ Report(w, fs).defined = x.v.defined
    BY <1>1, <1>4, <1>5, ReportOut, BlamedNone
  <1>6. QED
    BY <1>1, <1>2, <1>3, <1>4, <1>5 DEF w

LEMMA StepRight ==
  ASSUME NEW k, NEW ctx, Knows(ctx), ctx.specs = k.specs, NEW x \in Place, NEW check, Lower(check, StepHeight[x.st]),
         RightBelow(k, check, StepHeight[x.st])
  PROVE  Right(CheckStep(check, ctx, x), x.v, Gain(k, x.st), Need(k, x.st))
  <1> DEFINE st == x.st  v == x.v  y == Entered(ctx, x)  g == Gain(k, x.st)  d == Need(k, x.st)
             bare == When(~x.st.absent, Fault(3, <<>>))
  <1>1. CheckStep(check, ctx, x) =
           IF st.run \notin DOMAIN k.specs THEN Report(Warned(x), bare)
           ELSE IF st.run = <<"parallel">> THEN CheckBranches(check, y, st)
           ELSE IF st.run = <<"repeat">> THEN CheckBody(check, y, st)
           ELSE CheckLeaf(y, ctx, x.among, st)
    BY CheckStepIs
  <1>2. st \in Steps /\ v \in Pass /\ y \in Pass
    BY EnteredIs
  <1>3. /\ BlamedIn(y.out) = BlamedIn(v.out) /\ y.defined = v.defined
        /\ \A fs : NoRefs(fs) => BlamedIn(Report(Warned(x), fs).out) = BlamedIn(v.out)
                                 /\ Report(Warned(x), fs).defined = v.defined
    BY EnteredRight
  <1>4. \A w : Right(w, y, g, d) => Right(w, v, g, d)
    BY <1>3 DEF Right
  <1>5. NoRefs(bare)
    BY PlainFindings
  <1>6. /\ st.run \notin DOMAIN k.specs => g = {}
        /\ st.run \in DOMAIN k.specs /\ ~Block(st) => g = st.binds /\ d = Awaits(st)
    BY <1>2, GainEq
  <1>7. Lower(check, StepHeight[st]) /\ RightBelow(k, check, StepHeight[st])
    OBVIOUS
  <1> HIDE DEF y, bare, v
  <1>8. CASE st.run \notin DOMAIN k.specs
    <2> DEFINE u == Report(Warned(x), bare)
    <2>1. CheckStep(check, ctx, x) = u
      BY <1>1, <1>8
    <2>2. BlamedIn(u.out) = BlamedIn(v.out) /\ u.defined = v.defined
      BY <1>3, <1>5
    <2>3. g = {}
      BY <1>6, <1>8
    <2> HIDE DEF u, g, d
    <2>4. Right(u, v, g, d)
      BY <2>2, <2>3 DEF Right
    <2>5. QED
      BY <2>1, <2>4 DEF g, d, v
  <1>9. CASE st.run \in DOMAIN k.specs /\ st.run = <<"parallel">>
    <2>1. Right(CheckBranches(check, y, st), y, g, d)
      BY <1>2, <1>7, <1>9, ParallelRight
    <2>2. CheckStep(check, ctx, x) = CheckBranches(check, y, st)
      BY <1>1, <1>9
    <2>3. QED
      BY <1>4, <2>1, <2>2 DEF v
  <1>10. CASE st.run \in DOMAIN k.specs /\ st.run = <<"repeat">>
    <2>1. Right(CheckBody(check, y, st), y, g, d)
      BY <1>2, <1>7, <1>10, RepeatRight
    <2>2. <<"parallel">> # <<"repeat">>
      OBVIOUS
    <2>3. CheckStep(check, ctx, x) = CheckBody(check, y, st)
      BY <1>1, <1>10, <2>2
    <2>4. QED
      BY <1>4, <2>1, <2>3 DEF v
  <1>11. CASE st.run \in DOMAIN k.specs /\ ~Block(st)
    <2> DEFINE u == CheckLeaf(y, ctx, x.among, st)  found == LeafFound(y, ctx, x.among, st)
    <2>1. CheckStep(check, ctx, x) = u
      BY <1>1, <1>11 DEF Block
    <2>2. u.out = y.out \cup found /\ u.defined = y.defined \cup st.binds
      BY <1>2, CheckLeafIs
    <2>3. BlamedIn(found) \subseteq d \ y.defined
      BY <1>2, <1>6, <1>11, BlamedLeaf
    <2> HIDE DEF u, found, g, d
    <2>4. BlamedIn(u.out) = BlamedIn(y.out) \cup BlamedIn(found)
      BY <2>2, BlamedParts
    <2>5. g = st.binds
      BY <1>6, <1>11
    <2>6. Right(u, y, g, d)
      BY <2>2, <2>3, <2>4, <2>5 DEF Right
    <2>7. Right(u, v, g, d)
      BY <1>4, <2>6
    <2>8. QED
      BY <2>1, <2>7 DEF g, d, v
  <1>12. QED
    BY <1>8, <1>9, <1>10, <1>11 DEF Block

LEMMA CheckerRight ==
  ASSUME NEW k, NEW ctx, Knows(ctx), ctx.specs = k.specs
  PROVE  \A x \in Place : Right(Checker(ctx)[x], x.v, Gain(k, x.st), Need(k, x.st))
  <1> DEFINE check == Checker(ctx)
             h == [x \in Place |-> StepHeight[x.st]]
             B == {x \in Place : ~Right(check[x], x.v, Gain(k, x.st), Need(k, x.st))}
  <1> SUFFICES ASSUME B # {} PROVE FALSE
    OBVIOUS
  <1>1. \A x \in Place : h[x] = StepHeight[x.st] /\ h[x] \in Nat
    BY StepsAssumption DEF Place
  <1>2. PICK x \in B : \A y \in Place : h[y] < h[x] => y \notin B
    <2>1. B \in SUBSET Place
      OBVIOUS
    <2> HIDE DEF B, h
    <2>2. QED
      BY <1>1, <2>1, LowestPlace
  <1>3. x \in Place
    OBVIOUS
  <1>4. check[x] = CheckStep(check, ctx, x) /\ Lower(check, StepHeight[x.st])
    BY <1>3, CheckerIs, CheckerLower
  <1>5. RightBelow(k, check, StepHeight[x.st])
    BY <1>1, <1>2, <1>3 DEF RightBelow
  <1> HIDE DEF check
  <1>6. Right(check[x], x.v, Gain(k, x.st), Need(k, x.st))
    BY <1>3, <1>4, <1>5, StepRight
  <1>7. QED
    BY <1>2, <1>6

LEMMA CheckedRight ==
  ASSUME NEW k, NEW ctx, Knows(ctx), ctx.specs = k.specs, NEW v \in Pass, NEW among \in Amongs, NEW steps \in Seq(Steps)
  PROVE  Right(CheckSteps(Checker(ctx), v, among, steps), v, GainAll(k, steps), NeedAll(k, steps))
  <1> DEFINE check == Checker(ctx)
  <1>1. Goes(check, steps, among)
    BY CheckerGoes
  <1>2. \A x \in Place : Right(check[x], x.v, Gain(k, x.st), Need(k, x.st))
    BY CheckerRight
  <1>3. \A i \in 1..Len(steps) : steps[i] \in Steps
    OBVIOUS
  <1> HIDE DEF check
  <1>4. ASSUME NEW i \in 1..Len(steps), NEW w \in Pass
        PROVE  Right(check[Spot(steps[i], w, among)], w, Gain(k, steps[i]), Need(k, steps[i]))
    <2> DEFINE y == Spot(steps[i], w, among)
    <2>1. y \in Place /\ y.st = steps[i] /\ y.v = w
      BY <1>3, SpotIs
    <2> HIDE DEF y
    <2>2. Right(check[y], y.v, Gain(k, y.st), Need(k, y.st))
      BY <1>2, <2>1
    <2>3. QED
      BY <2>1, <2>2 DEF y
  <1>5. Right(CheckSteps(check, v, among, steps), v, GainAll(k, steps), NeedAll(k, steps))
    BY <1>1, <1>4, ListRight
  <1>6. QED
    BY <1>5 DEF check

(* What the sections of a list read that neither D nor an earlier one of   *)
(* them binds.                                                             *)
DueSections(k, secs, D) ==
  {n \in STRING : \E i \in 1..Len(secs) :
     /\ n \in NeedAll(k, secs[i].steps) /\ n \notin D
     /\ \A j \in 1..(i - 1) : n \notin GainAll(k, secs[j].steps)}

LEMMA SectionsBlame ==
  ASSUME NEW ctx, NEW k, NEW secs, Len(secs) \in Nat,
         \A i \in 1..Len(secs) : /\ secs[i].steps \in Seq(Steps) /\ Knows(SectionCtx(ctx, secs[i].name))
                                 /\ SectionCtx(ctx, secs[i].name).specs = k.specs
  PROVE  BlamedIn(CheckSections(ctx, secs).out) \subseteq DueSections(k, secs, {})
  <1> DEFINE n == Len(secs)  due == DueSections(k, secs, {})
  <1>1. PICK p : Sectioning(ctx, secs, p)
    BY SectioningIs
  <1>2. n \in Nat /\ p \in [0..n -> Pass] /\ p[0] = Start /\ CheckSections(ctx, secs) = p[n]
        /\ \A i \in 1..n : p[i] = CheckSection(ctx, p[i - 1], secs[i])
    BY <1>1 DEF Sectioning
  <1>3. ASSUME NEW i \in 1..n
        PROVE  Right(p[i], p[i - 1], GainAll(k, secs[i].steps), NeedAll(k, secs[i].steps))
    <2> DEFINE v == p[i - 1]  sec == secs[i]  c == SectionCtx(ctx, sec.name)
    <2>1. i - 1 \in 0..n
      BY <1>2
    <2>2. v \in Pass /\ p[i] = CheckSection(ctx, v, sec)
      BY <1>2, <2>1
    <2>3. sec.steps \in Seq(Steps) /\ Knows(c) /\ c.specs = k.specs
      OBVIOUS
    <2> HIDE DEF v, sec
    <2>4. CheckSection(ctx, v, sec) = CheckSteps(Checker(c), v, Alone, sec.steps)
      BY <2>2, <2>3, SectionGrows
    <2> HIDE DEF c
    <2>5. Right(CheckSteps(Checker(c), v, Alone, sec.steps), v, GainAll(k, sec.steps), NeedAll(k, sec.steps))
      BY <2>2, <2>3, AloneIs, CheckedRight
    <2>6. QED
      BY <2>2, <2>4, <2>5 DEF v, sec
  <1>4. \A i \in 1..n : \A m \in NeedAll(k, secs[i].steps) :
          (\A j \in 1..(i - 1) : m \notin GainAll(k, secs[j].steps)) => m \in due
    <2>1. \A i \in 1..n : NeedAll(k, secs[i].steps) \in SUBSET STRING
      BY GainAllIs
    <2>2. QED
      BY <2>1 DEF DueSections
  <1> HIDE DEF n, due
  <1> DEFINE J == {i \in 0..n : /\ \A j \in 1..i : GainAll(k, secs[j].steps) \subseteq p[i].defined
                                /\ BlamedIn(p[i].out) \subseteq due}
  <1>5. 0 \in J
    <2>1. Start.out = {} /\ BlamedIn({}) = {}
      BY DEF Start, BlamedIn
    <2>2. QED
      BY <1>2, <2>1
  <1>6. ASSUME NEW i \in 1..n, i - 1 \in J
        PROVE  i \in J
    <2>1. i \in 0..n /\ 1..i = (1..(i - 1)) \cup {i}
      BY <1>2
    <2> DEFINE w == p[i - 1]  u == p[i]  g == GainAll(k, secs[i].steps)  d == NeedAll(k, secs[i].steps)
    <2>2. w.defined \cup g \subseteq u.defined /\ BlamedIn(u.out) \subseteq BlamedIn(w.out) \cup (d \ w.defined)
      BY <1>3 DEF Right
    <2>3. (\A j \in 1..(i - 1) : GainAll(k, secs[j].steps) \subseteq w.defined) /\ BlamedIn(w.out) \subseteq due
      BY <1>6
    <2>4. \A m \in d \ w.defined : m \in due
      BY <1>4, <2>3
    <2> HIDE DEF w, u, d
    <2>5. BlamedIn(u.out) \subseteq due
      BY <2>2, <2>3, <2>4
    <2>6. \A j \in 1..i : GainAll(k, secs[j].steps) \subseteq u.defined
      BY <2>1, <2>2, <2>3
    <2>7. QED
      BY <2>1, <2>5, <2>6 DEF u
  <1>7. n \in J
    <2> HIDE DEF J
    <2>1. \A i \in 0..n : i \in J
      BY <1>2, <1>5, <1>6, CountUp
    <2>2. QED
      BY <1>2, <2>1
  <1>8. QED
    BY <1>2, <1>7 DEF due

LEMMA WholeBlames ==
  ASSUME NEW v, NEW sc, NEW insts
  PROVE  BlamedIn(CheckWhole(v, sc, insts)) \subseteq BlamedIn(v.out)
  <1>1. \A rule : Fault(rule, <<>>).ref = <<>> /\ Smell(rule).ref = <<>>
    BY DEF Fault, Smell
  <1>2. \A f \in CheckWhole(v, sc, insts) : f \in v.out \/ \E rule : f = Fault(rule, <<>>) \/ f = Smell(rule)
    BY DEF CheckWhole, When
  <1>3. \A f \in CheckWhole(v, sc, insts) : f \in v.out \/ f.ref = <<>>
    BY <1>1, <1>2
  <1>4. QED
    BY <1>3 DEF BlamedIn, About

LEMMA ScenarioBlames ==
  ASSUME NEW sc, {sc.setup, sc.steady, sc.method, sc.verify, sc.teardown} \subseteq Seq(Steps), NEW project, NEW insts
  PROVE  BlamedIn(CheckScenario(sc, project, insts)) \subseteq DueSections(KnownOf(sc, project, insts), Sections(sc), {})
  <1> DEFINE secs == Sections(sc)
             k == KnownOf(sc, project, insts)
             later == FoldLeft(LAMBDA acc, sec : BindersOf(sec.steps) @@ acc, <<>>, secs)
             ctx == [specs |-> Specs(insts), vars |-> project.vars \cup sc.vars, env |-> DOMAIN project.env,
                     later |-> later, section |-> ""]
             v == CheckSections(ctx, secs)
  <1>1. CheckScenario(sc, project, insts) = CheckWhole(v, sc, insts)
    BY Zenon DEF CheckScenario
  <1>2. Len(secs) = 5 /\ \A i \in 1..5 : secs[i].steps \in Seq(Steps)
    BY DEF Sections
  <1> HIDE DEF later
  <1>3. ASSUME NEW name PROVE SectionCtx(ctx, name).specs = k.specs /\ Knows(SectionCtx(ctx, name))
    <2>1. SectionCtx(ctx, name).specs = Specs(insts)
      <3>1. ctx.specs = Specs(insts) /\ "specs" \in DOMAIN ctx /\ "vars" \in DOMAIN ctx /\ "env" \in DOMAIN ctx
        OBVIOUS
      <3> HIDE DEF ctx
      <3>2. QED
        BY <3>1, CtxIs
    <2>2. k.specs = Specs(insts)
      BY DEF KnownOf
    <2>3. QED
      BY <2>1, <2>2, BlocksResolve DEF Knows
  <1> HIDE DEF ctx, secs, k
  <1>4. Len(secs) \in Nat
    BY <1>2
  <1>5. \A i \in 1..Len(secs) : /\ secs[i].steps \in Seq(Steps) /\ Knows(SectionCtx(ctx, secs[i].name))
                                /\ SectionCtx(ctx, secs[i].name).specs = k.specs
    BY <1>2, <1>3
  <1>6. BlamedIn(CheckSections(ctx, secs).out) \subseteq DueSections(k, secs, {})
    BY ONLY <1>4, <1>5, SectionsBlame
  <1>7. BlamedIn(CheckWhole(v, sc, insts)) \subseteq BlamedIn(v.out)
    BY WholeBlames
  <1>8. QED
    BY <1>1, <1>6, <1>7 DEF k, secs, v

(* A report of a scenario blames nothing else, or is of a registry that    *)
(* cannot be built and blames nothing.                                     *)
LEMMA ReportBlames ==
  ASSUME NEW defs, NEW project, NEW sc, NEW found \in ScenarioFindings(defs, project, sc)
  PROVE  LET merged == MergeProviders(project.providers, sc.providers)
         IN IF NewErrors(defs, merged) # {} THEN \E f \in found : f.ref = <<>> /\ f.severity = "error"
            ELSE found = CheckScenario(sc, project, Instances(defs, merged))
  <1> DEFINE merged == MergeProviders(project.providers, sc.providers)
             stops == NewErrors(defs, merged)
             none == CheckScenario(sc, project, Instances(defs, merged))
  <1>1. ScenarioFindings(defs, project, sc) =
          IF stops # {} THEN {{Fault(IF e = "nesting" THEN 4 ELSE 3, <<>>)} : e \in stops} ELSE {none}
    BY Zenon DEF ScenarioFindings
  <1> HIDE DEF stops, none
  <1>2. ASSUME stops # {} PROVE \E f \in found : f.ref = <<>> /\ f.severity = "error"
    <2>1. PICK e \in stops : found = {Fault(IF e = "nesting" THEN 4 ELSE 3, <<>>)}
      BY <1>1, <1>2
    <2>2. QED
      BY <2>1 DEF Fault
  <1>3. stops = {} => found = none
    BY <1>1
  <1>4. QED
    BY <1>2, <1>3 DEF stops, none

-----------------------------------------------------------------------------
(* What is of a kind or has something of the kind in it.                   *)
MarkedAt(A, below, f, x) == x \in A \/ \E t \in below[x] : f[t]

MarksOf(S, A, below) == CHOOSE f : f = [x \in S |-> MarkedAt(A, below, f, x)]

LEMMA MarksAre ==
  ASSUME NEW S, NEW h, NEW A, NEW below,
         \A x \in S : h[x] \in Nat /\ \A t \in below[x] : t \in S /\ h[t] < h[x]
  PROVE  \A x \in S : MarksOf(S, A, below)[x] = MarkedAt(A, below, MarksOf(S, A, below), x)
  <1> DEFINE V == [x \in S |-> BOOLEAN]
             T == Tables(S, V)
             F == [p \in T \X S |-> MarkedAt(A, below, p[1], p[2])]
             is(f) == f = [x \in S |-> MarkedAt(A, below, f, x)]
             q == MarksOf(S, A, below)
  <1>1. \A f \in T, x \in S : F[<<f, x>>] = MarkedAt(A, below, f, x)
    OBVIOUS
  <1>2. \A x \in S : V[x] = BOOLEAN
    OBVIOUS
  <1>3. \A f : \A x \in S : MarkedAt(A, below, f, x) \in BOOLEAN
    BY DEF MarkedAt
  <1>4. ASSUME NEW x \in S, NEW f, NEW g, \A t \in below[x] : f[t] = g[t]
        PROVE  MarkedAt(A, below, f, x) = MarkedAt(A, below, g, x)
    BY <1>4 DEF MarkedAt
  <1>5. q = CHOOSE f : is(f)
    BY DEF MarksOf
  <1> HIDE DEF F, V, q
  <1>6. Lowering(S, V, h, F)
    <2>1. ASSUME NEW f \in T, NEW x \in S PROVE F[<<f, x>>] \in V[x]
      <3>1. MarkedAt(A, below, f, x) \in BOOLEAN
        BY <1>3
      <3>2. QED
        BY <1>1, <1>2, <3>1
    <2>2. ASSUME NEW f \in T, NEW g \in T, NEW x \in S, \A y \in S : h[y] < h[x] => f[y] = g[y]
          PROVE  F[<<f, x>>] = F[<<g, x>>]
      <3>1. \A t \in below[x] : f[t] = g[t]
        BY <2>2
      <3>2. MarkedAt(A, below, f, x) = MarkedAt(A, below, g, x)
        BY <3>1, <1>4
      <3>3. QED
        BY <1>1, <3>2
    <2>3. \A x \in S : h[x] \in Nat /\ V[x] # {}
      BY <1>2
    <2>4. QED
      BY <2>1, <2>2, <2>3 DEF Lowering
  <1>7. PICK f \in T : \A x \in S : f[x] = F[<<f, x>>]
    <2> HIDE DEF T
    <2>1. \E f \in Tables(S, V) : \A x \in S : f[x] = F[<<f, x>>]
      BY ONLY <1>6, Recursion
    <2>2. QED
      BY <2>1 DEF T
  <1>8. is(f)
    <2>1. f = [x \in S |-> f[x]]
      BY DEF Tables
    <2>2. QED
      BY <2>1, <1>1, <1>7
  <1>9. is(q)
    BY <1>5, <1>8
  <1>10. QED
    BY <1>9 DEF q

(* A repeat, or a block one is in a branch of; and a block that has a      *)
(* branch like that, or a repeat that has one in its body.                 *)
InnerOf == [s \in Steps |-> Inner(s)]

DoOf == [s \in Steps |-> Range(s.do)]

RepeatMarks == MarksOf(Steps, {s \in Steps : s.run = <<"repeat">>}, InnerOf)

BranchMarks == MarksOf(Steps, {s \in Steps : \E t \in Inner(s) : RepeatMarks[t]}, DoOf)

Repeating(st) == RepeatMarks[st]

Tangled(st) == BranchMarks[st]

LEMMA RepeatingIs ==
  ASSUME NEW st \in Steps
  PROVE  /\ RepeatMarks[st] \in BOOLEAN /\ BranchMarks[st] \in BOOLEAN
         /\ Repeating(st) <=> st.run = <<"repeat">> \/ \E t \in Inner(st) : Repeating(t)
         /\ Tangled(st) <=> (\E t \in Inner(st) : Repeating(t)) \/ \E t \in Range(st.do) : Tangled(t)
  <1> DEFINE A == {s \in Steps : s.run = <<"repeat">>}
             B == {s \in Steps : \E t \in Inner(s) : RepeatMarks[t]}
  <1>1. /\ \A x \in Steps : StepHeight[x] \in Nat /\ \A t \in InnerOf[x] : t \in Steps /\ StepHeight[t] < StepHeight[x]
        /\ \A x \in Steps : StepHeight[x] \in Nat /\ \A t \in DoOf[x] : t \in Steps /\ StepHeight[t] < StepHeight[x]
    BY InsideBelow, StepsAssumption DEF Inside, InnerOf, DoOf
  <1>2. RepeatMarks[st] = MarkedAt(A, InnerOf, RepeatMarks, st)
    BY <1>1, MarksAre DEF RepeatMarks
  <1>3. BranchMarks[st] = MarkedAt(B, DoOf, BranchMarks, st)
    BY <1>1, MarksAre DEF BranchMarks
  <1>4. Repeating(st) <=> st.run = <<"repeat">> \/ \E t \in Inner(st) : Repeating(t)
    BY <1>2 DEF MarkedAt, Repeating, InnerOf
  <1>5. Tangled(st) <=> (\E t \in Inner(st) : Repeating(t)) \/ \E t \in Range(st.do) : Tangled(t)
    BY <1>3 DEF MarkedAt, Repeating, Tangled, DoOf
  <1>6. RepeatMarks[st] \in BOOLEAN /\ BranchMarks[st] \in BOOLEAN
    BY <1>2, <1>3 DEF MarkedAt
  <1>7. QED
    BY <1>4, <1>5, <1>6

LEMMA RepeatInBranchIs ==
  ASSUME NEW steps
  PROVE  RepeatInBranch(steps) <=> \E s \in Range(steps) : Tangled(s)
  <1> DEFINE A == {s \in Steps : s.run = <<"repeat">>}
             B == {s \in Steps : \E t \in Inner(s) : RepeatMarks[t]}
             repeats == CHOOSE f : f = [s \in Steps |-> s.run = <<"repeat">> \/ \E t \in Inner(s) : f[t]]
             inBranch == CHOOSE f : f = [s \in Steps |-> (\E t \in Inner(s) : repeats[t]) \/ \E t \in Range(s.do) : f[t]]
  <1>1. \A f : [s \in Steps |-> s.run = <<"repeat">> \/ \E t \in Inner(s) : f[t]]
               = [s \in Steps |-> MarkedAt(A, InnerOf, f, s)]
    BY DEF MarkedAt, InnerOf
  <1>2. repeats = RepeatMarks
    BY <1>1 DEF RepeatMarks, MarksOf
  <1>3. \A f : [s \in Steps |-> (\E t \in Inner(s) : repeats[t]) \/ \E t \in Range(s.do) : f[t]]
               = [s \in Steps |-> MarkedAt(B, DoOf, f, s)]
    BY <1>2 DEF MarkedAt, DoOf
  <1>4. inBranch = BranchMarks
    BY <1>3 DEF BranchMarks, MarksOf
  <1>5. RepeatInBranch(steps) <=> \E s \in Range(steps) : inBranch[s]
    BY DEF RepeatInBranch
  <1>6. QED
    BY <1>4, <1>5 DEF Tangled

-----------------------------------------------------------------------------
(* What the frames of a stack are still to read that nothing will have     *)
(* bound by then: at the head of the top one, after the step each other    *)
(* one is in, and in the branches after the one that runs.  Of a composed  *)
(* verb validate says nothing to a scenario.                               *)
Owing(k, f) == IF f.kind = "macro" THEN {} ELSE NeedAll(k, f.todo) \ f.outputs

OwingAfter(k, f) ==
  IF f.kind = "macro" THEN {} ELSE NeedAll(k, Tail(f.todo)) \ (f.outputs \cup Gain(k, Head(f.todo)))

OwingRest(k, b, t) == IF t.kind = "branch" THEN (UNION {NeedAll(k, x) : x \in Range(t.rest)}) \ b.outputs ELSE {}

Debt(k, s, i) ==
  (IF i = Len(s) THEN Owing(k, s[i]) ELSE OwingAfter(k, s[i]))
  \cup (IF i = 1 THEN {} ELSE OwingRest(k, s[i - 1], s[i]))

Owes(k, s) == UNION {Debt(k, s, i) : i \in 1..Len(s)}

(* What a frame may bind in the end, and what a branch hands on.           *)
Limit(k, f) == f.outputs \cup GainAll(k, f.todo)

Hands(f) == f.wrote \cup f.writes \cup Bindings(f.todo) \cup UNION {Bindings(x) : x \in Range(f.rest)}

(* A frame without a failure and with no repeat in a branch; and what it   *)
(* is to the one it was opened from.                                       *)
Tidy(f) ==
  /\ ~f.failed
  /\ f.kind = "branch" => \A st \in Range(f.todo) \cup UNION {Range(x) : x \in Range(f.rest)} : ~Repeating(st)
  /\ f.kind \in {"section", "body"} => \A st \in Range(f.todo) : ~Tangled(st)

Tied(k, b, t) ==
  /\ t.kind = "branch" => Hands(t) \subseteq Gain(k, Head(b.todo))
  /\ t.kind = "body" => b.kind # "branch" /\ Limit(k, t) \subseteq b.outputs \cup Gain(k, Head(b.todo))
  /\ t.kind = "macro" => Gain(k, Head(b.todo)) = Head(b.todo).binds

StackTidy(k, s) == \A i \in 1..Len(s) : Tidy(s[i]) /\ (i # 1 => Tied(k, s[i - 1], s[i]))

LEMMA TidyAt ==
  ASSUME NEW k, NEW s, StackTidy(k, s), NEW i \in 1..Len(s)
  PROVE  Tidy(s[i]) /\ (i # 1 => Tied(k, s[i - 1], s[i]))
  BY DEF StackTidy

LEMMA TidyRecut ==
  ASSUME NEW k, NEW s \in Seq(Frames), StackTidy(k, s), NEW n \in Nat, n # 0, n <= Len(s) + 1, NEW f, NEW t, Recut(s, t, n, f),
         Tidy(f), n # 1 => Tied(k, s[n - 1], f)
  PROVE  StackTidy(k, t)
  <1>1. Len(t) = n /\ t[n] = f /\ Len(s) \in Nat /\ \A i \in 1..(n - 1) : t[i] = s[i]
    BY DEF Recut
  <1>2. ASSUME NEW i \in 1..n
        PROVE  Tidy(t[i]) /\ (i # 1 => Tied(k, t[i - 1], t[i]))
    <2>1. i # 1 => i - 1 \in 1..(n - 1) /\ t[i - 1] = s[i - 1]
      BY <1>1
    <2>2. CASE i = n
      BY <1>1, <2>1, <2>2
    <2>3. CASE i # n
      <3>1. i \in 1..(n - 1) /\ i \in 1..Len(s)
        BY <1>1, <2>3
      <3>2. t[i] = s[i] /\ Tidy(s[i]) /\ (i # 1 => Tied(k, s[i - 1], s[i]))
        BY <1>1, <3>1, TidyAt
      <3>3. QED
        BY <2>1, <3>2
    <2>4. QED
      BY <2>2, <2>3
  <1>3. QED
    BY <1>1, <1>2 DEF StackTidy

LEMMA OwesRecut ==
  ASSUME NEW k, NEW s \in Seq(Frames), NEW n \in Nat, n # 0, n <= Len(s) + 1, NEW f, NEW t, Recut(s, t, n, f),
         NEW m \in Owes(k, s),
         \A i \in 1..Len(s) : (n <= i \/ i = Len(s)) /\ m \in Debt(k, s, i) => m \in Debt(k, t, n)
  PROVE  m \in Owes(k, t)
  <1>1. Len(t) = n /\ t[n] = f /\ Len(s) \in Nat /\ \A i \in 1..(n - 1) : t[i] = s[i]
    BY DEF Recut
  <1>2. PICK i \in 1..Len(s) : m \in Debt(k, s, i)
    BY DEF Owes
  <1>3. n \in 1..Len(t)
    BY <1>1
  <1>4. CASE n <= i \/ i = Len(s)
    <2>1. m \in Debt(k, t, n)
      BY <1>2, <1>4
    <2>2. QED
      BY <1>3, <2>1 DEF Owes
  <1>5. CASE ~(n <= i \/ i = Len(s))
    <2>1. i \in 1..(n - 1) /\ i # Len(s) /\ i # Len(t) /\ i \in 1..Len(t) /\ (i # 1 => i - 1 \in 1..(n - 1))
      BY <1>1, <1>5
    <2>2. t[i] = s[i] /\ (i # 1 => t[i - 1] = s[i - 1])
      BY <1>1, <2>1
    <2>3. Debt(k, t, i) = Debt(k, s, i)
      BY <2>1, <2>2 DEF Debt
    <2>4. QED
      BY <1>2, <2>1, <2>3 DEF Owes
  <1>6. QED
    BY <1>4, <1>5

(* The head of the top frame is over, or a block in it is, or one begins.  *)
LEMMA OwesSwap ==
  ASSUME NEW k, NEW s \in Seq(Frames), s # <<>>, NEW f \in Frames, NEW m \in Owes(k, s),
         m \in Owing(k, s[Len(s)]) => m \in Owing(k, f),
         Len(s) # 1 /\ m \in OwingRest(k, s[Len(s) - 1], s[Len(s)]) =>
           m \in Owing(k, f) \cup OwingRest(k, s[Len(s) - 1], f)
  PROVE  m \in Owes(k, Swap(s, f))
  <1> DEFINE n == Len(s)  t == Swap(s, f)
  <1>1. Len(t) = n /\ n \in Nat \ {0} /\ t[n] = f /\ \A i \in 1..(n - 1) : t[i] = s[i]
    BY SwapIs
  <1>a. /\ m \in Owing(k, s[n]) => m \in Owing(k, f)
        /\ n # 1 /\ m \in OwingRest(k, s[n - 1], s[n]) => m \in Owing(k, f) \cup OwingRest(k, s[n - 1], f)
    OBVIOUS
  <1>b. n = Len(s)
    OBVIOUS
  <1> HIDE DEF n, t
  <1>2. Recut(s, t, n, f) /\ n \in Nat /\ n # 0 /\ n <= Len(s) + 1
    BY <1>1, <1>b DEF Recut
  <1>3. n # 1 => t[n - 1] = s[n - 1]
    BY <1>1
  <1>4. m \in Debt(k, s, n) => m \in Debt(k, t, n)
    BY <1>1, <1>3, <1>a, <1>b DEF Debt
  <1>5. \A i \in 1..Len(s) : (n <= i \/ i = Len(s)) => i = n
    BY <1>1, <1>b
  <1>6. \A i \in 1..Len(s) : (n <= i \/ i = Len(s)) /\ m \in Debt(k, s, i) => m \in Debt(k, t, n)
    BY <1>4, <1>5
  <1>7. m \in Owes(k, t)
    BY <1>2, <1>6, OwesRecut
  <1>8. QED
    BY <1>7 DEF t

LEMMA OwesShrink ==
  ASSUME NEW k, NEW s \in Seq(Frames), Len(s) >= 2, NEW f \in Frames, NEW m \in Owes(k, s),
         m \in OwingAfter(k, s[Len(s) - 1]) => m \in Owing(k, f),
         f.kind = s[Len(s) - 1].kind, f.rest = s[Len(s) - 1].rest,
         m \notin Owing(k, s[Len(s)]), m \notin OwingRest(k, s[Len(s) - 1], s[Len(s)])
  PROVE  m \in Owes(k, Shrink(s, f))
  <1> DEFINE n == Len(s) - 1  t == Shrink(s, f)
  <1>1. Len(t) = n /\ Len(s) \in Nat /\ t[n] = f /\ \A i \in 1..(n - 1) : t[i] = s[i]
    <2>1. Len(t) = Len(s) - 1 /\ Len(s) \in Nat /\ t[Len(s) - 1] = f /\ \A i \in 1..(Len(s) - 2) : t[i] = s[i]
      BY ShrinkIs
    <2>2. Len(s) - 2 = n - 1
      BY <2>1
    <2>3. QED
      BY <2>1, <2>2
  <1>a. /\ m \in OwingAfter(k, s[n]) => m \in Owing(k, f)
        /\ f.kind = s[n].kind /\ f.rest = s[n].rest
        /\ m \notin Owing(k, s[Len(s)]) /\ m \notin OwingRest(k, s[n], s[Len(s)])
    OBVIOUS
  <1>b. Len(s) = n + 1 /\ n \in Nat /\ n # 0
    BY <1>1
  <1> HIDE DEF n, t
  <1>2. Recut(s, t, n, f) /\ n <= Len(s) + 1
    BY <1>1, <1>b DEF Recut
  <1>3. n # 1 => t[n - 1] = s[n - 1]
    BY <1>1, <1>b
  <1>4. m \notin Debt(k, s, n + 1)
    <2>1. n + 1 = Len(s) /\ n + 1 # 1 /\ (n + 1) - 1 = n
      BY <1>b
    <2>2. QED
      BY <1>a, <2>1 DEF Debt
  <1>5. m \in Debt(k, s, n) => m \in Debt(k, t, n)
    <2>1. n # Len(s) /\ n = Len(t)
      BY <1>1, <1>b
    <2>2. n # 1 => OwingRest(k, t[n - 1], t[n]) = OwingRest(k, s[n - 1], s[n])
      BY <1>1, <1>3, <1>a DEF OwingRest
    <2>3. QED
      BY <1>1, <1>a, <2>1, <2>2 DEF Debt
  <1>6. \A i \in 1..Len(s) : (n <= i \/ i = Len(s)) => i = n \/ i = n + 1
    BY <1>1, <1>b
  <1>7. \A i \in 1..Len(s) : (n <= i \/ i = Len(s)) /\ m \in Debt(k, s, i) => m \in Debt(k, t, n)
    BY <1>4, <1>5, <1>6
  <1>8. m \in Owes(k, t)
    BY <1>2, <1>7, <1>b, OwesRecut
  <1>9. QED
    BY <1>8 DEF t

LEMMA OwesPush ==
  ASSUME NEW k, NEW s \in Seq(Frames), s # <<>>, NEW f \in Frames, NEW m \in Owes(k, s),
         m \in Owing(k, s[Len(s)]) => m \in OwingAfter(k, s[Len(s)]) \cup Owing(k, f) \cup OwingRest(k, s[Len(s)], f)
  PROVE  m \in Owes(k, Append(s, f))
  <1> DEFINE n == Len(s)  t == Append(s, f)
  <1>1. Len(t) = n + 1 /\ n \in Nat /\ t[n + 1] = f /\ \A i \in 1..n : t[i] = s[i]
    BY PushIs
  <1>a. m \in Owing(k, s[n]) => m \in OwingAfter(k, s[n]) \cup Owing(k, f) \cup OwingRest(k, s[n], f)
    OBVIOUS
  <1>b. n = Len(s) /\ n # 0
    OBVIOUS
  <1> HIDE DEF n, t
  <1>2. PICK i \in 1..n : m \in Debt(k, s, i)
    BY <1>b DEF Owes
  <1>3. i \in 1..(n + 1) /\ i # n + 1 /\ t[i] = s[i] /\ (i # 1 => t[i - 1] = s[i - 1])
    <2>1. i \in 1..(n + 1) /\ i # n + 1 /\ (i # 1 => i - 1 \in 1..n)
      BY <1>1
    <2>2. QED
      BY <1>1, <2>1
  <1>4. Debt(k, t, i) = OwingAfter(k, s[i]) \cup (IF i = 1 THEN {} ELSE OwingRest(k, s[i - 1], s[i]))
    BY <1>1, <1>3 DEF Debt
  <1>5. Debt(k, s, i) = (IF i = n THEN Owing(k, s[i]) ELSE OwingAfter(k, s[i]))
                        \cup (IF i = 1 THEN {} ELSE OwingRest(k, s[i - 1], s[i]))
    BY <1>b DEF Debt
  <1>6. Debt(k, t, n + 1) = Owing(k, f) \cup OwingRest(k, s[n], f)
    <2>1. n + 1 = Len(t) /\ n + 1 # 1 /\ (n + 1) - 1 = n /\ n \in 1..n
      BY <1>1, <1>b
    <2>2. t[n] = s[n]
      BY <1>1, <2>1
    <2>3. QED
      BY <1>1, <2>1, <2>2 DEF Debt
  <1>7. m \in Debt(k, t, i) \/ m \in Debt(k, t, n + 1)
    BY <1>2, <1>4, <1>5, <1>6, <1>a
  <1>8. n + 1 \in 1..Len(t) /\ i \in 1..Len(t)
    BY <1>1, <1>3
  <1>9. m \in Owes(k, t)
    BY <1>7, <1>8 DEF Owes
  <1>10. QED
    BY <1>9 DEF t

(* What a stack keeps from one state of it to the next.                    *)
Neat(k, s, t) == StackTidy(k, t) /\ t # <<>> /\ Limit(k, t[1]) \subseteq Limit(k, s[1])

LEMMA NeatRecut ==
  ASSUME NEW k, NEW s \in Seq(Frames), StackTidy(k, s), NEW n \in Nat, n # 0, n <= Len(s) + 1, NEW f, NEW t, Recut(s, t, n, f),
         Tidy(f), n # 1 => Tied(k, s[n - 1], f), n = 1 => Limit(k, f) \subseteq Limit(k, s[1])
  PROVE  Neat(k, s, t)
  <1>1. StackTidy(k, t)
    BY TidyRecut
  <1>2. Len(t) = n /\ t[n] = f /\ \A i \in 1..(n - 1) : t[i] = s[i]
    BY DEF Recut
  <1>3. t # <<>>
    BY <1>2
  <1>4. Limit(k, t[1]) \subseteq Limit(k, s[1])
    <2>1. CASE n = 1
      BY <1>2, <2>1
    <2>2. CASE n # 1
      <3>1. 1 \in 1..(n - 1)
        BY <2>2
      <3>2. QED
        BY <1>2, <3>1
    <2>3. QED
      BY <2>1, <2>2
  <1>5. QED
    BY <1>1, <1>3, <1>4 DEF Neat

LEMMA NeatSwap ==
  ASSUME NEW k, NEW s \in Seq(Frames), s # <<>>, StackTidy(k, s), NEW f \in Frames, Tidy(f),
         Len(s) # 1 => Tied(k, s[Len(s) - 1], f), Len(s) = 1 => Limit(k, f) \subseteq Limit(k, s[1])
  PROVE  Neat(k, s, Swap(s, f))
  <1> DEFINE n == Len(s)  t == Swap(s, f)
  <1>1. Len(t) = n /\ n \in Nat \ {0} /\ t[n] = f /\ \A i \in 1..(n - 1) : t[i] = s[i]
    BY SwapIs
  <1>2. (n # 1 => Tied(k, s[n - 1], f)) /\ (n = 1 => Limit(k, f) \subseteq Limit(k, s[1])) /\ n <= Len(s) + 1
    BY <1>1
  <1> HIDE DEF n, t
  <1>3. Recut(s, t, n, f) /\ n \in Nat /\ n # 0
    BY <1>1 DEF Recut
  <1>4. Neat(k, s, t)
    BY <1>2, <1>3, NeatRecut
  <1>5. QED
    BY <1>4 DEF t

LEMMA NeatShrink ==
  ASSUME NEW k, NEW s \in Seq(Frames), Len(s) >= 2, StackTidy(k, s), NEW f \in Frames, Tidy(f),
         Len(s) # 2 => Tied(k, s[Len(s) - 2], f), Len(s) = 2 => Limit(k, f) \subseteq Limit(k, s[1])
  PROVE  Neat(k, s, Shrink(s, f))
  <1> DEFINE n == Len(s) - 1  t == Shrink(s, f)
  <1>1. Len(t) = n /\ t[n] = f /\ (\A i \in 1..(n - 1) : t[i] = s[i]) /\ Len(s) \in Nat
    <2>1. Len(t) = Len(s) - 1 /\ Len(s) \in Nat /\ t[Len(s) - 1] = f /\ \A i \in 1..(Len(s) - 2) : t[i] = s[i]
      BY ShrinkIs
    <2>2. Len(s) - 2 = n - 1
      BY <2>1
    <2>3. QED
      BY <2>1, <2>2
  <1>2. n - 1 = Len(s) - 2 /\ n \in Nat /\ n # 0 /\ n <= Len(s) + 1 /\ (n = 1 <=> Len(s) = 2)
    BY <1>1
  <1>3. (n # 1 => Tied(k, s[n - 1], f)) /\ (n = 1 => Limit(k, f) \subseteq Limit(k, s[1]))
    BY <1>2
  <1> HIDE DEF n, t
  <1>4. Recut(s, t, n, f)
    BY <1>1 DEF Recut
  <1>5. Neat(k, s, t)
    BY <1>2, <1>3, <1>4, NeatRecut
  <1>6. QED
    BY <1>5 DEF t

LEMMA NeatPush ==
  ASSUME NEW k, NEW s \in Seq(Frames), s # <<>>, StackTidy(k, s), NEW f \in Frames, Tidy(f), Tied(k, s[Len(s)], f)
  PROVE  Neat(k, s, Append(s, f))
  <1> DEFINE n == Len(s) + 1  t == Append(s, f)
  <1>1. Len(t) = n /\ t[n] = f /\ (\A i \in 1..Len(s) : t[i] = s[i]) /\ Len(s) \in Nat /\ Len(s) # 0
    BY PushIs
  <1>2. n - 1 = Len(s) /\ n \in Nat /\ n # 0 /\ n # 1 /\ n <= Len(s) + 1
    BY <1>1
  <1>3. Tied(k, s[n - 1], f)
    BY <1>2
  <1> HIDE DEF n, t
  <1>4. Recut(s, t, n, f)
    BY <1>1, <1>2 DEF Recut
  <1>5. Neat(k, s, t)
    BY <1>2, <1>3, <1>4, NeatRecut
  <1>6. QED
    BY <1>5 DEF t

-----------------------------------------------------------------------------
(* A frame whose step passed.                                              *)
Passed(k, f, g) ==
  /\ g.kind = f.kind /\ g.rest = f.rest /\ g.wrote = f.wrote /\ g.failed = FALSE /\ g.todo = Tail(f.todo)
  /\ g.outputs \subseteq f.outputs \cup Gain(k, Head(f.todo))
  /\ f.kind = "branch" => g.writes \subseteq f.writes \cup Seen(Head(f.todo))

LEMMA AfterPassed ==
  ASSUME NEW f \in Frames, ~f.failed, NEW binds
  PROVE  LET g == After(f, TRUE, FALSE, binds)
         IN /\ g.kind = f.kind /\ g.rest = f.rest /\ g.wrote = f.wrote /\ g.failed = FALSE /\ g.todo = Tail(f.todo)
            /\ g.outputs = f.outputs \cup binds /\ g.writes = f.writes \cup binds
  BY DEF After, Frames

LEMMA SeenOfTail ==
  ASSUME NEW todo \in Seq(Steps), todo # <<>>
  PROVE  /\ Seen(Head(todo)) \cup Bindings(Tail(todo)) \subseteq Bindings(todo)
         /\ Range(Tail(todo)) \subseteq Range(todo) /\ Head(todo) \in Range(todo) /\ Head(todo) \in Steps
  <1>1. Range(Tail(todo)) \subseteq Range(todo) /\ Head(todo) \in Range(todo) /\ Head(todo) \in Steps
    BY RangeOfTail, TailIs DEF Range
  <1>2. QED
    BY <1>1, BindingsAre

LEMMA PassedIs ==
  ASSUME NEW k, NEW f \in Frames, f.todo # <<>>, NEW g \in Frames, Passed(k, f, g), Tidy(f)
  PROVE  /\ Tidy(g) /\ Limit(k, g) \subseteq Limit(k, f) /\ OwingAfter(k, f) \subseteq Owing(k, g)
         /\ \A b : Tied(k, b, f) => Tied(k, b, g)
         /\ \A b : OwingRest(k, b, g) = OwingRest(k, b, f)
         /\ Owing(k, f) \subseteq (Need(k, Head(f.todo)) \ f.outputs) \cup OwingAfter(k, f)
  <1> DEFINE hd == Head(f.todo)  tl == Tail(f.todo)
  <1>1. f.todo \in Seq(Steps)
    BY DEF Frames
  <1>2. /\ Seen(hd) \cup Bindings(tl) \subseteq Bindings(f.todo) /\ Range(tl) \subseteq Range(f.todo)
    BY <1>1, SeenOfTail
  <1>3. /\ NeedAll(k, f.todo) \subseteq Need(k, hd) \cup (NeedAll(k, tl) \ Gain(k, hd))
        /\ GainAll(k, tl) \cup Gain(k, hd) \subseteq GainAll(k, f.todo)
    BY <1>1, NeedOfTail
  <1>4. /\ g.kind = f.kind /\ g.rest = f.rest /\ g.wrote = f.wrote /\ g.failed = FALSE /\ g.todo = tl
        /\ g.outputs \subseteq f.outputs \cup Gain(k, hd)
        /\ f.kind = "branch" => g.writes \subseteq f.writes \cup Seen(hd)
    BY DEF Passed
  <1> HIDE DEF hd, tl
  <1>5. Limit(k, g) \subseteq Limit(k, f)
    BY <1>3, <1>4 DEF Limit
  <1>6. f.kind = "branch" => Hands(g) \subseteq Hands(f)
    BY <1>2, <1>4 DEF Hands
  <1>7. OwingAfter(k, f) \subseteq Owing(k, g)
    BY <1>4 DEF OwingAfter, Owing, hd, tl
  <1>8. Owing(k, f) \subseteq (Need(k, hd) \ f.outputs) \cup OwingAfter(k, f)
    BY <1>3 DEF OwingAfter, Owing, hd, tl
  <1>9. Tidy(g)
    BY <1>2, <1>4 DEF Tidy
  <1>10. \A b : Tied(k, b, f) => Tied(k, b, g)
    BY <1>4, <1>5, <1>6 DEF Tied
  <1>11. \A b : OwingRest(k, b, g) = OwingRest(k, b, f)
    BY <1>4 DEF OwingRest
  <1>12. QED
    BY <1>5, <1>7, <1>8, <1>9, <1>10, <1>11 DEF hd

-----------------------------------------------------------------------------
(* What the stack is still to read it has read, unbound, or is still to    *)
(* read after the step.                                                    *)
Told(m) == <<"outputs", m>>

-----------------------------------------------------------------------------
(* The frames a block opens.                                               *)
LEMMA BranchStarts ==
  ASSUME NEW k, NEW f, NEW branches \in Seq(Seq(Steps)), branches # <<>>, NEW g, g.kind = "branch",
         g.todo = branches[1], g.rest = Tail(branches), g.outputs = f.outputs, g.writes = {}, ~g.failed,
         \A b \in Range(branches) : \A st \in Range(b) : ~Repeating(st),
         g.wrote \subseteq Gain(k, Head(f.todo)),
         \A b \in Range(branches) : Bindings(b) \subseteq Gain(k, Head(f.todo))
  PROVE  /\ Tidy(g) /\ Tied(k, f, g)
         /\ \A b \in Range(branches) : NeedAll(k, b) \ f.outputs \subseteq Owing(k, g) \cup OwingRest(k, f, g)
  <1> DEFINE one == branches[1]  rest == Tail(branches)
  <1>1. Range(branches) = {one} \cup Range(rest)
    <2> DEFINE X == Seq(Steps)
    <2>1. branches \in Seq(X)
      OBVIOUS
    <2> HIDE DEF X
    <2>2. QED
      BY <2>1, RangeOfTail
  <1> HIDE DEF one, rest
  <1>2. g.todo = one /\ g.rest = rest
    BY DEF one, rest
  <1>3. Tidy(g)
    <2>1. \A st \in Range(g.todo) \cup UNION {Range(x) : x \in Range(g.rest)} : ~Repeating(st)
      BY <1>1, <1>2
    <2>2. QED
      BY <2>1 DEF Tidy
  <1>4. Tied(k, f, g)
    <2>1. Hands(g) \subseteq Gain(k, Head(f.todo))
      BY <1>1, <1>2 DEF Hands
    <2>2. QED
      BY <2>1 DEF Tied
  <1>5. ASSUME NEW b \in Range(branches), NEW m \in NeedAll(k, b), m \notin f.outputs
        PROVE  m \in Owing(k, g) \cup OwingRest(k, f, g)
    <2>1. CASE b = one
      BY <1>2, <1>5, <2>1 DEF Owing
    <2>2. CASE b \in Range(rest)
      BY <1>2, <1>5, <2>2 DEF OwingRest
    <2>3. QED
      BY <1>1, <2>1, <2>2
  <1>6. QED
    BY <1>3, <1>4, <1>5

LEMMA BranchFresh ==
  ASSUME NEW f \in Frames, NEW branches
  PROVE  ~Branch(f, branches).failed /\ Branch(f, branches).wrote = {}
  <1> DEFINE b == Frame("branch", branches[1], f.outputs, f.params, TRUE, f.via)
  <1>1. /\ b.failed = FALSE /\ b.wrote = {}
        /\ DOMAIN b = {"kind", "todo", "outputs", "writes", "params", "stop", "via", "failed", "rest", "wrote"}
    BY DEF Frame
  <1>2. Branch(f, branches) = [b EXCEPT !.rest = Tail(branches)]
    BY DEF Branch
  <1> HIDE DEF b
  <1>3. QED
    BY <1>1, <1>2

(* A step of a tidy frame has no repeat in a branch.                       *)
LEMMA HeadTidy ==
  ASSUME NEW f \in Frames, Tidy(f), f.todo # <<>>, f.kind # "macro"
  PROVE  LET st == Head(f.todo)
         IN /\ st \in Steps /\ \A t \in Inner(st) : ~Repeating(t)
            /\ st.run = <<"repeat">> => f.kind # "branch" /\ \A t \in Range(st.do) : ~Tangled(t)
  <1> DEFINE st == Head(f.todo)
  <1>1. st \in Steps /\ st \in Range(f.todo)
    <2>1. f.todo \in Seq(Steps)
      BY DEF Frames
    <2>2. QED
      BY <2>1, SeenOfTail
  <1>2. f.kind \in {"section", "branch", "body"}
    BY DEF Frames, FrameKinds
  <1> HIDE DEF st
  <1>3. /\ Repeating(st) <=> st.run = <<"repeat">> \/ \E t \in Inner(st) : Repeating(t)
        /\ Tangled(st) <=> (\E t \in Inner(st) : Repeating(t)) \/ \E t \in Range(st.do) : Tangled(t)
    BY <1>1, RepeatingIs
  <1>4. CASE f.kind = "branch"
    <2>1. ~Repeating(st)
      BY <1>1, <1>4 DEF Tidy
    <2>2. QED
      BY <1>1, <1>3, <2>1 DEF st
  <1>5. CASE f.kind \in {"section", "body"}
    <2>1. ~Tangled(st)
      BY <1>1, <1>5 DEF Tidy
    <2>2. QED
      BY <1>1, <1>3, <1>5, <2>1 DEF st
  <1>6. QED
    BY <1>2, <1>4, <1>5

LEMMA ParallelStarts ==
  ASSUME NEW k, BlocksKnown(k), NEW f \in Frames, Tidy(f), f.todo # <<>>, f.kind # "macro",
         NEW st, st = Head(f.todo), st.run = <<"parallel">>, st.branches # <<>>
  PROVE  LET g == Branch(f, st.branches)
         IN /\ Tidy(g) /\ Tied(k, f, g)
            /\ Need(k, st) \ f.outputs \subseteq Owing(k, g) \cup OwingRest(k, f, g)
  <1> DEFINE branches == st.branches  g == Branch(f, branches)
  <1>1. st \in Steps /\ \A t \in Inner(st) : ~Repeating(t)
    BY HeadTidy
  <1>2. branches \in Seq(Seq(Steps)) /\ branches # <<>>
    BY <1>1, StepParts
  <1>3. st.run \in DOMAIN k.specs
    BY DEF BlocksKnown
  <1>4. /\ Gain(k, st) = UNION {Seen(s) : s \in Inner(st)}
        /\ Need(k, st) = UNION {NeedAll(k, b) : b \in Range(branches)}
    BY <1>1, <1>3, GainEq
  <1>5. \A b \in Range(branches) : \A s \in Range(b) : s \in Inner(st)
    BY DEF Inner
  <1> HIDE DEF branches
  <1>6. /\ g.kind = "branch" /\ g.todo = branches[1] /\ g.rest = Tail(branches)
        /\ g.outputs = f.outputs /\ g.writes = {} /\ ~g.failed /\ g.wrote = {}
    BY <1>2, BranchIs, BranchFresh
  <1> HIDE DEF g
  <1>7. \A b \in Range(branches) : \A s \in Range(b) : ~Repeating(s)
    BY <1>1, <1>5
  <1>8. \A b \in Range(branches) : Bindings(b) \subseteq Gain(k, Head(f.todo))
    BY <1>4, <1>5, BindingsAre
  <1>9. g.wrote \subseteq Gain(k, Head(f.todo))
    BY <1>6
  <1>10. /\ Tidy(g) /\ Tied(k, f, g)
         /\ \A b \in Range(branches) : NeedAll(k, b) \ f.outputs \subseteq Owing(k, g) \cup OwingRest(k, f, g)
    BY <1>2, <1>6, <1>7, <1>8, <1>9, BranchStarts
  <1>11. Need(k, st) \ f.outputs \subseteq Owing(k, g) \cup OwingRest(k, f, g)
    BY <1>4, <1>10
  <1>12. QED
    BY <1>10, <1>11 DEF g, branches

LEMMA OwnSeen ==
  ASSUME NEW st \in Steps
  PROVE  st.binds \subseteq Seen(st)
  BY BoundEq

-----------------------------------------------------------------------------
(* The sections after the one that is open, when the frame of that one has *)
(* bound all it will; and the run as a whole.                              *)
Beyond(k, s, secs) == IF s = <<>> THEN DueSections(k, secs, {}) ELSE DueSections(k, Tail(secs), Limit(k, s[1]))

Awaited(k, s, secs) == Owes(k, s) \cup Beyond(k, s, secs)

Untangled(secs) == \A i \in 1..Len(secs) : \A st \in Range(secs[i].steps) : ~Tangled(st)

LEMMA DueMore ==
  ASSUME NEW k, NEW secs, NEW D, NEW E, D \subseteq E
  PROVE  DueSections(k, secs, E) \subseteq DueSections(k, secs, D)
  BY DEF DueSections

LEMMA DueTail ==
  ASSUME NEW k, NEW secs \in Seq(Headings), secs # <<>>, NEW D, NEW m \in DueSections(k, secs, D)
  PROVE  \/ m \in NeedAll(k, secs[1].steps) /\ m \notin D
         \/ m \in DueSections(k, Tail(secs), D \cup GainAll(k, secs[1].steps))
  <1> DEFINE t == Tail(secs)  n == Len(secs)  g == GainAll(k, secs[1].steps)
  <1>1. n \in Nat \ {0} /\ Len(t) = n - 1 /\ \A i \in 1..(n - 1) : t[i] = secs[i + 1]
    BY TailIs
  <1>2. PICK i \in 1..n : /\ m \in NeedAll(k, secs[i].steps) /\ m \notin D
                          /\ \A j \in 1..(i - 1) : m \notin GainAll(k, secs[j].steps)
    BY DEF DueSections
  <1>3. m \in STRING
    BY DEF DueSections
  <1> HIDE DEF t, n
  <1>4. CASE i = 1
    BY <1>2, <1>4
  <1>5. CASE i # 1
    <2> DEFINE l == i - 1
    <2>1. l \in 1..(n - 1) /\ t[l] = secs[i] /\ 1 \in 1..(i - 1)
      <3>1. l \in 1..(n - 1) /\ l + 1 = i /\ 1 \in 1..(i - 1)
        BY <1>1, <1>5
      <3>2. QED
        BY <1>1, <3>1
    <2>2. m \notin g
      BY <1>2, <2>1
    <2>3. ASSUME NEW j \in 1..(l - 1) PROVE m \notin GainAll(k, t[j].steps)
      <3>1. j \in 1..(n - 1) /\ j + 1 \in 1..(i - 1)
        BY <1>1, <1>5
      <3>2. t[j] = secs[j + 1]
        BY <1>1, <3>1
      <3>3. QED
        BY <1>2, <3>1, <3>2
    <2> HIDE DEF l, g
    <2>4. l \in 1..Len(t) /\ m \in NeedAll(k, t[l].steps) /\ m \notin D \cup g
      BY <1>1, <1>2, <2>1, <2>2
    <2>5. m \in DueSections(k, t, D \cup g)
      BY <1>3, <2>3, <2>4 DEF DueSections
    <2>6. QED
      BY <2>5 DEF t, g
  <1>6. QED
    BY <1>4, <1>5

LEMMA EnterOwes ==
  ASSUME NEW k, NEW secs \in Seq(Headings), secs # <<>>, Untangled(secs), NEW outputs \in SUBSET STRING, NEW s,
         s = <<SectionFrame(secs[1], outputs)>>
  PROVE  StackTidy(k, s) /\ DueSections(k, secs, outputs) \subseteq Awaited(k, s, secs)
  <1> DEFINE g == SectionFrame(secs[1], outputs)  todo == secs[1].steps
  <1>1. Len(s) = 1 /\ s[1] = g /\ s # <<>> /\ 1..Len(s) = {1}
    OBVIOUS
  <1>2. g.kind = "section" /\ g.todo = todo /\ g.outputs = outputs /\ g.failed = FALSE
    BY DEF SectionFrame, Frame
  <1>3. 1 \in 1..Len(secs)
    OBVIOUS
  <1>4. \A st \in Range(todo) : ~Tangled(st)
    BY <1>3 DEF Untangled
  <1> HIDE DEF g, todo
  <1>5. Tidy(g)
    BY <1>2, <1>4 DEF Tidy
  <1>6. StackTidy(k, s)
    BY <1>1, <1>5 DEF StackTidy
  <1>7. Debt(k, s, 1) = Owing(k, g)
    BY <1>1 DEF Debt
  <1>8. Owes(k, s) = NeedAll(k, todo) \ outputs
    <2>1. Owing(k, g) = NeedAll(k, todo) \ outputs
      BY <1>2 DEF Owing
    <2>2. QED
      BY <1>1, <1>7, <2>1 DEF Owes
  <1>9. Beyond(k, s, secs) = DueSections(k, Tail(secs), outputs \cup GainAll(k, todo))
    BY <1>1, <1>2 DEF Beyond, Limit
  <1>10. ASSUME NEW m \in DueSections(k, secs, outputs)
         PROVE  m \in Owes(k, s) \cup Beyond(k, s, secs)
    BY <1>8, <1>9, DueTail DEF todo
  <1>11. QED
    BY <1>6, <1>10 DEF Awaited

LEMMA UntangledTail ==
  ASSUME NEW secs \in Seq(Headings), secs # <<>>, Untangled(secs)
  PROVE  Untangled(Tail(secs))
  <1> DEFINE t == Tail(secs)  n == Len(secs)
  <1>1. n \in Nat \ {0} /\ Len(t) = n - 1 /\ \A i \in 1..(n - 1) : t[i] = secs[i + 1]
    BY TailIs
  <1> HIDE DEF t
  <1>2. ASSUME NEW i \in 1..Len(t) PROVE t[i] = secs[i + 1] /\ i + 1 \in 1..n
    BY <1>1
  <1>3. QED
    BY <1>2 DEF Untangled, t

-----------------------------------------------------------------------------
(* What validation blames in the five sections awaits the six of the run.  *)
LEMMA StartDue ==
  ASSUME NEW sc, NEW k
  PROVE  /\ DueSections(k, Sections(sc), {}) \subseteq DueSections(k, SectionsOf(sc), {})
         /\ (\A s \in Range(Sections(sc)) : ~RepeatInBranch(s.steps)) => Untangled(SectionsOf(sc))
  <1> DEFINE old == Sections(sc)  new == SectionsOf(sc)
             was(j) == IF j <= 3 THEN j ELSE IF j = 4 THEN 2 ELSE j - 1
             is(i) == IF i <= 3 THEN i ELSE i + 1
  <1>1. /\ Len(new) = 6
        /\ new[1].steps = sc.setup /\ new[2].steps = sc.steady /\ new[3].steps = sc.method
        /\ new[4].steps = sc.steady /\ new[5].steps = sc.verify /\ new[6].steps = sc.teardown
    BY DEF SectionsOf, Sections
  <1>2. /\ Len(old) = 5 /\ DOMAIN old = 1..5
        /\ old[1].steps = sc.setup /\ old[2].steps = sc.steady /\ old[3].steps = sc.method
        /\ old[4].steps = sc.verify /\ old[5].steps = sc.teardown
    BY DEF Sections
  <1> HIDE DEF old, new
  <1>3. ASSUME NEW j \in 1..6
        PROVE  was(j) \in 1..5 /\ new[j].steps = old[was(j)].steps
    <2>1. j = 1 \/ j = 2 \/ j = 3 \/ j = 4 \/ j = 5 \/ j = 6
      OBVIOUS
    <2>2. QED
      BY <1>1, <1>2, <2>1
  <1>4. ASSUME NEW i \in 1..5
        PROVE  /\ is(i) \in 1..6 /\ new[is(i)].steps = old[i].steps
               /\ \A j \in 1..(is(i) - 1) : was(j) \in 1..(i - 1) \/ (j = 4 /\ 2 \in 1..(i - 1))
    <2>1. i = 1 \/ i = 2 \/ i = 3 \/ i = 4 \/ i = 5
      OBVIOUS
    <2>2. is(i) \in 1..6 /\ new[is(i)].steps = old[i].steps
      BY <1>1, <1>2, <2>1
    <2>3. ASSUME NEW j \in 1..(is(i) - 1) PROVE was(j) \in 1..(i - 1) \/ (j = 4 /\ 2 \in 1..(i - 1))
      BY <2>1
    <2>4. QED
      BY <2>2, <2>3
  <1>5. ASSUME NEW m \in DueSections(k, old, {}) PROVE m \in DueSections(k, new, {})
    <2>1. PICK i \in 1..5 : m \in NeedAll(k, old[i].steps) /\ \A j \in 1..(i - 1) : m \notin GainAll(k, old[j].steps)
      BY <1>2 DEF DueSections
    <2>2. m \in STRING
      BY DEF DueSections
    <2> DEFINE l == is(i)
    <2>3. l \in 1..6 /\ new[l].steps = old[i].steps
      BY <1>4
    <2>4. ASSUME NEW j \in 1..(l - 1) PROVE m \notin GainAll(k, new[j].steps)
      <3>1. j \in 1..6
        BY <2>3
      <3>2. new[j].steps = old[was(j)].steps
        BY <1>3, <3>1
      <3>3. was(j) \in 1..(i - 1)
        BY <1>4
      <3> HIDE DEF was
      <3>4. QED
        BY <2>1, <3>2, <3>3
    <2> HIDE DEF l
    <2>5. l \in 1..Len(new) /\ m \in NeedAll(k, new[l].steps) /\ m \notin {}
      BY <1>1, <2>1, <2>3
    <2>6. QED
      BY <2>2, <2>4, <2>5 DEF DueSections
  <1>6. ASSUME \A s \in Range(old) : ~RepeatInBranch(s.steps) PROVE Untangled(new)
    <2>1. \A i \in 1..5 : old[i] \in Range(old)
      BY <1>2 DEF Range
    <2>2. \A i \in 1..5 : \A st \in Range(old[i].steps) : ~Tangled(st)
      BY <1>6, <2>1, RepeatInBranchIs
    <2>3. ASSUME NEW j \in 1..6 PROVE \A st \in Range(new[j].steps) : ~Tangled(st)
      <3>1. was(j) \in 1..5 /\ new[j].steps = old[was(j)].steps
        BY <1>3
      <3> HIDE DEF was
      <3>2. QED
        BY <2>2, <3>1
    <2>4. QED
      BY <1>1, <2>3 DEF Untangled
  <1>7. QED
    BY <1>5, <1>6 DEF old, new

(* A finding of a scenario is of the whole of it, or of a reference.       *)
LEMMA ScenarioRefs ==
  ASSUME NEW sc, {sc.setup, sc.steady, sc.method, sc.verify, sc.teardown} \subseteq Seq(Steps), NEW project, NEW insts,
         NEW f \in CheckScenario(sc, project, insts)
  PROVE  f.ref = <<>> \/ f.ref \in Pairs
  <1> DEFINE secs == Sections(sc)
             later == FoldLeft(LAMBDA acc, sec : BindersOf(sec.steps) @@ acc, <<>>, secs)
             ctx == [specs |-> Specs(insts), vars |-> project.vars \cup sc.vars, env |-> DOMAIN project.env,
                     later |-> later, section |-> ""]
             v == CheckSections(ctx, secs)
  <1>1. CheckScenario(sc, project, insts) = CheckWhole(v, sc, insts)
    BY Zenon DEF CheckScenario
  <1>2. Len(secs) = 5 /\ \A i \in 1..5 : secs[i].steps \in Seq(Steps)
    BY DEF Sections
  <1> HIDE DEF later
  <1>3. ASSUME NEW name PROVE Knows(SectionCtx(ctx, name))
    <2>1. SectionCtx(ctx, name).specs = Specs(insts)
      <3>1. ctx.specs = Specs(insts) /\ "specs" \in DOMAIN ctx /\ "vars" \in DOMAIN ctx /\ "env" \in DOMAIN ctx
        OBVIOUS
      <3> HIDE DEF ctx
      <3>2. QED
        BY <3>1, CtxIs
    <2>2. QED
      BY <2>1, BlocksResolve DEF Knows
  <1> HIDE DEF ctx, secs
  <1>4. v.out \in SUBSET Findings
    <2>1. Len(secs) \in Nat /\ \A i \in 1..Len(secs) : secs[i].steps \in Seq(Steps) /\ Knows(SectionCtx(ctx, secs[i].name))
      BY <1>2, <1>3
    <2>2. PICK p : Sectioning(ctx, secs, p)
      BY <2>1, SectioningIs
    <2> DEFINE n == Len(secs)
    <2>3. p \in [0..n -> Pass] /\ v = p[n] /\ n \in 0..n
      BY <1>2, <2>2 DEF Sectioning
    <2> HIDE DEF v, n
    <2>4. v \in Pass
      BY <2>3
    <2>5. QED
      BY <2>4, PassHas
  <1> HIDE DEF v
  <1>5. f \in v.out \/ f.ref = <<>>
    <2>1. \A rule : Fault(rule, <<>>).ref = <<>> /\ Smell(rule).ref = <<>>
      BY DEF Fault, Smell
    <2>2. f \in CheckWhole(v, sc, insts)
      BY <1>1
    <2>3. f \in v.out \/ \E rule : f = Fault(rule, <<>>) \/ f = Smell(rule)
      BY <2>2 DEF CheckWhole, When
    <2>4. QED
      BY <2>1, <2>3
  <1>6. ASSUME f \in v.out PROVE f.ref = <<>> \/ f.ref \in Pairs
    <2>1. f \in Findings
      BY <1>4, <1>6
    <2>2. f.ref \in {<<>>} \cup UNION {RefsOf(st) : st \in Steps}
      BY <2>1 DEF Findings
    <2>3. \A st \in Steps : RefsOf(st) \in SUBSET Pairs
      BY RefsArePairs
    <2>4. QED
      BY <2>2, <2>3
  <1>7. QED
    BY <1>5, <1>6
==============================================================================
