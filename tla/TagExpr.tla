------------------------------- MODULE TagExpr -------------------------------
(***************************************************************************)
(* Tag expressions (core/tagexpr/tagexpr.go): the recursive-descent parser *)
(* over a sequence of tokens.  A token is a tag or one of "!", "&", "|",   *)
(* "(", ")" and "?", a character no token starts with.  The predicate a    *)
(* parser function returns is the set of tag sets that satisfy it.         *)
(***************************************************************************)
EXTENDS Integers, Sequences, FiniteSets

CONSTANT Tags

Operators == {"!", "&", "|", "(", ")", "?"}

(* No character of a tag is an operator.                                   *)
ASSUME TagsAssumption == Tags \cap Operators = {}

All == SUBSET Tags

(* What a parser function returns: whether it succeeded, where it stopped. *)
Parsed(pos, sat) == [ok |-> TRUE, pos |-> pos, sat |-> sat]
SyntaxError == [ok |-> FALSE, pos |-> 0, sat |-> {}]

Peek(toks, pos, tok) == pos <= Len(toks) /\ toks[pos] = tok

(* Each of these takes the parser it calls: parse[<<rule, pos>>].          *)
ParseAtom(parse, toks, pos) ==
  IF pos <= Len(toks) /\ toks[pos] \in Tags
  THEN Parsed(pos + 1, {S \in All : toks[pos] \in S})
  ELSE IF ~Peek(toks, pos, "(") THEN SyntaxError
  ELSE LET inner == parse[<<"or", pos + 1>>]
       IN IF inner.ok /\ Peek(toks, inner.pos, ")") THEN Parsed(inner.pos + 1, inner.sat)
          ELSE SyntaxError

(* Mutant of ParseUnary: a negation takes the rest of the conjunction.     *)
ParseUnaryLoosely(parse, toks, pos) ==
  IF Peek(toks, pos, "!")
  THEN LET inner == parse[<<"and", pos + 1>>]
       IN IF inner.ok THEN Parsed(inner.pos, All \ inner.sat) ELSE SyntaxError
  ELSE ParseAtom(parse, toks, pos)

ParseUnary(parse, toks, pos) ==
  IF Peek(toks, pos, "!")
  THEN LET inner == parse[<<"unary", pos + 1>>]
       IN IF inner.ok THEN Parsed(inner.pos, All \ inner.sat) ELSE SyntaxError
  ELSE ParseAtom(parse, toks, pos)

(* left, with right after it when the operator between them is on.         *)
Join(left, right, on, sat) ==
  IF ~left.ok \/ ~on THEN left
  ELSE IF right.ok THEN Parsed(right.pos, sat) ELSE SyntaxError

JoinAnd(toks, left, right) == Join(left, right, Peek(toks, left.pos, "&"), left.sat \cap right.sat)
JoinOr(toks, left, right) == Join(left, right, Peek(toks, left.pos, "|"), left.sat \cup right.sat)

(* The loop over "&": what is left of it is a conjunction again.           *)
ParseAnd(parse, toks, pos) ==
  LET left == ParseUnary(parse, toks, pos)
  IN JoinAnd(toks, left, parse[<<"and", left.pos + 1>>])

ParseOr(parse, toks, pos) ==
  LET left == ParseAnd(parse, toks, pos)
  IN JoinOr(toks, left, parse[<<"or", left.pos + 1>>])

Parser(toks) ==
  LET parse[x \in {"or", "and", "unary"} \X (1..(Len(toks) + 1))] ==
        CASE x[1] = "or"    -> ParseOr(parse, toks, x[2])
          [] x[1] = "and"   -> ParseAnd(parse, toks, x[2])
          [] x[1] = "unary" -> ParseUnary(parse, toks, x[2])
  IN parse

(* Compile: the whole of the expression must have been read.               *)
Whole(toks, p) == IF p.ok /\ p.pos = Len(toks) + 1 THEN p ELSE SyntaxError
Compile(toks) == Whole(toks, Parser(toks)[<<"or", 1>>])

-----------------------------------------------------------------------------
(* What an expression means, by its outermost operator: an operator no     *)
(* parenthesis encloses, "|" before "&" before "!".  A part of an          *)
(* expression is given by its first and its last token.                    *)
Depth(toks, i) ==
  Cardinality({j \in 1..(i - 1) : toks[j] = "("}) - Cardinality({j \in 1..(i - 1) : toks[j] = ")"})

Outermost(toks, op, a, b) == {i \in a..b : toks[i] = op /\ Depth(toks, i) = Depth(toks, a)}

FirstOf(S) == CHOOSE i \in S : \A j \in S : i <= j

(* Empty: not an expression; else the one set of tag sets that satisfy it. *)
MeaningOf(meaning, toks, a, b) ==
  LET at(op) == FirstOf(Outermost(toks, op, a, b))
      left(op) == meaning[<<a, at(op) - 1>>]
      right(op) == meaning[<<at(op) + 1, b>>]
  IN IF a > b THEN {}
     ELSE IF Outermost(toks, "|", a, b) # {} THEN {l \cup r : l \in left("|"), r \in right("|")}
     ELSE IF Outermost(toks, "&", a, b) # {} THEN {l \cap r : l \in left("&"), r \in right("&")}
     ELSE IF toks[a] = "!" THEN {All \ m : m \in meaning[<<a + 1, b>>]}
     ELSE IF a = b /\ toks[a] \in Tags THEN {{S \in All : toks[a] \in S}}
     ELSE IF toks[a] = "(" /\ toks[b] = ")" THEN meaning[<<a + 1, b - 1>>] ELSE {}

Meanings(toks) ==
  LET meaning[x \in (1..(Len(toks) + 1)) \X (0..Len(toks))] == MeaningOf(meaning, toks, x[1], x[2])
  IN meaning

Meaning(toks) == Meanings(toks)[<<1, Len(toks)>>]
=============================================================================
