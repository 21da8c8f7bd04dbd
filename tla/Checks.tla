-------------------------------- MODULE Checks --------------------------------
(***************************************************************************)
(* The comparison operators of assert and wait_until                       *)
(* (core/builtins/builtins.go) over decoded values.                        *)
(*                                                                         *)
(* A value is [t, s, num, nan, e]: its type, its rendering as text, <<n>>  *)
(* when it is or parses as the number n, whether it parses as NaN, and the *)
(* elements of a list.  What a text contains and matches is given by       *)
(* relations on texts.                                                     *)
(***************************************************************************)
EXTENDS Integers, Sequences, Functions

CONSTANTS Contained,   \* pairs <<text, text in it>>
          Patterns,    \* the texts that compile as regular expressions
          Matching     \* pairs <<text, pattern it matches>>

Operators == {"equals", "notEquals", "contains", "absent", "in", "matches",
              "gt", "lt", "gte", "lte", "between"}

(* The operator of the arguments; with none or several there is an error.  *)
Given(args) == DOMAIN args \cap Operators
ExtractFails(args) == ~\E op \in Operators : Given(args) = {op}

Numeric(v) == v.nan \/ v.num # <<>>
ToFloat(v) == v.num[1]

(* How two numbers compare; a NaN compares with nothing.                   *)
Compare(a, b) ==
  CASE a.nan \/ b.nan -> "not"
    [] OTHER -> IF ToFloat(a) < ToFloat(b) THEN "less"
                ELSE IF ToFloat(a) = ToFloat(b) THEN "equal" ELSE "greater"

(* Numbers when both sides parse as numbers, else texts; null is null.     *)
eq(a, b) ==
  IF a.t = "null" \/ b.t = "null" THEN a.t = b.t
  ELSE IF Numeric(a) /\ Numeric(b) THEN Compare(a, b) = "equal"
  ELSE a.s = b.s

Elem(list, v) == \E i \in DOMAIN list.e : eq(list.e[i], v)

Unsearchable(of) == of.t \notin {"text", "list", "null"}
contains(of, operand) ==
  \/ of.t = "text" /\ <<of.s, operand.s>> \in Contained
  \/ of.t = "list" /\ Elem(of, operand)

Ordering == {"gt", "lt", "gte", "lte"}

BadBounds(operand) ==
  \/ operand.t # "list" \/ Len(operand.e) # 2
  \/ ~Numeric(operand.e[1]) \/ ~Numeric(operand.e[2])
  \/ Compare(operand.e[1], operand.e[2]) = "greater"

(* Check cannot be evaluated.                                              *)
CheckFails(of, op, operand) ==
  CASE op \in {"contains", "absent"} -> Unsearchable(of)
    [] op = "in" -> operand.t # "list"
    [] op = "matches" -> operand.t # "text" \/ operand.s \notin Patterns
    [] op \in Ordering -> ~Numeric(of) \/ ~Numeric(operand)
    [] op = "between" -> BadBounds(operand) \/ ~Numeric(of)
    [] op \notin Operators -> TRUE
    [] OTHER -> FALSE

Passes(of, op, operand) ==
  CASE op = "equals" -> eq(of, operand)
    [] op = "notEquals" -> ~eq(of, operand)
    [] op = "contains" -> contains(of, operand)
    [] op = "absent" -> ~contains(of, operand)
    [] op = "in" -> \E i \in DOMAIN operand.e : eq(of, operand.e[i])
    [] op = "matches" -> <<of.s, operand.s>> \in Matching
    [] op = "gt" -> Compare(of, operand) = "greater"
    [] op = "lt" -> Compare(of, operand) = "less"
    [] op = "gte" -> Compare(of, operand) \in {"equal", "greater"}
    [] op = "lte" -> Compare(of, operand) \in {"equal", "less"}
    [] op = "between" -> /\ Compare(of, operand.e[1]) \in {"equal", "greater"}
                           /\ Compare(of, operand.e[2]) \in {"equal", "less"}
=============================================================================
