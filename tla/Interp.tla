------------------------------- MODULE Interp -------------------------------
(***************************************************************************)
(* A ${...} reference (core/interp/interp.go) is a jq expression over the  *)
(* document whose keys are the namespaces vars, outputs, env and params:   *)
(* what the static walk (core/jqx/jqx.go) says it reads, and what its      *)
(* evaluation reads.                                                       *)
(*                                                                         *)
(* An expression is [op |-> "field", path], [op |-> "pipe", l, r],         *)
(* [op |-> "both", l, r] for any operator that gives both sides its input, *)
(* or [op |-> "call", arg] for a function that evaluates arg on its input. *)
(***************************************************************************)
EXTENDS Naturals, Sequences

CONSTANTS Exprs,      \* the expressions of a project, each with the ones inside it
          ExprHeight  \* how deep each of them is

PartsOf(e) ==
  CASE e.op = "field" -> {} [] e.op \in {"pipe", "both"} -> {e.l, e.r} [] e.op = "call" -> {e.arg}

(* An expression is a finite tree.                                         *)
ASSUME ExprsAssumption ==
  \A e \in Exprs :
    /\ e.op \in {"field", "pipe", "both", "call"} /\ ExprHeight[e] \in Nat
    /\ e.op = "field" => e.path \in Seq(STRING) /\ e.path # <<>>
    /\ \A p \in PartsOf(e) : p \in Exprs /\ ExprHeight[p] < ExprHeight[e]

FieldRef(path) == <<path[1], IF Len(path) > 1 THEN path[2] ELSE "">>

(* Mutant of Walk: the right side of a pipe reads the document too.        *)
WalkThroughPipes(refs, e) ==
  CASE e.op = "field" -> {FieldRef(e.path)}
    [] e.op \in {"pipe", "both"} -> refs[e.l] \cup refs[e.r]
    [] e.op = "call"  -> {}

(* Pairs of namespace and name, "" where no name follows; what a function  *)
(* is applied to is taken to be rebound.                                   *)
Walk(refs, e) ==
  CASE e.op = "field" -> {FieldRef(e.path)}
    [] e.op = "pipe"  -> refs[e.l]
    [] e.op = "both"  -> refs[e.l] \cup refs[e.r]
    [] e.op = "call"  -> {}

NSRefs(e) == LET refs[x \in Exprs] == Walk(refs, x) IN refs[e]

Paths == SUBSET Seq(STRING)

(* The place in the document an expression yields when its input is at one *)
(* of base; empty when what it yields is computed.  x is <<e, base>>.      *)
ResultAt(result, x) ==
  CASE x[1].op = "field" -> {b \o x[1].path : b \in x[2]}
    [] x[1].op = "pipe"  -> result[<<x[1].r, result[<<x[1].l, x[2]>>]>>]
    [] OTHER -> {}

ResultOf(e, base) ==
  LET result[x \in Exprs \X Paths] == ResultAt(result, x) IN result[<<e, base>>]

(* The places its evaluation reads.                                        *)
ReadsAt(reads, x) ==
  CASE x[1].op = "field" -> {b \o x[1].path : b \in x[2]}
    [] x[1].op = "pipe"  -> reads[<<x[1].l, x[2]>>] \cup reads[<<x[1].r, ResultOf(x[1].l, x[2])>>]
    [] x[1].op = "both"  -> reads[<<x[1].l, x[2]>>] \cup reads[<<x[1].r, x[2]>>]
    [] x[1].op = "call"  -> reads[<<x[1].arg, x[2]>>]

Reads(e, base) ==
  LET reads[x \in Exprs \X Paths] == ReadsAt(reads, x) IN reads[<<e, base>>]

(* The named references evaluation reads from the root document: of a name *)
(* the namespace lacks it gets null, and nothing says so.                  *)
Names(exprs) == {SubSeq(p, 1, 2) : p \in {q \in UNION {Reads(e, {<<>>}) : e \in exprs} : Len(q) >= 2}}

(* ... of those, the ones the static walk does not see.                    *)
Unseen(exprs) == Names(exprs) \ UNION {NSRefs(e) : e \in exprs}
=============================================================================
