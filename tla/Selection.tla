----------------------------- MODULE Selection -----------------------------
(***************************************************************************)
(* From files on disk to the scenarios of a run: discovery                 *)
(* (core/discover/discover.go, core/model/resource.go), the choice of a    *)
(* composed provider by path, positional targets (core/engine/run.go) and  *)
(* the tag filter (core/selector/selector.go).                             *)
(*                                                                         *)
(* A document is a record: class says what its header and body parse to,   *)
(* dir is the sequence of directories from the root, file the file's name, *)
(* stem and ext its two halves.                                            *)
(***************************************************************************)
EXTENDS Naturals, Sequences, SequencesExt

(* Those elements of s that are in S, in the order of s.                   *)
Those(s, S) ==
  LET kept[i \in 0..Len(s)] ==
        IF i = 0 THEN <<>> ELSE IF s[i] \in S THEN Append(kept[i - 1], s[i]) ELSE kept[i - 1]
  IN kept[Len(s)]

Path(f) == Append(f.dir, f.file)

(* First directory below scenarios/, else the parent directory, else none. *)
SuiteOf(f) ==
  IF Len(f.dir) >= 2 /\ f.dir[1] = "scenarios" THEN f.dir[2]
  ELSE IF f.dir # <<>> THEN f.dir[Len(f.dir)] ELSE ""

(* A file the walk opens.                                                  *)
Walked(f) == /\ f.ext \in {".yml", ".yaml"}
             /\ \A i \in DOMAIN f.dir : f.dir[i] \notin {".git", "node_modules"}

(* What ParseHeader and the parser of the kind make of a document: foreign *)
(* has no marker, or is unparseable without one; unparseable carries the   *)
(* marker; unnamed lacks name; malformed has a header and a bad body.      *)
Recognized(d) == d.class # "foreign"
ParseError(d) == d.class \in {"unparseable", "unnamed", "malformed"}

EmptySet == [project |-> <<>>, scenarios |-> <<>>, providers |-> <<>>, errs |-> 0]

LoadDoc(set, d) ==
  IF ~Walked(d) \/ ~Recognized(d) THEN set
  ELSE IF ParseError(d) \/ (d.class = "Project" /\ set.project # <<>>)
    THEN [set EXCEPT !.errs = @ + 1]
  ELSE CASE d.class = "Project"  -> [set EXCEPT !.project = <<d>>]
         [] d.class = "Scenario" ->
              [set EXCEPT !.scenarios = Append(@, [name |-> d.name, suite |-> SuiteOf(d), file |-> d])]
         [] d.class = "Provider" -> [set EXCEPT !.providers = Append(@, d)]

Duplicates(scs) == {i \in DOMAIN scs : \E j \in 1..(i - 1) : scs[j].name = scs[i].name}

(* The set, and whether Load returned it without an error.                 *)
Load(docs) ==
  LET read[i \in 0..Len(docs)] == IF i = 0 THEN EmptySet ELSE LoadDoc(read[i - 1], docs[i])
      set == read[Len(docs)]
  IN [set |-> set,
      ok  |-> set.errs = 0 /\ Duplicates(set.scenarios) = {} /\ set.project # <<>>]

(* The definitions a use: path names: the file, a directory above it, or   *)
(* the file without its extension.  Several, or none, is an error.         *)
FindLocalProvider(providers, use) ==
  Those(providers, {d \in Range(providers) : IsPrefix(use, Path(d)) \/ use = Append(d.dir, d.stem)})

Hits(sc, target) == sc.name = target \/ sc.suite = target

UnknownTarget(scs, targets) ==
  \E i \in DOMAIN targets : \A j \in DOMAIN scs : ~Hits(scs[j], targets[i])

(* Scenarios in the order of the targets, each once; no target means all.  *)
SelectScenarios(scs, targets) ==
  LET fresh(out, t) == {sc \in Range(scs) : Hits(sc, t) /\ \A k \in DOMAIN out : out[k].name # sc.name}
      chosen[i \in 0..Len(targets)] ==
        IF i = 0 THEN <<>>
        ELSE chosen[i - 1] \o Those(scs, fresh(chosen[i - 1], targets[i]))
  IN IF targets = <<>> THEN scs ELSE chosen[Len(targets)]

(* included and excluded are the scenarios the expressions are true of: an *)
(* absent --include-tags of all, an absent --exclude-tags of none.         *)
Filter(scs, included, excluded) ==
  Those(scs, included \ excluded)
=============================================================================
