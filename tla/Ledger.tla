------------------------------- MODULE Ledger -------------------------------
(***************************************************************************)
(* What a run leaves behind about its findings: the identity of a finding  *)
(* (core/engine/identity.go), the findings ledger and its comparison with  *)
(* a run (cli/golden/golden.go), the run history and its trend             *)
(* (cli/history/history.go).                                               *)
(*                                                                         *)
(* A finding observed by a run is a record [id, scenario, nowPasses],      *)
(* observed the set of them, a ledger a set of entries [id, scenario], the *)
(* history a sequence of records [time, verdict, scenarios, findings], the *)
(* last two sequences, in the order of appending.                          *)
(***************************************************************************)
EXTENDS Naturals, FiniteSets, Sequences

(* The identity of a finding step: its id: when it has one, else what the  *)
(* fingerprint hashes.  Wording (finding:, desc:) is not part of it.       *)
FindingID(scenario, section, st) ==
  IF st.id # "" THEN <<st.id>> ELSE <<scenario, section, st.run, st.with>>

Members(s) == {s[i] : i \in DOMAIN s}

(* Mutant of FromObserved: a finding that now passes stays acknowledged.   *)
FromAllObserved(observed) ==
  {[id |-> f.id, scenario |-> f.scenario] : f \in observed}

FromObserved(observed) ==
  {[id |-> f.id, scenario |-> f.scenario] : f \in {g \in observed : ~g.nowPasses}}

(* Mutant of Merge: a targeted run rebuilds the whole file.                *)
MergeAll(prev, observed, ran) == FromObserved(observed)

Merge(prev, observed, ran) ==
  {e \in prev : e.scenario \notin ran} \cup FromObserved(observed)

Ids(entries) == {e.id : e \in entries}

(* The map Reconcile builds from the file: of several entries with one id  *)
(* the last in the file wins, and the file's order among them is not fixed *)
(* (the sort by id is not stable).                                         *)
Wants(g) == {w \in [Ids(g) -> g] : \A id \in Ids(g) : w[id].id = id}

Reconcile(want, observed, ran) ==
  LET active == FromObserved(observed)
  IN [unexpected |-> {e \in active : e.id \notin DOMAIN want},
      missing    |-> {want[id] : id \in {i \in DOMAIN want \ Ids(active) :
                                           want[i].scenario \in ran}}]

Empty(drift) == drift.unexpected = {} /\ drift.missing = {}

(* The records that may come last once they are sorted by their time: the  *)
(* sort does not fix the order of equal ones.                              *)
Newest(records) ==
  {i \in DOMAIN records : \A j \in DOMAIN records : records[j].time <= records[i].time}

(* Occurrences of a finding over the records: pairs of a record's and the  *)
(* finding's index.                                                        *)
Occurrences(records, id) ==
  UNION {{<<i, j>> : j \in {k \in DOMAIN records[i].findings : records[i].findings[k].id = id}}
         : i \in DOMAIN records}

StatusIn(record, id) ==
  LET of(passes) == {f \in Members(record.findings) : f.id = id /\ f.nowPasses = passes}
  IN CASE of(FALSE) # {} -> "open"
       [] of(FALSE) = {} /\ of(TRUE) # {} -> "fixed"
       [] OTHER -> "gone"

(* One trend per finding id: in how many occurrences it was active, when   *)
(* it was seen first and was last active (0 when it never was), and what   *)
(* the record that comes last says of it.                                  *)
FoldTrend(records, last) ==
  LET times(occ) == {records[o[1]].time : o \in occ}
      Latest(ts) == IF ts = {} THEN 0 ELSE CHOOSE t \in ts : \A u \in ts : u <= t
      Earliest(ts) == CHOOSE t \in ts : \A u \in ts : t <= u
      active(id) == {o \in Occurrences(records, id) : ~records[o[1]].findings[o[2]].nowPasses}
  IN [id \in UNION {{f.id : f \in Members(records[i].findings)} : i \in DOMAIN records} |->
        [runs   |-> Cardinality(active(id)),
         first  |-> Earliest(times(Occurrences(records, id))),
         last   |-> Latest(times(active(id))),
         status |-> StatusIn(records[last], id)]]
=============================================================================
