-------------------------------- MODULE Calls ---------------------------------
(***************************************************************************)
(* Verb calls in flight: each caller is a branch of a parallel block that  *)
(* calls one verb after the other, every call under the context of its     *)
(* step (engine/executor.go, runStep and execVerb).  Time is discrete and  *)
(* passes only while every caller waits.                                   *)
(*                                                                         *)
(* A call is a record with the fields kind and timeout (the step's, 0 when *)
(* it has none), and what the verb takes.                                  *)
(***************************************************************************)
EXTENDS Integers, Sequences, FiniteSets, SequencesExt, FiniteSetsExt

CONSTANTS Callers,
          Families,   \* sets of what may be run: records with the fields script, cancel, ...
          Horizon,    \* the clock stops here
          Never       \* a time that is never reached
ASSUME HorizonAssumption == Horizon \in Nat /\ Never \in Nat /\ Never > Horizon

Cases == UNION {Families[i] : i \in DOMAIN Families}
AllCalls == UNION {Range(k.script[c]) : k \in Cases, c \in Callers}
ASSUME ScriptsAssumption ==
  /\ \A k \in Cases : k.script \in [Callers -> Seq(AllCalls)]
  /\ \A call \in AllCalls : call.timeout \in Nat

VARIABLES
  case,       \* the one that is run
  now,
  cancelled,  \* the scenario's context has been cancelled
  script,     \* caller -> the calls it has yet to finish
  at,         \* caller -> its control point, "idle" between two calls
  start,      \* caller -> when its call began
  wake,       \* caller -> until when it waits, if nothing else ends the wait
  mem,        \* caller -> what its call has in hand
  answer      \* caller -> what its last call answered

frames == <<script, at, start, wake, mem, answer>>
vars0 == <<case, now, cancelled, frames>>

NoAnswer == [call |-> <<>>]

CallsInit ==
  /\ \E i \in DOMAIN Families : case \in Families[i]
  /\ now = 0
  /\ cancelled = FALSE
  /\ script = case.script
  /\ at = [c \in Callers |-> "idle"]
  /\ start = [c \in Callers |-> 0]
  /\ wake = [c \in Callers |-> 0]
  /\ mem = [c \in Callers |-> <<>>]
  /\ answer = [c \in Callers |-> NoAnswer]

Call(c) == Head(script[c])
Idle(c) == at[c] = "idle" /\ script[c] # <<>>

(* The step's context: its timeout under the scenario's.                   *)
Deadline(c) == IF Call(c).timeout = 0 THEN Never ELSE start[c] + Call(c).timeout
Done(c) == cancelled \/ now >= Deadline(c)

Goto(c, point, until, m) ==
  /\ at' = [at EXCEPT ![c] = point]
  /\ wake' = [wake EXCEPT ![c] = until]
  /\ mem' = [mem EXCEPT ![c] = m]
  /\ UNCHANGED <<script, start, answer>>

Begin(c, kind, point, m) ==
  /\ Idle(c) /\ Call(c).kind = kind
  /\ start' = [start EXCEPT ![c] = now]
  /\ at' = [at EXCEPT ![c] = point]
  /\ mem' = [mem EXCEPT ![c] = m]
  /\ UNCHANGED <<script, wake, answer>>

(* The verb returns a result, or an error and why.                         *)
Return(c, ok, why, value) ==
  /\ answer' = [answer EXCEPT ![c] =
       [call |-> Call(c), ok |-> ok, why |-> why, value |-> value, start |-> start[c],
        end |-> now, cancelled |-> cancelled, mem |-> mem[c]]]
  /\ script' = [script EXCEPT ![c] = Tail(@)]
  /\ at' = [at EXCEPT ![c] = "idle"]
  /\ wake' = [wake EXCEPT ![c] = 0]
  /\ mem' = [mem EXCEPT ![c] = <<>>]
  /\ UNCHANGED start

(* A caller that can go on now.  One that a killed command keeps, or that  *)
(* waits for an answer without a context, does not see the cancellation.   *)
Due(c) ==
  /\ script[c] # <<>>
  /\ now >= wake[c] \/ (cancelled /\ at[c] \notin {"dying", "held"})

Tick ==
  /\ now < Horizon
  /\ \E c \in Callers : script[c] # <<>>
  /\ \A c \in Callers : ~Due(c)
  /\ now' = now + 1
  /\ UNCHANGED <<case, cancelled, frames>>

(* The run is cancelled.                                                   *)
Cancel ==
  /\ case.cancel /\ ~cancelled
  /\ \E c \in Callers : script[c] # <<>>
  /\ cancelled' = TRUE
  /\ UNCHANGED <<case, now, frames>>
=============================================================================
