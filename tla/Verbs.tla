--------------------------------- MODULE Verbs --------------------------------
(***************************************************************************)
(* Branches that call verbs at the same time: faults and their restores,   *)
(* requests through the faults, gates and samples on what they observe,    *)
(* load and commands.                                                      *)
(***************************************************************************)
EXTENDS Polling, Commands

vars == <<vars0, faultVars>>

Init == CallsInit /\ FaultsInit

Step(c) ==
  /\ Due(c)
  /\ \/ FaultStep(c)
     \/ (RequestStep(c) \/ PollStep(c) \/ ExecStep(c)) /\ UNCHANGED faultVars
  /\ UNCHANGED <<case, now, cancelled>>

Next ==
  \/ \E c \in Callers : Step(c)
  \/ Tick /\ UNCHANGED faultVars
  \/ Cancel /\ UNCHANGED faultVars

(* Goroutines are scheduled, timers fire, and what listens to a context    *)
(* sees it end.  Nobody has to cancel.                                     *)
Fairness == WF_vars((\E c \in Callers : Step(c)) \/ (Tick /\ UNCHANGED faultVars))

Spec == Init /\ [][Next]_vars /\ Fairness

-----------------------------------------------------------------------------

Returns(c) == Len(script'[c]) < Len(script[c]) /\ at[c] # "idle"

(* Nobody else has had a hand in it.  A container that was stopped or      *)
(* started meanwhile need not be among those ps listed.                    *)
Undisturbed(c, fact) ==
  /\ Subject(fact) \notin touched'[c]
  /\ fact[1] \in {"joined", "capped"} => <<"state", fact[2]>> \notin touched'[c]

Holds(c) ==
  \A fact \in Promised(c, Call(c), mem[c].before) :
    Undisturbed(c, fact) =>
      /\ fact \in Truth(world')
      /\ fact[1] = "snippet" /\ case.reloads => Names(world'.served, fact[2]) = fact[3]

(* The proxy that a clear has reached is enabled again, also when a toxic  *)
(* could not be removed; only its own last request may fail.               *)
Reenabled(c) ==
  Call(c).verb = "clear" /\ at[c] # "proxy" /\ "enable" \notin mem[c].failed =>
    \/ world'.enabled[px(c)]
    \/ <<"enabled", px(c)>> \in touched'[c]

(* A fault or a restore that answers without an error is in force, for     *)
(* every stream, container and host it is about, whatever failed and       *)
(* half-succeeded before, unless the call of another branch, about the     *)
(* same thing, has changed it since; and a failing clear never leaves the  *)
(* proxy partitioned (toxiproxyp.go:149-168, netp.go:152-191,              *)
(* dockerp.go:245-278).  Of a name it says what the snippets say and what  *)
(* the resolver serves; the second only where net has a reloadCmd: without *)
(* one reload returns at once (netp.go:144-146) and nothing reads them.    *)
AnsweredIsInForce ==
  [][\A c \in Callers :
       Fault(c) /\ Returns(c) => (answer'[c].ok => Holds(c)) /\ Reenabled(c)]_vars

(* Each host has a snippet of its own.  confFile replaces what a file name *)
(* does not take (netp.go:136-140,195-204), so that two hosts may share one. *)
OneFilePerHost == \A g, h \in Hosts : confFile(g) = confFile(h) => g = h

(* wait_until (executor.go:770-844): a gate opens on the first observation *)
(* that meets the condition and on no other; it gives up neither before    *)
(* its timeout nor, blocked by a probe, after it; a parent that ended is   *)
(* told from a condition that was not met; and the error it reports is     *)
(* that of the last poll.                                                  *)
Satisfies(args, obs) ==
  /\ ~obs.err
  /\ ~CheckFails(obs.value, Op(args), Operand(args))
  /\ Passes(obs.value, Op(args), Operand(args))

Unclear(args, obs) == obs.err \/ CheckFails(obs.value, Op(args), Operand(args))

HonestGate(a) ==
  LET limit == a.start + a.call.limit[1]
      parent == IF a.call.timeout = 0 THEN Never ELSE a.start + a.call.timeout
  IN a.call.kind = "wait" /\ a.why # "arguments" =>
       /\ a.end <= limit /\ a.end <= parent
       /\ \A i \in DOMAIN a.mem.seen : ~Satisfies(a.call.args, a.mem.seen[i])
       /\ a.ok => Satisfies(a.call.args, a.mem.obs) /\ a.mem.asked >= a.start
       /\ a.why = "unmet" => a.end = limit /\ limit < parent /\ ~a.cancelled
       /\ a.why = "context" => a.cancelled \/ a.end = parent
       /\ ~a.ok => a.mem.lastErr = Unclear(a.call.args, Last(a.mem.seen))

WaitIsHonest == \A c \in Callers : answer[c] # NoAnswer => HonestGate(answer[c])

(* The nearest rank: the least of the samples that p percent do not pass.  *)
NearestRank(lats, p, v) ==
  /\ \E i \in DOMAIN lats : lats[i] = v
  /\ 100 * Cardinality({i \in DOMAIN lats : lats[i] <= v}) >= p * Len(lats)
  /\ 100 * Cardinality({i \in DOMAIN lats : lats[i] < v}) < p * Len(lats)

(* sample (executor.go:712-765) and load.run (loadp.go:88-187): a window   *)
(* that is returned is whole, never short and never a sample too many;     *)
(* samples follow each other at the interval, one at a time, and none      *)
(* starts after the deadline; its statistics are those of its samples.  A  *)
(* load that was cut short is an error.                                    *)
WholeWindow(a) ==
  LET sent == a.mem.sent
      lats == a.mem.lats
      s == a.value
      gap == Max({a.call.interval, minPollInterval})
  IN a.ok =>
       /\ a.call.kind = "load" => a.end >= a.start + a.call.span /\ ~a.cancelled
       /\ a.call.kind = "sample" =>
            /\ s.n = Len(sent) /\ s.n >= 1
            /\ \/ a.call.count > 0 /\ s.n = a.call.count
               \/ a.call.span > 0 /\ a.end >= a.start + a.call.span
            /\ a.call.count > 0 => s.n <= a.call.count
            /\ a.call.span > 0 => \A i \in DOMAIN sent : sent[i] < a.start + a.call.span
            /\ \A i \in 2..Len(sent) : sent[i] >= sent[i - 1] + lats[i - 1] + gap
            /\ s.errors <= s.n
            /\ s.min <= s.p50 /\ s.p99 <= s.max
            /\ NearestRank(lats, 50, s.p50) /\ NearestRank(lats, 95, s.p95)
            /\ NearestRank(lats, 99, s.p99)

WindowsAreWhole == \A c \in Callers : answer[c] # NoAnswer => WholeWindow(answer[c])

(* exec.run (execp.go:72-120): when a command is cut off, what holds its   *)
(* output is gone when the verb returns, and whatever obeys SIGTERM within *)
(* the grace has had the time to revert its fault.  (A child that ignores  *)
(* SIGTERM and has let go of the output survives: its shell's end stops    *)
(* the SIGKILL.)                                                           *)
CutIsGone(a) ==
  LET Member(p) == IF p = "shell" THEN a.call.shell ELSE a.call.child
  IN a.call.kind = "exec" /\ a.mem.term # Never =>
       /\ ~a.ok
       /\ \A p \in a.value : p = "child" /\ ~Member(p).pipe
       /\ \A p \in Group : Member(p).obeys /\ Member(p).reverts <= termGrace =>
            a.mem.killed = Never \/ a.mem.killed >= a.mem.term + Member(p).reverts

CutCommandsAreGone == \A c \in Callers : answer[c] # NoAnswer => CutIsGone(answer[c])

(* What bounds a call: its step's timeout, a limit of its own, or the      *)
(* default of its provider.  Of the faults, those whose requests are all   *)
(* answered, and a command that its step's timeout kills with all that     *)
(* holds its output; a request to toxiproxy's API has no bound.            *)
Bounded(call) ==
  \/ call.timeout > 0 /\ call.kind # "fault"
  \/ call.kind = "fault" /\ ~case.mute
  \/ /\ call.kind = "fault" /\ call.verb \notin OnProxy \cup {"toxiproxy.reset"}
     /\ call.timeout > 0 /\ ~case.held
  \/ call.kind \in {"wait", "sleep", "load", "assert"}
  \/ call.kind = "request" /\ (call.req.limit > 0 \/ DefaultTimeout[call.req.provider] > 0)
  \/ /\ call.kind = "sample" /\ call.req # <<>>
     /\ call.req[1].limit > 0 \/ DefaultTimeout[call.req[1].provider] > 0
  \/ call.kind = "exec" /\ call.shell.runs < Never

(* A call that something bounds returns, also when the fault in place      *)
(* swallows its requests.                                                  *)
CallsReturn ==
  \A c \in Callers : (at[c] # "idle" /\ Bounded(Call(c))) ~> at[c] = "idle"
=============================================================================
