------------------------------- MODULE Requests -------------------------------
(***************************************************************************)
(* The verbs that ask a system something: http, tcp, prom, grpc and sql    *)
(* (providers/...), alone or nested in wait_until and sample, and what the *)
(* faults in place make of the request.                                    *)
(*                                                                         *)
(* A request is [provider, via, host, service, limit, expect, labels]: a   *)
(* proxy or "direct", where it goes, tcp's own timeout, the statuses http  *)
(* tolerates and the labels prom selects by.  A service answers with       *)
(* [status, value, lines, samples]; the lines and samples are prom's.      *)
(***************************************************************************)
EXTENDS Faults, Checks

CONSTANTS DefaultTimeout,   \* provider -> its timeout for calls without a deadline, 0 for none
          Lag,              \* what a degradation toxic or a CPU ceiling adds to an answer
          Hangup,           \* when a timeout toxic closes the connection
          Null,             \* the value null
          Clip(_)           \* a value -> what its text reads as, cut short
ASSUME TimesAssumption ==
  /\ \A p \in DOMAIN DefaultTimeout : DefaultTimeout[p] \in Nat
  /\ Lag \in Nat /\ Hangup \in Nat

Requested(req) == req.limit \in Nat /\ req.provider \in DOMAIN DefaultTimeout

(* tcp.connect only connects: a proxy accepts on its own, whatever toxics  *)
(* it has, and a frozen process is connected to by its kernel.             *)
OnlyConnects(req) == req.provider = "tcp"

(* Nothing answers, at once.                                               *)
Refuses(req) ==
  \/ req.via # "direct" /\ ~world.enabled[req.via]
  \/ Names(world.served, req.host) \cap {"nxdomain", "dns_blackhole"} # {}
  \/ /\ ~OnlyConnects(req) \/ req.via = "direct"
     /\ \A b \in Range(Containers(req.service)) :
          world.boxes[b].state \in {"exited", "absent"} \/ ~world.boxes[b].joined

On(req, bases) ==
  /\ ~OnlyConnects(req) /\ req.via # "direct"
  /\ \E x \in world.toxics[req.via] : x[1] \in bases

(* The request is lost, and nothing tells the client.                      *)
Swallows(req) ==
  \/ On(req, {"packet_loss", "blackhole"})
  \/ /\ ~OnlyConnects(req)
     /\ \A b \in Range(Containers(req.service)) : world.boxes[b].state # "running"

Slows(req) ==
  \/ On(req, {"add_latency", "bandwidth"})
  \/ ~OnlyConnects(req) /\ \E b \in Range(Containers(req.service)) : world.boxes[b].capped

(* What the service says now; the last answer of the case stays.           *)
Says == case.says[Min({now + 1, Len(case.says)})]

Failed == [err |-> TRUE, value |-> Null]
Got(v) == [err |-> FALSE, value |-> v]

(* prom.scrape: the first line with these labels; one it does not have is  *)
(* the empty text.                                                         *)
Label(line, k) == IF k \in DOMAIN line.labels THEN line.labels[k] ELSE ""
labelsMatch(line, want) == \A k \in DOMAIN want : Label(line, k) = want[k]
Selected(lines, want) == SelectSeq(lines, LAMBDA l : l.reads /\ labelsMatch(l, want))

(* What the provider makes of an answer.                                   *)
Judged(req, ans) ==
  CASE req.provider = "http" ->
         IF ans.status \in req.expect \/ ans.status < 400 THEN Got(ans.value)
         ELSE [err |-> TRUE, value |-> ans.value]
    [] req.provider = "scrape" ->
         LET hits == Selected(ans.lines, req.labels)
         IN IF ans.status # 200 \/ hits = <<>> THEN Failed ELSE Got(hits[1].value)
    [] req.provider = "query" ->
         CASE Len(ans.samples) = 0 -> Failed
           [] Len(ans.samples) = 1 -> Got(ans.samples[1])
           [] OTHER -> Got([Null EXCEPT !.t = "list", !.e = ans.samples])
    [] req.provider = "grpc" -> [err |-> ans.status # 200, value |-> ans.value]
    [] req.provider = "sql" -> IF ans.status # 200 THEN Failed ELSE Got(ans.value)
    [] req.provider = "tcp" -> Got(ans.value)

(* What is read of an answer that ends within its body, by a verb that     *)
(* takes what it has read: http and scrape.  The others need all of it.    *)
Torn(req, ans) ==
  CASE req.provider = "http" -> {[ans EXCEPT !.value = Clip(@)]}
    [] req.provider = "scrape" ->
         {[ans EXCEPT !.lines = SubSeq(@, 1, k)] : k \in 0..Len(ans.lines)}
         \cup {[ans EXCEPT !.lines = [SubSeq(@, 1, k) EXCEPT ![k].value = Clip(@)]] :
                 k \in DOMAIN ans.lines}
    [] OTHER -> {}

(* Mutant of BoundCtx: the default is left to the step's timeout.          *)
NoDefault(req, deadline) == IF req.limit > 0 THEN Min({deadline, now + req.limit}) ELSE deadline

(* The context of a request under one with this deadline: tcp's timeout    *)
(* goes before its default, which is for a context without a deadline.     *)
BoundCtx(req, deadline) ==
  CASE req.limit > 0 -> Min({deadline, now + req.limit})
    [] req.limit = 0 /\ deadline = Never /\ DefaultTimeout[req.provider] > 0 ->
         now + DefaultTimeout[req.provider]
    [] OTHER -> deadline

(* The request is sent under a context with this deadline.                 *)
Ask(c, req, deadline, m) ==
  /\ LET bound == BoundCtx(req, deadline)
         closes == On(req, {"timeout"})
         end == CASE Refuses(req) -> now
                  [] ~Refuses(req) /\ Swallows(req) -> Never
                  [] ~Refuses(req) /\ ~Swallows(req) /\ closes -> now + Hangup
                  [] OTHER -> now + (IF Slows(req) THEN Lag ELSE 0)
         silent == Refuses(req) \/ Swallows(req) \/ closes
         obs == IF Refuses(req) \/ closes THEN Failed ELSE Judged(req, Says)
         part == {Failed} \cup
                 (IF silent THEN {} ELSE {Judged(req, ans) : ans \in Torn(req, Says)})
     IN Goto(c, "asking", Min({end, bound}),
             [m EXCEPT !.asked = now, !.end = end, !.bound = bound, !.obs = obs, !.part = part])

(* The answer is there, or the context ends first; when both are, either.  *)
(* The end of the context finds no answer yet, or some of its body.        *)
Arrives(c) ==
  /\ at[c] = "asking" /\ now >= mem[c].end
  /\ Goto(c, "got", 0, mem[c])

CutOff(c) ==
  /\ at[c] = "asking" /\ (cancelled \/ now >= mem[c].bound)
  /\ \E obs \in mem[c].part : Goto(c, "got", 0, [mem[c] EXCEPT !.obs = obs])

Asking == [asked |-> 0, end |-> 0, bound |-> 0, obs |-> Failed, part |-> {Failed}]

BeginRequest(c) == Begin(c, "request", "ask", Asking)

SendRequest(c) ==
  /\ at[c] = "ask" /\ Call(c).kind = "request"
  /\ Ask(c, Call(c).req, Deadline(c), mem[c])

EndRequest(c) ==
  /\ at[c] = "got" /\ Call(c).kind = "request"
  /\ Return(c, ~mem[c].obs.err, "request", mem[c].obs.value)

RequestStep(c) ==
  BeginRequest(c) \/ SendRequest(c) \/ Arrives(c) \/ CutOff(c) \/ EndRequest(c)
=============================================================================
