------------------------------- MODULE MCVerbs --------------------------------
(***************************************************************************)
(* Two branches, in families: pairs of faults and a third on the same      *)
(* proxy, host or service; every provider through every fault; gates and   *)
(* samples while a fault comes and goes; commands, load and checks.        *)
(***************************************************************************)
EXTENDS Verbs

CONSTANTS A, B

MCConfFile(h) == IF h = "h1" THEN "shinari-h1.conf" ELSE "shinari-h2.conf"
MCContainers(s) == IF s = "web" THEN <<"w1", "w2">> ELSE <<"db1">>
MCDefaultTimeout ==
  [http |-> 4, scrape |-> 4, query |-> 4, grpc |-> 0, tcp |-> 3, sql |-> 0]

V(t, s) == [t |-> t, s |-> s, num |-> <<>>, nan |-> FALSE, e |-> <<>>]
Num(i, s) == [V("number", s) EXCEPT !.num = <<i>>]
Text(s) == V("text", s)
List(e) == [V("list", "list") EXCEPT !.e = e]
MCNull == V("null", "null")
NaN == [Text("nan") EXCEPT !.nan = TRUE]
One == Num(1, "1")
Twelve == Num(12, "12")
TwelveText == [Text("12.0") EXCEPT !.num = <<12>>]
MCContained == {<<"ready", "ready">>, <<"ready", "read">>, <<"read", "read">>}
MCPatterns == {"^r"}
MCMatching == {<<"ready", "^r">>, <<"read", "^r">>}

\* 12 cut to 1, "ready" to "read", null to "nul", and 1 to itself.
MCClip(v) ==
  CASE v = Twelve -> One
    [] v = Text("ready") -> Text("read")
    [] v = MCNull -> Text("nul")
    [] OTHER -> v

Line(m, k, v) == [reads |-> TRUE, labels |-> [metric |-> m] @@ k, value |-> v]
Ans(status, v) ==
  [status |-> status, value |-> v,
   lines |-> <<[Line("up", [i |-> "a"], v) EXCEPT !.reads = FALSE], Line("up", [i |-> "a"], v),
               Line("up", [i |-> "b"], One)>>,
   samples |-> <<v>>]
Up1 == <<Ans(200, One)>>
Rises == <<Ans(200, MCNull), Ans(503, One), Ans(200, One), Ans(200, Twelve)>>
Falls == <<Ans(200, Twelve), Ans(200, Twelve), Ans(503, Text("ready")), Ans(200, Text("ready"))>>

F(verb, on) == [kind |-> "fault", timeout |-> 0, verb |-> verb, on |-> on, streams |-> <<"downstream">>]
Both(verb, on) == [F(verb, on) EXCEPT !.streams = <<"upstream", "downstream">>]
Sleep(k) == [kind |-> "sleep", timeout |-> 0, span |-> k]
Cut(call, k) == [call EXCEPT !.timeout = k]

R(provider) == [provider |-> provider, via |-> "px", host |-> "h1", service |-> "db", limit |-> 0,
                expect |-> {}, labels |-> [metric |-> "up"]]
Req(r) == [kind |-> "request", timeout |-> 0, req |-> r]
Wait(r, args, limit, every) ==
  [kind |-> "wait", timeout |-> 0, req |-> <<r>>, args |-> args, limit |-> <<limit>>, interval |-> every]
Sample(r, count, span, every) ==
  [kind |-> "sample", timeout |-> 0, req |-> <<r>>, count |-> count, span |-> span, interval |-> every]
Load(span, rate) == [kind |-> "load", timeout |-> 0, span |-> span, rate |-> rate]
Claim(of, args) == [kind |-> "assert", timeout |-> 0, of |-> of, args |-> args]
P(runs, obeys, reverts, pipe) == [runs |-> runs, obeys |-> obeys, reverts |-> reverts, pipe |-> pipe]
Exec(shell, child, fails, k) ==
  [kind |-> "exec", timeout |-> k, shell |-> shell, child |-> child, fails |-> fails]

Case(a, b, says, losses, cancel) ==
  [script |-> (A :> a) @@ (B :> b), says |-> says, luck |-> losses, cancel |-> cancel,
   mute |-> FALSE, held |-> FALSE, reloads |-> TRUE]
Mute(k) == [k EXCEPT !.mute = TRUE]
Held(k) == [Mute(k) EXCEPT !.held = TRUE]
Unread(k) == [k EXCEPT !.reloads = FALSE]

-----------------------------------------------------------------------------
(* Faults against faults, one request lost, refused or unanswered.         *)

ToxiA == {<<Both("add_latency", "px"), F("clear", "px")>>, <<F("partition", "px"), F("clear", "px")>>,
          <<F("add_latency", "px"), Both("add_latency", "px")>>,
          <<Both("timeout", "px"), F("toxiproxy.reset", "px")>>}
ToxiB == {F("clear", "px"), F("toxiproxy.reset", "px"), F("partition", "px"), F("add_latency", "px"),
          F("bandwidth", "ghost")}
NetA == {<<F("nxdomain", "h1"), F("net.clear", "h1")>>, <<F("set_dns", "h1"), F("net.reset", "h1")>>,
         <<F("net.clear", "h1"), F("net.clear", "h1")>>, <<F("nxdomain", "h2"), F("net.reset", "h1")>>}
NetB == {F("net.clear", "h1"), F("net.reset", "h1"), F("set_dns", "h1"), F("dns_blackhole", "h2")}
DockerA == {<<F("disconnect", "web"), F("connect", "web")>>, <<F("throttle", "web"), F("unthrottle", "web")>>,
            <<F("pause", "web"), F("unpause", "web")>>, <<F("kill", "web"), F("start", "web")>>,
            <<F("down", "web"), F("up", "web")>>, <<F("stop", "web"), F("restart", "web")>>,
            <<F("connect", "web"), F("disconnect", "web")>>}
DockerB == {F("connect", "web"), F("disconnect", "web"), F("kill", "web"), F("pause", "web"),
            F("restart", "web"), F("unthrottle", "web"), F("down", "db")}

Against(as, bs) == {Mute(Case(a, <<b>>, Up1, 1, FALSE)) : a \in as, b \in bs}

(* A fault alone, its step with a timeout, its only request that fails the *)
(* one that goes unanswered; and snippets that no resolver is made to read.*)
Alone == {F("clear", "px"), Both("add_latency", "px"), F("nxdomain", "h1"), F("net.reset", "h1"),
          F("disconnect", "web"), F("throttle", "web"), F("stop", "web")}
AloneCases ==
  UNION {{Mute(k), Held(k)} :
     k \in {Case(<<Cut(f, z)>>, <<>>, Up1, 1, cancel) : f \in Alone, z \in {0, 2}, cancel \in BOOLEAN}}
UnreadCases == {Unread(k) : k \in Against(NetA, NetB)}

(* Every provider through every fault, and its restore after a while.      *)
Broken ==
  {<<F("add_latency", "px"), F("clear", "px")>>, <<F("blackhole", "px"), F("clear", "px")>>,
   <<F("timeout", "px"), F("clear", "px")>>, <<F("partition", "px"), F("clear", "px")>>,
   <<F("nxdomain", "h1"), F("net.clear", "h1")>>, <<F("pause", "db"), F("unpause", "db")>>,
   <<F("kill", "db"), F("start", "db")>>, <<F("disconnect", "db"), F("connect", "db")>>,
   <<F("throttle", "db"), F("unthrottle", "db")>>, <<F("add_latency", "px"), F("blackhole", "px")>>}
Restored(f, k) == <<f[1], Sleep(k), f[2]>>

Asked == {R(p) : p \in {"http", "scrape", "query", "grpc", "tcp", "sql"}}
         \cup {[R("tcp") EXCEPT !.limit = 2, !.via = "direct"], [R("grpc") EXCEPT !.via = "direct"],
               [R("http") EXCEPT !.expect = {503}], [R("scrape") EXCEPT !.labels = [i |-> "c"]],
               [R("scrape") EXCEPT !.labels = [metric |-> "up", zone |-> ""]]}
Spoken == {Up1, <<Ans(503, One)>>, <<[Ans(200, One) EXCEPT !.samples = <<>>]>>,
           <<[Ans(200, One) EXCEPT !.samples = <<One, Twelve>>]>>}

RequestCases ==
  {Case(Restored(f, 5), <<Cut(Req(r), k)>>, Up1, 0, FALSE) : f \in Broken, r \in Asked, k \in {0, 2}}
  \cup {Case(<<>>, <<Req(r)>>, s, 0, TRUE) : r \in Asked, s \in Spoken}

-----------------------------------------------------------------------------
(* Gates and samples.                                                      *)

\* An operator with its operand and what the service says meanwhile.
Gates == {<<"equals" :> Twelve, Rises>>, <<"gte" :> TwelveText, Rises>>, <<"absent" :> One, Rises>>,
          <<"contains" :> Text("read"), Falls>>, <<"between" :> List(<<Twelve, Twelve>>), Falls>>}
Ports == {R("http"), R("grpc"), [R("tcp") EXCEPT !.limit = 1]}
Few == {Restored(f, 2) : f \in {g \in Broken : g[1].verb \in {"add_latency", "blackhole", "timeout", "kill"}}}
       \cup {<<>>}

\* Limit, interval and the step's timeout; count, span, interval and the step's timeout.
WaitSizes == {<<0, 1, 0>>, <<4, 0, 0>>, <<4, 3, 3>>, <<3, 2, 4>>, <<4, 1, 4>>}
SampleSizes == {<<1, 0, 0, 0>>, <<3, 0, 2, 0>>, <<3, 0, 0, 4>>, <<0, 4, 2, 0>>, <<0, 4, 0, 0>>,
                <<3, 4, 2, 4>>, <<2, 1, 0, 0>>, <<0, 4, 3, 4>>}
WaitCases ==
  {Case(f, <<Cut(Wait(r, g[1], z[1], z[2]), z[3])>>, g[2], 0, FALSE) :
     f \in Few, r \in Ports, g \in Gates, z \in WaitSizes}
SampleCases ==
  {Case(f, <<Cut(Sample(r, z[1], z[2], z[3]), z[4])>>, Rises, 0, FALSE) :
     f \in Few, r \in Ports, z \in SampleSizes}
CancelledCases ==
  {Case(<<F("blackhole", "px")>>, <<call>>, Rises, 0, TRUE) :
     call \in {Wait(R("http"), "equals" :> Twelve, 4, 1), Sample(R("grpc"), 3, 0, 1), Sleep(2), Load(2, 1),
               Sample(R("http"), 0, 3, 1)}}
  \cup {Case(<<f>>, <<Sleep(1), F("net.reset", "h1")>>, Up1, 0, TRUE) :
          f \in {F("nxdomain", "h1"), F("throttle", "web"), F("stop", "web"), F("disconnect", "web")}}

-----------------------------------------------------------------------------
(* Commands, load, refused arguments and checks.                           *)

Shells == {P(1, TRUE, 0, TRUE), P(3, TRUE, 1, TRUE), P(Never, TRUE, 0, TRUE), P(Never, FALSE, 0, TRUE)}
Children == {P(0, TRUE, 0, FALSE), P(2, TRUE, 1, TRUE), P(Never, TRUE, 1, TRUE), P(Never, TRUE, 3, TRUE),
             P(Never, FALSE, 0, TRUE), P(Never, FALSE, 0, FALSE)}
ExecCases ==
  {Case(<<>>, <<Exec(sh, ch, fails, k)>>, Up1, 0, cancel) :
     sh \in Shells, ch \in Children, fails \in BOOLEAN, k \in {0, 1, 3}, cancel \in BOOLEAN}

Wrong == {[Wait(R("http"), "equals" :> One, 2, 1) EXCEPT !.req = <<>>],
          Wait(R("http"), ("equals" :> One) @@ ("gt" :> One), 2, 1), Wait(R("http"), "nope" :> One, 2, 1),
          [Wait(R("http"), "equals" :> One, 2, 1) EXCEPT !.limit = <<>>],
          [Sample(R("http"), 1, 0, 1) EXCEPT !.req = <<>>], Sample(R("http"), 0, 0, 1), Load(2, 0), Load(0, 1)}
Values == {One, Twelve, TwelveText, Text("ready"), Text("^r"), MCNull, NaN, List(<<One, TwelveText>>), List(<<Twelve, One>>)}
SpanCases ==
  {Case(<<call>>, <<Cut(Load(3, 1), k)>>, Up1, 0, cancel) :
     call \in Wrong, k \in {0, 2, 3}, cancel \in BOOLEAN}
  \cup {Case(<<Cut(Sleep(3), k)>>, <<Sleep(j)>>, Up1, 0, TRUE) : k \in {0, 2, 3}, j \in {0, 3}}
AssertCases ==
  {Case(<<Claim(v, op :> w)>>, <<>>, Up1, 0, FALSE) : v \in Values, op \in Operators, w \in Values}

MCFamilies ==
  <<Against(ToxiA, ToxiB), Against(NetA, NetB), Against(DockerA, DockerB), AloneCases, UnreadCases,
    RequestCases, WaitCases, SampleCases, CancelledCases, ExecCases, SpanCases, AssertCases>>
=============================================================================
