-------------------------------- MODULE Faults --------------------------------
(***************************************************************************)
(* The verbs that break a system and restore it: toxiproxy, net and docker *)
(* (providers/toxiproxyp, netp, dockerp), and what they drive.  A verb is  *)
(* one or several requests to, or commands on, a system that may refuse    *)
(* one, or carry it out and have its answer lost, or never answer.         *)
(*                                                                         *)
(* A fault's call has the fields verb and on (a proxy, a host, a service), *)
(* and streams for a toxic.  A case says with luck how many requests may   *)
(* fail, with mute whether one may go unanswered, with held whether a      *)
(* killed command's children keep its output open, and with reloads        *)
(* whether net has a command that makes the resolver read its files.       *)
(***************************************************************************)
EXTENDS Calls

CONSTANTS Proxies,
          Hosts,
          confFile(_),    \* host -> the file of its snippet
          Services,
          Containers(_)   \* service -> its containers, in the order ps lists them

VARIABLES
  world,      \* the systems: proxies, containers, snippets and what the resolver serves
  luck,       \* how many requests may still fail
  touched     \* caller -> what others' calls, about it, changed since its call began
faultVars == <<world, luck, touched>>

Toxics == {"add_latency", "bandwidth", "packet_loss", "blackhole", "timeout"}
Streams == {"upstream", "downstream"}
NetFaults == {"set_dns", "nxdomain", "dns_blackhole"}
Composed == {"up", "down", "kill", "stop", "start", "restart", "pause", "unpause"}
OnBoxes == {"disconnect", "connect", "throttle", "unthrottle"}
Files == {confFile(h) : h \in Hosts}
Boxes == UNION {Range(Containers(s)) : s \in Services}
ASSUME FaultsAssumption ==
  /\ IsFiniteSet(Files)
  /\ \A k \in Cases : k.reloads \in BOOLEAN
  /\ \A s \in Services : Containers(s) \in Seq(Boxes)
  /\ \A call \in AllCalls : call.kind = "fault" =>
       /\ call.verb \in Toxics => call.streams \in Seq(Streams) \ {<<>>}
       /\ call.verb \in NetFaults \cup {"net.clear"} => call.on \in Hosts
       /\ call.verb \in (Composed \ {"down"}) \cup OnBoxes => call.on \in Services
Fresh == [state |-> "running", joined |-> TRUE, capped |-> FALSE]

FaultsInit ==
  /\ world = [enabled |-> [p \in Proxies |-> TRUE], toxics |-> [p \in Proxies |-> {}],
              boxes |-> [b \in Boxes |-> Fresh],
              files |-> [f \in Files |-> {}], served |-> [f \in Files |-> {}]]
  /\ luck = case.luck
  /\ touched = [c \in Callers |-> {}]

(* A snippet is a set of lines, each for a host; {} is no file.  What the  *)
(* snippets say of a host is in the file it has.                           *)
Names(snippets, h) == {v \in NetFaults : <<h, v>> \in snippets[confFile(h)]}

(* What is true of a world, fact by fact.                                  *)
Truth(w) ==
  {<<"enabled", p, w.enabled[p]>> : p \in Proxies}
  \cup (UNION {{<<"toxic", p, x, x \in w.toxics[p]>> : x \in Toxics \X Streams} : p \in Proxies})
  \cup {<<"state", b, w.boxes[b].state>> : b \in Boxes}
  \cup {<<"joined", b, w.boxes[b].joined>> : b \in Boxes}
  \cup {<<"capped", b, w.boxes[b].capped>> : b \in Boxes}
  \cup {<<"snippet", h, Names(w.files, h)>> : h \in Hosts}

Subject(fact) == SubSeq(fact, 1, Len(fact) - 1)
Changes(w, after) == {Subject(f) : f \in Truth(after) \ Truth(w)}

(* The proxies, hosts and containers that a call is about.                 *)
Named(call) ==
  CASE call.verb = "toxiproxy.reset" -> Proxies
    [] call.verb = "net.reset" -> Hosts
    [] call.verb = "down" -> Boxes
    [] call.verb \in (Composed \ {"down"}) \cup OnBoxes -> Range(Containers(call.on))
    [] OTHER -> {call.on}

Fault(c) == at[c] # "idle" /\ Call(c).kind = "fault"
Was(c) == mem[c].before
Todo(c) == mem[c].todo
Failing(c, what) == [mem[c] EXCEPT !.failed = @ \cup {what}]

(* A request of c makes of the world another one.                          *)
Carry(c, after) ==
  /\ world' = after
  /\ touched' = [d \in Callers |->
       IF d = c THEN touched[d]
       ELSE touched[d] \cup {s \in Changes(world, after) : s[2] \in Named(Call(c))}]

Loss == luck > 0 /\ luck' = luck - 1

(* It is refused where it is not legal; otherwise it is carried out and    *)
(* answered, or fails, carried out or not.                                 *)
Attempt(c, legal, after, OnAnswer, OnError) ==
  \/ /\ legal
     /\ Carry(c, after)
     /\ \/ OnAnswer /\ UNCHANGED luck
        \/ OnError /\ Loss
  \/ /\ ~legal
     /\ OnError
     /\ UNCHANGED faultVars
  \/ /\ OnError /\ Loss
     /\ UNCHANGED <<world, touched>>

(* No answer comes, carried out or not: the caller waits at point.         *)
Hangs(c, legal, after, point, until) ==
  /\ case.mute
  /\ Goto(c, point, until, mem[c])
  /\ Loss
  /\ \/ legal /\ Carry(c, after)
     \/ UNCHANGED <<world, touched>>

Answered(c) == Return(c, TRUE, "", <<>>)
Fails(c) == Return(c, FALSE, "request", <<>>)
Then(c, point) == Goto(c, point, 0, mem[c])
Rest(c) == [mem[c] EXCEPT !.todo = Tail(@)]

BeginFault(c, verbs, point, todo) ==
  /\ Idle(c) /\ Call(c).kind = "fault" /\ Call(c).verb \in verbs
  /\ Begin(c, "fault", point, [todo |-> todo, failed |-> {}, before |-> world])
  /\ touched' = [touched EXCEPT ![c] = {}]
  /\ UNCHANGED <<world, luck>>

-----------------------------------------------------------------------------
(* toxiproxy.  Its client takes no context: a request without an answer    *)
(* holds its caller for good.                                              *)

Request(c, legal, after, OnAnswer, OnError) ==
  \/ Attempt(c, legal, after, OnAnswer, OnError)
  \/ Hangs(c, legal, after, "held", Never)

OnProxy == Toxics \cup {"partition", "clear"}
px(c) == Call(c).on

BeginToxi(c) ==
  \/ BeginFault(c, OnProxy, "proxy", <<>>)
  \/ BeginFault(c, {"toxiproxy.reset"}, "resetState", <<>>)

GetProxy(c) ==
  /\ at[c] = "proxy"
  /\ Request(c, px(c) \in Proxies, world,
       Goto(c, CASE Call(c).verb \in Toxics -> "addToxic" [] Call(c).verb = "partition" -> "disable"
                 [] OTHER -> "toxics",
            0, [mem[c] EXCEPT !.todo = IF Call(c).verb \in Toxics THEN Call(c).streams ELSE <<>>]),
       Fails(c))

(* One toxic for each stream, named after it: a name that is taken is      *)
(* refused.  The first failure ends the verb.                              *)
AddToxic(c) ==
  /\ at[c] = "addToxic"
  /\ LET x == <<Call(c).verb, Head(Todo(c))>>
     IN Request(c, x \notin world.toxics[px(c)], [world EXCEPT !.toxics[px(c)] = @ \cup {x}],
          IF Len(Todo(c)) = 1 THEN Answered(c) ELSE Goto(c, "addToxic", 0, Rest(c)), Fails(c))

Enabled(c, on) == [world EXCEPT !.enabled[px(c)] = on]

Disable(c) ==
  at[c] = "disable" /\ Request(c, TRUE, Enabled(c, FALSE), Answered(c), Fails(c))

(* clear: list the toxics, remove each one, enable, whatever failed.       *)
ListToxics(c) ==
  /\ at[c] = "toxics"
  /\ Request(c, TRUE, world,
       Goto(c, "removeToxic", 0, [mem[c] EXCEPT !.todo = SetToSeq(world.toxics[px(c)])]),
       Goto(c, "enable", 0, Failing(c, "toxics")))

RemoveToxic(c) ==
  /\ at[c] = "removeToxic" /\ Todo(c) # <<>>
  /\ LET x == Head(Todo(c))
     IN Request(c, x \in world.toxics[px(c)], [world EXCEPT !.toxics[px(c)] = @ \ {x}],
          Goto(c, "removeToxic", 0, Rest(c)),
          Goto(c, "removeToxic", 0, [Failing(c, "remove") EXCEPT !.todo = Tail(@)]))

Removed(c) ==
  /\ at[c] = "removeToxic" /\ Todo(c) = <<>>
  /\ Then(c, "enable")
  /\ UNCHANGED faultVars

Enable(c) ==
  /\ at[c] = "enable"
  /\ Request(c, TRUE, Enabled(c, TRUE),
       IF mem[c].failed = {} THEN Answered(c) ELSE Fails(c),
       Goto(c, "notEnabled", 0, Failing(c, "enable")))

NotEnabled(c) ==
  /\ at[c] = "notEnabled"
  /\ Fails(c)
  /\ UNCHANGED faultVars

ResetState(c) ==
  /\ at[c] = "resetState"
  /\ Request(c, TRUE,
       [world EXCEPT !.enabled = [p \in Proxies |-> TRUE], !.toxics = [p \in Proxies |-> {}]],
       Answered(c), Fails(c))

ToxiStep(c) == \/ BeginToxi(c) \/ GetProxy(c) \/ AddToxic(c) \/ Disable(c) \/ ListToxics(c)
               \/ RemoveToxic(c) \/ Removed(c) \/ Enable(c) \/ NotEnabled(c) \/ ResetState(c)

-----------------------------------------------------------------------------
(* Commands, under the step's context: one is not started when it is done, *)
(* and is killed by its end.  The verb then fails, or goes on waiting for  *)
(* the output that a child of the command keeps open.                      *)

Command(c, legal, after, OnAnswer, OnError) ==
  \/ Attempt(c, ~Done(c) /\ legal, after, OnAnswer, OnError)
  \/ ~Done(c) /\ Hangs(c, legal, after, "unanswered", Deadline(c))

CutCommand(c) ==
  /\ at[c] = "unanswered" /\ Done(c)
  /\ \/ Fails(c)
     \/ case.held /\ Goto(c, "held", Never, mem[c])
  /\ UNCHANGED faultVars

-----------------------------------------------------------------------------
(* net: one snippet for each host, and a command, when one is configured,  *)
(* that makes the resolver read the snippets again.                        *)

file(c) == confFile(Call(c).on)

BeginNet(c) ==
  \/ BeginFault(c, NetFaults, "writeConf", <<>>)
  \/ BeginFault(c, {"net.clear"}, "removeConf", <<file(c)>>)
  \/ /\ Idle(c) /\ Call(c).kind = "fault"
     /\ BeginFault(c, {"net.reset"}, "removeConf",
          SetToSeq({f \in Files : world.files[f] # {}}))

WriteConf(c) ==
  /\ at[c] = "writeConf"
  /\ Attempt(c, TRUE, [world EXCEPT !.files[file(c)] = {<<Call(c).on, Call(c).verb>>}],
       Then(c, "reload"), Fails(c))

(* Mutant of RemoveConf: nothing to remove is nothing to reload.           *)
RemoveOrReturn(c) ==
  /\ at[c] = "removeConf" /\ Todo(c) # <<>>
  /\ LET f == Head(Todo(c))
     IN \/ /\ world.files[f] = {}
           /\ Answered(c)
           /\ UNCHANGED faultVars
        \/ /\ world.files[f] # {}
           /\ Attempt(c, TRUE, [world EXCEPT !.files[f] = {}],
                Goto(c, "removeConf", 0, Rest(c)), Fails(c))

(* A file that is not there is passed over.                                *)
RemoveConf(c) ==
  /\ at[c] = "removeConf" /\ Todo(c) # <<>>
  /\ LET f == Head(Todo(c))
     IN \/ /\ world.files[f] = {}
           /\ Goto(c, "removeConf", 0, Rest(c))
           /\ UNCHANGED faultVars
        \/ /\ world.files[f] # {}
           /\ Attempt(c, TRUE, [world EXCEPT !.files[f] = {}],
                Goto(c, "removeConf", 0, Rest(c)), Fails(c))

ConfRemoved(c) ==
  /\ at[c] = "removeConf" /\ Todo(c) = <<>>
  /\ Then(c, "reload")
  /\ UNCHANGED faultVars

Reload(c) ==
  /\ at[c] = "reload"
  /\ \/ /\ ~case.reloads
        /\ Answered(c)
        /\ UNCHANGED faultVars
     \/ /\ case.reloads
        /\ Command(c, TRUE, [world EXCEPT !.served = world.files], Answered(c), Fails(c))

NetStep(c) == BeginNet(c) \/ WriteConf(c) \/ RemoveConf(c) \/ ConfRemoved(c) \/ Reload(c)

-----------------------------------------------------------------------------
(* docker: compose commands on a service, and commands on each of its      *)
(* running containers.                                                     *)

Of(c) == Range(Containers(Call(c).on))
Up(b) == world.boxes[b].state \in {"running", "paused"}

(* Those of the containers s that are up, in the order of s.               *)
Listed(s) ==
  LET upTo[i \in 0..Len(s)] ==
        IF i = 0 THEN <<>> ELSE IF Up(s[i]) THEN Append(upTo[i - 1], s[i]) ELSE upTo[i - 1]
  IN upTo[Len(s)]

BeginDocker(c) ==
  \/ BeginFault(c, Composed, "compose", <<>>)
  \/ BeginFault(c, OnBoxes, "ps", <<>>)

(* What a compose command makes of a container.                            *)
After(verb, box) ==
  CASE verb \in {"kill", "stop"} -> IF box.state = "absent" THEN box ELSE [box EXCEPT !.state = "exited"]
    [] verb \in {"start", "restart"} ->
         IF box.state = "absent" THEN box ELSE [box EXCEPT !.state = "running"]
    [] verb = "up" -> IF box.state = "absent" THEN Fresh ELSE [box EXCEPT !.state = "running"]
    [] verb = "down" -> [Fresh EXCEPT !.state = "absent"]
    [] verb = "pause" -> [box EXCEPT !.state = "paused"]
    [] verb = "unpause" -> [box EXCEPT !.state = "running"]

(* pause and unpause are refused for a container in another state.         *)
Accepts(verb, box) ==
  /\ verb = "pause" => box.state = "running"
  /\ verb = "unpause" => box.state = "paused"

Compose(c) ==
  /\ at[c] = "compose"
  /\ LET verb == Call(c).verb
         boxes == IF verb = "down" THEN Boxes ELSE Of(c)
     IN Command(c, \A b \in boxes : Accepts(verb, world.boxes[b]),
          [world EXCEPT !.boxes = [b \in Boxes |-> IF b \in boxes THEN After(verb, @[b]) ELSE @[b]]],
          Answered(c), Fails(c))

(* Without a running container the verb fails.                             *)
containerIDs(c) ==
  /\ at[c] = "ps"
  /\ LET ids == Listed(Containers(Call(c).on))
     IN Command(c, ids # <<>>, world,
          Goto(c, IF Call(c).verb \in {"throttle", "unthrottle"} THEN "updateCPUs" ELSE "networkToggle",
               0, [mem[c] EXCEPT !.todo = ids]),
          Fails(c))

(* One container after the other, up to the first that fails: one that is  *)
(* on the wrong side already is refused.                                   *)
networkToggle(c) ==
  /\ at[c] = "networkToggle"
  /\ LET b == Head(Todo(c))
         on == Call(c).verb = "connect"
     IN Command(c, world.boxes[b].joined # on, [world EXCEPT !.boxes[b].joined = on],
          IF Len(Todo(c)) = 1 THEN Answered(c) ELSE Goto(c, "networkToggle", 0, Rest(c)), Fails(c))

updateCPUs(c) ==
  /\ at[c] = "updateCPUs"
  /\ Command(c, TRUE,
       [world EXCEPT !.boxes = [b \in Boxes |->
          IF b \in Range(Todo(c)) THEN [@[b] EXCEPT !.capped = Call(c).verb = "throttle"] ELSE @[b]]],
       Answered(c), Fails(c))

DockerStep(c) == BeginDocker(c) \/ Compose(c) \/ containerIDs(c) \/ networkToggle(c) \/ updateCPUs(c)

FaultStep(c) == ToxiStep(c) \/ NetStep(c) \/ DockerStep(c) \/ CutCommand(c)

-----------------------------------------------------------------------------
(* What an answer promises.                                                *)

States == [up |-> "running", down |-> "absent", kill |-> "exited", stop |-> "exited",
           start |-> "running", restart |-> "running", pause |-> "paused", unpause |-> "running"]

AllClear(p) == {<<"enabled", p, TRUE>>} \cup {<<"toxic", p, x, FALSE>> : x \in Toxics \X Streams}

(* The facts that a verb brings about when it has not failed; "up" and the *)
(* like on a container that is there.                                      *)
Promised(c, call, w) ==
  LET v == call.verb
      boxes == IF v = "down" THEN Boxes ELSE Range(Containers(call.on))
      there == {b \in boxes : w.boxes[b].state # "absent"}
      up == {b \in boxes : w.boxes[b].state \in {"running", "paused"}}
  IN CASE v \in Toxics -> {<<"toxic", call.on, <<v, s>>, TRUE>> : s \in Range(call.streams)}
       [] v = "partition" -> {<<"enabled", call.on, FALSE>>}
       [] v = "clear" -> AllClear(call.on)
       [] v = "toxiproxy.reset" -> UNION {AllClear(p) : p \in Proxies}
       [] v \in NetFaults -> {<<"snippet", call.on, {v}>>}
       [] v = "net.clear" -> {<<"snippet", call.on, {}>>}
       [] v = "net.reset" -> {<<"snippet", h, {}>> : h \in Hosts}
       [] v \in Composed -> {<<"state", b, States[v]>> : b \in there}
       [] v \in {"connect", "disconnect"} -> {<<"joined", b, v = "connect">> : b \in up}
       [] v \in {"throttle", "unthrottle"} -> {<<"capped", b, v = "throttle">> : b \in up}
=============================================================================
