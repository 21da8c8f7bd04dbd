-------------------------------- MODULE Polling -------------------------------
(***************************************************************************)
(* The builtins that wait: wait_until, sample and sleep                    *)
(* (engine/executor.go), load.run (providers/loadp), and assert.           *)
(*                                                                         *)
(* A wait_until has the fields req (<<>> or <<the probe's request>>), args *)
(* (operator -> operand), limit (<<>> or <<seconds>>) and interval; a      *)
(* sample req, count, span and interval; a sleep and a load span, a load   *)
(* rate, an assert of and args.  The least interval is one tick.           *)
(***************************************************************************)
EXTENDS Requests, Stats

Durations(opt) == opt = <<>> \/ (Len(opt) = 1 /\ opt[1] \in Nat)
ASSUME PollsAssumption ==
  \A call \in AllCalls :
    /\ call.kind \in {"wait", "sample"} =>
         call.interval \in Nat /\ (call.req = <<>> \/ Requested(call.req[1]))
    /\ call.kind = "wait" => Durations(call.limit)
    /\ call.kind = "sample" => call.count \in Nat /\ call.span \in Nat
    /\ call.kind \in {"sleep", "load"} => call.span \in Nat

minPollInterval == 1
Interval(c) == IF Call(c).interval < minPollInterval THEN minPollInterval ELSE Call(c).interval

(* The operator and its operand.                                           *)
Op(args) == CHOOSE op \in Operators : Given(args) = {op}
Operand(args) == args[Op(args)]

Unbuilt(call) ==
  \/ call.kind = "wait" /\ (call.req = <<>> \/ ExtractFails(call.args) \/ call.limit = <<>>)
  \/ call.kind = "sample" /\ (call.req = <<>> \/ (call.count <= 0 /\ call.span <= 0))
  \/ call.kind = "load" /\ (call.rate < 1 \/ call.span <= 0)

(* The arguments do not make a call.                                       *)
Refuse(c) ==
  /\ Idle(c) /\ Unbuilt(Call(c))
  /\ script' = [script EXCEPT ![c] = Tail(@)]
  /\ answer' = [answer EXCEPT ![c] =
       [call |-> Call(c), ok |-> FALSE, why |-> "arguments", value |-> Null, start |-> now,
        end |-> now, cancelled |-> cancelled, mem |-> <<>>]]
  /\ UNCHANGED <<at, start, wake, mem>>

-----------------------------------------------------------------------------
(* wait_until.                                                             *)

BeginWait(c) ==
  /\ Idle(c) /\ Call(c).kind = "wait" /\ ~Unbuilt(Call(c))
  /\ Begin(c, "wait", "ask", [asked |-> 0, end |-> 0, bound |-> 0, obs |-> Failed,
                              part |-> {Failed}, next |-> 0, lastErr |-> FALSE, seen |-> <<>>])

(* The wait's own context, under the step's.                               *)
WaitDeadline(c) == Min({Deadline(c), start[c] + Call(c).limit[1]})
WaitDone(c) == cancelled \/ now >= WaitDeadline(c)

Poll(c) ==
  /\ at[c] = "ask" /\ Call(c).kind = "wait"
  /\ Ask(c, Call(c).req[1], WaitDeadline(c), mem[c])

(* Mutant of Unmet: an error is kept when a later poll has none.           *)
UnmetKeepingError(c, fails) ==
  Goto(c, "pause", Min({now + Interval(c), WaitDeadline(c)}),
       [mem[c] EXCEPT !.next = now + Interval(c), !.lastErr = @ \/ fails,
                      !.seen = Append(@, mem[c].obs)])

(* The condition is not met; fails tells whether it could not be evaluated.*)
Unmet(c, fails) ==
  Goto(c, "pause", Min({now + Interval(c), WaitDeadline(c)}),
       [mem[c] EXCEPT !.next = now + Interval(c), !.lastErr = fails,
                      !.seen = Append(@, mem[c].obs)])

Inspect(c) ==
  /\ at[c] = "got" /\ Call(c).kind = "wait"
  /\ LET obs == mem[c].obs
         args == Call(c).args
         fails == obs.err \/ CheckFails(obs.value, Op(args), Operand(args))
     IN IF ~fails /\ Passes(obs.value, Op(args), Operand(args))
        THEN Return(c, TRUE, "observed", obs.value)
        ELSE Unmet(c, fails)

(* The context is done; a parent's end is told from the wait's own.        *)
GiveUp(c) ==
  /\ at[c] = "pause" /\ Call(c).kind = "wait" /\ WaitDone(c)
  /\ Return(c, FALSE, IF Done(c) THEN "context" ELSE "unmet", Null)

PollAgain(c) ==
  /\ at[c] = "pause" /\ Call(c).kind = "wait" /\ now >= mem[c].next
  /\ Goto(c, "ask", 0, mem[c])

-----------------------------------------------------------------------------
(* sample.                                                                 *)

BeginSample(c) ==
  /\ Idle(c) /\ Call(c).kind = "sample" /\ ~Unbuilt(Call(c))
  /\ Begin(c, "sample", "window",
           [asked |-> 0, end |-> 0, bound |-> 0, obs |-> Failed, part |-> {Failed},
            next |-> 0, lats |-> <<>>, errs |-> 0, sent |-> <<>>])

n(c) == Len(mem[c].lats)

SpanPassed(c) == Call(c).span > 0 /\ now >= start[c] + Call(c).span
WindowOver(c) == (Call(c).count > 0 /\ n(c) >= Call(c).count) \/ SpanPassed(c)

Summary(c) == Summarize(mem[c].lats, mem[c].errs)

NextSample(c) ==
  /\ at[c] = "window"
  /\ IF WindowOver(c) THEN Return(c, TRUE, "window", Summary(c))
     ELSE IF n(c) > 0
          THEN Goto(c, "pause", Min({now + Interval(c), Deadline(c)}),
                    [mem[c] EXCEPT !.next = now + Interval(c)])
          ELSE Goto(c, "ask", 0, mem[c])

(* Mutant of SampleSlept: a sleep that crosses the deadline buys a sample. *)
SampleSleptThrough(c) ==
  /\ at[c] = "pause" /\ Call(c).kind = "sample" /\ now >= mem[c].next
  /\ Goto(c, "ask", 0, mem[c])

(* sleepCtx between two samples, and the window looked at again.           *)
SampleSlept(c) ==
  /\ at[c] = "pause" /\ Call(c).kind = "sample" /\ now >= mem[c].next
  /\ IF SpanPassed(c) THEN Return(c, TRUE, "window", Summary(c)) ELSE Goto(c, "ask", 0, mem[c])

SampleCut(c) ==
  /\ at[c] = "pause" /\ Call(c).kind = "sample" /\ Done(c)
  /\ Return(c, FALSE, "context", Null)

SendSample(c) ==
  /\ at[c] = "ask" /\ Call(c).kind = "sample"
  /\ Ask(c, Call(c).req[1], Deadline(c), [mem[c] EXCEPT !.sent = Append(@, now)])

CountSample(c) ==
  /\ at[c] = "got" /\ Call(c).kind = "sample"
  /\ Goto(c, "window", 0,
          [mem[c] EXCEPT !.lats = Append(@, now - mem[c].asked),
                         !.errs = IF mem[c].obs.err THEN @ + 1 ELSE @])

-----------------------------------------------------------------------------
(* sleep, load.run and assert.                                             *)

Spans == {"sleep", "load"}

BeginSpan(c) ==
  /\ Idle(c) /\ Call(c).kind \in Spans /\ ~Unbuilt(Call(c))
  /\ Begin(c, Call(c).kind, "waits", <<>>)

Sleeps(c) ==
  /\ at[c] = "waits"
  /\ Goto(c, "spans", Min({start[c] + Call(c).span, Deadline(c)}), mem[c])

SpanOver(c) == now >= start[c] + Call(c).span

(* A sleep ends by its timer or its context.  An attack ends by its length *)
(* or is stopped, and then looks at its context.                           *)
SpanEnds(c) ==
  /\ at[c] = "spans"
  /\ \/ /\ Call(c).kind = "sleep"
        /\ \/ SpanOver(c) /\ Return(c, TRUE, "slept", Null)
           \/ Done(c) /\ Return(c, FALSE, "context", Null)
     \/ /\ Call(c).kind = "load" /\ (SpanOver(c) \/ Done(c))
        /\ Return(c, ~Done(c), "attack", Null)

EndAssert(c) ==
  /\ at[c] = "assert"
  /\ LET args == Call(c).args
     IN Return(c, /\ ~ExtractFails(args)
                  /\ ~CheckFails(Call(c).of, Op(args), Operand(args))
                  /\ Passes(Call(c).of, Op(args), Operand(args)), "assert", Null)

BeginAssert(c) == Begin(c, "assert", "assert", <<>>)

PollStep(c) ==
  \/ Refuse(c) \/ BeginWait(c) \/ Poll(c) \/ Inspect(c) \/ GiveUp(c) \/ PollAgain(c)
  \/ BeginSample(c) \/ NextSample(c) \/ SampleSlept(c) \/ SampleCut(c) \/ SendSample(c)
  \/ CountSample(c) \/ BeginSpan(c) \/ Sleeps(c) \/ SpanEnds(c) \/ BeginAssert(c) \/ EndAssert(c)
=============================================================================
