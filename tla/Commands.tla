------------------------------- MODULE Commands -------------------------------
(***************************************************************************)
(* exec.run (providers/execp): a shell command in a process group of its   *)
(* own, ended by SIGTERM, then SIGKILL, when its context ends.             *)
(*                                                                         *)
(* A call has the fields shell and child, processes of the group, each     *)
(* [runs, obeys, reverts, pipe]: how long it runs by itself, whether       *)
(* SIGTERM ends it and how long it needs for that, and whether it holds    *)
(* the output pipe; and fails, the command's own exit status.              *)
(***************************************************************************)
EXTENDS Calls

CONSTANTS termGrace, WaitDelay
(* "Outlasts termGrace so the graceful path wins" (execp.go:102).           *)
ASSUME GraceAssumption == termGrace \in Nat /\ WaitDelay \in Nat /\ termGrace < WaitDelay

Process == [runs : Nat, obeys : BOOLEAN, reverts : Nat, pipe : BOOLEAN]
ASSUME GroupsAssumption ==
  \A call \in AllCalls :
    call.kind = "exec" => call.shell \in Process /\ call.child \in Process

Group == {"shell", "child"}
Proc(c, p) == IF p = "shell" THEN Call(c).shell ELSE Call(c).child

(* When a process of the group is gone: by itself, by SIGTERM, by SIGKILL; *)
(* the shell, when Wait's delay is over.                                   *)
GoneAt(c, p) ==
  LET m == mem[c]
      byTerm == IF m.term # Never /\ Proc(c, p).obeys THEN m.term + Proc(c, p).reverts ELSE Never
      byDelay == IF m.term # Never /\ p = "shell" THEN m.term + WaitDelay ELSE Never
  IN Min({start[c] + Proc(c, p).runs, byTerm, byDelay, m.killed})
Runs(c, p) == now < GoneAt(c, p)

Released(c) == ~Runs(c, "child") \/ ~Call(c).child.pipe

(* Mutant of GivesUpAt: the pipe is closed when the shell is gone.         *)
GivesUpAtOnce(c) == GoneAt(c, "shell")

(* cmd.Wait stops waiting for the pipe WaitDelay after the context has     *)
(* ended or the shell has, whichever is first.                             *)
GivesUpAt(c) == Min({mem[c].term, GoneAt(c, "shell")}) + WaitDelay
Waited(c) == ~Runs(c, "shell") /\ (Released(c) \/ now >= GivesUpAt(c))

(* The next time at which something happens to the group.                  *)
NextTime(c, m) ==
  LET times == {start[c] + Call(c).shell.runs, start[c] + Call(c).child.runs}
               \cup (IF m.term = Never THEN {Deadline(c)}
                     ELSE {m.term + Call(c).shell.reverts, m.term + Call(c).child.reverts,
                           m.term + termGrace, m.term + WaitDelay})
               \cup {GoneAt(c, "shell") + WaitDelay}
      later == {t \in times : t > now}
  IN IF later = {} THEN Never ELSE Min(later)

(* Once the shell is gone, Wait listens to the context no more.            *)
Await(c, m) ==
  Goto(c, IF m.term = Never /\ Runs(c, "shell") THEN "command" ELSE "dying", NextTime(c, m), m)

BeginExec(c) ==
  Begin(c, "exec", "command", [term |-> Never, killed |-> Never])

(* Nothing of the group ends now: cmd.Run waits.                           *)
Watch(c) ==
  /\ at[c] \in {"command", "dying"} /\ Call(c).kind = "exec"
  /\ wake[c] <= now /\ ~Waited(c)
  /\ mem[c].term # Never \/ ~Done(c) \/ ~Runs(c, "shell")
  /\ mem[c].term # Never => now < mem[c].term + termGrace \/ mem[c].killed # Never
  /\ Await(c, mem[c])

(* cmd.Cancel: SIGTERM to the group, and the timer of the SIGKILL.  A      *)
(* shell that ends as its context does may be seen to end first, or not.   *)
Terminate(c) ==
  /\ at[c] = "command" /\ Done(c) /\ now <= GoneAt(c, "shell")
  /\ Goto(c, "dying", 0, [mem[c] EXCEPT !.term = now])

Kill(c) ==
  /\ at[c] = "dying" /\ mem[c].killed = Never
  /\ now >= mem[c].term + termGrace
  /\ Goto(c, "dying", 0, [mem[c] EXCEPT !.killed = now])

(* Run returns, and the timer is stopped.  An error: the command's own, a  *)
(* context that ended, or a pipe that was closed under a child.            *)
EndExec(c) ==
  /\ at[c] \in {"command", "dying"} /\ Call(c).kind = "exec" /\ Waited(c)
  /\ Return(c, mem[c].term = Never /\ ~Call(c).fails /\ Released(c), "exit",
            {p \in Group : Runs(c, p)})

ExecStep(c) == BeginExec(c) \/ Watch(c) \/ Terminate(c) \/ Kill(c) \/ EndExec(c)
=============================================================================
