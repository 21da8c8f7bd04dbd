------------------------------ MODULE Project ------------------------------
(***************************************************************************)
(* The processes of one project directory: `shinari run` invocations       *)
(* (cli/cmd_run.go) and one `shinari tui` (cli/cmd_tui.go, cli/tui), each  *)
(* driving the engine's run loop (core/engine/run.go) under the project    *)
(* lock, and sharing the scenario files, the findings ledger and the       *)
(* history.                                                                *)
(*                                                                         *)
(* A scenario's run is one step with a nondeterministic outcome here; the  *)
(* modules Scenario, Parallel and Repeat are about what happens inside it. *)
(***************************************************************************)
EXTENDS Ledger, Selection

CONSTANTS
  Clis,         \* the `shinari run` invocations
  Tui,          \* the terminal UI's process
  None,         \* nobody holds the lock
  Catalog,      \* every scenario that may exist, in walk order: [name, suite]
  AtStart,      \* names of the scenarios whose files exist initially
  Acknowledged, \* names of those whose finding an earlier `run -u` has acknowledged
  Opts,         \* flags of each invocation: [targets, tagged, update, record]
  Outcomes,     \* what each scenario's run may come to: [verdict, gap]
  Fragile,      \* scenarios whose provider configuration may fail
  Unlucky,      \* invocations that may be killed, or fail to read or write a file
  Touched,      \* scenarios whose files the UI's user creates or deletes
  Filters,      \* what the UI's search box may let through: sets of names
  MaxEdits,     \* file creations, edits and deletions in the UI
  MaxLaunches   \* runs launched in the UI

Procs == Clis \cup {Tui}

ASSUME ProcsAssumption == /\ Tui \notin Clis
                          /\ None \notin Procs

VARIABLES
  files,     \* names of the scenarios whose files exist
  edits,     \* files touched in the UI
  launches,  \* runs launched in the UI
  ledger,    \* shinari.findings.yml: [exists, entries]
  history,   \* shinari-history.jsonl
  lock,      \* the process whose flock is held
  clock,     \* start times given out
  pc,        \* where each process is; for the UI, where its run's goroutine is
  set,       \* the discovered set a process runs from
  todo,      \* selected scenarios not yet run
  res,       \* the RunResult: [start, scenarios]
  got,       \* the ledger an invocation has loaded
  exit,      \* exit code of an invocation
  ui,        \* the App's set
  view,      \* the App's run view
  acked,     \* ghost: for the scenarios of -u runs, what the last one that ran it wrote
  torn       \* ghost: an invocation died between truncating and writing the ledger

disk == <<files, edits, ledger, history>>
memory == <<set, todo, res, got, exit>>
screen == <<ui, view, launches>>
ghosts == <<acked, torn>>
vars == <<files, edits, launches, ledger, history, lock, clock, pc, set, todo, res,
          got, exit, ui, view, acked, torn>>

Listing(s) == SelectSeq(Catalog, LAMBDA sc : sc.name \in s)

NoLedger == [exists |-> FALSE, entries |-> {}]
NoRun == [start |-> 0, scenarios |-> <<>>]
Ran(p) == {res[p].scenarios[i].name : i \in DOMAIN res[p].scenarios}
Observed(p) == UNION {Members(sc.findings) : sc \in Members(res[p].scenarios)}

(* The worst verdict wins; a run of no scenario is PASSED.                 *)
Verdict(r) ==
  LET has(v) == \E i \in DOMAIN r.scenarios : r.scenarios[i].verdict = v
  IN CASE has("ERRORED") -> "ERRORED"
       [] ~has("ERRORED") /\ has("FAILED") -> "FAILED"
       [] ~has("ERRORED") /\ ~has("FAILED") /\ has("INCONCLUSIVE") -> "INCONCLUSIVE"
       [] OTHER -> "PASSED"

ExitCode(v) == CASE v = "PASSED" -> 0 [] v = "FAILED" -> 1 [] v = "ERRORED" -> 2
                 [] v = "INCONCLUSIVE" -> 3

Finding(n, gap) ==
  [id |-> FindingID(n, "verify", [id |-> "", run |-> "assert", with |-> n]),
   scenario |-> n, nowPasses |-> gap = "fixed"]

ScenarioResult(n, o) ==
  [name |-> n, verdict |-> o.verdict,
   findings |-> IF o.gap = "none" THEN <<>> ELSE <<Finding(n, o.gap)>>]

Acknowledgement(n) == FromObserved({Finding(n, "active")})

(* No run view.                                                            *)
Closed == [open |-> FALSE, targets |-> <<>>, dry |-> FALSE, cancelled |-> FALSE, done |-> FALSE]

Init ==
  /\ files = AtStart /\ edits = 0 /\ launches = 0
  /\ ledger = [exists |-> TRUE, entries |-> UNION {Acknowledgement(n) : n \in Acknowledged}]
  /\ history = <<>>
  /\ lock = None /\ clock = 0
  /\ pc = [p \in Procs |-> IF p = Tui THEN "idle" ELSE "start"]
  /\ set = [p \in Procs |-> AtStart]
  /\ todo = [p \in Procs |-> <<>>]
  /\ res = [p \in Procs |-> NoRun]
  /\ got = [c \in Clis |-> NoLedger]
  /\ exit = [c \in Clis |-> 0]
  /\ ui = AtStart
  /\ view = Closed
  /\ acked = [n \in Acknowledged |-> [time |-> 0, entries |-> Acknowledgement(n)]]
  /\ torn = FALSE

-----------------------------------------------------------------------------
(* The lock and the run loop, for both kinds of process.                   *)

Goto(p, l) == pc' = [pc EXCEPT ![p] = l]

(* An invocation leaves cmdRun, and the process ends: the deferred unlock  *)
(* runs.                                                                   *)
Exit(c, code) ==
  /\ Goto(c, "done")
  /\ todo' = [todo EXCEPT ![c] = <<>>]
  /\ res' = [res EXCEPT ![c] = NoRun]
  /\ got' = [got EXCEPT ![c] = NoLedger]
  /\ set' = [set EXCEPT ![c] = {}]
  /\ exit' = [exit EXCEPT ![c] = code]
  /\ lock' = IF lock = c THEN None ELSE lock

(* A TUI run returns (result, err) and its DoneMsg is queued.              *)
Return(r) ==
  /\ Goto(Tui, "sent")
  /\ res' = [res EXCEPT ![Tui] = r]
  /\ lock' = IF lock = Tui THEN None ELSE lock

(* Mutant of CanLock: the flock is not asked for.                          *)
LockAlways == TRUE

CanLock == lock = None

(* LOCK_EX | LOCK_NB: taken at once or refused.                            *)
LockRun(p) ==
  /\ pc[p] = "locking" /\ CanLock
  /\ lock' = p
  /\ Goto(p, "select")
  /\ UNCHANGED <<disk, clock, memory, screen, ghosts>>

Refused(p) ==
  /\ pc[p] = "locking" /\ ~CanLock
  /\ IF p = Tui THEN Return(NoRun) /\ UNCHANGED <<set, todo, got, exit>> ELSE Exit(p, 2)
  /\ UNCHANGED <<disk, clock, screen, ghosts>>

(* The targets of a process, and the tags its filter lets through.         *)
Targets(p) == IF p = Tui THEN view.targets ELSE Opts[p].targets
Tagged(p, sc) == p # Tui => sc.name \in Opts[p].tagged

Chosen(p, scs) ==
  Filter(SelectScenarios(scs, Targets(p)), {sc \in Range(scs) : Tagged(p, sc)}, {})

Select(p) ==
  /\ pc[p] = "select"
  /\ LET scs == Listing(set[p])
     IN IF UnknownTarget(scs, Targets(p))
        THEN /\ IF p = Tui THEN Return(NoRun) /\ UNCHANGED <<set, todo, got, exit>>
                ELSE Exit(p, 64)
             /\ UNCHANGED clock
        ELSE /\ todo' = [todo EXCEPT ![p] = Chosen(p, scs)]
             /\ clock' = clock + 1
             /\ res' = [res EXCEPT ![p] = [start |-> clock', scenarios |-> <<>>]]
             /\ Goto(p, "loop")
             /\ UNCHANGED <<lock, set, got, exit>>
  /\ UNCHANGED <<disk, screen, ghosts>>

Cancelled(p) == p = Tui /\ view.cancelled

Errored == [verdict |-> "ERRORED", gap |-> "none"]

AddResult(p, r) ==
  res' = [res EXCEPT ![p] = [start |-> @.start, scenarios |-> Append(@.scenarios, r)]]

(* The registry of the next scenario is built, or its configuration fails  *)
(* and the scenario is ERRORED without running.                            *)
BeginScenario(p) ==
  /\ pc[p] = "loop" /\ todo[p] # <<>> /\ ~Cancelled(p)
  /\ \/ /\ Goto(p, "scenario")
        /\ UNCHANGED <<todo, res>>
     \/ /\ Head(todo[p]).name \in Fragile
        /\ AddResult(p, ScenarioResult(Head(todo[p]).name, Errored))
        /\ todo' = [todo EXCEPT ![p] = Tail(@)]
        /\ UNCHANGED pc
  /\ UNCHANGED <<disk, lock, clock, set, got, exit, screen, ghosts>>

(* RunScenario returns, ERRORED if it was cancelled inside a step, and the *)
(* registry is closed.                                                     *)
EndScenario(p) ==
  /\ pc[p] = "scenario"
  /\ \E o \in Outcomes[Head(todo[p]).name] \cup (IF Cancelled(p) THEN {Errored} ELSE {}) :
       AddResult(p, ScenarioResult(Head(todo[p]).name, o))
  /\ todo' = [todo EXCEPT ![p] = Tail(@)]
  /\ Goto(p, "loop")
  /\ UNCHANGED <<disk, lock, clock, set, got, exit, screen, ghosts>>

(* The loop is over: all have run, or the context was cancelled between    *)
(* two scenarios.                                                          *)
EndRun(p) ==
  /\ pc[p] = "loop" /\ (todo[p] = <<>> \/ Cancelled(p))
  /\ IF p = Tui THEN Return(res[Tui])
     ELSE Goto(p, "ran") /\ UNCHANGED <<lock, res>>
  /\ todo' = [todo EXCEPT ![p] = <<>>]
  /\ UNCHANGED <<disk, clock, set, got, exit, screen, ghosts>>

RunStep(p) == \/ LockRun(p) \/ Refused(p) \/ Select(p)
              \/ BeginScenario(p) \/ EndScenario(p) \/ EndRun(p)

-----------------------------------------------------------------------------
(* `shinari run`.                                                          *)

(* Discovery, environment and output options, before the lock.             *)
Prepare(c) ==
  /\ pc[c] = "start"
  /\ \/ /\ Goto(c, "locking")
        /\ set' = [set EXCEPT ![c] = files]
        /\ UNCHANGED <<todo, res, got, exit, lock>>
     \/ c \in Unlucky /\ Exit(c, 2)
  /\ UNCHANGED <<disk, clock, screen, ghosts>>

(* Mutant of HistoryRecord: the findings of the run are left out.          *)
RecordNoFindings(p) ==
  [time |-> res[p].start, verdict |-> Verdict(res[p]), findings |-> <<>>,
   scenarios |-> [i \in DOMAIN res[p].scenarios |-> res[p].scenarios[i].name]]

HistoryRecord(p) ==
  [time |-> res[p].start, verdict |-> Verdict(res[p]),
   scenarios |-> [i \in DOMAIN res[p].scenarios |-> res[p].scenarios[i].name],
   findings |-> FlattenSeq([i \in DOMAIN res[p].scenarios |-> res[p].scenarios[i].findings])]

(* The reports are written; without a scenario there is nothing to do, and *)
(* a report that cannot be written ends the command.                       *)
WriteReports(c) ==
  /\ pc[c] = "ran"
  /\ \/ /\ res[c].scenarios = <<>>
        /\ Exit(c, 0)
     \/ /\ res[c].scenarios # <<>>
        /\ \/ Goto(c, "record") /\ UNCHANGED <<memory, lock>>
           \/ c \in Unlucky /\ Exit(c, 2)
  /\ UNCHANGED <<disk, clock, screen, ghosts>>

Record(c) ==
  /\ pc[c] = "record"
  /\ \/ /\ history' = IF Opts[c].record THEN Append(history, HistoryRecord(c)) ELSE history
        /\ Goto(c, "ledger")
        /\ UNCHANGED <<memory, lock>>
     \/ /\ Opts[c].record /\ c \in Unlucky
        /\ Exit(c, 2)
        /\ UNCHANGED history
  /\ UNCHANGED <<files, edits, ledger, clock, screen, ghosts>>

LoadLedger(c) ==
  /\ pc[c] = "ledger"
  /\ got' = [got EXCEPT ![c] = ledger]
  /\ Goto(c, IF Opts[c].update THEN "update" ELSE "judge")
  /\ UNCHANGED <<disk, lock, clock, set, todo, res, exit, screen, ghosts>>

(* os.WriteFile truncates the file, then writes it.                        *)
TruncateLedger(c) ==
  /\ pc[c] = "update"
  /\ ledger' = [exists |-> TRUE, entries |-> {}]
  /\ Goto(c, "writing")
  /\ UNCHANGED <<files, edits, history, lock, clock, memory, screen, ghosts>>

WriteLedger(c) ==
  /\ pc[c] = "writing"
  /\ ledger' = [exists |-> TRUE, entries |-> Merge(got[c].entries, Observed(c), Ran(c))]
  /\ acked' = [n \in DOMAIN acked \cup Ran(c) |->
       IF n \in Ran(c)
       THEN [time |-> res[c].start,
             entries |-> {e \in FromObserved(Observed(c)) : e.scenario = n}]
       ELSE acked[n]]
  /\ Exit(c, ExitCode(Verdict(res[c])))
  /\ UNCHANGED <<files, edits, history, clock, screen, torn>>

(* Mutant of ExitWith: drift only matters to a run that failed already.    *)
ExitIgnoringDrift(code, drift) == code

ExitWith(code, drift) == IF drift /\ code = 0 THEN 1 ELSE code

(* Compare with the ledger, when there is one, and exit.                   *)
Judge(c) ==
  /\ pc[c] = "judge"
  /\ \E want \in Wants(got[c].entries) :
       Exit(c, ExitWith(ExitCode(Verdict(res[c])),
                        got[c].exists /\ ~Empty(Reconcile(want, Observed(c), Ran(c)))))
  /\ UNCHANGED <<disk, clock, screen, ghosts>>

CliStep(c) == \/ Prepare(c) \/ RunStep(c) \/ WriteReports(c) \/ Record(c)
              \/ LoadLedger(c) \/ TruncateLedger(c) \/ WriteLedger(c) \/ Judge(c)

(* The process dies (a signal, which cmdRun does not handle, or a panic    *)
(* that leaves RunScenario) and the kernel drops its flock.                *)
Killed(c) ==
  /\ pc[c] \notin {"start", "done"} /\ c \in Unlucky
  /\ Exit(c, 2)
  /\ torn' = (torn \/ pc[c] = "writing")
  /\ UNCHANGED <<disk, clock, screen, acked>>

-----------------------------------------------------------------------------
(* `shinari tui`.  Keys are routed by what is on the screen; the run view, *)
(* when there is one, covers the rest.  A key that acts on the list comes  *)
(* with the search filter and the selection it finds there; the other keys *)
(* (splash, tabs, panes, typing) change nothing modelled.  The editor's    *)
(* child process is part of the key that starts it.                        *)

Gone == pc[Tui] = "gone"
Browsing == ~view.open /\ ~Gone

Visible(filter) == SelectSeq(Listing(ui), LAMBDA sc : sc.name \in filter)
Selectable == {sc.name : sc \in Members(Listing(ui))}

running == <<lock, clock, pc, memory>>

(* A file is written or removed.                                           *)
Touch(after) ==
  /\ Browsing /\ edits < MaxEdits
  /\ edits' = edits + 1
  /\ files' = after
  /\ UNCHANGED <<ledger, history, launches, running, ui, view, ghosts>>

(* The delete key and y; the answer captures the next key, so that nothing *)
(* comes between them.                                                     *)
DeleteSelected == \E n \in Selectable \cap Touched : Touch(files \ {n})

(* The form scaffolds a file, never over an existing one.                  *)
SubmitForm == \E n \in Touched \ files : Touch(files \cup {n})

(* reDiscoverMsg, which follows a creation, a deletion and the end of an   *)
(* editor (also one that changed nothing that matters here): the App's set *)
(* is loaded again.  A project that does not load leaves it as it was.     *)
(* The set the run functions close over is the one cmdTui loaded, set[Tui].*)
ReDiscover ==
  /\ ~Gone
  /\ ui' = files
  /\ UNCHANGED <<disk, launches, running, view, ghosts>>

Launch(targets, dry) ==
  /\ launches < MaxLaunches
  /\ launches' = launches + 1
  /\ view' = [open |-> TRUE, targets |-> targets, dry |-> dry, cancelled |-> FALSE, done |-> FALSE]
  /\ Goto(Tui, "locking")
  /\ UNCHANGED <<disk, lock, clock, memory, ui, ghosts>>

(* Run or dry-run the selected scenario, the first of some search.         *)
LaunchRun ==
  /\ Browsing
  /\ \E filter \in Filters, dry \in BOOLEAN :
       Visible(filter) # <<>> /\ Launch(<<Visible(filter)[1].name>>, dry)

(* Run every visible scenario, if there is one.                            *)
StartRunAll ==
  /\ Browsing
  /\ \E filter \in Filters :
       /\ Visible(filter) # <<>>
       /\ Launch([i \in DOMAIN Visible(filter) |-> Visible(filter)[i].name], FALSE)

CancelKey ==
  /\ view.open /\ ~view.cancelled /\ ~view.done
  /\ view' = [view EXCEPT !.cancelled = TRUE]
  /\ UNCHANGED <<disk, launches, running, ui, ghosts>>

BackKey ==
  /\ view.open /\ view.done
  /\ view' = Closed
  /\ res' = [res EXCEPT ![Tui] = NoRun]
  /\ UNCHANGED <<disk, launches, lock, clock, pc, todo, set, got, exit, ui, ghosts>>

(* Mutant of Recorded: a dry run goes through After as well.               *)
AlwaysRecorded == TRUE

Recorded == ~view.dry

(* Mutant of Finished: a run that returned an error leaves the view open.  *)
FinishedWithoutError(r) == [view EXCEPT !.done = r.start # 0]

Finished(r) == [view EXCEPT !.done = TRUE]

(* DoneMsg: the view is done and After, which a dry run has none of,       *)
(* appends to the history; appending may fail.  The lock is already free.  *)
HandleDone ==
  /\ pc[Tui] = "sent"
  /\ Goto(Tui, "idle")
  /\ view' = Finished(res[Tui])
  /\ \/ Recorded /\ history' = Append(history, HistoryRecord(Tui))
     \/ UNCHANGED history
  /\ UNCHANGED <<files, edits, ledger, launches, lock, clock, memory, ui, ghosts>>

(* Quit: the program returns, and with it the process and the goroutine of *)
(* a run in progress.                                                      *)
Quit ==
  /\ Goto(Tui, "gone") /\ ~Gone
  /\ view' = Closed
  /\ lock' = IF lock = Tui THEN None ELSE lock
  /\ todo' = [todo EXCEPT ![Tui] = <<>>]
  /\ res' = [res EXCEPT ![Tui] = NoRun]
  /\ ui' = {}
  /\ UNCHANGED <<disk, launches, clock, set, got, exit, ghosts>>

TuiStep == \/ RunStep(Tui) \/ HandleDone \/ ReDiscover
           \/ DeleteSelected \/ SubmitForm 
           \/ LaunchRun \/ StartRunAll \/ CancelKey \/ BackKey \/ Quit

Next == (\E c \in Clis : CliStep(c) \/ Killed(c)) \/ TuiStep

(* The goroutine of a UI run is scheduled, a scenario comes to an end, and *)
(* the UI takes its messages; no key is ever owed, and the invocations may *)
(* stop anywhere.                                                          *)
Fairness == WF_vars(RunStep(Tui)) /\ WF_vars(HandleDone)

Spec == Init /\ [][Next]_vars
FairSpec == Spec /\ Fairness

-----------------------------------------------------------------------------
Engaged(p) == pc[p] \in {"select", "loop", "scenario", "ran", "record", "ledger", "update",
                         "writing", "judge"}

(* From the selection of its scenarios until its last artefact is written  *)
(* (cmdRun), or until its result is returned (runLocked), a run is the     *)
(* only one of the project.                                                *)
OneRunAtATime == \A p, q \in Procs : Engaged(p) /\ Engaged(q) => p = q

(* What `run -u` has acknowledged for a scenario stays in the ledger until *)
(* the next `run -u` that runs it, whatever the other processes do in      *)
(* between; only an invocation killed inside the rewrite may lose it.      *)
NoLostAcknowledgement ==
  torn \/ (\E c \in Clis : pc[c] = "writing")
       \/ ledger.entries = UNION {acked[n].entries : n \in DOMAIN acked}

(* A record of the history that names scenarios stands for exactly one run *)
(* of the engine: no two share a start time, and the run a process last    *)
(* made is recorded as it went, with the scenarios that ran and no others, *)
(* also when it was cancelled between two or refused.  A dry run of the UI *)
(* is never recorded.                                                      *)
RecordsAreRuns ==
  /\ \A i, j \in DOMAIN history :
       i # j /\ history[i].scenarios # <<>> => history[i].time # history[j].time
  /\ \A i \in DOMAIN history, p \in Procs :
       history[i].time = res[p].start =>
         /\ history[i].scenarios = [k \in DOMAIN res[p].scenarios |-> res[p].scenarios[k].name]
         /\ history[i].scenarios # <<>> =>
              /\ history[i].verdict = Verdict(res[p])
              /\ Members(history[i].findings) = Observed(p)
  /\ view.open /\ view.dry /\ view.done =>
       \A i \in DOMAIN history : history[i].time > 0 => history[i].time # res[Tui].start

UniqueIds(g) == \A d, e \in g : d.id = e.id => d = e

(* `run` without -u exits 0 only if the ledger, as it is at that moment,   *)
(* acknowledges exactly the findings the run observed in its scenarios     *)
(* (provided that an identity stands for one finding of one scenario).     *)
DriftNeverMissed ==
  [][\A c \in Clis :
       /\ pc[c] # "done" /\ pc'[c] = "done" /\ exit'[c] = 0
       /\ ~Opts[c].update /\ res[c].scenarios # <<>>
       /\ ledger.exists /\ UniqueIds(ledger.entries \cup FromObserved(Observed(c)))
       => FromObserved(Observed(c)) = {e \in ledger.entries : e.scenario \in Ran(c)}]_vars

(* While the newest run of the history is a `run -u` that has refreshed    *)
(* the ledger for all of its scenarios, the findings `shinari log` calls   *)
(* open are those the ledger acknowledges for them.                        *)
TrendMatchesLedger ==
  history # <<>> /\ ~torn /\ (\A c \in Clis : pc[c] # "writing") =>
    \A k \in Newest(history) :
      LET of == Members(history[k].scenarios)
          trend == FoldTrend(history, k)
      IN of # {} /\ (\A n \in of : n \in DOMAIN acked /\ acked[n].time = history[k].time) =>
           {id \in DOMAIN trend : trend[id].status = "open"}
             = Ids({e \in ledger.entries : e.scenario \in of})

(* A run launched in the UI is done eventually, even if the lock is        *)
(* refused, its targets are unknown or it is cancelled, unless the UI is   *)
(* left first.                                                             *)
TuiRunEnds == (view.open) ~> (Gone \/ (view.open /\ view.done))

(* run-all runs every scenario visible in the list, unless it is           *)
(* cancelled.                                                              *)
RunAllCoversVisible ==
  view.open /\ view.done /\ ~view.cancelled /\ Len(view.targets) > 1 =>
    Ran(Tui) = Members(view.targets)
=============================================================================
