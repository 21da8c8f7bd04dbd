# Shinari in TLA+

Shinari runs chaos scenarios: it checks that a system is healthy, injects
faults, checks that the system recovers and that what the scenario claims
holds, and restores everything in teardown. A wrong answer is worse than none:
a scenario that is green although a check never ran, a fault that outlives its
run, an accepted finding that quietly comes back. These modules model the
engine, what surrounds it and the verbs it calls, model-check them with TLC on
small instances, and prove their safety properties with TLAPS for all instances.

## Inventory

| component | state | operations | interacts with | what makes it correct |
|---|---|---|---|---|
| scenario lifecycle, `core/engine/executor.go` | section, step, result, background handles, timeline context | `RunScenario`, `timeline`, `runSection`, `runStep`, `judge`, `stopBackgrounds`, `teardown` | registry, providers, emitter | verdict table, gate before faults, teardown always, result = reduction of the events |
| events and reduction, `events.go`, `run.go` | the append-only stream | `Emit`, `Reduce` | lifecycle, renderers, UI | `Reduce` gives back the result |
| parallel blocks, `parallel.go` | one runner per branch, the shared limiter | `runParallel`, `branchRunner`, merge | lifecycle, background handles | cap, barrier, determinism, nothing lost in the merge |
| repeat blocks, `repeat.go`; background tasks, `executor.go` | loop frames, handles, goroutines and their event buffers | `runRepeat`, `cancelBackgroundsSince`, `background`, `stop_background` | lifecycle, providers | every iteration counted, no goroutine lost or left |
| polling builtins, `executor.go:618-844`; load, `loadp` | deadline, last observation, samples | `wait_until`, `sample`, `sleep`, `assert`, `load.run` | probes, clock | a gate opens on what it asks for, in time; a window is whole |
| composed verbs, `executor.go:556-607` | a scope of their own | `execComposed` | registry | params only, no leak of captures, kinds as inferred |
| run loop, `run.go` | result so far | `Run`, `SelectScenarios` | discovery, registry, lifecycle | every selected scenario is reported |
| run command and lock, `cli/cmd_run.go` | flock, report files | `cmdRun`, `lockRun` | run loop, ledger, history | one run per project; exit code follows verdict and drift |
| ledger, `cli/golden`; identity, `identity.go`; history, `cli/history` | a file each | `Reconcile`, `Merge`, `Append`, `FoldTrend` | run command, UI | no drift missed; trends follow runs |
| terminal UI, `cli/tui`, `cli/cmd_tui.go` | Bubble Tea model, running command | `Update`, `launchRun`, cancel, create, delete | run loop, lock | what is recorded is what ran; a run ends |
| discovery, model, registry, `core/discover`, `core/model`, `core/registry` | none after load | `Load`, `MergeProviders`, `New`, `Resolve`, `inferComposedKinds`, `BindArgs` | providers, validation | a dry run executes nothing that mutates |
| expressions, `core/interp`, `core/jqx`; validation, `core/validate` | scopes of one pass | `NSRefs`, evaluate, the rules | registry, lifecycle | what is accepted resolves, what is refused would not |
| selection, `core/selector`, `core/tagexpr` | none | parse, evaluate, filter | run loop | an expression selects what it means |
| options, `cli/env.go`, `dotenv.go`, `output.go` | none | resolve | run command | an accepted `output:` block stops no run |
| operators, `core/builtins`; statistics, `utils` | none | `Check`, `Summarize` | `assert`, polling | as documented, on every type of value |
| fault providers (`toxiproxyp`, `netp`, `dockerp`) | an external system | inject, restore | their system | an answered fault is in force, an answered restore has restored |
| request providers, `execp` | a call, a process group | one request, one command | external systems | what bounds a call brings it back; a cut command leaves nothing that holds its output |
| other commands, reports, traces, SDK | none | print, scaffold, format | | |

What is hard in it: background goroutines that run beside the timeline, and
whose context no cancel of the scenario reaches; branches that share a counter,
and merge captures, handles, results and events; a deadline, a cancel or a panic
in any step; a cleanup that must run whatever came before; a result built twice;
processes that share a project directory; faults that take several requests, any
of which may fail, be carried out and not answered, or never come back; calls through the very
fault under test, which nobody answers; and two accounts of the same thing, the
static one of `validate` and the dynamic one of the runner. `PROJECT.json` lists
each hazard with its line and the properties that are about it.

## Modules

Four groups; within one, later modules extend earlier ones.

**One scenario.**

| module | models | by |
|---|---|---|
| `Journal` | events, `Reduce` | operators; a *place* (section, phase, index) stands for a step's label |
| `Scenario` | `RunScenario` and all it calls | `pc` is the section (or `returned`, `stopping`, `finished`, `crashed`), `next` the step, `running` whether its verb executes; `EndEarly`, `Dispatch`, `Return` are `runStep` before, into and after `execVerb` |
| `Parallel` | `runParallel` for a tree of runners | `pc` per goroutine; `runner` holds the fields of the Go struct; `limiter` is the atomic counter; `Acquire` and `BackOut` are its two atomic operations |
| `BlockPromise` | the determinism `docs/content/reference/builtins.md` promises | abstract: one step to the outcome of running the branches one after the other, those the cap turns away left out |
| `Repeat` | `runRepeat`, handles, background goroutines | `stack` is the Go call stack of `runSection`/`runRepeat`; a cancel and the wait for the goroutine are two steps |

**One project directory.** A scenario's run is one step with an outcome here.

| module | models | by |
|---|---|---|
| `Ledger` | `FindingID`, `golden`, `history` | operators on sets of entries and sequences of records |
| `Selection` | discovery, suites, duplicate names, targets | operators on sequences of documents |
| `Project` | `cmdRun`, `runLocked`, `Run`, and the UI's `Update` | `pc` per process; files, ledger, history and lock shared; truncating and writing the ledger are two steps; a kill may fall between any two |

**What is written against what happens.** Of a value only whether its name is
bound is kept.

| module | models | by |
|---|---|---|
| `Registry` | provider merge, instances, `bodyKind`, `Resolve`, `BindArgs` | operators |
| `Interp` | which names a jq expression reads: by the static walk, and when evaluated | two operators on the same expression tree |
| `Validate` | every rule of `validate.go` | a recursive function over places (a step, and what `validator` carries there) |
| `TagExpr` | the recursive-descent parser | a recursive function of level and position; `Meaning` is the reference, by outermost operators |
| `Settings` | environment, `.env`, output plan | operators |
| `Authoring` | load, validate, settle, run step by step | `stack` holds the section and the blocks and composed verbs open in it |

**Verbs in flight.** Two branches, each with a script of calls.

| module | models | by |
|---|---|---|
| `Calls` | a call under its step's context | a discrete clock, which moves only while every caller waits |
| `Faults` | the verbs of toxiproxy, net, docker | one action per request or command; `world` is the system; a request may be refused, carried out with its answer lost, or never answered: the caller is then `held`, or, where it is a command under the step's context, `unanswered` until `CutCommand` |
| `Requests` | http, prom, grpc, tcp, sql | what the faults in place make of the answer, and when it comes; one that ends within its body is `Torn`, and http and scrape go on with what they have read |
| `Checks`, `Stats` | comparison operators, window statistics | operators |
| `Polling` | `wait_until`, `sample`, `sleep`, `assert`, `load.run` | points between polls, with their deadlines |
| `Commands` | `exec.run` and its process group | SIGTERM, grace, SIGKILL, `WaitDelay` as times |
| `Verbs` | all of these together | |

`MCScenario`, `MCParallel`, `MCRepeat`, `MCProject`, `MCAuthoring` and `MCVerbs`
give the instances; the `_lemmas` and `_proofs` modules the theorems.

How the groups fit. `Parallel` and `Repeat` refine what `Scenario` treats as one
step: a block or a loop has the outcomes of a verb. `Verbs` refines what all
three treat as one: a verb's return. `Project` uses a scenario's verdict and
findings and nothing else of it. The product of the groups is not checked: no
step of one touches state of another, except a background handle, which
`Scenario`, `Parallel` and `Repeat` each model.

Abstractions. Captures are places (who bound them) in `Parallel`, and bound names
in `Authoring`. In `Scenario` a verb's return is one of five outcomes: it worked,
its check failed, it could not be evaluated, its deadline passed, it was
cancelled. In `Parallel` a leaf's outcome is part of the program, so that
scheduling is the only nondeterminism. Texts, payloads and layouts are left out.
In `Faults` a request is carried out when it is sent or never, and a snippet is
the lines in it, each for a host; which hosts share a file is the constant
`confFile`. A case says what its configuration and its systems are like: `luck`
requests may fail, with `mute` one of them goes unanswered, with `held` a child of
a command that was killed keeps its output open, and without `reloads` `net` has
no `reloadCmd`, so that no resolver reads the files it writes.

## Runs

| run | bounds | shows |
|---|---|---|
| `scenario_lifecycle` | five scenarios, every option (keep-up, dry-run, lifecycle provider), two background names | the verdict table, complete green runs, gate before faults, first failure stops, teardown always, backgrounds stopped before teardown, result = reduction, termination |
| `parallel_tree` | four sections, up to five branches, two levels, cap 3 | cap, limiter, barrier, handles, reduction, captures, determinism but for refused branches (refinement of `BlockPromise`), termination |
| `repeat_blocks` | three sections, two iterations, repeat in repeat, at most two events per goroutine (`MaxGates`), with and without dry-run | every goroutine held under one name, none left, none past a failed iteration, observations flushed at the join, honest counts, fail-fast, termination |
| `project_runs` | a recorded `run -u` of a suite that may be killed or fail to read or write, a check of one scenario, a UI; three scenarios; one file touched (`MaxEdits`), one run launched (`MaxLaunches`) in the UI | one run at a time, no acknowledgement lost, no drift missed, records are runs, trends agree with the ledger, a UI run ends |
| `authoring_runs` | scenarios of two to four steps from a palette of 32, over up to four sections, dry and not; tag expressions of up to four tokens, and two operands with an operator; every output block; seventeen broken or odd projects | what is accepted resolves, what is refused would not, a dry run changes nothing by itself, output blocks, selections |
| `verbs` | two branches of up to three calls; one request lost, refused or unanswered; clock up to 16 (`Horizon`); twelve families: pairs of faults per provider, `net` without a `reloadCmd`, faults in a step with a timeout, every request provider through every fault, gates, samples, cancels, commands, load, checks; 164,000 states | answered faults are in force, gates and windows mean what they say, cut commands are gone, bounded calls return |
| `panic_in_teardown`, `broken_check_finding` | as `scenario_lifecycle` | violated: see divergences |
| `nested_capture_lost`, `adopted_handle_lost` | as `parallel_tree`, one section each | violated |
| `restart_leaks` | a body that stops and restarts a background | violated |
| `stale_run_set` | the UI alone, with one file created | violated |

Why these bounds. In `scenario_lifecycle` every section occurs empty and not,
method has zero, one and two phases, each kind of step occurs in a section where
it matters, and with two names one background can be stopped while another is
live. In `parallel_tree` a nested section of five branches goes over the cap of
three in some schedules and not in others, and a section with two blocks in a row
would see a limiter that was not given back. Two iterations distinguish the
first and the last, two levels the inner and the outer loop, two events per
goroutine are the least that can be flushed out of place. In `project_runs` one
launch beside two invocations gives every order of three runs; a kill inside the
rewrite, between history and ledger, and during a scenario all occur; one edit
makes the project on screen differ from the one loaded. In `authoring_runs`
two or three steps are a binder, what stands between, and a reader; each block, composed
verb and guard is in the palette. In `verbs` two branches can break and restore
the same proxy, host or service; one loss is enough for a fault in two requests
to end half-way, or to wait in the middle; the clock goes on for longer than any script that something bounds
needs: a call the horizon cut off would violate `CallsReturn`.

Fairness. In the runs of one scenario: the runner's goroutine and every branch
that can move do move (Go schedules them; verbs are assumed to return), and a
cancelled goroutine comes to its end (verbs honour their context, as the SDK
asks). In `project_runs`: the goroutine of a UI run is scheduled, a scenario ends,
and Bubble Tea delivers messages; no key is owed, and invocations may stop
anywhere. In `verbs`: branches are scheduled and timers fire, hence the clock
moves; nobody has to cancel, and a request that a fault swallows, or that a case
leaves unanswered, is never answered. `CallsReturn` is of the calls that something
bounds (`Bounded`). Of the faults those are the ones in cases that answer every
request, and the commands of `net` and `docker` in a step with a timeout when
nobody keeps their output; toxiproxy's client takes no context
(`toxiproxyp.go:97`), so that nothing bounds a request of it, and `CombinedOutput`
waits for whoever holds the pipe. That verbs return when something bounds them, which the runs of one
scenario assume, is what `CallsReturn` checks. Nothing is assumed of what the
code does not control: a background need not end by itself, a deadline need not
pass. `authoring_runs` states no liveness. Runs that are over have no successor,
so deadlock is not checked; that runs do end is a property of its own.

## Proofs

Each property is proved for every value of the constants from an inductive
invariant, one lemma per action or per group of actions that leave the same things
alone. None of the properties below is inductive as it stands; what had to be
added is what the paragraphs are about.

`Scenario_proofs`, for every scenario, every option and every set of names:
`TypeCorrect`, `PassedIsComplete`, `FaultsFollowGate`, `FailureStopsTimeline`,
`TeardownGuaranteed`. That a PASSED result ran everything is decided sections
earlier, so `IInv` adds what is true on the way: in the timeline exactly the steps
behind the current one are recorded and none of a fail-fast section failed
(`TimelineProgress`); a PASSED verdict that has been taken but not yet reported is
already earned (`VerdictEarned`); teardown's recorded steps are those behind the
current one (`TeardownProgress`).

`Journal_proofs` has what the reduction of a concatenated stream is, for streams
of every length. It needs induction on the length. The library's induction
theorems take an operator as a parameter, which the installed provers cannot
instantiate; the module therefore takes the least counterexample, which exists
because `<` on the naturals is well-founded, and states the principle about sets.
`Verbs_proofs` does the same for sums and ranks.

There too: `ResultReduced`, `VerdictIsDocumented`, `BackgroundsStopped`. Behind
the first is that at most one step is open in the
journal and that it is the one the runner is in (`OneStepOpen`), so that the
journal so far always reduces to the result so far (`ReductionSoFar`); behind the
second, that what the timeline would report if it ended now is the documented
function of the steps recorded now (`VerdictSoFar`).

`Parallel_proofs`, for every program shaped like a tree, every finite set of
runners and every cap: `CapTheorem`, `LimiterTheorem`, `BarrierTheorem`. The cap
follows from the limiter being the number of branches that hold a count
(`LimiterCountsBranches`): a branch becomes live only if that number, itself
included, is within the cap. That equality survives a fork only because a branch
is forked once: `UnstartedIdle` says that the branches of a block not yet forked
are idle, and rests on the assumption `TreeShaped` (a runner is made for one
branch of one step, as `branchRunner` does). `BarrierHolds` gives that a join
meets only branches that are done.

There too: `ParallelResultReduced` for every program, through every merge. Two
promises hold only of some programs, and the theorems name them:
`HandlesTheorem` of those whose background steps have names of their own
(`HandlesNamedApart`), `CapturesTheorem` of those in which only branches of the
section's own blocks bind captures (`BindsInOuterBlocks`, which all programs of
`parallel_tree` do). That each hypothesis is needed is what `adopted_handle_lost`
and `nested_capture_lost` show.

`Repeat_proofs`, for every program of nested repeats, every count and every set of
names. `NoTaskLost` and `NoneOutlives` need the types of the handles (`BgInv`: a
live name holds a goroutine that was started, and the awaited name is live, so
that what is forgotten is what was awaited) and of the stack (`StackInv`), and
that no name is live when the section is over (`OverInv`). `Honesty` and
`FailsFast` follow from the shape of the stack, each frame above the first being
that of the repeat at which the one below it stands (`NestInv`), and from what
each frame has recorded: its loop up to where it is, and no failure unless it says
so (`RecordInv`). `FlushedWhole`: a goroutine's observations are missing from the
journal, or are one interval of it and the goroutine awaited, after which its
buffer does not change (`FlushInv`); one that was awaited and is missing had
observed nothing, or was left by an iteration that failed, which has recorded the
failure (`LossInv`). `NoLeak` holds of behaviours in which an
iteration joins only names it started (`[]StopsItsOwn`): then the goroutines in
the snapshot are the ones from before the iteration (`LeakInv`). `restart_leaks`
is a behaviour without that.

`Project_proofs`, for any number of invocations and scenarios. `OneRun`,
`AcknowledgementsKept`, `DriftIsReported`: the lock is held by a process from
before it is engaged until after (`LockInv`), hence at most one is; `LoadedInv`
says that what an engaged invocation has loaded is still what the file holds, and
that what it is about to write keeps each acknowledgement; `ResInv` that a
result's findings are of the scenarios it ran. With them `Reconcile` is exact: it
finds nothing only if the entries of the scenarios that ran are the active
findings of the run. `EachRecordIsARun`: a start time belongs to one run
(`StartInv`), and a record with the start time of a run that a process still holds
is what that run came to (`HistoryInv`); a dry run that the UI has shown to its
end is in no record (`ViewInv`). `TrendAgrees`: what `run -u` acknowledged at some
start time is what the record of that time says (`AckTimeInv`).

`Verbs_proofs`, for any scripts, answers and times, and a cancel at any moment.
All of it stands on `ControlInv`: a branch is at a point of the verb it executes.
`CommandsGone`: SIGKILL is sent before the pipe is closed from this side
(`ExecInv`), which rests on `WaitDelay` being longer than the grace, as
`execp.go:102` sets it. `GatesHonest`: the clock never passes the deadline of a
wait while the gate is in it, and what was observed so far did not satisfy the
condition (`WaitInv`). `WindowsWhole`: the samples sent so far are as many as
those measured, or one more while a probe is out, and a runner ready to send has
waited the interval and is not past the deadline (`SampleInv`); the percentiles
are nearest ranks because the places of the samples in sorted order are a
permutation of the window. `FaultsAnswered`, for any number of proxies, hosts,
services and containers and any requests that fail or are never answered, carried
out or not: a verb is several requests, so what it has done so far is kept beside
what is left in its hands. A toxic, or the snippet of a host, is left to do, or is
as the verb wants it, or is among what others have touched (`FaultState`); a toxic
that could not be removed is in `failed`, so that a `clear` with an empty `failed`
has removed all it listed. What another branch does keeps this (`FaultStays`):
`touched` grows by what it changes of the things its call is about, and a request
of it leads to a world that differs only there (`Legal`, `Within`), so that
nothing changes behind it (`CarriedFollows`). For `net` that needs a file for each
host, the theorem's hypothesis `OneFilePerHost`: writing a file that two hosts
share changes what it says of the other one, whose branch may then answer without
an error and not be in force. What the resolver serves is part of what was
promised only where a `reloadCmd` is configured: `reload` returns at once without
one (`netp.go:144-146`).

`Authoring_lemmas` holds what is said of the operators `Authoring` is built from,
apart from any step, and `ParserIsRight`, for token sequences of every length. The
parser is a recursive function over the values of its arguments, so that a result
of it is what a CHOOSE picks; before anything can be said of it, one has to exist.
The module builds it: of a recursion whose step looks only at arguments of lower
height, tables that solve it below `n` exist for every `n` (`Recursion`), again
by least counterexample. `Parser`, `MeaningOf` and the recursions of `Registry`,
`Validate` and `Authoring` over trees of steps are of that shape. The parser is
then followed along its grammar: what each level returns is where the longest
phrase of its kind ends and what that phrase means.

`Authoring_proofs`, for every project, every process environment and all flags.
`SelectionRight`: what discovery returned is made of documents that were given
(`LoadInv`), and what was chosen was chosen from it by the flags (`SelectionInv`).
`OutputRight`: the findings that `validate` has of the `output:` block are those
the plan is refused for. `DryRunIsQuiet` needs what a run has on its stack
(`RunInv`): frames of steps of the project, the section at the bottom, every frame
but the top one with the block or verb it waits for at its head, and the specs of a
registry that `New` did not refuse. Then every step still to come in a composed
verb that was entered plainly is harmless, or calls a composed verb whose own
steps are (`QuietFrame`). That is where rule 4 is needed: kinds are inferred
two levels down, and `TooDeep` has refused a third.
`ReadsResolve`: what `validate` lets pass is bound when a step reads it, or its
step was skipped, failed or not reached, or a branch did not hand it on. A pass of
`validate` is followed first: what it has found grows along it, and behind a step no
more counts as bound than what the step binds (`CheckerIs`, `PassGrows`); so, when
it found no error, every step it looked at is clean of the names bound there
(`StepClean`, `ScenarioClean`, `VerbClean`). Then the run: the steps to come in
every open frame are clean of the names its scope binds or that are excused
(`FrameFine`); between a frame and the one below it, what the block is taken to
bind is bound, to come, or excused (`Link`); and so with the sections to come
(`ToCome`), of which the last never stops. The same invariant goes through blocks
in blocks, repeat bodies and composed verbs; that the six sections of a run come
after one another like the five that were checked, the steady state twice, is
`StartFine`.
`RejectionsHold` is the other direction: what `validate` reports as read too early,
in a sibling branch or never bound is unbound when a run without a failure and
without a skip reads it. What a pass blames is among what the steps await and
nothing before them binds (`CheckedRight`, `ScenarioBlames`); `Gain` and `Need`
are what a step is taken to bind and to await, and they follow the blocks. Then
`OweInv`: a name that is blamed was read unbound, or an open frame is still to
read it (`Owes`), or a section to come is, and the frame of the open section will
not have bound it by then (`Beyond`). A frame hands on no more than its block is
taken to bind (`Tied`), and none has failed (`Tidy`). That a whole report is there
for every finding of the scenarios is `ReportInv`. The case the property leaves
out, a repeat in a branch, is where the proof needs it: there the frame hands on
more than `collectBindings` sees (`Tangled`).

Assumptions: `ScenarioAssumption`, `ParallelAssumption`, `RepeatAssumption`,
`ProcsAssumption`, `HorizonAssumption`, `ScriptsAssumption`, `TimesAssumption`,
`PollsAssumption`, `GroupsAssumption`, `FaultsAssumption` (the constants have
their types, the cap is positive, programs are trees, processes are told apart,
clock and horizon are numbers, snippets are finitely many) and `GraceAssumption`
(`termGrace < WaitDelay`); `FactoriesAssumption` (of a provider's verbs those with
side effects are its actions, as the registered providers declare theirs),
`StepsAssumption` and `ExprsAssumption` (steps and expressions are finite trees,
and only the builtins that take steps have any in them), `TagsAssumption` and
`FamiliesAssumption` (operators are no tags; documents, targets and expressions
are lists). All are evaluated by TLC in the runs.

Only model-checked: liveness (`EventuallyOver`, `TuiRunEnds`, `CallsReturn`),
which is out of this prover's reach, and the refinement of `BlockPromise`, which
rests on recursive operators.

What proving found in the model: the order in which `cmdRun` refuses a run was
written as a CASE, whose arms TLA+ does not order; it is a chain of IFs now. A step whose `finding:`
passes was counted as no failure, though `executor.go:398-425` judges it FAIL and a
fail-fast section ends with it; so `RejectedForAReason` was false, of a scenario
none of the cases had. `clean` counts it now, and a case has such a step.

## Divergences from the documentation, by run

- `panic_in_teardown`: the comment at `executor.go:98` promises that a panic does
  not unwind past the scenario; teardown runs outside the recovering closure.
- `broken_check_finding`: the comment at `executor.go:312` promises that a check
  that could not be evaluated is never a finding; that is so only before dispatch.
- `nested_capture_lost`: `builtins.md` promises that a name bound in a branch is
  visible after the block; out of two nested blocks it is not.
- `adopted_handle_lost`: the merge promises that teardown can reach every
  background of a branch; a name the parent holds is overwritten.
- `restart_leaks`: a background restarted by a failing iteration leaks, since the
  snapshot holds names and not handles.
- `stale_run_set`: run-all promises every visible scenario; it runs over the
  project as loaded at start, and one created since refuses the whole run.

Seen in the code and not stated as a property (the models follow the code):

- Engine. `cancelBackgroundsSince` joins without flushing. A background that
  teardown starts is stopped by nobody. A deadline that passes during setup turns
  ERRORED into FAILED, and so does one that passes after the last step, before
  the verdict is taken. A fault whose `read:` or capture fails was applied and is
  not in `Injected`. A run cancelled between scenarios rolls up the ones that
  ran. A nested step's arguments are interpolated twice (`executor.go:857`), so
  that an escaped `$${` is evaluated by the second pass. A `sample` that its
  step's deadline cuts off at its last probe counts it as an error and succeeds.
- Project. A UI run that the lock or an unknown target refused is shown as PASSED
  and appended to the history without scenarios (`runmodel.go:83`); the reports of
  a UI run are written after the lock is gone; leaving the UI ends a run without
  teardown. The ledger is truncated before it is written. `-u` of a scenario that
  ended before its finding step drops its acknowledgement. Two findings with one
  explicit identity mask each other.
- Validation. Rule 12 does not look into a repeat inside a branch and refuses a
  sound reader of its capture (`RejectedForAReason` leaves that case out); nothing
  looks at references in `read:` and `capture:`, in the guard of a block or of a
  step with an `onAbsent` that does not resolve (`validate.go:206-238`), nor into
  function arguments, though `validate.md:21` says every `${...}`. A step of a
  composed verb that has a `kind:` of its own is not looked at for rule 4
  (`registry.go:245-253`), so that such verbs may nest deeper than two levels, or
  call themselves; `validate.md:15` does not except them. A dry run executes the action a `wait_until` or a `sample` polls. Blocks in a
  composed verb pass validation and are unknown builtins at run time.
- Verbs. `load.md:63` says that `stop_background` returns the statistics collected
  so far; a cancelled load returns its `Output` only, and no statistics
  (`executor.go:679-683`). A toxic on two streams stops at the
  first failure and leaves the first stream's in place. Disconnecting stops at
  the first container that fails. After SIGTERM a child that ignores it and has
  let go of the output survives, since the shell's end stops the SIGKILL. grpc
  and sql calls without a timeout have no default. A docker command or a reload
  that is killed is waited for until the last child lets go of its output: these
  set no `WaitDelay`. `scenario.md:105` says that a step's timeout bounds the step;
  toxiproxy's client takes no context, so that a request which its API does not
  answer outlives it. `netp.go:136` says that each host has a file of its own;
  `sanitize` gives a wildcard and an underscore (`*.h` and `_.h`) the same one, and
  a fault on either replaces the other's. `http.md:185` says that a request which
  does not complete is an error; a body that the timeout cuts is a success with
  what was read of it, and a gate may open on it. `eq` compares
  numbers as floats and parses texts as numbers, so that `inf` equals `infinity`
  and `nan` is not equal to itself.

## Not modelled, and why

- Reports, console output, SARIF, HTML, explain output, OpenTelemetry export, the
  panes, forms and themes of the UI, completion and scaffolding: formatting of a
  finished value. That reports are written, and when, is in `Project`.
- YAML decoding and the text of expressions: a document comes with the class it
  decodes to, an expression as its tree. What jq computes is gojq's.
- The redis provider: go-redis reads under a timeout of its own and does not look
  at the context, so that what a call does is the library's.
- The responses still in flight when a load attack ends: inside vegeta.
- Bodies, headers and result shapes of requests: no later step but `read:` and
  captures looks at them, and those are bound or not in `Authoring`.
- The SDK's table of factories: filled by `init` functions and constant after.
- `watch`, which replays a saved journal (`cmd_watch.go`): it reads a file and
  draws it; the reduction it draws is `Reduce`.
- An exec or redis action polled by `wait_until` or `sample`: the probes of
  `Polling` are requests. One that overshoots the deadline it is given, as a
  command with a grace does, would make the gate late by that much.
