# go-specs: a verification project in TLA+

This directory holds TLA+ models of go-specs (a BDD-style test framework for Go), the TLC
configurations that check them on small instances, and proofs checked by TLAPS. Paths below are
relative to the repository (`src/`).

* [The system](#the-system): its parts, their state, how they interact, what is hard about them
* [Modules](#modules): what is modelled and how it corresponds to the code
* [Runs](#runs): what each check shows, on which instance, and why it is enough
* [Proofs](#proofs): what holds for every value of the constants, and along which argument
* [Findings](#findings): where the code and its documents disagree
* [Not modelled](#not-modelled)

## The system

A user writes suites with `Describe`/`When`/`It` (or the `Builder`), which are compiled into a
plan; an engine runs the plan on a Go `testing` driver and emits events to a reporter. The engine
of `Describe` suites is the most involved part: it must keep its promises whatever user code does,
and user code may fail softly, end its goroutine (`runtime.Goexit`), panic, skip, park in
`t.Parallel()` or start more goroutines.

| Component | State | Operations | Talks to | What is hard | What makes it correct |
|---|---|---|---|---|---|
| Suite construction (`specs/spec.go`, `compiler.go`, `registry.go`, `scope_report_labels.go`, `subtest_identity.go`, `focus.go`) | scope stack, hook lists, arena of instructions | `Describe`, `When`, `It`, `ItParallel`, hooks, `compile`, focus filter | hands an `ExecutionPlan` to the engines | ranges of groups must survive the focus filter; names must be unique | the plan the engines take as given: groups nest or are disjoint |
| Group runner (`specs/group_hooks.go`, `execution_plan.go`, `spec_body_parallel.go`) | `groupRun` (`failFastStopped`, `stopped`, marks), the walk's cursor, `afterAllResult`, the batch buffer | `CompiledSuite.Run`/`RunShard`, BeforeAll/AfterAll groups, ItParallel batches | testing.T subtests, reporter | subtests nest goroutines; a hook or body may park and go on after the verdict; FailFast, shards and filters cut the walk at any level | every spec reported once and in order; AfterAlls always run; reporter and test agree |
| Pooled Context and spec program (`specs/execution_plan.go` `runProgram`, `context.go`, `context_go.go`, `context_cleanup.go`, `context_errorf.go`, `failure.go`, `panic_report.go`) | `Context.failure`, `goState` (wait group, first failure and panic, Errorf list, cleanups), pooled backend wrapper | body, AfterEach, `ctx.Go`, `ctx.Cleanup`, `ctx.Errorf`, settle points, reset | tasks on goroutines, testing.T or a fake backend | tasks outlive bodies; a Goexit skips code; state is recycled for the next spec | each failure charged to its spec, told once; tasks awaited; cleanups all run |
| Program/Builder runner (`specs/runner.go`, `program.go`, `builder.go`, `scheduler*.go`, `minimal_runner.go`, `runner_bytecode.go`, `block_runner.go`) | worker-pool counters, result arrays | sequential, parallel and sharded runs | same Context | chunks claimed concurrently, failures replayed by index | each spec runs once; results in order |
| Shard configuration (`specs/sharding.go`) | none | parse flags and environment | group runner | off-by-one, partial configuration | shards partition the suite |
| Assertions (`assert/`, wrappers in `specs/`) | none between calls; in one: a tree of matchers, the walk's visited pairs and memos, the budget of one message | matchers, failure messages, structural diff | Context; property testing and the mock controller use the matchers | two paths to one verdict (by type switch, by reflection); a message recomputes what the verdict saw; recursion over cyclic values; maps whose keys tie | verdict and message agree with what a matcher means; a diff exists exactly for unequal values and does not depend on map order |
| Polling (`assert/poll.go`, `poll_clock.go`) | attempts, two timers; `ManualClock`: time and timers under a lock | `Eventually`, `Consistently`, `Advance` | clock, user callback, context | deadline, context and tick are ready together; a Goexit leaves through `poll` | a verdict is of attempts made in time; no timer is left; a poll ends |
| Mock controller (`mock/`) | expectations, call log, orders, `seq`, spies | `Expect` and its configuration, calls, `Verify`, `Reset` | Context (`Cleanup`, `Errorf`), user matchers, captors and callbacks | matched outside the lock, claimed under it; `Reset` while a call is under way | bounds hold; responses come in turn; a silent `Verify` means all was met |
| Snapshots (`snapshots/`) | one file per suite, per-process locks, temporary files | `Evaluate` (compare or update) | file system | read-modify-write, several processes, failing calls, kill, loss of power | the file is always whole; no update lost but to an undone rename; numbers compared by value |
| Property testing (`property/`) | generator seed | run, shrink | assertions | none concurrent | shrinks only to failing inputs |
| Report model (`report/`) | collected cases, totals | events in, renderers out | engines, files | ordering of events of several reporters | totals agree with cases |
| Report coordination (`report/coordination/`) | run directory: marker, shard files, results | initialise, publish, finalize, garbage-collect | file system, several processes | crashes between steps, late producers, retries of `link` | a run is finalized from exactly its shards; nothing is overwritten |
| Command line, release tools (`cmd/`, `tools/`) | none | flags, process plumbing | coordination | none concurrent | exit codes |

How they interact. The group runner walks the plan on one goroutine and calls the spec program for
each spec (`runSpec` -> `runExecution`, or `runParallelSpec` on a goroutine of its own for a batch
spec); a spec's outcome comes back as a failed bit, from which FailFast and the report follow. The
spec program lends its Context to user code; `ctx.Go` tasks and cleanups share its `goState`. The
mock controller, polling and snapshots are called from user code and report through the Context.
Reporters are called only by the walking goroutine. Failures of matchers, polls, mocks and snapshots all
become a fatal assertion or an `Errorf` of the Context, which is what `SpecCase` takes them for. The report files of several test processes are
merged by the coordination package after the processes have ended.

## Modules

| Module | Models | Source |
|---|---|---|
| `PlanTree` | a compiled plan: nested hooked groups, ItParallel batches, shard units | `group_hooks.go` (`hookGroup`, `buildTree`), `execution_plan.go` (`buildShardSelection`) |
| `GroupRun` | one `Run`/`RunShard` of such a plan | `group_hooks.go`, `execution_plan.go`, `spec_body_parallel.go` |
| `GroupRunProofs` | theorems about `GroupRun` | |
| `MCGroupRun` | the plans it is checked on | |
| `SpecCase` | one spec after another on a pooled Context | `execution_plan.go` (`runProgram`, `runSpecProgramIsolated`), `context_go.go`, `context_cleanup.go`, `context_errorf.go`, `failure.go`, `panic_report.go` |
| `MCSpecCase` | its task symmetry | |
| `SpecCaseProofs` | theorems about `SpecCase` | |
| `ExclusiveCreate` | what publishing a file promises | `report/coordination/publish.go` (comments and results) |
| `Publish` | the publish protocol, which implements `ExclusiveCreate` | `publish.go`, `linkcount_unix.go`, `writeAndSync` |
| `PublishProofs` | theorems about `Publish` | |
| `Coordination` | the directory of one run id and everybody who uses it | `marker.go`, `testmain.go`, `writer.go`, `configerror.go`, `finalize*.go`, `gc.go` |
| `CoordinationProofs` | theorems about `Coordination` | |
| `MCPublish`, `MCCoordination` | their instances | |
| `MockController` | a controller and its methods and spies under concurrent calls | `mock/controller.go`, `expectation.go`, `spy.go`, `stub.go`, `counts.go` |
| `MockProofs` | theorems about `MockController` | |
| `Poll` | `Eventually`/`Consistently` on a `ManualClock` | `assert/poll.go`, `poll_clock.go` |
| `PollProofs` | theorems about `Poll` | |
| `JSONNumber` | number literals and their canonical form | `snapshots/normalize.go` |
| `SnapshotStore` | the life of one snapshot file | `snapshots/snapshot.go` |
| `SnapshotProofs` | theorems about `SnapshotStore` | |
| `ValueDiff` | the walk that lists the differences of two values | `assert/structural_diff.go` |
| `ValueDiffProofs` | theorems about `ValueDiff` | |
| `MapWindow` | which map entries are shown, and how, when keys tie | `assert/structural_diff.go` (`selectSmallestMapEntries`, `walkMap`, `tiedUnits`), `tiebreak.go` |
| `GoValues` | the values matchers see, their equality and order | `assert/equal_values.go`, `order_matchers.go`, `collection_matchers.go`, `map_matchers.go` |
| `LeafMatchers` | matchers without sub-matchers: verdict and reason | `assert/*_matchers.go`, `matcher.go` |
| `Matchers` | trees of matchers: one assertion | `assert/evaluate.go`, `composite_`, `quantified_`, `projection_matchers.go` |
| `MCMock`, `MCPoll`, `MCSnapshot`, `MCValueDiff`, `MCMapWindow`, `MCMatchers` | their instances | |

### PlanTree

The specs are `1..NSpecs` in plan order. Group `g` is the range `Start[g]..End[g]` at nesting level
`Depth[g]`; `PlanAssumption` says what `registerHookGroup` and the compiler ensure: ranges nest or are
disjoint, a nested range is deeper, batches are runs of consecutive specs in one group. `UnitStart`
and `UnitNumber` are the numbering by which `buildShardSelection` deals units out: an outermost group
is one unit, every spec outside groups is one of its own. A plan with `NGroups = 0` and no batch is
the flat path of `runPlanSpecsInOrder`.

### GroupRun

| State | Code |
|---|---|
| `at`, `pos` | the scope whose range `runRange` walks, and its index `i` |
| `phase[g]`, `hookAt[g]` | how far `runGroup`/`runGroupBody` is for group `g` |
| `batch[i]`, `late` | `parallelSpecOutcome` buffer; bodies that parked and have yet to end |
| `failFastStopped`, `stopped` | fields of `groupRun` |
| `accFailed` | `afterAllResult.failed` |
| `failed` | which `*testing.T` have failed (`testing` propagates to parents) |
| `unwinding` | a Goexit on a `*testing.B` that unwinds `run` itself |
| `status`, `reports`, `marks`, `beforeCases`, `afterCases`, `suite` | what the reporter has seen |

| Actions | Code |
|---|---|
| `StaySilent`, `StartSuite`, `SuiteEvent`/`EndSuite`, `FinishTest` | `CompiledSuite.run`, `runSpecs` |
| `SkipUnselected`, `CutRange` | `runRange`'s guards, `reportRangeUnstarted` |
| `EnterGroup`, `FilterGroup`, `FinishGroup`, `CleanupCase` | `runGroup` |
| `BeforeAllReturns`, `BeforeAllFails`, `BeforeAllSkips` | `runBeforeAlls`, `runHook` |
| `LeaveBody`, `AfterAll` | deferred AfterAlls of `runGroupBody`, `runAfterAll`, `reportAfterAll` |
| `RunSpec`, `SpecParks`, `SpecExits`, `LateBodyEnds` | `runSpec`, `runExecution`, `failUnsupportedSpecBodyParallel` |
| `LaunchBatch`, `BatchSpecEnds`, `CollectBatch` | `runParallelGroup`, `runParallelSpec`, `emitParallelOutcome` |
| `HookParks`, `HookResumes` | a hook that calls `ctx.T.Parallel()` |

User code is a free choice from `Outcomes`; a subtest may be discarded by `-run`; a hook may leave a
failing `t.Cleanup` behind. Backends are a `*testing.T` ("T": every group and spec has a subtest), a
`*testing.B` ("B": everything runs directly, a Goexit unwinds the walk) and a fake.

### SpecCase

| State | Code |
|---|---|
| `at`, `hook`, `how`, `message` | progress and result of `runProgram`; whether a Goexit is unwinding it |
| `failure` | `Context.failure` |
| `gs` | `goState`, field by field (`used`: it has been allocated; `list`: `cleanups`) |
| `tasks` | each `ctx.Go` task, its spec and the backend wrapper it reports through |
| `bound` | the test each pooled `runnableBackend` is bound to |
| `tFailed`, `tSkipped`, `told` | what the tests have been told |
| `cleanups`, `ran`, `log` | histories: who registered, what ran, every failure in order |
| `reports` | `SpecFinished` events |

`StartCase` .. `EndCase` follow `runSpecProgramIsolated` and `runProgram` step by step: `BodyEnds`,
`Settle`, `HookEnds`, `SettleLast`, `PopCleanup`/`CleanupEnds`/`DrainDone`, `EndCase`. Any code of the
user may in the meantime call `ctx.Go` (`SpecGo`, `TaskGo`), `ctx.Cleanup` (`SpecCleanup`,
`TaskCleanup`) and `ctx.Errorf` (`EarlyErrorf` on a Context without a `goState`, `SpecErrorf` and
`TaskErrorf` on one that has it). Every section the code runs under `goState.mu` is one step.
`Context` and `runnableBackend` come from `sync.Pool`s: the Context is always the same one, the case
in which recycled state matters; the wrapper is any released one or a new one.

### ExclusiveCreate and Publish

`ExclusiveCreate` is a file that is created once and a verdict for each writer: "published" only for
its creator, "duplicate" only when there is a file. `Publish` is how `writeAndPublish` gets there.

| State | Code |
|---|---|
| `at` | progress in `writeAndPublish` and `publishExclusive` |
| `temp` | the temporary file of each name, that is of each PID (`tempName`) |
| `content` | how much of a writer's file has been written and synced |
| `file` | whose file has the final name |
| `will`, `verdict` | what is returned after, and was returned once, the temporary file is removed |
| `saw` | the link count a writer read |

`CreateTemp`/`CreateFails`, `WriteAll`/`WriteFails`, `LinkSucceeds`/`LinkExists`/`LinkFails`,
`CountLinks`/`CountFails` and `RemoveTemp` are the calls of the code and their results.
`LinkReplyIsLost` is an NFS server that makes the link and whose reply gets lost: the client sends
`link` again (external; the code's comment describes it). The refinement maps `file` to the abstract
owner and `verdict` to what each writer was told; all other steps stutter. `Crash` ends a process anywhere. PIDs are
those of hosts or containers that share a directory, so two writers may have the same one.

### Coordination

One run id, two invocations (whose test processes share a token) and `gc`. A file appears by one
atomic exclusive create, which is what `Publish` and its proof are for.

| State | Code |
|---|---|
| `dir`, `shardsDir` | the run directory (which one: a removed one may be recreated) and `shards/` in it |
| `marker` | `run.json`: token digest, `CreatedAt`, and whether its modification time is past retention |
| `record` | `config-error.json` |
| `shards` | the shard file of each package: token digest and `ProducedAt` |
| `initAt`, `prodAt`, `finAt`, `gcAt` | progress of `InitializeRun`, each test process, `Finalize` and `GC` |
| `epoch`, `created`, `stamp` | the clock, which moves when a preflight reads it: all that "stale" compares |
| `view` | what `Finalize` has read so far: marker, listing, accepted and rejected shards, targets done |
| `report`, `exit` | the target files, and what `ExitCode` makes of the result |
| `removal` | an `os.RemoveAll` in progress: the directory it has opened and the names it has read |
| `calm` | history: the invocations whose preflight found the directory `Unused`, and after which nobody forced a preflight, collected or failed |

| Actions | Code |
|---|---|
| `StartInit`, `Prepare`, `PublishMarker`, `InitFails` | `InitializeRun`, with or without `Force` |
| `ProducerStarts`, `ProducerDecides`, `ProducerRecords` | `ShardWriterFromEnv`, `recordConfigError`, `WriteConfigError` |
| `TestsEnd`, `PublishShard`, `ProducerFails` | `ShardWriter.Write` |
| `StartFinalize` .. `EndFinalize`, `FinalizeFails` | `Finalize` step by step, `ExitCode` |
| `RetentionPasses`, `CollectRun` | the marker ages; `GC` looks at it |
| `OpenDir`, `Unlink`, `RemoveDir`, `RemovalFails` | `os.RemoveAll` as the three callers use it (external) |

`os.RemoveAll` is not atomic: it reads the names of a directory, unlinks them one by one, and removes
the directory only if it is empty then; whoever writes in the meantime may find parts of it gone, and
what is written in the meantime makes it fail.

`HealthyRunIsReported` says who can rely on a complete report although the run id is shared: an invocation
whose preflight found the directory `Unused`. Both parts of `Unused` are needed. If the cleanup of another
invocation is still removing the directory when the marker is published, it may remove the new shards too;
if a test process of another one is past its check of the marker, it may still leave a record or a shard.
Either makes the new run's `Finalize` end without a complete report although all its packages published.
`Told` asks for shards stamped after this preflight, so that the report of an earlier run does not count.

### MockController

| State | Code |
|---|---|
| `exps` | every `Expectation`: its count bounds (`kind`, `min`, `max`), responses, `Do`, `got`, `firstSeq`, its captor; `age` numbers the `Reset`s before it |
| `calls` | every call: its arguments, its number, what matched it (`seen`), what it claimed and which claim it was |
| `seq`, `log`, `orders`, `verified` | fields of `Controller` |
| `spied` | the calls each `Spy` keeps |
| `stack` | the calls a goroutine is in; a `Do` callback makes nested ones |
| `errors` | what `t.Errorf` was told |

| Actions | Code |
|---|---|
| `Expect`, `SetCount`, `AnyTimes`, `AtLeast`, `AtMost`, `Return`, `Do`, `InOrder` | `Method.Expect`, `Expectation`, `Controller.InOrder` |
| `MakeCall`, `Record` | `Method.Call`/`Spy.Call`: a spy keeps its own copy, then `Controller.record` |
| `Match` | the copy of the expectations under the lock, and the user's matchers outside it |
| `Forbid`, `Claim`, `Reject` | the second locked section: prohibitions, `HasCapacity`, the claim |
| `ReportRejected`, `NotifyClaim`, `Respond`, `EnterDo`, `CallFromDo`, `LeaveDo` | what follows outside the lock |
| `Verify`, `Reset` | at any time, calls under way or not |

Every locked section is one step. The test declares its expectations while no call is under way or
logged, as `Controller`'s documentation shows its use; the code does not ask for that.

### Poll

| State | Code |
|---|---|
| `at`, `seen`, `verdict` | progress in `poll`, the outcomes of the attempts, `PollResult.Termination` |
| `now`, `timers`, `holder` | `ManualClock`: the time, all timers ever made, who holds its lock in `Advance` |
| `cancelled` | the context of the polls |

`Start`, `CheckContext`, `StartAttempt`, `Arm`, `AttemptEnds`, `SeeDeadline`/`SeeContext`/`SeeNext`,
`NotYet`, `Finish`, `StopNext`, `StopDeadline` are `poll` in order; `select` takes any channel that is
ready. An attempt matches, does not, panics or exits; its callback may itself `Advance` the clock.
`Advance`, `Fire` and `AdvanceReturns` are `ManualClock.Advance`, which fires due timers one by one with
the lock held, while a poll receives without it. `Invalid` is every early return of a bad call.

### JSONNumber and SnapshotStore

`JSONNumber` has `canonicalizeNumber` on literals (sign, digits before and after the point, exponent)
and what it is for: `SameNumber` compares the values exactly. `MCSnapshot` has TLC compare the two on every
pair of literals of up to two digits on either side of the point before the run starts.

| State | Code |
|---|---|
| `file`, `temp` | the snapshot file and the temporary file of each save: what they hold, and whether it is synced |
| `locks` | `fileLocks`, one per process |
| `at`, `name`, `value`, `data`, `verdict` | progress, arguments and result of each `Evaluate` |
| `updating`, `killed` | which processes run in update mode; which are dead |
| `replaced`, `power` | the files that were replaced since the directory was last written to the disk; whether there is power, and whether its loss brought one of them back |
| `stored`, `overlap` | histories: what a reader would expect to find; two processes updated at once |

`Lock`, `Load`, `Compare`, `CreateTemp`, `Write`, `Sync`, `Rename` are `Evaluate`, `Load`, `Save` and
`writeAtomic`; `Fail` is any of their error returns. `Kill`, `Flush` and `PowerLoss` are the environment.
What is not synced is torn when the machine loses power; and since `writeAtomic` syncs the temporary file and
never the directory, a rename may then be undone and any file come back that was replaced after the last
`Flush`. A later boot is the model started anew with whatever the file holds.

### ValueDiff

| State | Code |
|---|---|
| `heap` | what expected and actual reach: pointers, slices and maps (shared or cyclic), structs, leaves |
| `todo` | the recursion of `walk`, as the pairs and lines still due |
| `visited`, `entries`, `probed` | `diffWalker.visited`, `entries`, and the memo of `differs` |
| `asked`, `sub`, `subSeen`, `found` | a probe of `differs` in progress |

`AddLine`, `Descend`, `Stop`, `Recall`, `Ask`, `ProbeStep`, `ProbeEnds` take one pair each. `Below` is
`walk`'s switch; `ListItems`, `MapItems` and `ProbeMapItems` are `walkList`, `walkMap` and `probeMap`,
the last in any order of iteration. `Text` is `formatPaths`. How entries of one key are told apart is left
open here (`Ties`) and is `MapWindow`'s subject.

### MapWindow

One message: `jobs` are the maps it renders (`selectSmallestMapEntries`, `"window"`) or compares
(`walkMap`'s union, `"union"`). Keys that are NaN tie; entries of one key are ordered by fingerprints of
their values, for which a message has one budget.

| State | Code |
|---|---|
| `map`, `content` | the entries of expected and actual, and what a fingerprint of each value would read |
| `rest`, `top`, `kept`, `row`, `allowance` | the locals of the two passes, of `sortEntries` and `tieAllowance` |
| `left`, `memo`, `windows` | `fpMeter`: the budget left, the fingerprints and the windows remembered |
| `shown`, `start` | the lines given, and the budget each job found |

`ScanKey` and `ScanValue` take the entries in any order of iteration, `ReadValue` in the order of the
sorted union. `Fingerprint` is `fpBuilder.compute` on nodes instead of bytes.

### GoValues, LeafMatchers and Matchers

These are pure: one assertion is one step, by `Match` or by `Evaluate`. `GoValues` is `ValuesEqual`
(`DeepEqual` and its fast path), `compareOrdered` (integers of `W` bits, floats in halves, conversions
that overflow as the processor's do), `Lookup`, `ContainsElement` and the greedy pairing of
`sameElements`. `LeafMatches` and `Reason` in `LeafMatchers` are the verdict and the reason of each
matcher without sub-matchers, errors (chains and joins of wrapped errors, without `Is` or `As` methods of their own),
`BeCloseTo` and `MatchRegex` among them; the code finds the two by different paths, and a `FailureMessage`
may be asked for without a `Match` before it. `Matchers!Match` and `Evaluate`
are the two ways to ask, with the early exits of each composite; an answer carries the verdict, every
question asked on the way (`calls`: which matcher about which part of the value) and what the message
claims (`told`). `LeafMeaning`, `Meaning` and `ReasonHolds` are the reference they are checked against
and use none of the code's comparisons; only the predicate of `Satisfy`, which is the user's, is the same
set of values in both.

## Runs

All runs set `CHECK_DEADLOCK FALSE`: a test run, a poll, an assertion really ends.

| Run | Instance | Shows |
|---|---|---|
| `group_run` | 5 specs: an outer group of a batch of two and a marked inner group of one, a free batch, a free spec; two hooks of each kind on the outer group; shards 0, 1 and 3 of 4 (the last is empty) and the whole suite; all backends and outcomes, FailFast on and off; weak fairness | specs are reported once, in plan order and by their shard only; hooks and specs stay between the hooks of the groups around them; AfterAlls all run and make one case; a failed BeforeAll suppresses its subtree; reporter and test agree, a halted run is never green; FailFast cuts; entered groups are left and the run ends |
| `spec_case_real` | 2 specs, 1 AfterEach, 2 tasks, 2 cleanups, 1 Errorf on a `*testing.T` | no failure is lost in or leaks out of recycled state; tasks are awaited and cleanups run, in that order; the reported message follows the documented rule |
| `spec_case_fake` | 2 specs, 2 tasks on a fake backend; weak fairness | each failure is told once; every spec is reported |
| `spec_case_skipped_cleanup` | 1 spec, 2 AfterEach hooks, 1 cleanup | a violation, see [Findings](#findings) |
| `publish_nfs` | 3 writers, 2 of them with one PID | published files are whole and lost replies are no duplicates; publishing is an exclusive create (refinement) |
| `coordination_shared_id` | invocation `a` (packages `p`, `q`, cleans up) and `b` (package `p`, may use `--force`), 2 targets; either `a` initializes twice, or `b` has no preflight, or gc runs, or any operation may fail | reports hold the invocation's own shards, and exit 0 means complete reports; cleanup prunes nothing unreported; a healthy run whose preflight found the directory unused is reported whatever the other invocation does |
| `mock_calls` | 2 goroutines, a method and a spy, 2 expectations, 3 configurations, 2 calls, 1 `Reset` | claims stay within bounds and prohibitions win; responses come in turn; a `Verify` that is silent means everything was met |
| `poll_clock` | one poll of either kind, timeout 4, interval 1, time to 7 in steps of up to 4; weak fairness | the verdict is of attempts made in time, the timeout wins ties; timers are stopped however the poll ends; it ends |
| `snapshot_file` | 3 specs of 2 processes, 2 names, files absent, spoilt or written by hand; every set of updaters | the file is whole whatever fails or dies; no update is lost unless two processes update at once or a loss of power undoes renames, and then only the last ones are; verdicts compare numbers by value, and what an update passed with is in the file |
| `value_diff` | all heaps of 2 nodes with up to 2 elements or entries, one NaN key and two keys that look alike; depth limit 1, 2 entries; weak fairness | there is a diff exactly for unequal values; no difference is hidden and lines read differently; the walk ends |
| `map_ties` | maps of up to 4 entries, 3 keys of which 2 are NaNs, 3 fillings of the values, budgets 6, 30 and 80; rendered twice, or compared and rendered | lines do not depend on iteration order or memos and are those of a full sort; no map spends more than its share |
| `matchers` | every order comparison of 3-bit integers and floats, and closeness of them; all leaf matchers on small values, error chains of up to three; trees of up to three levels on lists of up to three | verdicts are what the matchers mean; nothing is asked twice; every claim of a failure message is true |

Why the bounds are enough. The walk of `GroupRun` treats a scope by where it lies relative to others
(nested, after, batch, free), and the plan has each relation; two hooks of a kind are needed to see the
second run after the first failed, and a mark is at most one scope deep. In `SpecCase` interference needs
one spec that leaves something behind and one that finds it, and races need two tasks (one may start the
other); two cleanups are needed to see the list drained after a Goexit. `MaxCleanups` and `MaxErrorfs`
bound user code, not the program. In `Publish` a lost reply concerns one writer and its own file, a clash
two, and a PID in use a third. In `Coordination` one invocation owns the run and one intrudes; two packages
and two targets make partial sets, one run id used twice makes stale shards, and the four environments
are separate only because all at once exceed TLC's reach in minutes: gc removes one directory at most.
In `MockController` two calls race for one expectation, or for two that overlap, or meet a `Reset`; three
configurations build a range, a response list or a prohibition beside an expectation
(`MaxExps`, `MaxConfigs`, `MaxCalls`, `MaxResets`). In `Poll` the polls share only the clock, and the
test's `Advance` stands for the others'; four intervals fit in a timeout, one step of the clock can pass
all of them, and a poll starts at up to 3 (`MaxNow`, `MaxStep`). In `SnapshotStore` two specs share a lock
and a third does not. `ValueDiff` needs two nodes for a cycle through a pair, for sharing and for a memo
that is asked twice; its limits are small so that they bite. `MapWindow` shows at most `K` = 2 entries: a
window that is full, one tie class cut by it and one wholly inside; its budgets give no allowance, one
that cuts and one that does not. In `Matchers` 3 bits have every boundary of a width, and quantifiers treat an
element by its verdict only, so that three elements and two leaves give all patterns.

Fairness. `GroupRun` assumes `WF_vars(Next)`: user code ends and Go runs a goroutine that can run.
Nothing stronger is needed because no two of its goroutines compete for one step; what a parked
goroutine waits for is in the guard of the step that resumes it. `SpecCase` assumes weak fairness of
the spec goroutine and of each task: Go's scheduler runs both, and the contract of `ctx.Go` asks that
tasks end. A body that blocks for ever is outside both. `Poll` assumes that polls and a call of `Advance`
go on and that the test keeps letting time pass, which is what a user of a `ManualClock` has to do.
`ValueDiff` is one function call and goes on until it returns. The others have no liveness properties and no fairness:
processes may die anywhere, a test may stop calling.

Properties that depend on a Goexit in an AfterEach hook (`ChargedToItsSpec`, `SettledInOrder`,
`MessageRule`) are stated for specs that neither met one nor follow one that did
(`Intact`); the runs do include such hooks, and `spec_case_skipped_cleanup` shows what happens then.

## Proofs

| Theorem | Says, for every value of the constants |
|---|---|
| `GroupRunProofs!TypeCorrect` | every variable keeps its type |
| `GroupRunProofs!SpecsReportedInPlanOrder` | reports come once and in plan order, for every plan, backend, shard and outcome |
| `GroupRunProofs!HooksRunInsideOuterGroups` | while a group has hooks, specs or cleanups to run, every group around it is between its BeforeAlls and its AfterAlls |
| `GroupRunProofs!HooksAlwaysAccountedFor` | a group is past its teardown only when all its AfterAlls have run, and makes at most one BeforeAll and one AfterAll case |
| `GroupRunProofs!FailedBeforeAllsSuppress` | the specs of a group whose BeforeAll failed are and stay reported suppressed |
| `GroupRunProofs!EverySpecIsAccountedFor` | a run that emits SuiteFinished has reported each spec of its shard once and no other; a group is entered only by the shard that owns all of it |
| `GroupRunProofs!ReportsAgreeWithTheTest` | a completed run has a failed case exactly when its test failed; one that left specs unreported fails its test and never emits SuiteFinished |
| `GroupRunProofs!FailFastAlwaysCutsTheRest` | under FailFast nothing after a failed spec or hook runs, except in the batch in flight |
| `SpecCaseProofs!TypeCorrect` | every variable of `SpecCase` keeps its type, and the task counter counts the running tasks, for any specs, hooks, tasks and endings |
| `SpecCaseProofs!SettlesInOrder` | hooks follow the body's tasks and cleanups all tasks; no cleanup runs twice, and those of a reported spec have all run |
| `SpecCaseProofs!FailuresAreCharged` | a spec is reported failed exactly when something of it failed, with a message of its own |
| `SpecCaseProofs!DeliveriesAreOnce` | a backend hears of each failure once, and of every Errorf |
| `SpecCaseProofs!MessagesFollowTheRule` | the message of a report is the failure the documented rule picks, and it carries a panic's output exactly when something of the spec panicked (unless the panic was lost to a Goexit) |
| `PublishProofs!TypeCorrect` | every variable of `Publish` keeps its type, for any writers and PIDs |
| `PublishProofs!PublishedFilesAreTrue` | a file with the final name is complete and synced, and who read its link count is told of a duplicate only for another's file |
| `PublishProofs!PublishRefines` | `Publish` implements `ExclusiveCreate` |
| `CoordinationProofs!ReportsAlwaysTrue` | a report holds only shards of the invocation that wrote it, and after a `Finalize` that exited 0 every target holds exactly the expected packages |
| `CoordinationProofs!TypeCorrect` | every variable of `Coordination` keeps its type, a shard lies under the name of its package, and a new directory is never taken for a removed one |
| `CoordinationProofs!NothingIsPrunedUnreported` | no step of a cleanup that alone works on the directory removes a shard of its own run that is not in every report (an action property) |
| `CoordinationProofs!HealthyRunsAreReported` | an invocation that found the directory unused and has been left alone by `--force`, gc and failures has reported itself completely once its packages have published and its `Finalize` has ended |
| `SnapshotProofs!TypeCorrect` | every variable of `SnapshotStore` keeps its type |
| `SnapshotProofs!FilesAreWhole` | the snapshot file is never a part of what was written, whatever fails, is killed or loses power |
| `SnapshotProofs!NoUpdateIsLost` | as long as no two processes save at once, the file holds the last value saved under each name, or after a loss of power what it held before a save that had not reached the disk |
| `SnapshotProofs!VerdictsAreTrue` | where canonical forms are exact, verdicts of comparisons are true by numeric value, and what an update passed with is in the file, or the value of another update of the name that passed, unless two processes overlapped or a rename was undone |
| `MockProofs!CallsStayWithinBounds` | each claim has a number of its own, none goes beyond the maximum, and what a prohibition matches claims nothing |
| `MockProofs!RepliesAreInTurn` | the log is numbered without a gap, and finished calls have had the responses of their expectation in turn |
| `MockProofs!SilenceAlwaysMeansMet` | a `Verify` that reports nothing, nothing having been reported or being under way, means all was met |
| `PollProofs!TimersAreReleased` | an ended poll leaves no pending timer; a running one only its deadline and the timer of its latest attempt |
| `PollProofs!VerdictsAreObserved` | a verdict agrees with attempts made in time; of an interval and a timeout due together the timeout wins |
| `ValueDiffProofs!DiffTellsTheTruth` | a diff exists exactly for the values `DeepEqual` calls unequal, with at most one entry beyond the limit, for every heap, shared and cyclic ones included |
| `ValueDiffProofs!NothingIsHidden` | when all entries are shown each difference the two values lead to has a line of its own or lies below a pair said to differ; and lines for different places read differently |

The proofs assume the `ASSUME`s of `PlanTree`, `GroupRun`, `SpecCase`, `Publish`, `Coordination`,
`SnapshotStore`, `MockController`, `Poll` and `ValueDiff` (which TLC evaluates in every run) and, in
`VerdictsAreTrue` only, the hypothesis named there. `CoordinationAssumption` says, besides what the constants are, that there
are finitely many invocations and that "no file" is not a file;
`DiffAssumption` that leaves are not nodes and that keys of maps are neither positions nor `Nil`, which marks the
segments that are no keys. Each invariant below was first checked by TLC
on the instances of the runs.

"Reported once" is not inductive: any of the seven places that report could report an
old spec again. `CursorInv` strengthens it: a spec is unreported exactly from the cursor `pos` on, the
batch being collected lies just before the cursor, and the scope the walk is in contains the cursor.
Each action then either reports specs from `pos` on and moves `pos` past them, or reports nothing.
The hook theorems rest on `HookInv`, which ties `phase[g]` to `hookAt[g]` and to the number of cases
emitted: a BeforeAll case is emitted on the only step out of `"before"` that fails, an AfterAll case on
the last AfterAll or, for a failing cleanup, on the step that leaves `"drain"` if none was made before.

`InsideOuterGroups` rests on `WalkInv`: every active group that is not parked contains the scope the walk is
in, a parked one has stopped the run, and the walk is in the body of every group around it. A batch
spec runs on a goroutine of its own, so `BatchInv` is needed too: as long as an outcome is in the buffer the
walk stands before its batch. The lemma `BatchHoldsTheWalk` says that until the batch is collected no step
moves the cursor, leaves a scope or stops the run. Shards are about `AccountInv`, which counts the reports behind the cursor;
that a unit is never cut in two is pure arithmetic of plans (`UnitOfGroup`, `UnitOfBatch`, and `GroupIsWhole`, `BatchIsWhole`: the
numbers of the specs of a group or batch agree). `AheadInv` says that what is ahead of the cursor has no status.

The agreement of reporter and test has two directions. That a failed case means a failed test is carried by
every step (`AgreeInv`). The other direction is only true in the end: a failure may be `Owed`, seen by the test
but not yet by the reporter, by a group whose AfterAlls go on, a BeforeAll in progress or an outcome in the buffer.
`NextFailureMoves` lists what each step does to failures, `PendingEnds` and `OwedEnds` say that what is owed is
paid or halts the run, and when the run has finished no group is active and nothing is in the buffer.
For FailFast, `ChainInv` says that active groups are nested and that the cursor stays inside them
(`CursorStaysInside`), and `CutInv` that while a BeforeAll runs nothing has failed before it: else its failure
would turn specs already cut into suppressed ones. `StatusMoves` then lists the statuses a step may give, and where.

The theorems about a case need to know which cases can leave something behind, and only one kind can:
`TaskInv` says that a running task is of the current case, or of one abandoned by a Goexit in an AfterEach
hook or following such a case, because a settle point passes only when the counter, hence (`TypeCorrect`)
the set of running tasks, is empty. `CleanupInv`: a registered cleanup has run, or is on the list of the
current case, or is of an abandoned case. `ChargeInv`: while no case was abandoned, the Context, its
goState and its test hold a failure exactly when the current case has had one, and all they hold is of
that case; this is what a reset that forgets a field would break. `DeliverInv`: what is still to be
delivered has not been and is listed once, and an Errorf is delivered, or pending in the running case; a case
ends with nothing pending because its last step is a fold.

`MessageRule` ranks all failures of a case once it is over; the code decides at each settle point and never
looks back. `RuleInv` says what it holds in between: `message` is the first of the panics `SeenPanics`,
those of the spec and, of earlier settle points, of tasks; `failure` has the last failed assertion of the spec or else the
first of what is `Settled`; the goState holds the tasks' first panic and first failed assertion and the queued
Errorfs of the open settle point. Why the first of all is known at each point is `SettledSooner`: what
is settled ranks strictly before what is settled now, by `StagesOK`. A rank is compared as a class
and a place in the log (`Sooner`, `Ranks`), since the rank itself changes as the log grows. What tasks
recorded is only said for a case without a panic (`GatheredOK`): a failed assertion that cannot be delivered
becomes a panic, and its place stays in `rec`.

The publish theorems rest on an invariant of four parts besides the type. `TempIsOwn`: from its create
until its remove the name of a writer's PID is that of its own file; this is where `O_EXCL` is needed,
and why a shared PID does no harm. `ContentInv`: a file about to be linked is whole, hence
`WholeOrAbsent`. `VerdictInv`: what a writer has decided to return is already true of `file` and stays
true, since nothing replaces `file`. The lemma `CountTellsOwnLink` joins them: a link count of 2 is read
exactly by the writer whose link was made, which is the step a refinement to an exclusive create turns
on.

That reports are true needs nothing about who owns the directory: it may change hands or vanish at
any step. What makes it hold is private to a `Finalize` and follows its progress (`AcceptedOK`,
`ReportOK`): what it accepted carries its own token and an expected package; nothing is rendered before
the shards are read; while it renders, the targets written so far hold what it accepted; it is cleaning
up, or has exited 0, only when all of them do and nothing expected is missing.

Types need a pigeonhole (`NewDirectory`): directories in use are numbered by what still holds them open, and there are more
numbers than removals. `PruneInv` follows a cleanup: while an invocation finalizes, its test processes have
ended, so each of its shards still there was listed, then accepted, then rendered to every target.
The healthy run is an argument about ownership. While a calm invocation owns the run (`Owns`: the marker is
its own) nobody else may be doing anything that could disturb it (`Alone`), each shard in the directory is one its packages
published since its preflight (`ShardsOK`), and its `Finalize` follows them (`FinalizeOK`). Only its own cleanup gives the run
away, and by then it has told what there was (`HealthyOK`); from then on its report is kept whoever moves in
(`GivenAwayKept`). `Unused` is what makes this true at the step that publishes the marker; later steps keep
it because each of the others checks the marker first (`OtherProducer`, `OtherFinalize`). An earlier statement of the
property, without `Unused`, could not be proved, and TLC confirmed the two counterexamples
described under [Coordination](#coordination).

The snapshot theorems rest on three invariants. `SaveInv`: a spec past the lock that is still alive holds the
lock of its process, and what it is about to rename is what it wrote, whole and synced; so whatever has,
or had, the final name is synced, and a loss of power leaves a whole file there, this one or one that was
replaced (`AfterPowerLoss`). `UpdateInv`: while no two processes have overlapped, what an updater is about to save
is what the file holds with its own value set, and each replaced file held what was stored then. An updater
holds its process's lock from its load to its rename, so only another process can rename in between, and
that is an overlap by definition. `VerdictInv`: a verdict is given on the last step of a spec, from data
that stay as they were, and once an update has passed the file holds an object as long as there is power, so that
no later save starts anew and only one of the same name can change what is stored under it. That canonical forms are exact, the hypothesis `Exact`, is a statement about digits that needs
induction; TLC checks it on all literals of a few digits.

The mock theorems count claims. `ClaimInv`: the calls that claimed an expectation are as many as its `got` and
numbered 1 to `got` without a repeat, which never exceeds its maximum; it is kept because a claim looks at the
capacity and increments in one step under the lock, whatever the caller matched before. `ProhibitInv`: a
call that has looked for expectations has seen every one of its age that accepts it, and one that has seen a
prohibition claims nothing. `FreshInv` makes both survive the test's declarations: as long as the log is empty,
the expectations of this age are unclaimed and no call that could claim one is under way, so a maximum or
a response set now is set before the first claim.
`SilenceInv` is what makes silence mean something: a method's call that ended without a claim was reported; an
expectation of this age was reported unmet only by a `Verify` that has been, so the first one that
says nothing found none unmet; and a captor holds, each once, the claims of its expectation but for the calls between their
claim and `notifyClaim`, of which there are none once no call is under way.

The polls' proofs turn on the order in which the clock fires timers. `FireInv` says that what has fired was due,
and that a pending timer is due later than every fired one, or then but created after it. A poll's deadline
is its oldest timer (`DeadlineOK`), so when interval and timeout are due together and the interval's timer
has fired, the deadline's has fired too, and the second look of `NotYet` finds it: without that look the step to
the next attempt breaks `NextOK`, which says that the timers of all attempts but the last were received
and due before the deadline. `SeenOK` ties the verdict to what the attempts returned.

The diff is about the greatest set of pairs that gives no reason against itself, which a walk with a visited set
only ever approaches from below. `Explained` says how near it is: while no line was given, some set `R` that holds all visited
pairs would be consistent if only the pairs that wait were equal; so when nothing waits any more `R` is consistent
(`NothingLeft`). `Fine` is the converse: a walk of equal values has only equal values before it, and nothing to say.
One lemma, `ExplainStep`, carries every step of walk and probe: a pair is settled by a set `E` and by what
it puts ahead, where `E` is the pair itself when it is taken apart and all of `Equals` when a probe answered that nothing
differs, which is why an answer of the memo (`MemoInv`: exactly inequality) may be used whatever the walk had visited.
`BelowTells` says of each kind of node that its items list all that differs in it; for the maps this is
`FlattenHolds`, an induction over rows, and for a probe a pigeonhole, since it compares sizes and then only looks up
what expected holds.

That a diff hides nothing is two invariants more. `HideInv`, as long as there is room: some set `R` of pairs taken
apart holds what was visited, and each of its pairs is `Covered`: a difference in one of its slots has its line or is
due, and a pair in a slot is in `R`, waits, or lies below a pair said to differ. A probe that found nothing adds all of
`Equals` to `R` (`CoverEqual`); when nothing waits, `R` and what lies below the entries are closed, so they have all that
`Reach` does (`CompleteEnds`). `TrailInv` is about paths, which name no pointer: a path has a trail of pairs that its
segments leave, each where a chain of pointers from the one before `Landed`. Such a chain ends at one pair only
(`OneLanding`), so paths that read alike leave the same pairs, one after the other (`TrailsMeet`); of the segments that
leave one pair, two read alike only if they are one, since ordinals count the segments shown that look the same
(`OrdinalTells`, `WordTells`).

Only model-checked: liveness (`EnteredGroupsAreLeft`, `EveryCaseIsReported`, `EveryPollEnds`,
`WalkEnds`), which is out of the prover's reach; the finding's `CleanupsAlwaysRun` in `SpecCase`; that canonical forms of
numbers are exact, which is induction over their digits; map windows and matchers. `GoValues` and the modules that extend it are recursive over values, which TLAPS has no backend for.

## Findings

`spec_case_skipped_cleanup` shows that a fatal failure in an AfterEach hook keeps `ctx.Cleanup` functions
from running; `PROJECT.json` quotes the lines. More disagreements of the code with its documents show in
the models and have no run:

* a hook that parks (`HookResumes`) is resumed after the hooks of the groups around it ran, not inner
  group first as `docs/SUITE_HOOKS_CONTRACT.md:197-199` has it; `InsideOuterGroups` leaves it out;
* an ItParallel spec that parks is reported passed before the run is stopped (`CollectBatch`), against
  `specs/spec_body_parallel.go:14-15`;
* a task started by an AfterEach that then fails fatally is not awaited and fails the next spec's test
  (`SpecCase`, where `Intact` excludes it), against `docs/DSL.md:548` and `:557-558`;
* a task's panic in a spec whose body ended in a fatal assertion is reported without its stack
  (`MessageRule`), against `docs/DSL.md:549-550`;
* a spec that FailFast keeps from starting is reported, as unstarted (`CutRange`), where
  `specs/execution_plan.go:351-352` says it is not reported at all; a declared skip or pending mark in a
  group FailFast never reached is reported as such up front, not unstarted as
  `docs/SUITE_HOOKS_CONTRACT.md:306-308` has it;
* an AfterAll that skips itself after a spec failed makes a hook case (`CountsAsFailed`), where
  `docs/SUITE_HOOKS_CONTRACT.md:280` says only a failed hook does;
* on a `*testing.B` a Goexit in a hook unwinds the whole run (`unwinding`), where
  `docs/SUITE_HOOKS_CONTRACT.md:426-427` keeps H7 ("must not abort sibling groups") for it;
* a config-error record written while there was no marker (`ProducerRecords`) fails a run of that id
  initialized later, against `report/coordination/testmain.go:106-107`;
* gc looks at the marker and removes the directory later (`CollectRun`, `OpenDir`), so that it can remove a
  fresh run that replaced the old one, against `report/coordination/gc.go:23-24`;
* a cleanup that fails half-way leaves the marker and some shards: the `Finalize` that is run again then
  replaces the complete report by an incomplete one (it does exit 1);
* `InOrder` compares the numbers of the calls that claimed first (`Misordered`), and concurrent calls may
  claim in another order than they were made, where `mock/controller.go:97-98` speaks of calls.

## Not modelled

Components: the Program/Builder runner, the second engine beside the `Describe` one: its
parallel steps run specs on goroutines and replay their failures on one test afterwards, by index; suite
construction and shard configuration, single-goroutine code whose result `PlanTree` takes as given; property testing,
whose content is in its generators; the report model and its renderers, folds over the cases of a run and
pure output; the command line and release tools, flags and process plumbing; benchmarks and examples.

Left out of `GroupRun`: names of subtests (`computeParallelSubtestNames`), the focus policy's failure
at the end of a run, the hook Context's pool, and message texts. Of `SpecCase`: the assertion
operators, `ctx.T.Cleanup`, a cleanup that asserts through a finished task's Context, `*testing.B`
(where a Goexit unwinds the run: `GroupRun`), parked bodies (also there). Of `Coordination`:
identity and directory-safety checks, coverage, what a shard holds besides token, package and time,
shards whose name and package disagree, a token `init` generates anew for a second preflight, and two
shards that claim one package. Of the mock controller: the typed accessors of `Result`, diagnostics, and
`Mock`, which is a map of spies. Of polling: the real clock and the wording of a result. Of snapshots: JSON values
other than numbers, indentation, and the name of the file.

Of assertions: the JSON matchers, and the wording and
rendering of messages. What stays is abstracted in these ways: floats are exact halves, and what is lost
when an integer is too large for a float is not seen; no two values a matcher compares share
memory; `Project` is modelled on a `[]any` whose projection is its first element; `MapWindow` counts nodes where the code
counts bytes and nodes, and knows nesting of one level.
