# Proust in TLA+

Proust runs a PHPUnit suite in parallel.  A Rust process forks one PHP master
(`php/worker_fork.php`); the master loads the project once and forks a worker
per slot.  Rust streams *batch plans* down one pipe per slot and reads outcome
lines back from another.  The promise is exact test-count parity with PHPUnit,
whatever the tests do to the processes that run them.  This directory models
everything between the parsed project and the report that has a part in keeping
that promise, the clone databases the workers use, and the mutation driver.

## Inventory

| component | code | state | operations | modelled by |
|---|---|---|---|---|
| dispatcher | `crates/runner/src/runner.rs`: `run_resumable`, `requeue_unrun`, `synth_error_outcomes`, `ReceivedOutcomes` | queue of plans, plan in flight per slot, received set, attempts per test, stop flag, report | seed, handle an outcome / `batch_done` / `slot_died` / end of file, watchdog, join, hand back | `Dispatcher`, `Suite` |
| its contract | the callers' view of `run_resumable` | verdicts, what is handed back | deliver verdicts, return | `ReportContract` |
| fork pool | `crates/runner/src/fork_pool.rs` | pipe ends, the master's pid, `reaped` | `write_batch`, `close_slot`, `terminate`, `wait`, `master_alive` | `ForkPool` |
| fork-master, worker | `php/worker_fork.php` | `$slotPid`, `$slotClosed`, `$childPids`; current batch, batches processed | fork, SIGCHLD handler, wait loop; read a plan, run a class, report it, recycle, shutdown handler | `WorkerFork` |
| respawn loop | `main.rs` 1395-1457 | pending tests, respawn count, all outcomes | run, respawn, give up | `Respawn`, `Pipeline` |
| discovery (partly) | `crates/discovery/src/lib.rs` | none | parsed classes to test cases: inheritance chains, traits, vendor bases, flags, tautologies | `Discovery` |
| command line and selection (partly) | `main.rs`: `is_impacted`, `real_main`, `db_preflight`, `clamp_php_workers`, `single_process_eligible`; `runner.rs`: `matches_filter` | none | `--dirty`, groups, filters, database preflight, worker count, inline path | `Selection` |
| queue builder | `runner.rs`: `build_queue`, `dependency_chains` | none | cases to plans | `Planning` |
| planner, executor (partly) | `MethodPlanner.php`, `TestExecutor.php` | results of methods already run | order by `@depends`, expand data sets, skip, run | `Execution` |
| clone leases | `resource_lease.rs`, `provision_db.php`, `php/src/Provisioning/` | clone databases, registered names | sweep, clone, connect, drop | `Leases` |
| mutation driver (partly) | `mutate/`, `php/mutation_run.php` | mutants, verdict files, children | fork, judge, alarm, reap, fall back | `Mutation` |
| outcome encoding (partly) | `php/worker_fork.php` | none | the kinds of line | `ForkPool` |
| worker environment, configuration, analyzer, mock baker, reports, coverage, profiler, one-shot worker | the other crates and scripts | none that survives a call | pure computation, files | not modelled, see below |

How they interact: `main.rs` discovers and selects the cases, provisions one
clone per worker, spawns a master and calls `run_resumable`, which builds the
queue and feeds the slots.  The dispatcher and the workers share only pipes;
the master and the workers only exit statuses and SIGCHLD; runs share only the
database server.

What is hard here: workers die at any instant, by the tests' own doing
(`exit`, fatal error), by a signal, or on purpose (recycling); the death is seen
by the master, told on a pipe shared with the dead worker's successor, and acted
upon by a third process that meanwhile may have dispatched something else.  A
plan can be half reported, or unread, when its worker dies.  The master itself
may die, leaving live workers.  A class is cut into plans that run anywhere in
any order.  A crashed run leaves databases under names a later one may reuse.
The correctness of each part:

* dispatcher - every test is reported exactly once or handed back unreported;
  a test is started at most twice; `run_resumable` returns;
* pool, master and worker - a slot's plan is in one place at a time, and a
  notice speaks of the plan in flight;
* respawn - the same report over several masters, in boundedly many rounds;
* discovery, selection, queue builder, executor - the report has the rows and
  verdicts of one undivided run of each class;
* leases - a clone is used by its run only, and dropped by it or a later sweep,
  never under a connected one;
* mutation - each mutant has the status it earned, with bounded children.

`PROJECT.json` lists each hazard at its line and the properties that cover it,
or the reason why none does.

## Modules

| module | models | extends or instantiates |
|---|---|---|
| `Suite` | tests, classes, rows, plans; the pure decisions of `requeue_unrun` and `covers` | |
| `ForkPool` | pipes and processes shared by both sides | `Suite` |
| `Dispatcher` | `run_resumable` | `ForkPool` |
| `WorkerFork` | the fork-master and the workers | `ForkPool` |
| `Runner` | both sides composed, and all properties of the composition | `Dispatcher`, `WorkerFork`; instance of `ReportContract` |
| `ReportContract` | what `run_resumable` promises, without workers | |
| `Respawn` | what `main` promises about a whole run, over that contract | instance of `ReportContract` |
| `Discovery`, `Selection`, `Planning`, `Execution` | the four sequential stages, as operators | `Planning` and `Execution` extend `Discovery` |
| `Pipeline` | a whole run from parsed classes to report, over the stages | the four stages |
| `Parity` | the reference and the properties of `Pipeline` | `Pipeline`; instance of `Respawn` |
| `Leases` | clone databases of several runs on one server | |
| `Mutation` | the fork-master driver and its fallback | |
| `MCRunner`, `MCPipeline`, `MCLeases`, `MCMutation` | suites, projects, symmetry and sorting for TLC | |
| `RunnerProofs`, `RecoveryProofs` | theorems about `Runner`: pipes and slots; counting and recovery | the second extends the first, that one `Runner` |
| `PlanningProofs` | theorems about the operators of `Planning` and `Execution`, and the induction they need | those two |
| `DiscoveryProofs` | theorems about the operators of `Discovery` | `PlanningProofs` |
| `PipelineProofs` | theorems about `Pipeline` | `Parity`, `DiscoveryProofs` |
| `RespawnProofs`, `LeasesProofs`, `MutationProofs` | theorems about those modules | each its module |

The chain of abstraction: `Runner` (pipes and processes) implements
`ReportContract`; `Respawn` loops over that contract and is itself an instance
of it with nothing handed back; `Pipeline`, which knows classes, data sets and
dependencies but no pipes, implements `Respawn`.

How state and actions correspond to the code.

`Runner`:

* A test method is a number, in the order `build_queue` lays methods out, so a
  plan is a set of tests; the *entry* a worker is on is the plan's tests of one
  class.  `queue` is a set: which waiting plan a slot gets is left open, which
  covers the deque's order, the fingerprint scores and the 32-plan scan window.
* `pairs` and `classes` are `ReceivedOutcomes`.  `streamed`, `classRows` and
  `synth` are the report, kept as counts so that a repeated outcome shows.
* `inbox[s]`, `outbox[s]` are the slot's pipes.  The streams opened on
  `php://fd/N` duplicate the descriptors; the originals stay open in the master
  and every child, so end of file and `EPIPE` come only when all are gone
  (`AllExited`).  A worker that reads a line may have read the next one too
  (`buffer`), which dies with it.
* All rows of a class travel in one message, since nothing happens between the
  writes - except a kill, which leaves any prefix of them (`Prefixes`).
* `Reap` is one turn of the SIGCHLD handler's loop: notice, then the
  replacement, or closing the slot.  `wake` is the pending signal; it is lost
  before the handler is installed.  The code writes the notice and then forks
  (`worker_fork.php:632`); a plan sent in between waits in the pipe, as it does
  for a replacement that has not read yet.  `ForkWorker` never fails: a failed
  first fork ends the master (`worker_fork.php:571`) before there is a run.
* `MasterAlive` answers what is so.  The code asks again for 50 ms before it
  believes that a master whose output ended is alive (`fork_pool.rs:427`); a
  master that takes longer to go is not modelled.
* `mode` is `--max-batches-per-child` > 0, = 0, or `--inline`.
* What tests do is a constant (`Fatal`, `Exits`, `Hanging`, `Throwing`,
  `Failing`); kills from outside are actions bounded by `MaxKills` and
  `MaxMasterKills`.

`Pipeline`:

* A scenario fixes the project (classes with parents, traits, flags, methods
  with dependencies, providers and outcomes), the options, and how many workers
  and masters may die.  `FoundIn` and `ChosenIn` are computed once from it, as
  the start-up code does.
* A test is a class and the index of a case in it.  A plan is a set of batches
  (a class and some of its methods), and `force` for `force_exit_after`.  A
  worker runs the batches in the order `build_queue` packed them, which is
  determined by the sizes of the classes (`Foremost`).  A slot has a `plan`, the
  batches `left` of it, and `stained` once code of a stateful or isolated class
  ran in the process.
* Discovery works on two sets of classes.  `Graph`, the inheritance graph, decides
  which classes are test classes: the test directories, the autoload-dev
  directories (`supplement`) and, with a PSR-4 map, the vendor bases resolved from
  both.  `FoldSources`, of which `emit_test_cases` takes methods, traits and flags,
  lacks the autoload-dev classes.  A vendor trait is in neither.
* Loops and recursion of the code (`build_queue`'s loop over the classes,
  `topoSort`'s depth-first search with its stack, union-find, inheritance
  chains) are recursive functions over the number of turns or the nodes.
* `phase` is where `main` is: `start`, `planning` (in `build_queue`), `running`,
  `returned` (from `run_resumable`), then `reported`, `refused` (`db_preflight`
  aborts) or `failed` (a fresh master cannot be spawned).
* Running a test is four phases, constructor, body, output and teardown; a data
  set or test method is reported by what they did.  `starts` counts dispatches per
  call and in all; `hookCalls` counts `setUpBeforeClass`.
* A class is run and reported in one step, and a plan is with the queue, with a
  slot, or `lost`: pipes and signals are `Runner`'s subject.

`Leases`: a clone's name is the pid and slot, as in the code, so a reused pid
collides.  `owner` says which run created a database, `conns` who is connected,
`phase` where a run is, `todo` which names its loop has still to visit,
`probed` the database a sweep has found idle and not dropped yet.  `listed` is the
set of names that match `staleClonePattern`: the sweep sees no others.  On SQLite
a deletion may fail without a word (`@unlink`), in the sweep and in the teardown;
`stuck` holds the files it left.  A clone that fails may leave its database
missing or half-made.  `overlapped` and `owed` are history for the properties.  A
killed run's workers stay connected until `OrphansEnd`; a run may also be killed
alone, and its `provision_db.php` go on to the end (`headless`).

`Mutation`: a mutant's `nature` is what its covering tests do; `skips` stands for
tests none of which fails and some of which are skipped or incomplete.  `child` is
the forked process (`running`, `wrote` its verdict, `gone`, `reaped`), `verdict`
its results file.  `FallBack` forgets all verdicts and runs `process`es, which are
judged by exit status.  `refused` collects the mutants that are reported killed
for want of an overlay file, a fork, a process or an answer to `try_wait`.

`Respawn`: `Progress` is anything a call may do to its pending tests under the
contract; `Return` hands back what is owed; `MAX_ATTEMPTS` is 2 and
`MAX_MASTER_RESPAWNS` is 3, as in the source.

## Runs

| run | bounds | shows |
|---|---|---|
| `core` | 2 slots, 4 tests in 2 classes: one exits, one ends in a fatal error, a class throws; 2 mid-batch kills, recycle after 2 batches | counted once, none lost, at most two executions, notices never stale, no abort, termination, refinement of `ReportContract` |
| `single_slot` | 1 slot, 3 tests, all three modes, an exiting and a hanging test, the watchdog, failing forks | counted once, none lost, returns, contract kept |
| `master_death` | 2 slots, 4 tests; the master killed at any time, one worker kill, an exiting test and a stop policy | what is handed back is not in the report, none lost, returns, contract kept |
| `pipeline` | every dependency graph over 3 methods; every combination of class flags; inheritance, traits, vendor classes, autoload-dev bases and filters; full bins; up to 2 worker and 4 master deaths | discovery finds what PHP runs, where it can know the ancestors; plans partition the tests; chains are components; dependencies first; rows and verdicts of an undivided run; no bleed; hooks once; implements `Respawn`; ends |
| `leases` | 2 runs, 2 pids, 2 workers, all three database systems, all names or half of them listed | clones fresh, dropped at exit, reclaimed after a crash, never taken from a connected run; but for files that cannot be deleted and names the sweep does not see |
| `mutation` | 3 mutants of every combination of natures, 2 workers, alarms at any time, failing forks and master | statuses earned, verdicts kept, children bounded, ends |
| `counted_twice` | a kill between batches | violation: rows reported twice |
| `innocents` | an exiting test in mid-class | violation: innocents reported as poison pills |
| `stop` | a failing test and an exiting one | violation: plans sent after the stop |
| `partial_rows` | one mid-batch kill | violation: data sets vanish |
| `ancestors` | a base class in an autoload-dev directory | violation: the test methods it declares are not among the cases |
| `dependencies` | a dependant of a tautological method | violation: skipped instead of run |

`NoTestVanishes` claims exactly this: when `run_resumable` returns, every test
has a row, a synthesised Error or is handed back; once a stop policy has fired,
tests never started, and tests whose every start ended in their worker's death,
may be dropped.

*Bounds.*  They are small but make every case happen.  In the `Runner` runs, two
slots are needed for a plan queued by one slot's death to reach another; class A
is split over two plans so that a `<class>` row of one covers tests in the other;
test 2 has two data sets so that a kill can fall between them; two kills and
`MAX_ATTEMPTS = 2` reach the poison pill by every path; two batches per child
let a worker both go on and recycle.  Stateful plans (`force`) are in all runs
with four tests; inline mode never gets them, so `single_slot` has none.  In
`pipeline`, `CLAMP_K` (cases per worker) and `INLINE_MAX_CASES` are lowered to 2
and 4 so that suites of three to eight cases meet both sides of each limit, and
three methods are enough for a chain, a fork, a cycle and a missing target; four
master deaths exceed `MAX_MASTER_RESPAWNS`.  In `leases`, two runs and two pids
give reuse of a pid and overlap, and `MCListings` has the sweep match all names or
those of slot 0 (as where the longer ones are shortened); in `mutation`, three
mutants exceed two workers.  `SortedSpec` starts from non-decreasing natures only
and `RunAndPidSymmetry` permutes runs and process ids: mutants, runs and process
ids are interchangeable.

*Switches.*  Three constants of `WorkerFork` select behaviour that breaks a
promise, so that the passing runs can say what holds without it: `KillBetween`
(a kill may hit an idle or exiting worker), `LateFatal` (shutdown code turns a
deliberate exit into a crash) and `AllDieEarly` (all workers die before the
SIGCHLD handler exists; the run then stalls unless the watchdog is on).
`counted_twice` turns the first on; the other runs keep all off.

*Fairness.*  `Runner`: weak fairness of the Rust process, of the PHP master and
of each worker: the operating system schedules them, each blocks only on input,
and none waits for another's lock.  `Pipeline`: launching and planning, running
a class, and the steps of the loop and the dispatcher; `Mutation`: the parent,
each child (an armed alarm goes off) and each process.  Nothing that fails is
fair: no run needs a kill, a death or a failed fork to end.  `Leases` claims no
liveness.  `Returns` allows the error return: with failing forks and a dead
master a write can meet a broken pipe.

## Proofs

For all values of the constants that satisfy the modules' assumptions.  Every
invariant that a passing run checks is proved.

`Runner`, in two modules.  All but `TypeCorrect` and `HandBackIsFresh` assume
`OnlyMidBatchDeaths == ~KillBetween /\ ~LateFatal`; `counted_twice` shows that
they need a condition of this kind.

* `TypeCorrect`: `TypeOK` is inductive.  The lemmas on sequences (append, tail,
  `SubSeq`) serve every pipe action.
* `SlotsAgree`, `NoticesAreFresh`: `NoStaleNotice` alone is not inductive: that
  the slot has a plan in flight when a notice is read follows only from where the
  plan is.  `SlotAgreement` says it: unread in the pipe, with the busy worker,
  with a crashed worker not reaped, or answered by a notice at the end of the
  output - and nowhere else.  It is inductive with `TypeOK`.
* `OutcomesAreFresh`, `CountedOnce`: the plans the dispatcher knows are disjoint,
  and rows still on their way are of tests not yet received.
* `StartedAtMostTwice`: every start of a test but the last is paid for by a death
  on its account, and what waits in a pipe, a batch or the queue has not been
  started since (`StartsBehindDeaths`).  With the bound on attempts in
  `requeue_unrun` this gives `MAX_ATTEMPTS`.
* `NothingVanishes`: a test that is in no plan, batch or pipe is received, in
  error, dropped by a stop, or handed back (`NothingLost`).
* `RunsDoNotAbort`: a write never meets a closed or unread pipe.  It assumes
  `NothingBreaks`: in addition no master is killed, no fork fails, and no plan
  forces an exit in long-lived mode (where the worker would not be replaced).
  The invariant `Writable` says, for as long as `run_resumable` dispatches, that a
  slot with a plan in flight is open (`OpenSlots`), why the master may have left
  (`MasterStays`), and that outside `fork_server` mode nothing ends a worker early
  (`WorkersStay`).
* `ContractKept`: every step is a delivery, the return, or a stutter of
  `ReportContract`: the safety half of the refinement.  `RecoveryInv` adds to
  the above what a report in the pipe may contain.
* `HandBackIsFresh`: what is handed back is not in the report, whoever dies when.

`Respawn`: `StartsAreBounded` ties starts to the respawn counter, since attempts
restart with each master (at most 8 starts); `OnlyOwedHandedBack`;
`LoopHandsNothingBack`, the refinement of `ReportContract` with an empty
hand-back.  With `ContractKept` this takes the promise of one call to the run.

`Leases`: one invariant (`Inv`) says which names a loop still has to visit, which
databases exist in each phase, that workers live only in some phases, and what is
still owed to a sweep.  From it `ClonesAreFresh`, `ExitIsClean`,
`LeftoversAreReclaimed`; `ConnectedAreSpared` and `LeasesTypeCorrect` need less.
Two of them have exceptions because the code does: what SQLite could not delete
(`Undeleted`) may stay after `destroy_all` and after a sweep, and the sweep owes
nothing about names outside `listed`, whichever set that is.

`Mutation`: `StatusesAreEarned`, `ChildrenAreBounded`, `VerdictsAreKept` and
`MutationTypeCorrect`, from an invariant that relates each child's state to its
verdict file and its mutant's nature.  A mutant is reported killed if a covering
test fails, if it crashes or if something was refused it; escaped if no test fails,
which includes tests that are skipped.

`Planning` and `Execution`, the operators, for all inputs:

* `TopoSortRuns`: for any dependencies, cyclic ones included, the turns allowed
  are enough and each method the class has is put out once.  The measure is the
  stack's length plus what the names not yet visited can still push
  (`Remaining`).
* `DependenciesRunBefore`: a method is put out after those of the batch it
  depends on, unless they depend on it.  What lies above an item of the stack is
  reached from it (`Above`), and what an item waits for is visited or above it
  (`Awaited`): so a dependency that is visited but not yet out is below, and
  reaches the method that wants it.
* `BuildQueueIsFair`: the plans partition the tests, keep the tests of a class
  together, force an exit after stateful and isolated classes and leave a class
  with hooks in one piece.  `Packs` says what the plans made and the open bin
  hold between two classes of the loop.
* `ChainsAreTheComponents`: the groups of `dependency_chains` are the connected
  components.  After each edge, two methods have one root just if the edges seen
  so far connect them (`JoinedUp`); the reference grows a component until it no
  longer changes, which takes no more turns than there are methods
  (`GrowthCloses`).
* `PartRunsAlike`: methods that no dependency connects with the rest of their
  class (`SetApart`) end in a batch of their own as in a run of more of the class.
  The sort of the class is followed turn by turn by the sort of the batch: each
  turn is one of both sorts, on the same stack, or one on the class's other
  methods, where the batch's sort waits (`Follows`).  So the batch's order is the
  class's with the others left out, and what a method finds passed is the same.

`Discovery`, the operators, for every project PHP can load in which nothing
overrides a folded method unseen.  `FoundMatches`: an emitted case is the method
PHP calls by that name; with the PSR-4 map no test class is missed; and no method
of a class is missed whose ancestors and traits the fold sees (`Covered`).  Without
the last condition it would be false, which is the run `ancestors`.  Its steps:

* the walk of `collect_trait_sources` skips the traits it has met, and PHP's
  lookup meets them again: still, among the traits it lists the definers of a name
  are those PHP finds, since what was skipped stands earlier in the list.  Each
  turn uses up a trait or an entry of its list, which is how it ends;
* level by level of the chain, the first source that defines a name has what PHP
  calls from there up (`SourcesTell`); `seen` keeps the first method of each name
  (`FirstsOfNames`, `CasesAreFirsts`);
* `resolve_vendor_bases` and `is_test_class_via_chain` collect by need.  What
  grows in a finite set has settled after as many turns as it has members
  (`GrowthSettles`): so all vendor ancestors are seen (`BasesAreResolved`), and a
  class reaches a test case among the parsed classes just if it does among all
  (`ReachesAgree`, `ProjectGraph`);
* the fold sources are a project of their own, for which the lookup is right
  (`FoldIsWorld`); what it finds there is what PHP finds, if nothing is hidden; and
  a covered class reaches only what is there, and traits outside that have no
  methods and lead nowhere (`CoveredIsWorld`).

A recursive function is reasoned about in two steps: it exists, because its
values stay in sets one of which leads into the next (`Iteration`), and each of
its values is in its set (`Along`).  Both need induction over `Nat`, which is
proved as a statement about sets of numbers (`NatSetInduction`), from the
well-foundedness of the strict subsets of a finite set: no theorem with an
operator parameter is used.

`Pipeline`.  `IInv` has seven parts, all of which the steps need of each other:

* `PhaseOK`: which variables have which values in each phase; for example while
  nothing died, the pending tests are all chosen tests.
* `SlotsOK`: plans and what is left of them hold batches of pending tests, one of
  each class; a slot without work has nothing left.
* `TestsOK`: while running, a pending test is received, or in one queued plan, or
  left in one slot - or a plan was lost.
* `StartsOK`: a queued test was started as often as it died in this call, one at
  work once more.
* `ReportOK`: what is not reported is just what is still owed in this phase, and
  what is reported has the rows of an undivided run or is an Error, or a
  synthetic pass.
* `StainOK`, `HooksOK`: plans of marked classes force the exit; a class with hooks
  is in one batch, called once its tests are received.

Each conjunct was checked by TLC before it was proved.  From them:
`QueuePartitionsPending`, `PipelineTypeCorrect`, `NothingBleeds`, `HooksRunOnce`,
`CountsMatch`, `DependenciesRunFirst`, and `RunImplementsRespawn`, which maps
every step of a whole run to a step of `Respawn` or a stutter.  With the theorems
about the operators, in addition:

* `CasesAreNearest` and `ChainsAreFound` are `FoundMatches` and
  `ChainsAreTheComponents` in every state of every run;
* `VerdictsMatch`: an uncut class's tests have the verdicts of one undivided run.
  It needs two more invariants: until something dies, each batch keeps together
  the tests that dependencies bind (`KeptOK`, which is where the components come
  in); and what is reported is an Error after a death or has the undivided run's
  rows (`VerdictOK`, from `PartRunsAlike`).

With `RunImplementsRespawn` and `LoopHandsNothingBack` the chain of refinements
down from `ReportContract` is proved but for the step from `Runner` to one call of
`Pipeline`, which are about different state and share `ReportContract`.

`Pipeline` assumes of its constants `BoundsAssumption` (numbers of workers,
deaths and cases) and `ProjectAssumption`, which says nothing of what discovery
does: PHP can load the project (`Loadable`), and a method without a data provider
has one data set.  Loadable means: finitely many classes, no name twice, no
trait that uses itself; a test class has at most 32 classes in its chain, the
bound in `emit_test_cases`, no parent is a trait, and no method it calls is
defined by two of its traits, which PHP refuses.  Two parts of it are conditions
under which discovery is right rather than PHP's demands: vendor classes do not
have the names `resolve_vendor_bases` takes for PHPUnit's own, and no class or
trait outside the fold sources overrides a method that is folded
(`NothingHidden`), or the case would have the overridden method's flags.  TLC
evaluates the assumption for every scenario of the runs, of which some have
autoload-dev bases and vendor traits with methods the fold does not see.

Only model-checked: liveness (`Termination`, `Returns`, the fairness half of
`ImplementsContract`), which needs `ENABLED`.

## Not modelled

* Inside modelled parts.  `Runner`: plans with an empty method list and
  row-filtered chunks (production passes empty row counts, and `build_queue` then
  makes neither), missing test files, timing, coverage files and profiling; test
  code that exits with status 6 or 7, workers that hang outside a test.
  `Leases`: the unbatched `build_template`, `clone` and `gc` actions, which `main`
  does not call.  `Execution`: row filters, state backup and restore, per-test
  transactions, output matching.  `Discovery`: how a syntax tree becomes a parsed
  class.  `Selection`: option parsing.  `Mutation`: generating mutants and mapping
  coverage to them.
* Worker environment and one-shot worker: environment variables and a single
  request; no state, no protocol.
* Configuration parsing, mock baker, reports, coverage and profiling: text in,
  text out.
* Static analyzer: rewriting of symbolic PHP terms over an unbounded term
  language, with rules whose soundness is a statement about PHP's semantics.  A
  small model of it would restate the rules against themselves.  It is most of
  the repository's lines, which is why the share of lines modelled is small.

## Observed divergences

The six violation runs are listed under `findings`.  Seen while modelling,
without a run of their own, and the condition a property carries for it:

* `requeue_unrun` (`runner.rs:283`) queues the rest of a stateful batch with
  `force_exit_after` false: `NoBleed` holds until a worker dies.
* `requeue_unrun`'s split into suspect and rest, a respawn, isolated classes and
  the split of a hookless class by providers (`runner.rs:1143`) all separate
  dependants from what they depend on: `VerdictParity` is about uncut classes.
* `has_lifecycle_overrides` looks at the class's own body: a class that inherits
  `setUpBeforeClass` is split and runs it per plan; `HooksOnce` asks for an own
  declaration.
* An isolated method's plan may go to a worker that has run other batches; the
  comment at `runner.rs:1061` promises a fresh fork.
* The stop policy's state belongs to one call: after a stop and a dead master the
  drained tests run in the next round (`main.rs:1399`).
* `--dirty` ignores changes in parents and traits of a test class.
* The synthetic pass of a tautological test hides a failing `setUp` and unmet
  requirements.  It is one row: a tautological method over two data sets has two
  with PHPUnit, one here (`runner.rs:1031`; the comment at `runner.rs:548` and
  COMPATIBILITY.md claim exact counts).  `CountParity` leaves such methods out.
* An autoload-dev base is lost to the fold with its flags as well as its methods
  (`lib.rs:2731`), so a class that inherits from a stateful one is not stateful:
  `NoBleed`, `CountParity` and `VerdictParity` are about the tests and flags that
  were found.
* A mutant whose covering tests are skipped escapes (`mutation_run.php:115`): of a
  dependant whose dependency does not cover the mutant, nothing ran.  The comment
  at `execute.rs:25` says that every covering test still passed.
* A file that SQLite's provisioner cannot delete is passed over in silence
  (`SqliteProvisioner.php:65`, `82`), and the teardown that claims to log what it
  could not drop (`resource_lease.rs:302`) logs nothing: `Undeleted`.
* Clone names that are shortened or hashed (`resource_lease.rs:59`), or made from
  a base with a query string, no longer match the sweep's pattern
  (`AbstractProvisioner.php:52`) and are never reclaimed: `listed`.
* The comment at `main.rs:1266` says that teardown stays authoritative even if
  provisioning fails; the early return at 1291 comes before the guard at 1304.
  Only a later run's sweep reclaims what was cloned (`LeftoversReclaimed`).
* A death noticed after its slot was closed, with plans in the queue again, makes
  the dispatcher write to a closed pipe and lose the run (`runner.rs:696`).
  `NeverAborts` assumes deaths after which there is none, and `Returns` counts
  the error return as a return: no property covers it.
* A sweep may take another live run's clones before it connects, and on MySQL and
  SQLite later too: `FreshClones` and `LeftoversReclaimed` are about runs that had
  the server to themselves, `SparesConnected` about PostgreSQL.
* The alarm of a mutant's child stays armed after its verdict is written and may
  turn `escaped` into `timeout` (`VerdictsKept` allows it); a failed fork-master
  leaves its children running; code that calls `exit(0)` is killed under the
  fork-master and escapes in the fallback (`execute.rs:168`).
* In long-lived mode a master that ends by itself after a worker's crash is taken
  for a dead one; the hand-back costs a round.
