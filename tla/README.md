# Verification of QEC-schedule

QEC-schedule turns quantum programs into schedules of component calls on patches
of neutral atoms, feeds them with magic states from factories, compiles the
circuits of components to checked atom motion, and runs experiment campaigns
over the result. This directory holds TLA+ models of the parts whose correctness
depends on the order of events, their TLC configurations, and machine-checked
proofs about the resource ledger and the token buffer, the batching rule and the
scheduler, the factory supply, the motion of atoms and lockstep transport, the
execution and compilation of circuits, and the calibration cache. Paths below are relative to `src/`;
`LC` is `modules/logical_compiler/src`, `PC` is
`modules/physical_compiler/src/nadit_physical_compiler`.

## 1. Inventory

| Part | State | Operations | Talks to | What is hard |
|---|---|---|---|---|
| Resource ledger, `LC/protocols/resources.py` | carriers, tokens, claimed atoms, last transports | register, prepare, offer, reserve, transport, consume, discard, release | called by everybody who owns a carrier | facts about one carrier are spread over three dictionaries; callers pass the times; several owners interleave |
| Token buffer, `LC/protocols/supply.py` | reservations, entries, claims, spent identities | reserve, publish, claim, consume, remove, abort, close | delegates to the ledger; other owners use the same ledger directly | capacity, entries gone stale behind the buffer's back |
| Component compatibility, `LC/scheduling/compatibility.py` | none | may these calls share a batch | the scheduler | pairwise and group rules mixed; the first member is special |
| Component scheduler, `LC/scheduling/components.py` | graph, admitted batches, completions, cancellations | add, admit, commit, complete, cancel, release | the runtime holds its proposals while things change | stale proposals, orders inferred from the latest call on a patch only |
| Factory supply, `LC/protocols/factory_supply.py`, `production.py` | deliveries, inventory, demands, lease | sink of each producer, supplier of each consumer | fibers yielding to the runtime, ledger, buffer | one delivery is a protocol of two processes in six steps, each of which can fail |
| Cooperative runtime, `LC/protocols/cooperative.py`, `factory_process.py` | fibers, role bindings, resources | pump, barriers, waves, handoff, failure clean-up | runs every process, advances the scheduler | wake-ups, lockstep barriers, deadlock, clean-up of half-done work |
| Physical contexts, `LC/protocols/physical.py`, `parallel_physical.py`, `shared_grid.py` | one world of atoms, bindings | invoke one call, invoke a batch | the runtime's waves; the motion checks | members are checked one by one and their merged steps once more; one AOD shared by all |
| Atom motion and replay, `PC/motion.py`, `state.py`, `replay.py` | layout of atoms and grids | check an action, apply a step | every planner and context | an action drags every atom and every line of an AOD |
| Feedback execution, `PC/execution.py` | event queue, waiting operations, results | run a circuit with measurement outcomes | fake backend | completions and results of one instant, branches not taken |
| Compilation loop, `PC/compiler.py`, `scheduling/asap.py`, `scheduling/lookahead.py` | frontier, clock, records, decisions | select a layer, lower it, wait, preview | strategies, backend | bits on their way, a preview computed from a copy of the frontier |
| Timing checks, `PC/validation_timing.py` | none | accept or reject a compiled result | reads what the compiler wrote | dependencies that run through operations without actions |
| Task plan, `PC/experiments/task_plan.py` | files of the campaign and the runner's memory | ready_runs, dispatched, finish, invalidate, budgets, restart | worker loop of `runner.py`, child processes | crashes between any two writes, orphans, retries, dynamic dependencies, two deadlines |
| Joint calibration cache, `experiments/msd/joint_cache.py`, `component_reuse.py` | content-addressed files, locks | get or create, look up | workers of the task plan | four files replaced one by one, readers without locks, lost owners |
| Case engine, `LC/cases/engine.py` | queue of invocations, calls, budgets | start, release, advance, retry, finish | the sampling backend; exports a call graph | nested continuations and retries inserted into an order decided earlier |
| Event journal, `LC/protocols/events.py` | drawn outcomes | sample, replay | the algorithm layer | none within one process: hashed identities |
| Movement and placement planning, `PC/transport`, `PC/placement`, `PC/reuse` | none that survives a call | propose motion | checked by motion and replay | searches over real coordinates |
| Array and experiment ledgers, costs, receipts | accounts | append | reports | arithmetic over finished runs |
| Front end, noise and cost, schemas, viewers, campaign scripts, code library | none that survives a call | sequential passes | each other | numerical formulas, documents |

What makes each one correct is in section 3 with the properties. The full list,
with the reason for every part that is left out, is `components` in
`PROJECT.json`; the places where the code can go wrong in a way a test hardly
reaches are its `hazards`, each at its line.

How they interact: the case engine and the factory processes decide which
component calls are made; the scheduler orders and batches them; a physical
context executes a batch on its atoms; what carries a token is owned through the
ledger and passes through the buffer and the supply. The circuits inside
components go through the compilation loop and the timing checks, with the
feedback tester beside them. Campaigns run all of it in child processes of the
runner, which share the calibration cache.

## 2. Modules and plan

| Module | Models | Status |
|---|---|---|
| `ResourceLedger` | the ledger, one action per mutating method | checked and proved |
| `Custody` | abstract: who holds a carrier and what becomes of what is on it | implemented by `ResourceLedger`, proved |
| `ComponentCompatibility`, `CompatibilityGroups` | the batching rule, and groups of calls put to it | checked and proved |
| `ComponentScheduler` | the scheduler, extends the rule | checked and proved |
| `TokenBuffer` | the buffer composed with the ledger: everyone else may call the ledger in between | checked and proved |
| `SupplyContract` | abstract: made, sold, delivered, used, at most once each and in that order | implemented by `FactorySupply`, proved |
| `FactorySupply` | two levels of factories on the cooperative runtime | checked and proved |
| `TaskPlan` | a campaign's durable task plan, its runner and its children | checked and proved |
| `AtomMotion` | layouts, the checks of one action, the application of a step | proved |
| `TransportBatch` | single calls and lockstep waves that transport atoms, extends `AtomMotion` | checked and proved |
| `PhysicalCircuit` | circuits, their dependencies and the backend's bits | used by the next four |
| `FeedbackExecution` | the event loop of the feedback tester | checked and proved |
| `CompilationLoop` | the compiler's outer loop, its selector and its preview | checked and proved |
| `TimingChecks` | the rules that accept a compiled result | checked |
| `DependencyProgress` | abstract: operations in order, bits before their readers, branches as told | implemented by both readers, proved |
| `CompiledCircuit` | a circuit through tester, compiler and checks | checked and proved |
| `JointCalibrationCache` | producers and readers of the cache, file by file | checked and proved |
| `CaseExpansion` | the case engine | checked |
| `TokenBuffer_proofs` | theorems about the ledger and the buffer | proved |
| `ComponentCompatibility_proofs` | what the batching rule accepts, and groups of any length | proved |
| `ComponentScheduler_proofs` | theorems about the scheduler, on the lemmas about the rule | proved |
| `FactorySupply_proofs` | theorems about the supply | proved |
| `TransportBatch_proofs` | theorems about the motion checks and about waves | proved |
| `CompiledCircuit_proofs` | theorems about tester and compiler | proved |
| `JointCalibrationCache_proofs` | theorems about the cache | proved |
| `TaskPlan_proofs` | theorems about the task plan, on lemmas about its loops and its writes | proved |

Each module that is run has an `MC` module and one or more `.cfg` files. What the
plan has left, in order of importance:

1. Local preparation in `FactorySupply` (retries of raw patches, cohorts), wave
   selection by `ComponentCompatibility`, and the clocks of waves.
2. Members with several actions in one step in `TransportBatch`.
3. The run-once journal of compile cells in `runner.py`.
4. Proofs: `ExportTrue` of the cases; `PreviewExact` of the loop.

## 3. The models

A method the code leaves by raising before it changed anything is no step. Times
a caller passes are naturals up to a bound. Operators below a comment `Variant:`
are plausible mistakes in the operator they stand before; nothing uses them, and
each is what one property rules out.

### ResourceLedger and Custody

`carrier`, `token`, `claimedAtoms` and `transportUntil` are the four
dictionaries. A carrier record holds representation, atoms, epoch, owner, phase,
safe exit and the time of its last event; `label` of a token stands for code,
kind, distance and canonicalisation, which the code compares for equality only.
Actions carry the names of the methods. Properties: types, one usable token per
carrier, of its present epoch, and phase, owner and tokens that tell the same
(`RecordsAgree`); the safe exit dominates the transport record that most
operations never read (`ExitCoversMotion`), so nothing changes hands or is used
in flight (`NothingStartsInFlight`); atoms belong to one carrier
(`AtomsExclusive`). `ImplementsCustody` maps the ledger to `Custody`, in which a
carrier passes between owners only with the resource on it.

### ComponentCompatibility and ComponentScheduler

`Compatible` follows the source rule by rule: disjoint patches and claims, AOD
bands in order and apart, one grid and waveform per channel, columns and readout
within the device, and joint families, whose members are all of codes they name
or all of one code. A joint call may be declared that is not of a code it names
itself; it is compatible with nothing, not even alone. `CompatibilityGroups` puts groups of up to
three declarations to it, grown call by call. `GroupsSound`: part of a compatible
group is compatible whichever member is compared first, and sharers fit the
device in a sense that does not depend on sorting.

`ComponentScheduler` has one action per mutating method; `admit`, which changes
nothing, is the action that hands the caller a proposal, held while anything
else happens. `CallsInOrder` says that starts respect submission order on a
patch, dependencies, gates and batches; `BatchMaximal` that a batch misses no
call that fits; `HeldProposalFresh` that a proposal which is no longer the
scheduler's choice is refused; `NeverStuck` that
with everything published a batch can start unless nothing is left, everything
left waits for a cancelled call, or the first ready call is a joint one that
misnames its codes: then `admit` raises until that call is cancelled.

### TokenBuffer

The dictionaries of the buffer over the ledger's variables; `LedgerStep` lets
any owner do to the ledger what it may. `ShelfTrue`: what is listed can be
claimed, and an entry goes stale in one way only (the listing raises on such an
entry). `BooksAgree`: a published token keeps its slot while it can be used, and
a claim names the owner of the carrier until the use. A closed buffer drains
(`ClosedDrains`). What is published is a set here: the buffer's own order of
entries is that of a dictionary, and none of its operations looks at it. That the
slots in use never exceed the capacity holds by a guard and by every other
operation handing a slot on; it is proved (`CapacityKept`) and not run.

### FactorySupply and SupplyContract

Every process is a set of fibers, and `pc` says what a fiber yielded last. The
runtime advances each fiber that can go on, releases barriers when none can, and
runs one wave of the calls that wait; a wave may fail (`Refuse`, `Miscarry`). The
three transports of a delivery, the swap of role bindings, the receipt and the
producer's acknowledgement are separate steps, between which each of the two
processes may fail. `RolesSound`: two roles are never bound to one carrier nor
two carriers in one place, and bindings and places agree when no delivery is
under way. `ChecksAgree`: no check that the code repeats can refuse while
deliveries succeed. `InventoryKept`: no usable token is stranded or shelved
stale. `DiscardByKeeper`: failing processes discard what they own.
`KeepsContract`: the contract is kept over all interleavings. `StuckForRoom`:
with a slot per consumer the runtime never gives up, with fewer it does for one
reason only. `Terminates`: every run ends.

Abstractions: fibers advance in any order, in the code in list order; no clock,
since waves end before fibers go on; making a token, the local preparation of a
consumer, the work of a rotation up to the use of the token, the rest of it and
the final measurement are one call each; no production horizon, no qualities, no
ideal external sink.

### AtomMotion and TransportBatch

A layout gives each atom a position and a holder, and each AOD its active rows
and columns. `ValidLayout` is `validate_layout`; `CheckMove`, `CheckLoad` and
`CheckStore` are the checks of `motion.py` with the change of lines each kind
allows, the rigid one included; `Apply` is `apply_step`, in which every action
acts on the layout the step starts from. Coordinates are integers, so the
tolerance of 1e-9 is equality.

`TransportBatch` gives a context (`context`), the wave it runs (`wave`), the
world the merged steps lead to (`world`) and the world of each member alone
(`lone`). `Call` is `invoke`; `Admit`, `Compose`, `Commit` and `Refuse` are
`invoke_batch`: admission by declared claims, one step of every member merged
onto AODs of their own or onto one shared grid, projected back and checked, and
all or nothing in the end. A program is whatever the checks let it do.
`SoundLayouts`: the committed world, the merged one and every member's own are
valid. `MembersUndisturbed`: a member's atoms and lines go where they would have
gone alone, and what nobody owns stays. `RefusedForCause`: a member that keeps to
its declared atoms, columns and regions is not refused because of the others,
except that a shared rigid AOD may be asked for two displacements. That case no
declaration excludes; only the last check of the merged motion finds it. The
replay checks each action of a step against the layout the step starts from and
never against the other actions; for this composition that suffices.

### PhysicalCircuit, FeedbackExecution, CompilationLoop, TimingChecks

A circuit is operations in native order and edges between neighbours on a wire,
with an edge from a measurement to its reader when it was imported and without
it when built by hand. An operation that is conditioned names its measurement,
not the classical bit. Durations, latency, limits and the bits are chosen in
`Init`.

`FeedbackExecution` is `_Execution`: `Complete` and `Report` are the two kinds of
events and `Earliest` the queue. `CompilationLoop` has one action per way through
`run`: `FinishMetadata`, `LowerLayer` (time ready, selected, lowered, committed
with its bits recorded) and `WaitUntil`; `NextCZLayer` is the preview. A
strategy's lowering is external: it completes the layer it was given, with any
transport before, between and after. `following` and `chosen` record what was
previewed and lowered and guard nothing. `TimingChecks` is the acceptance of a
whole result. `CompiledCircuit` composes them and, when the compiler is done,
alters its result (`Alter`): an operation moved or gone, a decision or a bit
changed, late, early or gone.

`TesterEarliest`: the event loop gives every operation the decision and the
earliest time the circuit allows. `StopsForCause`: the loop stops with
"Ready conditions have no compiled measurement" (`Starved`) only at an operation
that reads a conditioned measurement on the branch not taken, and compiles no
circuit that has one. Such measurements occur in circuits built by hand, the QASM
importer refuses them; the tester goes on, as it reports a bit for a skipped
measurement too. `ChecksExact`: the checks accept
a result exactly if it is right by a definition over all ancestors, although they
look at neighbours only. `ReadersKeepOrder`: both readers implement
`DependencyProgress`. `PreviewExact`: the previewed CZ layer is the next one
lowered, if no bit was on its way when it was previewed; the repository's
README (926-931) documents that an independent CZ layer may run before a
previewed conditional one. `Finishes`: the tester comes to the end, and the
compiler does or stops so.

### JointCalibrationCache

Each key has an action and its trace, each trace a probability, and the read
index fingerprints all of them. All keys of the model share one component,
whose operations are kept in a file of their own (`operations`): it is compiled when
missing and loaded when there; when corrupt the request is refused, and the file
is never compiled again, until somebody removes it (`RemoveCorrupt`, which nobody
is bound to). Each read, write and lock of `get_or_create` and
`lookup` is a step of its process (`at`), with what it saw before in `seen`. A
process may die between any two steps; locks of the dead are free, files stay;
a file may be lost, or the operations corrupted (`Damage`). `GroupsGenuine`: what is returned or certified is
of one compilation. `NoWorkTwice`: nobody compiles or samples what is complete,
no two at once. `Served`: every producer gets its group, unless the operations stay
corrupt and its key is not compiled.

### CaseExpansion

The queue, the nodes and the emitted calls of the engine. `Start`, `Release`,
`Advance` (`ExpandStep`, `Retry`) and `Finish` are the handlers; a draw is any
branch of the event or falls outside its mass. `ExportTrue`: a case that ends
without a failure has completed every invocation with every step of the branches
it took; the exported graph orders two calls exactly when the protocols do; and a
call starts when the last call before it has exited and reported. Different
invocations due at one time are taken in any order, in the code by digest.
Infinite accumulated times are left out.

### TaskPlan

`disk` is the campaign directory, `mem` is `TaskPlanState` with the variables of
`_execute_pending`. A handler is computed on a record `[disk, mem, log]`: every
durable write (`write_json`, `append`) goes through `Write`, which appends the
disk to `log`. The handler's step takes the last disk; `Halt`, a crash, takes any
of them, loses `mem`, and leaves each running child alive or not. Start reads
the directory back exactly as `__init__` does. Children answer (`Answer`), run
out of time (`Overrun`) or outlive their runner; artifacts are damaged at any
moment (`Damage`); deadlines pass (`Pass`), storage samples are chosen freely.

| Action | Code |
|---|---|
| `Start` | `run_task_plan`, `TaskPlanState.__init__` |
| `Survey` | loop head: `check_budgets`, `expire_pending`, `ready_runs` |
| `Dispatch` | inner loop: budgets again, `dispatched`, `Popen`, or `finish` on a launch failure |
| `BeginPolling`, `Poll`, `Sleep` | the pass over active children and `finish` with `_dependencies`, `_invalidate`, `_record` |
| `Return` | end of the loop and `close` |

`DiskSuffices`: every directory a crash can leave is accepted by the next start,
and between handlers memory is what a restart would read. `AttemptsKept`: no
child shares its run identity with an orphan (`RunsOwnAttempt`), and a task fails
max_attempts times at most over all crashes (`FailuresBounded`). `RunsAccounted`:
each other run of a task is owed to something bounded. `VerdictsStand`: a failure verdict is final and a success is
withdrawn only for damage. `DependenciesDecide`: tasks run or are blocked for
cause. `ReserveKept`: the reserve is the finalizers'. `Returns`: without any
deadline a campaign still ends. `RefusalFinal` is **violated**, see section 6.

A `for` of the code over tasks is `Over`, which takes a `Turn` for each of the
tasks in the order of their identities. What a worker asks for needs only tasks
that have come to an end (`Grounded`): the campaign driver takes the results of its
pilots into the definitions it asks for, so that a request never names a task whose
needs have no definition.

Abstractions: an interrupted append is written or not, as `read_records` makes
of it; history copies of withdrawn results, timings and reasons are left out;
source drift raises out of the loop and is the crash without orphans; a memory
kill is a worker that reports budget_exceeded; a task waiting in terminal mode
asks only for tasks that have no completion, as the campaign driver does.

## 4. Runs and bounds

| Run | Properties | Instance | Why it is enough to be interesting |
|---|---|---|---|
| `ledger` | `AtomsExclusive`, `ExitCoversMotion`, `NothingStartsInFlight` | 2 carriers, 1 token, 2 owners, 1 atom, times 0..2, 1 epoch | overlapping registrations in both orders; two different times around every exit |
| `compatibility` | `GroupsSound` | groups of 3 from declarations on 2 AODs, 2 grids, 2 waveforms, 2 codes, 2 families, 2 limits | three bands are the least for which neighbours and pairs differ |
| `scheduler` | `CallsInOrder`, `HeldProposalFresh`, `NeverStuck`, `BatchMaximal` | 4 calls on 3 patches, 1 gate, a possible cycle, 1 instant after the start | submission in every order and grouping; a call on two patches; a joint call that misnames its codes, at the head and behind others |
| `token_buffer` | `RecordsAgree`, `ShelfTrue`, `BooksAgree`, `ClosedDrains`, `ImplementsCustody` | 2 slots, 2 tokens on one carrier, 2 owners, times 0..1 | a used entry and the carrier's next token together on the shelf |
| `supply` | `RolesSound`, `ChecksAgree`, `InventoryKept`, `StuckForRoom`, `DiscardByKeeper`, `KeepsContract`, `Terminates` | 2 producers, 2 consumers in lockstep, 1 initial input, 2 rotations, 2 batches, 1 or 2 slots, 1 failing wave | a delivery can fail at each step with another one waiting; a producer outlives its consumer; fewer slots than lockstep consumers |
| `transport` | `SoundLayouts`, `MembersUndisturbed`, `RefusedForCause` | 2 members, 1 bystander, 4 sites on a strip 4 by 2, AODs of 1 row and 2 columns, one of them rigid, 4 steps, waves on own AODs and on a shared flexible or rigid one | four steps load, move, and store again, with grids left behind by a single call before a wave |
| `circuits` | `TesterEarliest`, `StopsForCause`, `ChecksExact`, `ReadersKeepOrder`, `PreviewExact`, `Finishes` | every circuit of three operations, the first a measurement, on 2 qubits and 1 bit, with and without result edges, 3 longer ones; latency 0 or 2, transport 0 or 1, 1 alteration | an operation between a measurement and its reader; a bit measured twice; a measurement that is conditioned itself; branches not taken before, in and after a layer; the longer ones reach previews |
| `cache` | `GroupsGenuine`, `NoWorkTwice`, `Served` | 2 producers of one key and a reader, or 2 producers of 2 keys, 2 traces a key can compile to, 1 death, 1 file lost or the component operations corrupt | one process publishes between any two reads of another; different traces show a mixed group |
| `cases` | `ExportTrue` | 3 roots in every acyclic numbered order, catalogs with retries, nesting, missing and ill-bound components, results before and after exits, attempts 2, call limits 3 and 8 | a retry inside a continuation inside a root that others wait for |
| `tasks` | `DiskSuffices`, `AttemptsKept`, `DependenciesDecide`, `RunsAccounted`, `VerdictsStand`, `ReserveKept` | three campaigns: 2 planned tasks that may miss one cache entry; 1 task with 2 attempts and 2 damages; a driver with a finalizer under both deadlines and all samples; each started at most twice | the request of one task withdraws what the other waits for; retries and refreshes on both sides of a crash; the stop falls between any two writes |
| `tasks_returns` | `Returns` | 2 workers, tasks that may ask for each other, 2 attempts, 1 damage, a deferral | cyclic and repeated requests |
| `tasks_refusal` | `RefusalFinal` (violated) | 1 task, 2 damages, 1 refresh, 4 starts | shortest history of the finding |

The largest are `compatibility` (1.7 million distinct states), `tasks` (1.4 million),
`circuits` (580 thousand), `cache` (480 thousand), `token_buffer` (370 thousand) and `cases` (300 thousand). `CHECK_DEADLOCK FALSE` is set where callers may simply
stop (ledger, buffer, scheduler, groups, transport) or where the system has come
to its end (circuits, cache, cases); that it does come there is `Finishes`,
`Served` and `Resolved`. The supply and the task plan end in `Finished`, so a
deadlock there is an error. Named bounds: `MaxTime`, `MaxEpoch`,
`MaxSubmission`, `MaxGroup`, `MaxFaults`, `MaxCycles`, `MaxSteps`,
`MaxAlterations`, `MaxCrashes`, `MaxDamage` (cache and task plan), and
`MaxStarts`, `MaxDeferrals`, `Clocks`, `Samples` of a campaign. The call limit
of a case and the capacity of the buffer are the code's own.

Symmetry: owners in `ledger`, owners, tokens and slots in `token_buffer`, which
the code tells apart by equality only; neither run has a liveness property.

Fairness. `FactorySupply` assumes weak fairness of the next-state relation:
`run` loops until every process has ended, so the runtime always takes another
step when there is one, and nothing is assumed of which. `TaskPlan` assumes that
the polling loop keeps stepping while it runs (it is never disabled: the
condition is written `<>[]Running` because it equals the enabledness of `Run`),
that a child answers or overruns, since the runner kills it on timeout, and that
a deferral's delay passes. Nobody is bound to restart a campaign. In
`CompiledCircuit` each of the two loops goes on while it can, as a `while` in one
thread does; nothing is assumed of the alterations. In `JointCalibrationCache`
every live process takes its next step; a request that was deferred, failed or
died is made again by the task it belongs to, whose limits are those of
`TaskPlan`; nobody is bound to remove a corrupt file. In `CaseExpansion` the one loop goes on. The ledger, the buffer, the
scheduler and the contexts are libraries whose callers owe nothing: only safety
is stated.

## 5. Proofs

All theorems are for every value of the constants that meets the named
assumptions of the modules: any numbers of processes, carriers, calls, atoms and
faults, without the bounds of the runs.

**Ledger.** From `LedgerAssumption` only (bounds are naturals, `NoOwner` is no
owner, there is a carrier): `TypeCorrect`, `OneResource`, `CustodyTold`,
`Agreement`, `ExitCovers`, `AtRest`, `ExclusiveAtoms` and `Custodian`, the last
one being that the ledger implements `Custody`. They follow from one inductive
invariant, `LedgerInv` (theorem `LedgerInvariant`); `ExclusiveAtoms` is inductive
beside it. The stated properties are not inductive without the conjunct that a
carrier which is not registered is still in its initial state: registration
resets the record, and without the conjunct could forget a recorded transport.
`TypeStep` and `InvStep` have one case per action; two lemmas, `CarrierOnly` and
`TokenChange`, cover the actions that touch one carrier, or one token with its
carrier, and reduce each case to the fields it changes. `AtRest` and `Custodian`
are step properties proved from the invariant in the state before the step:
`SafeIsStill` turns the test of the safe exit into one of the transport record,
and `CustodyStep` maps every action to a step of `Custody` or a stutter.

**Token buffer.** `ShelfTellsTrue`, `BooksAlwaysAgree`, `ClosedOnlyDrains`,
`CapacityKept`, and the ledger's `LedgerAgreesBeside` and `CustodyBeside` once
more for the composition. `BufferInv` is `LedgerInv` with, for each token, what
the shelf, the slip, the claim and the ledger say about it (`TokenInv`): the
listing raises on a stale entry, and that an entry goes stale in one way only
needs a relation of the carrier's clock to the token's readiness
(`ClockCovered`) that no property mentions. A step of the buffer or of anyone
else changes one token; for the others `Undisturbed` is enough.

**Batching rule and scheduler.** `PartCompatible`: a part of a compatible group
is compatible, whichever member is compared first. `GroupsAlwaysSound` adds that
its sharers fit their AOD in whatever order the bands were declared; both reduce
the sums over columns to counts of sets and the neighbouring bands to all pairs.
`CallsAlwaysInOrder`, `HeldProposalIsFresh`, `BatchesAreMaximal` and
`SchedulerNeverStuck` hold for any declarations a contract accepts, joint calls
that misname their codes included, and any callers. The code adds an
edge to the last call on a patch only, so `SchedulerInv` says which edges that
leaves behind: between two calls on a patch there is one with an edge to the
later (`EdgeOnPatch`), and the last call is after them all (`LastOnPatch`).
`BatchesAreMaximal` needs `PartCompatible`, since the scan compares with the
group of the moment; `SchedulerNeverStuck` takes a least unfinished call of the
acyclic graph: it is ready, and the ready call that comes first is a batch of its
own unless it contradicts itself.

**Factory supply.** From `SupplyAssumption` only (processes, roles and names do
not coincide; capacities are positive; the consumers are finitely many):
`RolesKept`, `ChecksNeverRefuse`, `InventoryIsKept`, `KeeperDiscards`,
`HeldUpForOneReason`, and `ContractKept`, by which the supply implements
`SupplyContract`. They follow from `SupplyInv`, which has one lemma
per action. Its core is in two parts. The delivery that holds the lease says where
the two carriers it exchanges stand (`Site`), whoever is bound to them and
whether or not its processes still run, which is why the lease of a lost delivery
is never given back and later ones cannot collide with it. And until a delivery is
lost both its fibers stand where its progress says (`InStep`), which is why no
repeated check refuses; afterwards only what is on a carrier is still told
(`OfferedTold`, `ReservedTold`, `ProducerStands`, `ConsumerStands`). The
properties alone are far from inductive: none says where a fiber is. For
`ContractKept`, `FatesMove` takes every step to moves of the contract, and a
delivery under way holds the lease, of which there is one.

`HeldUpForOneReason` (`StuckForRoom`) is about all fibers at once: in a state where
none can go on, no barrier is met and no call waits. It takes more than
`SupplyInv`, namely `WaitInv`: running consumers are on their way to one barrier,
unless one is a batch ahead of another that is about to follow (`Lockstep`); an
input that asks has its carrier free; the two lines hold those that wait in them,
once each; the shelf keeps to its capacity and shows what is on offer. Then in a
stuck state some input waits (`InputWaits`), nothing is on offer or to be reaped, so
that every slot holds the input of a consumer at the barrier of its rotation
(`ShelfHeld`), the outputs' line is held up by the shelf (`ShelfFull`), and the slots
are held by as many consumers other than the one that waits. With that, a capacity
of one slot per consumer excludes `protocol_deadlock` for any number of consumers.

**Atom motion.** `CheckedKeepsValid`: from `DeviceAssumption`, an action that
passes its checks leads from a valid layout to a valid one, with one lemma for
each kind of action. **Transport batches.** `LayoutsAreSound` is
`Spec => []SoundLayouts`; `BatchInv` adds that every world is a well-formed
layout. `FusedIsAction` and `GlobalIsNat` say that the merged write of a shared
AOD is again an action, so that the checks of `AtomMotion` apply to it.
`WavesLeaveMembersAlone` is `MembersUndisturbed`: the projection of the merged
world on a member is the member's own, and what nobody owns is left as it was.
`RefusedOnlyForCause` is `RefusedForCause`: the declarations are enough. Its
invariant `WaveInv` says of each member's own world that it left the context alone
but for what the member declared (`OnOwn`), and of the merged world that it is their
join (`JoinOf`): each member's atoms, rows and columns, with the columns of a
shared AOD renumbered. A join of such worlds is a valid layout (`JoinValid`): regions
keep atoms and crossings of two members apart, bands keep the spacing and the order
of shared columns, and their declared numbers fit the device. A step that every
member could take alone leads from a join to a join (`PrivateJoin`, `SharedJoin`),
so its projection is the member's own, and since an action that leads to a valid
layout passes the checks (`SafeIsChecked`, the converse of `CheckedKeepsValid`), the
checks of the merged motion pass too. All but one: that a rigid AOD moves as a whole
follows from no declaration, which is the exception the property states.

**Circuits.** From `CircuitAssumption` and `LoopAssumption` only:
`InvariantHolds`, `CompilerStopsForCause`, `OrderKept`, `TesterIsEarliest`,
`AcceptsIsRight` and `ChecksAlwaysExact`.
`LoopInv` describes the compiler's frontier exactly: what is unmet of an operation
is the number of its unfinished predecessors, ready are those with none, and the
bits recorded are the backend's for the finished measurements on their branch, and
what is decided read one of them. `RunInv` says
where an operation of the tester is: counted, waiting for a bit, in the queue or
done, and that bits in the queue are those that finished measurements gave.
`StopsForCause` then follows by the least unfinished operation: all before it are
finished, so it is ready, and the measurement it reads, being earlier, has a record
unless it was skipped. `OrderKept` maps every event and every layer to a step of
`DependencyProgress` or a stutter. For `TesterIsEarliest`, `EarlyInv` adds that
every operation released so far has the decision and the times that are due
(`Due`, stated of one operation from those before it) and that the queue holds
nothing earlier than what was taken from it.

`AcceptsIsRight` is about any result of the shape of results, not only those the
compiler can return: the checks accept it exactly if it is right. The checks hand
from each operation to the next ones when its actions ended, or what it was handed
itself if it has none, and the bits on the way. `Reaching` says what that comes to
for one operation: all that reaches it is its ancestors', and what does not reach
it was handed to an ancestor with actions that it must follow; `ReachingAll` is the
induction by the least operation it fails for. `KeptIsInTime` then puts the bounds
of those ancestors in a chain, again by the least operation. Before all that,
`AncestorsAre` and `HandedOnIs` show that both recursive functions are defined: the
functions on the operations up to one agree. Operations whose actions end before they
start would break the equivalence, so the shape excludes them, and the alterations
keep it (`NearKeepsShape`). For `ChecksAlwaysExact` what the compiler returns must
be right: `Timed` says that each step of the loop decides an operation within the
time the step takes, after its predecessors and its bit, as its branch and name
say (`CommitTimed`), and that a bit is recorded with the latency it has.

**Calibration cache.** From `CacheAssumption` only: `GroupsAlwaysGenuine` and
`NoWorkIsDoneTwice`. `CacheInv` says what the files hold (a probability is that of
its trace, an index entry is of one compilation; an action and a trace may not
match) and, for each place a process can stand, what it knows: what it saw without a
lock binds it to nothing, what it saw under one is still so or was lost, but was
not replaced. One lemma per step, with the other processes left alone.

**Task plan.** From `TaskPlanAssumption` only (identities are ordered once each,
the plan document is acyclic, ordinary tasks of it need no finalizer, bounds are
positive): `DirectoryAlwaysSuffices`, `AttemptsAlwaysKept`,
`DependenciesAlwaysDecide`, `VerdictsAlwaysStand` and `ReserveAlwaysKept`, for any number of starts, deaths and damages. A death leaves
the disk of any write, so it is not enough that handlers keep an invariant: each
of their writes must. `Logs` says of every disk in a handler's log that it can be
read (`Readable`) and takes nothing back from the one the handler began with
(`Follows`), and there is a lemma for each kind of write. `Good` adds what the
handler's memory knows of the last disk while the runs of some tasks are still
owed a row; every helper of `task_plan.py`, from `Publish` to `Finish`, has a lemma
that takes `Good` to `Good`. Loops are followed by `LoopStays` and `LoopReaches`,
an induction by the least turn that goes wrong. `IInv` is then `Good` between two
handlers, with the queues, the children and the orphans. It has to say more than
the properties: that a row is of an attempt on disk (`TaskRight`), so that the
next one has none and no row is ever doubled; that a task still open has failures
to spare, which bounds them before the verdict is written; that a replay is one
of edges that exist; and that what a child may still ask for can be defined
whenever it asks. `VerdictsAlwaysStand` and `ReserveAlwaysKept` are `Follows` and
`GivenUp` of the step. TLC checks `IInv` on the states of `tasks`, with the
generations of replays bounded.

Model-checked only, on the instances above:

- `Terminates`, `Returns`, `Finishes` and `Served`: liveness under fairness, out
  of the prover's reach.
- `PreviewExact`: it compares a preview with what a later step lowers, and would
  need an invariant of the copy of the frontier that `NextCZLayer` runs on while
  the loop itself goes on; not attempted.
- `ExportTrue`: what the exported graph orders is a transitive closure, compared
  with the order the protocols' text gives over nested invocations; not attempted.
- `RunsAccounted`: it counts the runs of every task that another one may ask for
  once each, which is right for the instance, where requests do not overlap; in
  general a bound would have to sum over the requests a task made, a history that
  the plan does not keep.

## 6. Finding

`tasks_refusal`: when the artifacts of a task are damaged once more than they may
be made again, `_invalidate` appends an audit row with `requeued: false`
(`PC/experiments/task_plan.py:644`) and then records the verdict
`budget_exceeded` (661). If the runner dies between the two, the next start finds
the old `ok` completion and a row that voids it, marks it invalidated without
looking at `requeued` (355-361), and runs the task again beyond
max_artifact_refreshes. `modules/physical_compiler/tests/test_experiment_tasks.py`
(459-461) expects the verdict and no further attempt.

## 7. Not modelled

- Numerical passes: synthesis, optimisation and placement of logical circuits,
  estimation, noise, cost and metrics. Sequential functions of their input,
  decided by floating-point formulas.
- Movement and placement planning of the physical compiler: searches over real
  coordinates, whose result passes the motion checks, the replay and the timing
  checks, which are modelled.
- The campaign scripts (plans, policies, reports, production metrics): their
  control is that of the task plan and the factory runtime, the rest aggregates
  results. The driver is modelled as a task of `TaskPlan`.
- The code library: stabilizer circuits, decoders, calibrations and component
  contracts, algebra over fixed tables.
- Ledgers of finished runs, receipts, certificates, snapshots, the event journal,
  assembly of contexts, schemas, command lines and viewers: input and output, or
  appended to by one thread and read afterwards.

These make up most of the lines of the repository, so the models cover a small
part of its text, though most of its protocols. What remains to be modelled of
the parts marked partly is in the plan and in their notes.
