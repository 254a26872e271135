# A verification project for the resilient-urgent scheduler and its camera coordinator

TLA+ modules, TLC instances and TLAPS proofs for the Go code under `orchestrator/`.
Paths below are relative to that directory. `PROJECT.json` lists the runs, the code lines
behind every definition, and the hazards each property is aimed at.

## 1. The system

| Component | State it keeps | Operations | Talks to |
|---|---|---|---|
| Decision engine, `pkg/policy` | none beyond its configuration | `Decide(snapshot)`: rank, screen, sort, admit, report | called by the adapter, `policyctl`, `chaoslab`, `pkg/chaos` |
| SAGE adapter, `integrations/sage/adapter` | `firstSeen`, `lastObserved`, `lastDecision`, under one mutex | `SelectBestPlugins`, `LastDecision` | reads Waggle's two queues, calls the engine, returns pointers |
| Waggle NodeScheduler (external) | ready and scheduled queues | science rules and REST push; the loop selects, pops, launches; Pods end or fail | calls the adapter |
| Policy configuration, `pkg/policy/config.go` | none | defaults, `LoadConfig`, `Validate` | read by the binary and the tools |
| Integration binary, `integrations/sage/cmd` | the settings, as they are overridden | merges flags, YAML and environment; refuses unsafe live modes | loads the policy, builds the NodeScheduler with the adapter |
| Camera-pair coordinator, `pkg/orchestration/coordinator.go` | the session token; per call a context, a results channel, two goroutines | `CaptureAndAnalyze` | two `ImageSource`s, one `PairAnalyzer` |
| Image sources, `pkg/orchestration/halow.go` | none | capture locally, or by one request and reply over HaLow | implement `ImageSource` |
| HaLow transfer, `pkg/orchestration/halow_transfer.go` | none (the sender keeps a cached image until an acknowledgement) | split, assemble, acknowledge | a lossy link |
| Chaos, `pkg/chaos` | none | perturb a copy of a snapshot, compare decisions | the engine |
| Intent translation, `pkg/intent` | none | ask a language model for a draft, decode it strictly | an HTTP API |
| Command-line tools, `cmd/*` | none | file I/O around the above | |

What is hard in it, and what makes each part correct:

* **Engine.** Sequential, but with three budgets (slots, GPU slots, resources) consumed
  greedily in an order defined by a floating-point score with a tolerance. Correct when the
  limits hold whatever runs already, nothing starts twice, reasons are honest, and the
  decision does not depend on how the input happened to be listed.
* **Adapter and Waggle.** Waggle pops its queues *by plugin name*, pushes arrive from
  another goroutine while a decision is made, Pods fail and are requeued, and the node's
  wall clock is corrected backwards. Correct when the runtime that Waggle pops is the one
  the policy chose, the limits hold across calls and across the fallback path, no task
  loses its age or is rejected because of the clock, and `LastDecision` explains what was
  returned.
* **Coordinator.** Callers, capture goroutines, a timeout and cancellations race. Correct
  when sessions exclude each other and the token is never lost or doubled, only complete,
  correlated, valid pairs reach the analyzer, every call returns and no goroutine leaks.
* **Image sources.** A transport may answer late, twice, or with another session's image.
  Correct when the coordinator cannot tell a camera behind the link from a direct one, and
  no image is older than the request it is taken for.
* **HaLow transfer.** Chunks and acknowledgements may be lost, doubled, reordered or belong
  to another transfer. Correct when only the exact image is assembled and a camera deletes
  its copy only when that very image was persisted.
* **Chaos.** Perturbations are applied in place to copies. Correct when no run sees another's
  perturbation, errors leave no partial report, and a delta means the same whether a field
  is set or left to its default.
* **Start-up.** Four sources of settings, two of them read twice. Correct when the explicit
  flag wins, and nothing connects to SAGE before every check has passed.

## 2. Modules

| Module | What it is |
|---|---|
| `PolicyEngine` | The pure functions of the engine, up to `Decide(snapshot)` |
| `EngineDecide` | One call of `Engine.Decide`, one action per turn of its loops |
| `BudgetedAdmission` | Abstract: choose tasks that fit, stop when none left would |
| `MCEngineDecide` | Its instances |
| `PolicyEngineProofs` | Lemmas about the engine's operators: folds, sorts, the admission loop, what a decision promises |
| `EngineDecideProofs` | Theorems about `EngineDecide` |
| `SagePolicy` | The adapter: `SelectBestPlugins` on two snapshots, its state and fallback |
| `NodeScheduler` | The adapter composed with Waggle's queues and loop |
| `MCNodeScheduler` | Its instances |
| `NodeSchedulerProofs` | Theorems about the adapter in Waggle's loop: ages, launches, limits, explanations |
| `Coordinator` | `CaptureAndAnalyze`, its goroutines, timeout and session |
| `SerializedPairs` | Abstract: exclusive sessions, at most one sound pair each |
| `MCCoordinator` | Its instances |
| `CoordinatorProofs` | Theorems about `Coordinator` |
| `HaLowCapture` | The image sources, and `Coordinator` composed with them |
| `MCHaLowCapture` | Its instance |
| `HaLowCaptureProofs` | Theorems about it, the refinement of `Coordinator` first |
| `HaLowTransfer` | Split, assemble, acknowledge, confirm, over a lossy link |
| `MCHaLowTransfer` | Its instances |
| `HaLowTransferProofs` | Theorems about `HaLowTransfer` |
| `Chaos`, `MCChaos`, `ChaosProofs` | `RunExperiment`, its instance, theorems about it |
| `Startup`, `MCStartup`, `StartupProofs` | The binary's `run` and the loading of the policy, its instance, theorems |

`EngineDecide`, `SagePolicy` and `Chaos` extend `PolicyEngine`; `NodeScheduler` extends
`SagePolicy`. So the decisions of the adapter and of an experiment *are* the engine's
`Decide`, not a summary of it. `HaLowCapture` extends `Coordinator` and uses its actions;
`Startup` instantiates `PolicyEngine` for `ValidConfig`. `EngineDecideProofs`,
`NodeSchedulerProofs` and `ChaosProofs` extend `PolicyEngineProofs`.

### PolicyEngine, EngineDecide

`EngineDecide` follows the text of `Decide`: `CheckInput` is the three early errors,
`RankNext` the loop at engine.go:71, `InsertNext` the sort, `SkipDecided`, `Defer` and
`Select` the three ways through the admission loop, `Report` the second sort and the copy
into `decision.Candidates`. The function `PolicyEngine!Decide` is the same computation in
one expression; the adapter's model and `OrderIndependent` use it, and that property also
ties the two together (its identity permutation compares the loop's result with the
function's).

Abstractions:

* Times and durations are integers, 0 being Go's zero values. A duration has the width
  `MaxDuration` stands for (2^63 - 1 ns): `Sub` is `time.Time.Sub`, which saturates, and
  `Minus` the subtraction of two durations, which wraps. The bounds of the runs are small
  enough that both happen. Instants are unbounded.
* The wrap is visible. docs/architecture.md defines `slack = deadline - now -
  estimated_runtime`; when a deadline is so long past that this falls below the least
  duration, as with an explicit deadline in the year 1, the code's slack is huge and
  positive and the task is no predicted miss. `Countable` is the range in which the
  definition holds, and `EarlierDeadlineServed` is claimed for it.
* Identifiers are naturals in the order of the strings they stand for, 0 being "".
* Scores are the float64 totals multiplied by their common denominator (both horizons and
  the sum of the weights), thus integers. `ScoreTolerance` is the 1e-9 of `almostEqual`
  in that unit; 1 means that only equal totals tie.
* `sort.SliceStable` is an insertion sort on slices of at most 20 elements, which is what
  `StableSort` (standing for that library function) computes; `InsertPosition` lets an element move left past the neighbours it
  is less than, so a comparison that is no order is sorted as the library would.
* A candidate rejected halfway through `rank` keeps either its raw or its normalized task;
  which defaults had been filled in by then cannot be seen from outside.

### SagePolicy, NodeScheduler

A `PluginRuntime` pointer is an element of `Runtimes`; two pointers may carry one name or
one identity. What the adapter reads through a pointer is given by the constant `Plugin`:
hints, and each declared quantity, appear as what parsing them yields, or `Malformed`; the
rules that combine quantities (a request counts before a limit and may not exceed it, the two
names of the GPU quantity must agree, a malformed one counts as a GPU) are operators.
Everything a call
does under its mutex after it read the queues is one action, `DecideCall`; reading the
queues is another, `SnapshotQueues`, so that a push in between is not seen. The calls
follow one another because Waggle's loop is the only caller; the loop pops one runtime per
`Launch`, with pushes, completions and requeues in between.

Waggle is external, and modelled from what this repository relies on: `Queue.Pop` compares
only `Plugin.Name` (adapter/policy.go:127, docs/sage-integration.md:147), the REST API
pushes from its own goroutine (same document, 155), the loop moves what it popped to the
scheduled queue and requeues after a Pod failure. `Push` submits a pointer that is in
neither queue. The capacity is any of `Capacities`, one of which does not parse.

The clock starts at 1: a zero clock is refused by the engine and cannot come back.
A runtime that failed `toTask` is never selected, so malformed *active* runtimes, for which
the adapter has a branch (`RunningTask`), do not arise here: only an operator's or another
scheduler's doing could put one in the scheduled queue. The data race on the queue's
iteration cursor, which the documents call a blocking upstream limitation, is not modelled:
a snapshot is a consistent copy.

### Coordinator

One element of `Calls` is one invocation, and its `pc` is where it stands: `waiting` at the
select on the session, `acquired` before the captures start, `collecting` in the receive
loop, `paired` after it, `analyzing` in `AnalyzePair`. `Return` is what every return after
the acquisition does: `cancel()` and the deferred release. The capture goroutines have
states of their own, so they outlive a call that returned early; `Captured` lets a source
return *any* image of its camera or an error, at any time or never, because `ImageSource`
promises nothing, not even to watch its context. A `select` with both cases ready is two
enabled actions.

Capture times are subtracted as Go subtracts them. The difference of two times that no
duration can hold saturates, and the least duration has no absolute value: a pair whose
additional image is 2^63 ns or more later than the primary one passes the skew check.
`SkewLost` names these pairs; `Sound` excepts them, so `AnalyzerSeesOnlySoundPairs` and
`ImplementsSerializedPairs` say nothing of them: contrary to the comment on
`CaptureAndAnalyze`, such a pair is sent to the analyzer. It takes a camera whose clock is
wrong by 292 years while it reports itself synchronized.

An image is reduced to what the checks tell apart: its request, its camera, whether it is
well-formed (camera ID, capture time, media type, size, JPEG framing), its time, whether
that is synchronized, and what the pose check finds. Copying of images is not modelled: TLA+ values are
never shared, so aliasing cannot be expressed here.

### HaLowCapture

The module adds to `Coordinator` what its captures are made of. `Stamped` and `FromCamera`
are `CameraSource.Capture`, `Answer` is `HaLowEndpoint.HandleCapture`, `Accepted` the checks
of `RemoteHaLowSource.Capture` on a response. `CaptureLocally` and `CaptureRemotely` replace
`Coordinator`'s `Capturing`, and `Begin` its `StartCaptures`, with the request's time recorded
(`RequestedAt`) and its ID fresh (the default generator counts in an atomic sequence). All
else is `Coordinator`'s (`Unlinked`).

The transport below `HaLowProtocol` is not in the repository and nothing is assumed of it.
The endpoint has no state, so what may be on the link is a function of the requests made and
of the clock: `Answers` holds whatever the endpoints may have answered at any time since
the request, and a waiting source may be handed any of it, or an error. That includes lost,
late, repeated and crossed answers, and requests handed to the endpoint of another camera,
which refuses them. Two assumptions are left, about cameras: a driver's frame
is dated between the request and now (a driver that returned an older, buffered frame would
break `DeliveredAfterRequest`, as no check compares the two times), and the clocks of THOR
and the cameras agree, as the documentation requires of synchronized cameras.

### HaLowTransfer

The code gives the two sides of a transfer pure functions, and these are the operators:
`Splits`, `Manifest` and `Chunks` are `SplitHaLowImage`; `ValidManifest` and `Assemble` are
`validateHaLowManifest` and `AssembleHaLowImage`; `Acknowledges` and `Ack` are
`NewHaLowImageAck`; `Confirms` is `ValidateHaLowImageAck`. Who calls them is not in the
repository. The actions follow the contract of docs/halow-orchestration.md (103-115): the camera caches
an image and deletes it only on a valid acknowledgement (`Confirm`), the receiver persists
before it acknowledges (`Receive`, then `Acknowledge`), and may stop in between
(`ReceiverRestarts`). Cache and store survive restarts, and a restarted camera goes on from
its cache, so its restart changes nothing in the model. Everything ever sent stays in
`link`, so a message can be received never, late, repeatedly and in any order; a chunk's
payload may arrive garbled (`Garbled`). `Receive` hands `AssembleHaLowImage` *any* manifest
and any sequence of arrived chunks, which subsumes every policy of collecting them.

Bytes are positive numbers; the digest is the payload itself, SHA-256 being taken as free of
collisions. Capture time, media type and JPEG framing are one verdict (`sound`), as is the
pose; the version field, which every message carries alike, is left out.

### Chaos

One behaviour is one call of `RunExperiment`: `DecideBaseline`, then `Perturb` (name checks,
clone, `apply`) and `DecideRun` for each perturbation, or `Fail`. TLA+ has no pointers, so
what could go wrong with them is put in explicitly: `baseline` is the caller's object, and
`Perturb` writes its result into each part of it that is not among `ClonedParts`. The
pointers inside a task, which `cloneTask` copies, are not a part of their own: `apply`
replaces them and writes through none. The
distance is kept as the fraction it is. A duration shifted to exactly zero is unset, and the
engine takes its default again; this the code does on purpose or not, and `DeltasCount` says
so. Priorities and resources are
summed without a width, so deltas near the limits of `int` and `int64` are outside the
model. Success rates are percentages; tolerances between close totals play no part in the run
(`ScoreTolerance = 1`).

`MoreUrgentStaysSelected` is claimed for perturbations that leave the task sound
(`StillSound`): it is not rejected, no field falls back to its default (an arrival moved to
exactly the zero time becomes *now*, the youngest age there is), and the deadline stays
`Countable`, since beyond that the slack wraps and an earlier deadline counts as a later one.

### Startup

The actions are the paragraphs of `run`, in their order; every way out is `Exit`. Settings
are functions from the names of settings to values, and flags, environment and file are
partial ones, laid over them by `Override`, which is what `flag` and strict YAML decoding
do. The flags are laid over twice, as in the code. `LoadPolicy` reads the policy file named
by the settings as they then are. `Configure` may fail, since it connects; what comes after
it is `NodeScheduler`. Left out are the settings that decide nothing here.

## 3. Runs

| Run | States | What it shows |
|---|---|---|
| `engine` | 41,526 | `Decide` is well-typed, respects the limits, starts nothing twice, defers honestly, ignores input order, serves the earlier deadline first, and implements `BudgetedAdmission` |
| `engine_near_ties` | violation | with totals closer than the tolerance the decision depends on input order |
| `sage_queues` | 69,723 | what Waggle pops by name is what was selected; limits hold across calls and fallbacks; `LastDecision` explains every call; nothing waits for ever that the queues do not hold back, Pods that never end included |
| `sage_clock` | 76,788 | ages survive requeues, retention and backward clock steps; no well-formed task is ever rejected |
| `coordinator` | 327,222 | sessions exclude each other on every path; only sound pairs are analyzed; `SerializedPairs` is implemented |
| `coordinator_live` | 38,129 | every waiting call returns; no capture goroutine stays blocked |
| `coordinator_cameras` | violation | captures of two calls can overlap on one camera |
| `halow_capture` | 300,862 | no stale or crossed answer is analyzed; the sources of halow.go are those `Coordinator` assumes |
| `chaos` | 109,485 | runs are independent, reported all or not at all, and mean what their deltas say |
| `startup` | 300,426 | precedence of settings; nothing unsafe connects; only sound policies are used |
| `halow_transfer` | 138,034 | only captured images are stored, whole; no payload is ever in neither cache nor store; what Split makes Assemble accepts |
| `halow_exact_manifest` | violation | an acknowledgement confirms a manifest that was not persisted |

### Bounds, and why they are enough

* `engine`: up to three ready tasks from a pool of nine that covers every branch of `rank`
  and of admission, with three different running queues. Two slots and one GPU slot make
  three tasks compete for each budget; sorting errors show with three elements. A second
  family of snapshots has no capacity, too small a capacity and a negative one. A third has
  tasks that differ only in their deadlines, with `MaxDuration = 31` and the clock at 50: two
  deadlines too far ahead to be counted, one within the slack horizon, one just missed, the
  last one whose slack fits a duration and the first whose slack wraps.
  The tolerance is 1: only equal totals tie.
* `engine_near_ties`: one snapshot. A tick stands for 30 ns, the ratio of the tolerance to
  what a tick of age is worth is that of the default weights and horizons. With
  two slots for three tasks the selection itself differs, not only its order.
* `sage_queues`: five pointers, among them two homonyms with different identities and two
  pointers of one identity (the second with contradictory GPU quantities); one of the
  homonyms needs a CPU, and the fifth pointer is unreliable; ready queue up to `MaxReady = 2`. Two entries
  are what a name collision needs; requeues and pushes during a call change their order.
  The clock stands still (`MaxTime = 1`), as ages do not matter to these properties. The
  three capacities fit everything, only what needs no CPU, or do not parse.
* `sage_clock`: two pointers, `MaxTime = 4` and `Retention = 2`, so that an identity can be
  forgotten, come back, and see the clock step back behind its first observation.
  `failOpen` is off, so this run also takes the third way out of the call.
* `coordinator`: two calls, interchangeable and therefore declared symmetric; one more than
  the session admits. One request ID, which makes the two calls' images interchangeable:
  the worst case for telling them apart; an image of any other request is one of the eight.
  The others are the two good ones and one for each check that can fail: pose wrong, pose missing,
  unsynchronized, too late, and so late that the difference is lost. Results arrive in either order and after the timeout.
* `halow_capture`: two calls and two request IDs, so that an answer to one can be handed to
  the other; the additional camera alone behind the link, as in the tests, and both. Two
  instants, of which a stale image needs one before and one after; one good frame and one
  that does not validate. Calls and IDs are symmetric.
* `chaos`: up to two perturbations, which is what it takes for one to leak into another. The
  baselines leave fields unset and repeat an ID; the deltas cross zero,
  defaults and the width of a duration, and move arrivals to exactly zero and deadlines to
  either side of where the slack wraps. It ends with the experiment, hence no deadlock check.
* `startup`: a few settings, each given or left out in each place, equal to its default or
  not, with seven policy files. It ends with the program.
* `coordinator_live`: the same with two good images, without symmetry, which is unsound for
  liveness.

* `halow_transfer`: chunks of two bytes, at most two, images of one to four bytes: a last
  chunk that is partly and one that is exactly full. Two images of one request make
  mixed-up chunks and crossed acknowledgements possible. `MaxCollected = 2` is the longest
  list of chunks that can be accepted; longer ones are refused for their length, as lists of one are. The
  run ends when nothing new can be sent, hence no deadlock check.
* `halow_exact_manifest`: two images that differ only in their time.

### Fairness

`coordinator_live` assumes weak fairness of `Progress(c)`, a call's own next step, and of
`Send`. The Go scheduler runs every runnable goroutine eventually and a ready channel
operation is taken; `Expire` is the runtime's timer; that `AnalyzePair` returns is an
assumption about the user's code that the coordinator cannot enforce. Nothing is assumed of callers, of
cancellation, or of cameras: `Captured` may never happen. A waiting call may
be overtaken, but only by the finitely many other members of `Calls`, each of which holds
the session once; after them the token stays free and weak fairness is enough. Against an
endless stream of callers the code relies on Go's first-come-first-served queue of
receivers, which the model does not have.

`sage_queues` assumes weak fairness of `SnapshotQueues`, of a call's return (`Returns`) and
of `Launch`: Waggle's loop does not stop. Nothing is assumed of submissions or Pods, since
the pinned revision does not always requeue a runtime whose creation failed after it was
moved to the scheduled queue, which "with a concurrency of 1 [...] can block admission"
(docs/sage-integration.md, 180-184). `Complete` and `Requeue` are therefore not fair, and a
runtime may stay scheduled for ever. What `NoIdleWait` says under this weak assumption is
that the policy adds no waiting of its own. Its parts:

* It is about behaviours in which the ready queue grows only finitely often. Without that
  premise it does not hold: the score's age is capped at the aging horizon, so more urgent
  submissions may go ahead for ever.
* It is about well-formed runtimes that calls could serve again and again
  (`ServiceableCall`). With `enforceFit` a runtime larger than every capacity offered, or
  below the reliability threshold, waits for ever and should; only the fallback would
  launch it. The run has both kinds: a capacity that is too small for `camA`, and `rareD`,
  which no engine decision selects.
* Such a runtime is in the end launched, or `HeldBack` for good: an active runtime or an
  earlier one has its name, all slots are taken, or all GPU slots are. A malformed runtime at
  the head of its name holds back those behind it in this way, as does one that never leaves
  the scheduled queue.

TLC finds a counterexample when any one of these premises or reasons is left out. If, in
addition, every Pod ends, nothing is held back for ever by what is active; this is a
consequence, and not assumed.

### Findings

* `coordinator_cameras`: the comment on `Coordinator` says sessions are serialized so that
  captures cannot interleave on the devices. The session is released when the *call*
  returns; after a timeout, or an error of one camera, the other capture may still run.
* `engine_near_ties`: `almostEqual` is not transitive, so the ranking comparison is not a
  strict weak order, and `TestDecisionIsIndependentFromInputPermutation` states more than
  the code guarantees.
* `halow_exact_manifest`: `ValidateHaLowImageAck` is said to confirm "the exact manifest";
  it compares request, camera and digest, so time and pose of a retaken image can be lost.

## 4. Proofs

TLAPS checks these for every value of the constants, under the assumptions named.

| Theorem | Statement | Assumptions |
|---|---|---|
| `EngineDecideProofs!TypeCorrect` | `Spec => []TypeOK` | `ConfigAssumption`, `NilAssumption`, `SnapshotsAssumption` |
| `EngineDecideProofs!CapacityKept` | `Spec => []CapacityRespected` | the same |
| `EngineDecideProofs!SelectionsDistinct` | `Spec => []NeverTwiceNorRunning` | the same |
| `EngineDecideProofs!DeferralsHonest` | `Spec => []CapacityDeferralsJustified` | the same |
| `EngineDecideProofs!OrderIrrelevant` | `NoNearTies` implies `Spec => []OrderIndependent` | the same, `WidthAssumption`, `ToleranceAssumption` |
| `EngineDecideProofs!EarlierFirst` | `NoNearTies` implies `Spec => []EarlierDeadlineServed` | the same |
| `EngineDecideProofs!DecideAdmits` | `Spec => ImplementsAdmission` | `ConfigAssumption`, `NilAssumption`, `SnapshotsAssumption`, `WidthAssumption`, `ToleranceAssumption` |
| `NodeSchedulerProofs!QueuesTyped` | `Spec => []TypeOK` | `PluginAssumption`, `RetentionAssumption`, `CapacitiesAssumption`, `BoundsAssumption`, and those of `PolicyEngine` |
| `NodeSchedulerProofs!SelectedAreLaunched` | `Spec => []LaunchesWhatWasSelected` | the same |
| `NodeSchedulerProofs!ActiveNamesUnique` | `Spec => []ScheduledNamesUnique` | the same |
| `NodeSchedulerProofs!ActiveWithinLimits` | `Spec => []LimitsHold` | the same |
| `NodeSchedulerProofs!WellFormedSafe` | `Spec => []WellFormedNeverRejected` | the same |
| `NodeSchedulerProofs!ReturnsExplained` | `Spec => DecisionExplained` | the same |
| `NodeSchedulerProofs!AgesKept` | `Spec => AgeKept` | `RetentionAssumption` |
| `CoordinatorProofs!TypeCorrect` | `Spec => []TypeOK` | `NullAssumption` |
| `CoordinatorProofs!SessionsExclusive` | `Spec => []OneSession` | none |
| `CoordinatorProofs!AnalyzedPairsSound` | `Spec => []AnalyzerSeesOnlySoundPairs` | `ImagesAssumption`, `NullAssumption`, `SkewAssumption` |
| `CoordinatorProofs!ImplementsPromise` | `Spec => Promise!Spec` | the same |
| `HaLowCaptureProofs!SystemIsCoordinator` | `SystemSpec => ImplementsCoordinator` | `WiringsAssumption`, `TimeAssumption`, `StampAssumption`, and `Coordinator`'s `ImagesAssumption`, `NullAssumption` |
| `HaLowCaptureProofs!LinkTypeCorrect` | `SystemSpec => []LinkTypeOK` | the same |
| `HaLowCaptureProofs!NoStaleImage` | `SystemSpec => []DeliveredAfterRequest` | the same |
| `HaLowTransferProofs!TypeCorrect` | `Spec => []TypeOK` | `ImagesAssumption`, `LimitsAssumption` |
| `HaLowTransferProofs!OnlyCapturedStored` | `Spec => []StoredAsCaptured` | `ImagesAssumption` |
| `HaLowTransferProofs!PayloadKept` | `Spec => []NothingLost` | `ImagesAssumption` |
| `HaLowTransferProofs!SplitsRejoin` | `Spec => []SplitsAssemble` | `ImagesAssumption`, `LimitsAssumption` |
| `ChaosProofs!ExperimentIndependent` | `Spec => []RunsIndependent` | `ExperimentsAssumption` |
| `ChaosProofs!ExperimentAllOrNothing` | `Spec => []AllOrNothing` | `ExperimentsAssumption` |
| `ChaosProofs!ExperimentTyped` | `Spec => []TypeOK` | `ExperimentsAssumption`, and those of `PolicyEngine` |
| `ChaosProofs!ChangesReported` | `Spec => []ChangeReported` | the same |
| `ChaosProofs!DeltasMove` | `Spec => []DeltasCount` | the same |
| `ChaosProofs!UrgencyKeepsSelection` | `NoNearTies` implies `Spec => []MoreUrgentStaysSelected` | the same |
| `StartupProofs!StartTyped` | `Spec => []TypeOK` | `InvocationsAssumption` |
| `StartupProofs!Precedence` | `Spec => []FlagsOutrankFile` | `InvocationsAssumption` |
| `StartupProofs!SafeWhenLive` | `Spec => []LiveOnlyWhenSafe` | `InvocationsAssumption` |
| `StartupProofs!ValidationStops` | `Spec => []ValidationNeverConnects` | none |
| `StartupProofs!PolicySound` | `Spec => []LoadedPolicySound` | none |

`ConfigAssumption` says that the configuration passed `Config.Validate`, without which
`NewEngine` builds no engine; `SnapshotsAssumption` that a snapshot has the Go types;
`SkewAssumption` is `orchestration.Config.Validate`. "Those of `PolicyEngine`" are
`ConfigAssumption`, `NilAssumption`, and that the width of a duration and the tolerance are
positive. `InvocationsAssumption` says what a parsed flag, variable or file field can be:
a value of its setting's type; which fields there are it does not say.

`NoNearTies` is a hypothesis of three theorems: no two candidates of one snapshot have
totals that differ by less than the tolerance without being equal. It is not
vacuous: it holds of every snapshot when only equal totals tie (`ScoreTolerance = 1`, lemmas
`ExactTolerance` and `ToleranceOneSuffices`), which is how the runs `engine` and `chaos` are
set up. Nor can it be dropped: with near ties `OrderIndependent` fails (`engine_near_ties`).

**Engine.** `TypeOK` is not inductive: that the report comes after a complete sort needs to
know how far each loop has come. `TypeInv` adds `Progressed`, which bounds `next` and ties
the lengths of `ranked` and `sorted` to it. The limits need `Accounted`: once admission has
begun, slots handed out plus slots left are the initial budget, and the GPU counter is the
number of running plus selected GPU tasks; that the limits hold then follows from
`Obstacle` alone. Distinct selections need two facts through the sort: `OwnIDs` (among the
candidates that may still be selected no ID occurs twice, and none is running) survives
insertion in any order, hence the theorem holds whatever the comparison does, near ties
included; `SelectedOnce` says that the selected IDs are those of candidates behind `next`.
Honest deferrals need `Unjudged` (what the loop has not reached carries no verdict of the loop)
and `Honest`, the property for every prefix: a full GPU or an empty budget stays so, because
`Select` is only taken when `Obstacle` finds none.

**The engine's operators.** `Decide` sorts twice and admits once, each by a fold. The library's
theorems on folds and on induction take operators as parameters and are of no use here, so
`PolicyEngineProofs` starts one level below: the naturals are well-founded, hence a set of
naturals has a least element, hence a property of a sequence's steps that holds at first and is
kept holds throughout (`Induction`, with the property as a set). `FoldExists` and `LeftFold`
turn a fold into the sequence of its intermediate results. With them a sort is an
`InsertionRun`, whose result is a permutation and, if the comparison is transitive, sorted;
the loop is an `AdmissionRun`, in which slots, GPU slots and resources are charged for what is
selected and nothing else. `DecideSound` is the contract the adapter and the experiments use:
what is selected are ready tasks that were not screened out, none twice, within both limits,
and the report speaks of every ready task once and says which were selected.

**Independence of the input order, earlier deadlines.** `Following` ties the loop's state to
`Decide`: at every step it is a prefix of the function's derivation, so that what the loop
returns is what the function computes. The rest is about the function. Without near ties
`Ahead` is transitive, and it is total on candidates with IDs of their own, which the property
asks for (of two tasks with one ID the first listed is meant to win); such a sequence can
be sorted in one way only (`SortedUnique`). Of two tasks that differ in their deadlines alone, the earlier has no lower
score, because urgency is monotone as long as the slack does not wrap, and no later place;
and the budget which admitted the later would have admitted it.

**Admission.** `DecideAdmits` maps `Select` to the abstract choice of a task that fits. What it
needs beyond the invariants above is `Charged`: the demand of the chosen tasks, as a *sum over a
set*, plus what is available is what there was, which makes the running subtraction in the
code and the abstract sum the same. Whatever is left out was blocked when its turn came,
and as no budget grows back it is blocked at the end (`LeftOutBlocked`), which in the
abstract sums means that it does not fit (`BlockedDoesNotFit`).

**Adapter and Waggle.** `SchedulerInv` is proved once and implies the six invariants and the
action property. Two ways lead to a plan, and `EngineChoice` and `FallbackChoice` show that
both return well-formed entries of the queue they read, each the first of its name and with no
homonym scheduled (`Picks`), within both limits (`FitLimits`), and tell what they did
(`Tells`). The call read its queues a while ago: `CallInv` says that since then the ready queue
has only been appended to and the scheduled one only been thinned, under which all
this persists; the loop launches one runtime at a time, and `PlanInv` says what each launch
must leave true of the rest: every planned runtime is the first of its name in the ready
queue, although homonyms may wait behind it, and no two planned or scheduled ones share a
name. `LimitsInv` counts planned and scheduled together, since either alone would not be
inductive. `QueuesInv` (each pointer once) is what makes removal by position removal of the
pointer. `RejectsOnlyRivals` is where the clock matters: a call first pulls every
first observation back to its own time, so that no task reaches the engine from the future;
`AgesInRange` bounds the rest.

**Ages.** `AgesAligned` says that both maps have one domain and that nothing was last observed
before it was first seen, which is what makes forgetting by the last observation safe for the
first. `OneRound` is one call's bookkeeping; the clock may have moved anywhere in between.

**Coordinator.** `TypeInv` is `TypeOK` with `CompletePairs` (a call that is paired has both
images) and `FramesReady` (a goroutine about to send has a frame). `OneSession` is
inductive by itself. What the analyzer sees needs the path of an image to be followed from
the goroutine to the channel to the pair, `PairInv`: frames and results belong to their
role's camera, collected images passed the checks for the call's request, and a call that
has not delivered has nothing delivered. The refinement adds `Unused`: before its session a call's
capture context cannot be done, which makes the mapped set `entered` change exactly at `Acquire`.

**HaLow capture.** The composition keeps `Coordinator`'s variables and adds its own, so the
refinement maps each to itself: `Begin` is a `StartCaptures`, and both ways of capturing are a
`Capturing`, because whatever the checks accept is an image of the role's camera. All of
`CoordinatorProofs` is thereby true of the composition. A stale image is excluded by following
request IDs rather than times: requests in use are distinct (`FreshID`), an image of a request
is dated no earlier than it was asked for, and this is carried from `Answers` through the
goroutine and the channel to the pair (`TimelyInv`, whose path is that of `PairInv`). That what
the link hands over is of the camera that was asked (`LinkTypeOK`) rests on the check of the
target in `Answer` (`AnswerOfTarget`).

**HaLow transfer.** `NothingLost` speaks of cache and store, but what keeps it true is on the
link: `AcksTrue` says that whatever an acknowledgement calls persisted is in the store,
`OwedTrue` says it of the one about to be sent, and `ManifestsTrue` that a manifest on the
link is that of a captured image. `AssembledIsOriginal` is the heart of `StoredAsCaptured`: given a captured
image's manifest, `Assemble` yields that image or nothing, whatever chunks it is handed. `SplitsRejoin` is the converse: the loop of `SplitHaLowImage` stops at the
multiples of the chunk size, so the chunks are in bijection with their indices
(`ChunksCounted`), any order of them is a complete set (`ChunksComplete`), and joining the
cuts in the order of their indices gives the payload (`CutsJoined`, by induction on how far
the recursive function has come).

**Chaos.** `RunsIndependent` is inductive with the types of the report: `Perturb` leaves
`baseline` alone because all its parts are cloned, hence `DecideRun` decides on the caller's
snapshot. For this and for `AllOrNothing` nothing is needed of the engine, whose `Decide` stays
unexpanded. `SnapshotsInv` adds that a perturbation that is not an error yields a snapshot;
`DeltaCounts` then follows one delta through `Perturbed` and the engine's `Normalized`,
which is where defaults, zeros and wrapping meet.

`UrgencyKeepsSelection` compares two decisions. The perturbation promotes one candidate: it
is no lower in any part of the comparison, and the others are what they were
(`UrgentPromotes`). So its new place is no later, and the two rankings agree up to it
(`SamePrefix`); so do the two admission loops, and the budget that the task finds is the
one its predecessors left in the baseline (`SameAdmission`). Budgets only shrink, so if this
one kept the task out, the smaller one that it met in the baseline would have too
(`BlockedLasts`). The hypothesis on near ties is what lets "no lower in any part" mean "no
later in the sort".

**Start-up.** The settings are followed from stage to stage: after the first pass they are
flags over environment over defaults, after the file the file is on top, after the second
pass the flags are again. `TypedInv` adds that an unknown field ended the start before it could
become a setting. `SafeWhenLive` then turns `LiveError`'s verdict about the settings
into one about what the operator wrote. `PolicySound` discharges, for this binary, the
`ConfigAssumption` from which the engine's theorems start.

What is only model-checked is liveness under fairness, which is out of the prover's reach:
`EveryCallReturns`, `NoGoroutineLeak` and `NoIdleWait`. Every other property of a passing run
is stated by a theorem above. The properties of the three runs that expect a violation are
false, and there is nothing to prove.

## 5. Not modelled

* **Intent translation** (`pkg/intent`): one HTTP call and the strict decoding of its answer
  into a draft that a human must approve. What can go wrong is in the text, which a model
  would reduce to a verdict; there is no state, no retry and no concurrency.
* **Parsing** of YAML, JSON, Kubernetes quantities, labels, hints and durations: its verdict is
  an input.
* **The numeric validation of poses and JPEG framing**: likewise.
* **Waggle's queue iteration race**: upstream code, which this repository can neither see nor
  mend; a snapshot is a consistent copy.
* **Command-line tools, manifests, CI, classroom material**: no state of their own.

## 6. What could come next

1. How near totals may come before the order counts: a bound on the ages, priorities and
   deadlines of a snapshot under which `NoNearTies` follows from the default weights.
2. The fallback measured against the engine: on which snapshots `SelectBestPlugins` returns
   the same either way.
3. `HaLowTransfer` as a `HaLowProtocol` below `HaLowCapture`, once an adapter in the repository
   joins the two.
