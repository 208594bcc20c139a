# A TLA+ verification of PeerKV

This directory holds TLA+ models of PeerKV (Python package `umallm`, C++/CUDA in
`csrc/` and `umallm/governor/csrc/`), TLC configurations that check them on small
instances, and theorems about them checked by TLAPS.

## 1. The system

| Component | Source | State it keeps | Operations | Who calls it |
| --- | --- | --- | --- | --- |
| Governor calibration | `umallm/governor/calib.py` | curves per (role, route, workload), synthetic worst-case cache | `add_curve`, `curve`, `predict`, `predict_upper`, `invert` | ledger, governor constructor |
| Ledger | `umallm/governor/budget.py` | active leases under one lock | `admit`, `update_rate`, `release`, `max_admissible_rate`, `predicted_cost` | governor workers, `quote`, epoch thread (reads) |
| Governor | `umallm/governor/governor.py` | FIFO queue, worker and copier per source, pending counters, trims, victim feeds, activity clock, stop flag | `feed_victim`, `submit`, `quote`, `_worker_loop`, `_serve_one`, `_epoch_loop`, `report`, `shutdown` | engine threads; its own workers and epoch thread |
| Budget trim | `umallm/governor/control.py` | multiplier, clean baseline, counters | `observe_idle`, `observe_starved`, `observe_loaded` | epoch thread; read by workers |
| Python pacer | `umallm/governor/pacer.py` | chunk index, pacing clock, in-flight events | `run` | governor worker |
| Native pacer | `umallm/governor/native.py`, `umallm/governor/csrc/native_pacer.cpp` | `ControlBox` (rate, cancel), chunk train, mirror thread | `run`, `_mirror`, `set_rate`, `cancel` | governor worker, mirror thread |
| Headroom estimator | `umallm/governor/estimator.py` | last NVML snapshot | `_loop`, `snapshot`, `ambient` | admission, epoch thread |
| KV placement machine | `umallm/runtime/kv_manager.py` | blocks, tier states, event log under one lock | `register`, `migrate`, `plan_migration`, `release`, `bytes_by_tier` | engine threads |
| Online selector | `umallm/runtime/selector.py`, `umallm/elastic_policy.py` | cached topology verdict | `peer_state`, `online_select`, `_repair`, `enforce_do_no_harm` | per decode step |
| Box calibration | `umallm/runtime/calibration.py` | profile file | `calibrate_box`, `check_drift` | startup |
| GH200 connector | `umallm/vllm_integration/gh200_connector.py`, `placement.py` | scheduler: block tables, previous tiers, forced restores, next plan; worker: held grace and compressed buffers | `note_external_match`, `build_connector_meta`, `plan_request`, `start_load_kv`, `save_kv_layer`, `request_finished` | vLLM scheduler and worker |
| Residency controller | `umallm/uma_alloc.py`, `csrc/uma_residency.cu` | intended residency per (layer, block) | `to_grace`, `to_hbm`, `residency_of` | GH200 worker |
| PeerKV staging | `umallm/vllm_integration/peerkv_staging.py`, `peer_kv_alloc.py`, `peerkv_attn.py` | split KV tensors, scratch region | `stage`, `_relayout_to_peer` | attention forward |
| Tiered cache | `umallm/kv_runtime.py`, `umallm/policy.py` | blocks per layer, open block | `append`, `apply_policy`, `place` | MLX / numpy decode |
| Multi-GPU placement | `umallm/multigpu.py` | none (pure) | `topology_aware_placement`, `balanced_partition`, `optimal_chunk_blocks` | planners |
| Pressure, recalibration | `umallm/pressure.py`, `umallm/recalibration.py` | level, stop event | listener and daemon threads | policies |

Left out: CUDA kernels and benchmarks (`csrc/*.cu`), numeric attention code
(`peer_parallel_attn.py`, `torch_tiered_attn.py`, MLX back ends), compression
arithmetic, probes that only read hardware, experiment drivers and the audit
snapshots under `docs/`.

### How the parts interact

Engine threads call `submit`, `feed_victim`, `report` and `shutdown` on one
`Governor`. Each issuing device has a FIFO queue, a worker thread and a copier. A
worker pops a transfer, polls `Ledger.admit` until it gets a lease, runs the chunk
train on its copier, and gives the lease back. While the train runs the copier calls
the worker's `rate_fn` closure, which reads the trims and writes the new rate into
the ledger with `update_rate`; the Python copier calls it between chunks, the native
one from a mirror thread at 20 Hz, which also carries the stop event to the C++ loop.
The epoch thread reads the ledger, the pending counters, the activity clock and the
victims' samples, and moves the trims. `Ledger` and `BudgetTrim` have locks of their
own; the dictionary of trims, the activity clock and the pacing clocks have none.

`KVPlacementStateMachine` is independent of the governor: callers sample the peer,
plan a migration and commit it as three calls.

The GH200 connector lives in vLLM twice. Its scheduler half sees the block tables vLLM
reports, asks `GraceHopperPlacement` (which calls `UMAPolicy.place`) for a tier per
block, and turns the result into a plan: only the blocks whose tier changed against
what it planned before, and the remap of requests that came back in other slots. Its
worker half gets one plan per engine step, remaps and restores before the forward pass
(`start_load_kv`) and demotes after each layer's attention (`save_kv_layer`). The two
halves share nothing but the plan; copies are keyed by slot number.

PeerKV splits vLLM's KV tensors over two GPUs after `initialize_kv_cache`
(`_relayout_to_peer`), publishing the layout in `PEERKV_*` environment variables that the
attention hook reads on each forward. The hook copies the peer blocks a table names into
a scratch region on a side stream, remaps the table and calls vLLM's forward. Beside it a
caller of `online_select` samples the box with `LiveBoxProbe`, which caches the NVLink
verdict for `topology_ttl_s` and publishes the bandwidth in `PEERKV_NVLINK_GBPS`; the hook's
route guard reads that.

## 2. What is hard, and what makes each part correct

`PROJECT.json` lists each hazard at its line. In short:

* **Ledger**: two sources admitted against one residual budget; a late `update_rate`
  that brings a released lease back; a rescaled rate that nobody re-prices. Correct
  means that every endpoint's cost stays within eps (`BudgetKept`) and that the table
  holds exactly the leases being served (`LeaseHeld`).
* **Governor**: exceptions in each stretch of `_serve_one`, some inside a `try`, some
  not; deferral polls that race; stop and join at any moment, over dictionaries that a
  `submit` may grow; handles and counters that must be settled exactly once. Correct means that it implements the service of
  `TransferService` and satisfies `PendingCount`, `HandleSettled`, `ResultMeansLanded`,
  `InFlightCovered`, `ShutdownQuiesces`, and the liveness properties.
* **Pacers**: lateness, cancellation in a gap, slot reuse, the clock carried from one
  transfer to the next, a mirror thread that dies. `PacedLaunches`, `DepthBound`,
  `CancelAtChunk`.
* **Epoch loop**: four reads at four instants, and a multiplier that must neither leave
  its clamps nor shut a transfer out. `NoStaleIdle`, `Clamped`, `NoAbsorption`.
* **KV placement**: plans made from stale samples, a release between plan and commit, a
  log that is trimmed. `NeverRevived`, `LogTellsTier`, `FreedOnce`, `FallbackLegal`,
  `OvercommitBounded`.
* **GH200 connector**: a delta against what was planned before, over preemptions, forced
  restores and changes of policy; copies that outlive their request under a slot number
  the next request gets; a block that still grows when it is demoted. Correct means that
  a plan moves only slots of the requests it is made for (`MovesOwnSlots`), that both halves agree about
  every block (`BelievedHeld`) and that a request reads its own KV (`OwnKVKept`); `RestoreHarmless` is where it does not.
* **Staging and relayout**: scratch slots rewritten under a running attention, a
  relayout that fails half-way, more peer blocks than slots. `TableResolved`,
  `SeesOwnStaging`; `WrittenIsRead` is where the code does not keep its promise.
* **Selector and do-no-harm**: three judges of one request, two PCIe figures, a verdict
  stamped before it is known, a repair that must end in something legal. `ExitLegal`,
  `TripwireSilent`, `FastestLegal`, `VerdictLag`.

## 3. The modules

| Module | Models | State and steps |
| --- | --- | --- |
| `Ledger` | `budget.py` on curves of `calib.py` | `active` is `_active` (transfer to rate). `Admit`, `Defer`, `UpdateRate`, `Release` are one lock hold each; the pricing is in operators. |
| `Governor` | `governor.py` without the epoch thread, control of `pacer.py`, `native.py`, `native_pacer.cpp` | One program counter per worker (`worker`), the popped transfer (`serving`), per-transfer train state. A step is what a thread does between two points where another can interfere. |
| `TransferService` | what the governor promises | a line per source, grants, finished transfers. |
| `GovernorService` | the refinement | `line` is the popped transfer followed by the queue, `granted` is the lease table, `finished` is the set of done handles. |
| `Pacer` | the chunk loop with a clock, both actuators | `due` and `clock` are `next_due` and `_next_due[key]`, `evs` the completion events, `box` and `boxCancel` the `ControlBox`. |
| `EpochLoop` | `_epoch_loop`, `feed_victim`, `BudgetTrim` | one victim, one worker; `seen` is what the pass has read so far, one action per read. |
| `KVPlacement` | `kv_manager.py` | `tier`, `order` and `log` are the machine; `call` is what each caller has sampled or planned. |
| `UMAPolicy` | `policy.py`, `UMAPolicy.place` | operators only: the tier of each block from a ranking, the budgets and the pressure level. |
| `Connector` | `gh200_connector.py`, `placement.py`, the residency states of `uma_alloc.py` | `reqBlocks`, `prevTier`, `forceRestore`, `plan` are `_Scheduler`; `grace`, `compressed`, `state` are `_Worker` and `UMAResidencyController`; an engine step is schedule, `StartLoadKV`, `SaveKVLayer`. vLLM is external: it hands out slots, preempts, resumes, finishes. |
| `Selector` | `elastic_policy.py`, `online_select` and its helpers | operators: the set of decisions `online_select` may return or raise. |
| `PeerStaging` | `peer_kv_alloc.py`, `peerkv_attn.py`, `peerkv_staging.py` | `laid`, `published`, `handed`, `layout` are the relayout and what each layer knows of it; `queue` is the GPU work on the current stream and one staging stream per layer. |
| `PeerPath` | `LiveBoxProbe`, composed with `Selector` and `PeerStaging` | `age`, `nvlinkOk` are the cached verdict, `reading` the call of `peer_state()` under way; `trained` and `dead` are the link. |
| `GovernorProofs`, `GovernorHandles`, `PacerProofs`, `EpochProofs`, `KVPlacementProofs`, `ConnectorProofs`, `PeerPathProofs` (staging too) | theorems | section 6. |
| `FoldTheorems` | lemmas | sums over finite sets and the tables folds fill, for the two modules that count rates, costs and bytes. |
| `MCGovernor`, `MCPacer`, `MCEpochLoop`, `MCKVPlacement`, `MCConnector`, `MCPeerPath` | TLC instances | topologies, curves, sizes, prompts, batches, cost tables. |

Choices a reader should know of:

* **Passes over the trims.** `_trim_view` iterates over a dictionary that
  `feed_victim` grows under a lock the reader does not take. A pass is two steps,
  `BeginView` and the step that uses it; if a device was inserted between them the pass
  raises or has already ended, either may happen (`MayBreak`). A pass over an empty
  dictionary cannot raise.
* **The actuator** is chosen once, by the constructor: `pacerKind` is a variable that
  never changes, with its initial value in `Actuators`.
* **Rates are whole units.** `rate_fn` leaves a lease alone when the rate moved by
  less than 0.5; with whole units that is no move at all. Curves are tables, and
  `Invert` is defined on them as the largest rate within the budget.
* **Trims in `Governor`** take any value of `TrimLevels` at any time, which covers
  every sequence the epoch loop of `EpochLoop` computes. Pacing gaps in `Governor` take any
  time; `Pacer` times them.
* **`join(timeout)`**: every stretch a stopping worker goes through is short next to the
  timeout, except a native train that nothing cancels (`Uncancellable`), which the join
  gives up on. The join of the epoch thread is left out; it changes no state modelled.
* **The walks of `shutdown()`** over workers and copiers take no lock. `roll` is the set of devices a walk
  began with: if a `submit()` has created a worker since, the walk raises, or has already ended
  (`DictionaryGrew`); and once a CUDA call has failed `synchronize()` raises too (`CudaBroken`).
* **What is in a slot** (`Connector`) is `<<r, k>>`, the whole KV of block `k` of request
  `r`, or `None` while incomplete; a block is whole once the next one exists. Quantising
  is an exact copy. The copy to Grace runs on a side stream that nothing makes wait for
  the pass, so of a block just computed it may see the old or the new value.
* **Reuse** (`enable_external_reuse`) is on or off for good, chosen at the start from `ReuseModes`. Off,
  nothing of a preempted request is matched: it is scheduled again in new slots (`ScheduleResumed`),
  `update_state_after_alloc` has returned early, and the scheduler appends the new slots to the lost ones.
  `Stale` names such a request. That vLLM then reports the new slots as those of a cached request, and
  none after a match, is what the connector's tests feed it.
* **Routes** of the connector: residency hints, coherent read of the Grace copy, or copy
  back, chosen once by the configuration.
* **GPU work** (`PeerStaging`) is done in stream order, and across streams only where an
  operation `needs` another, which is what each `wait_stream` and event of `stage()`
  gives. What a tensor element holds is the block it came from, the pass that put it there,
  and whose tokens it has.
* **Workload hints.** A transfer may carry a `workload_hint` (`governor.py:275`) that selects another
  curve than "worst" at its admission, also for pricing the other leases there (`budget.py:106`). Nothing
  in the package sets one; one experiment does. The model has transfers without a hint, so what
  `BudgetKept` and its theorem say is said of those.
* **The topology probe** answers with the state of the link, with "no link", or not at all; in the last
  case (an exception, an empty answer) the code takes the link for healthy. `decided` is whether the last
  probe answered.
* **Ambient traffic** is any element of `Ambients`, chosen anew at each admission, whatever
  the leases are: the estimator's snapshot and the leases it is compared with
  (`governor.py:205`) are of other moments than the lock of `admit()`. Without an estimator,
  the default, it is zero.
* **A route without a lease is not priced** (`RouteCost`, `budget.py:105`), even if its curve
  costs something at rate zero.
* **Resubmission** waits until the transfer's lease is gone. The code makes a lease of its own
  for each submission; the model names the lease after the transfer, so one that `lease_leak` leaves behind
  keeps its name, and the sender is not modelled any further.
* **Latencies** are a table per cost model with a flag `oracle`: a `DecodeStepModel`
  answers infinity where it has measured nothing, a subclass may answer anything.
* **Ghost variables**: `owed`, `failed`, `base`, `lastLaunch` and `lateLaunches` of `Pacer`, `freed`
  of `KVPlacement`, `heldBy` of `Connector`, `written` of `PeerStaging`, `dead`, `decided` and
  `decision` of `PeerPath`, and the loaded flag of a sample in `EpochLoop` are history that
  the properties speak of; no guard reads them.
* `resumed` of `Connector` bounds preemptions to one per request and is also history.
* Definitions headed "Mutated form" are plausible wrong versions of the definition
  after them. Nothing uses them in a run; each is put in the place of its original to confirm
  that the property listed with it in `PROJECT.json` would notice.

## 4. The runs

| Run | Asks | Instance and bounds |
| --- | --- | --- |
| `gov_service` | Do the threads implement `TransferService`, with exact leases and every moving chunk covered, and does anything move after `shutdown()`? | Either actuator, the native one with its mirror threads; two transfers queued at `g1`, a host transfer to the same receiver, a stop at any moment, trims at one; 59 000 states. |
| `gov_faults` | Are errors recorded, counted once, never published as results, and never an overdraft? | Either actuator; `t1` may raise in any CUDA call, `t3` is resubmitted for ever, `g1` registers at any moment, the estimator reports nothing or a co-tenant at `g2`; trims stay at one; 113 000 states. |
| `gov_live` | Is every submission served or the governor stopped, every popped transfer done, and does `shutdown()` end, raising only for a reason? | `FairSpec`, Python, `t1` faulty, a stop at any moment, also between the submissions that create the workers; 4 400 states. |
| `pacer` | No burst, depth bound, cancel at a chunk boundary? | Either actuator, raising `rate_fn`, CUDA errors, cancel; two transfers of 1 or 3 chunks with a short last one, two rates, 5 instants; 1.6 million states. |
| `epochs` | No busy epoch taken for idle; clamps; no absorption? | `FairSpec`; an epoch of two ticks, grace of 3 as in the code, multipliers in quarters; 230 000 states. |
| `placement` | Nothing revived, nothing freed twice, a log without holes, legal fallbacks, bounded overcommitment? | Two callers, two interchangeable blocks, registered migratable or not, a peer that holds one, a log of two; 2 million states, two and a half minutes. |
| `connector` | Does a plan move only slots of its requests, do scheduler and worker agree about every block, and does a request that keeps its slots read its own KV? | Two requests over nine slots, prompts of four blocks, growth to five, two rankings, one preemption with a resume in either order of slots, reuse enabled or not, all three routes; 700 000 states, two and a half minutes. |
| `peerkv` | Does every table entry lead to its block, does a kernel see only its own staging, is every decision legal and the fastest legal one, how old is a verdict? | Two layers of two local and two peer blocks with one scratch slot, two passes, a relayout that may fail after either layer; a verdict of two ticks, a probe of one; that may fail; three requests, three cost models, two PCIe figures; 1.1 million states, two minutes. |
| `lease_leak`, `stale_lease`, `shadowed`, `peer_lost` | Counterexamples, section 8. | |

Why the bounds are enough: contention needs two transfers that share one endpoint
and do not fit together (the curves are chosen so that the two together exceed eps and
each alone fits); cross-route pricing needs two routes at one endpoint; queueing order needs two
transfers at one source; a stale lease needs a train of two chunks, so that a rate is read
while the other transfer is admitted; slot reuse needs more chunks than `Depth`;
the carried clock needs two trains; the trimmed log needs more events than `MaxEvents`.
Overcommitment needs two migratable blocks of which
each fits the peer alone, sampled by two callers before either commits. Demotion needs more blocks than sink and window together, and a reheated block needs two
rankings; four blocks with one sink and one window leave two to rank. A stream hazard
between passes needs two passes over one layer and as few scratch slots as possible. A
verdict can be stale only when the probe takes time or the time to live exceeds a tick.
`MaxTime`, `MaxTrains`, `MaxRate`, the capped ages of `EpochLoop` and `PeerPath`,
`MaxBlocks`, `Preemptible` (once each), `MaxSteps` and `MaxProbe` are the only cut-offs.
`gov_service` keeps the trims still, to leave room for both actuators: that leases and
refinement survive moving trims is what the theorems of section 6 say.
`peerkv` runs with the strict route guard, so the guard that only warns (`PEERKV_STRICT=0`) is covered by the
theorems of the staging alone, which hold for either value of `Strict`.
`UMAPolicy` has the branches of WARN and CRITICAL pressure; no run reaches them, because
the connector passes NORMAL only.
Deadlock is not checked where the system may rest (an idle or shut-down governor, the
clock bound of `Pacer`, finished requests, an engine that raised); it is checked for
`EpochLoop` and `KVPlacement`.

## 5. Fairness

`Governor!Fairness` gives weak fairness to each worker thread, to the mirror threads of
each worker's transfers, to the landing of its chunks, and to the waiting steps of
`shutdown()` together (one of them, or the exception that ends it): the threads are ordinary OS threads that are scheduled, none of them
waits on a lock held across a blocking call, and a CUDA stream makes progress.
Nothing obliges an engine to submit, feed or stop. `EpochLoop!FairSpec` lets the
worker, the epoch thread and time go on; samples may stop for ever. `Connector`,
`KVPlacement` and `PeerPath` have safety properties only and assume no fairness.

Weak fairness of a worker does not give it an admission: a deferred worker polls, and
each poll may find the budget taken. With senders that resubmit at once a transfer can
be overtaken for ever at a shared receiver, so `gov_live` has no recurring transfer
(section 8).

## 6. What is proved

For all values of the constants that satisfy the ASSUMEs of the modules:

| Theorem | Statement | Assumes |
| --- | --- | --- |
| `GovernorProofs!TypeCorrect` | `Spec => []TypeOK` | nothing more |
| `GovernorProofs!LeasesHeld` | `Spec => []LeaseHeld` | `TrimsSettled`: every victim fed before the first transfer, or feed-forward mode |
| `GovernorProofs!ChunksCovered` | `Spec => []InFlightCovered` | `TrimsSettled`, no CUDA error |
| `GovernorProofs!PythonShutdownQuiesces` | `Spec => []ShutdownQuiesces` | `PythonOnly` |
| `GovernorProofs!BudgetHolds` | `Spec => []BudgetKept` | `TrimsFixed`: feed-forward mode, or trims that stay at one |
| `GovernorProofs!GrantsPriced` | `Spec => [][GrantStep]_vars /\ []Rated` | nothing more |
| `GovernorHandles!HandlesSettled` | `Spec => []HandleSettled` | nothing more |
| `GovernorHandles!ResultsLanded` | `Spec => []ResultMeansLanded` | nothing more |
| `GovernorHandles!PendingCounted` | `Spec => []PendingCount` | nothing more |
| `GovernorHandles!NativeShutdownQuiesces` | `Spec => []ShutdownQuiesces` | `TrimsSettled`, no CUDA error |
| `GovernorHandles!GovernorImplementsService` | `Spec => ImplementsService` | `TrimsSettled` |
| `PacerProofs!TypeCorrect` | `Spec => []TypeOK` | nothing more |
| `PacerProofs!LaunchesPaced` | `Spec => PacedLaunches` | nothing more |
| `PacerProofs!CancelLandsAtChunk` | `Spec => []CancelAtChunk` | nothing more |
| `PacerProofs!DepthBounded` | `Spec => []DepthBound` | nothing more |
| `EpochProofs!TypeCorrect` | `Spec => []TypeOK` | nothing more |
| `EpochProofs!TrimClamped` | `Spec => []Clamped` | `FloorBelowOne`: the peer curve grants `MinRate`, the lowest floor is at most one |
| `EpochProofs!PeerStaysAdmissible` | `Spec => []Admissible` | `FloorBelowOne`, a victim fed by peers only |
| `EpochProofs!IdleIsIdle` | `Spec => NoStaleIdle`, of the samples present when the clock is read | nothing more |
| `KVPlacementProofs!FallbackAlwaysLegal` | `Spec => FallbackLegal` | nothing more |
| `KVPlacementProofs!EvictedStays` | `Spec => NeverRevived` | nothing more |
| `KVPlacementProofs!TypeCorrect` | `Spec => []TypeOK` | nothing more |
| `KVPlacementProofs!HistoryTold` | `Spec => []LogTellsTier` | nothing more |
| `KVPlacementProofs!FreedCounted` | `Spec => []FreedOnce` | nothing more |
| `KVPlacementProofs!OvercommitHolds` | `Spec => []OvercommitBounded` | no block is registered in the peer tier |
| `ConnectorProofs!TypeCorrect` | `Spec => []TypeOK` | nothing more |
| `ConnectorProofs!PlansOwnSlots` | `Spec => []MovesOwnSlots` | nothing more |
| `ConnectorProofs!DeltaHolds` | `Spec => []BelievedHeld` | nothing more |
| `ConnectorProofs!OwnKVReadBack` | `Spec => []OwnKVKept` | nothing more |
| `PeerPathProofs!StagingTypeCorrect` | `StagingSpec => []TypeOK` | nothing more |
| `PeerPathProofs!TablesResolve` | `StagingSpec => []TableResolved` | nothing more |
| `PeerPathProofs!ScratchIsOwn` | `StagingSpec => []SeesOwnStaging` | nothing more |
| `PeerPathProofs!RunsStaging`, `StagingSafe` | `Spec => StagingSpec`, and with it the three above | nothing more |
| `PeerPathProofs!ProductionExitLegal` | `Spec => []ExitLegal` | nothing more |
| `PeerPathProofs!OracleNeverTrips` | `Spec => []TripwireSilent` | nothing more |
| `PeerPathProofs!HarmlessIsFree` | `Spec => []FastestLegal` | nothing more |
| `PeerPathProofs!VerdictsLagLittle` | `Spec => []VerdictLag` | nothing more |

The assumptions are needed: `lease_leak` shows a lease left behind without
`TrimsSettled`, and a grown dictionary also kills a mirror thread (section 8); a CUDA
error leaves `run()` before its drain; without `FloorBelowOne` the floor lies above
the cap; `stale_lease` shows the budget exceeded once trims move; and blocks registered straight
into the peer tier can overfill it by any amount (the code registers in the local tier unless told
otherwise, and nothing in the repository tells it otherwise). So every safety property
of a passing run is a theorem, under the assumption its row names.

Of the modules' own ASSUMEs two are about data the code computes: `CurveAssumption` (a role has
finitely many routes, and a cost curve never falls as the rate grows: `calib.py` takes the
cumulative maximum) and the finite, non-empty sets of blocks and callers of `KVPlacement`.

*Governor.* `TypeInv` adds `Placed` to `TypeOK`: a busy worker serves a transfer whose
`Key` is its own device, so no two workers serve the same one (`OneServer`). That is
what keeps a worker's release from removing another's lease. `ViewsWhole` says that
under `TrimsSettled` no pass can break, which removes the one path from admission past
the `finally`. `LeaseHeld` is then inductive: `TryAdmit` adds the lease as the worker
enters `Holding`, `Unwind` removes it as it leaves, and `UpdateRate` keeps the domain
because it tests membership. `InFlightServed` (chunks move only while `run()` is at
work on them) with `LeaseHeld` gives `InFlightCovered`. `ShutOrder` says that `stop` precedes
the join, that the workers joined stay out of the serving states because `LoopTop` reads
`stop` (`LateIdle` adds that one created behind the walk never leaves its idle states, for the same reason),
and that the streams are drained last.

*Budget.* `BudgetKept` depends on two facts about what a worker holds in its hand.
`TrimsAtUnit`: every pass over the trims, finished or under way, has read one or nothing. `RatesKept`: a lease
is still at the rate it was admitted at, which its link can carry, so `rate_fn` computes the rate the
lease already has and `update_rate` changes nothing. What is left is admission
(`GrantKeepsBudget`): the cap is at most what the route's curve
grants in the room the other routes leave (`Left`), less what is on the route already; so after the grant the
route costs no more than that room, and the other routes what they did before. Ambient traffic can
only lower the cap, which is why its staleness does no harm to the leases. What remains of this when trims
move is `GrantsPriced`: an overdraft comes from rescaling only, never from an admission under trims of at
most one, and no lease exceeds its link's peak (`GrantPriced` is the step both theorems use). `CostMono` covers the endpoints that
a grant does not touch and every release.

*Handles and the service.* `Tracked` says where an unfinished transfer can be: in
exactly one place of its device's queue, or with that device's worker. From it,
`Settled` follows a transfer's outcome from `Raise` or `Drain` to the step that sets its
event, and gives `HandleSettled` and `ResultMeansLanded`; `PendingCount` follows because
each step adds or removes exactly one member of the set the counter counts. `Relayed`
says that a native train before its drain has a live mirror or has been cancelled, so the
join that stops waiting (`Uncancellable`) never happens, and `Joined` follows. The
refinement maps each step of the governor to one of `TransferService` or a stutter
(`NextService`), one lemma per kind of step; `Tracked` makes the popped transfer the
first of its line and keeps resubmissions apart from it.

*Pacer.* `PacedLaunches` alone is not inductive: a launch is only known to be late enough
through the deadline. `PaceKept` relates the deadline, or between trains and
until a train's first launch the stored clock, to the latest launch and the gap it owes. `CancelSticks`
says that after a launch made under a visible flag the loop can only reach the check
that ends the train, and that the flag is never lowered while the governor is stopped.
`EventsKept` says which launch the event of each slot stands for, so that waiting for a
slot's event before reusing it bounds what is in flight (`DepthKept`).

*Epoch loop.* `Clamped` is inductive with the types; the work is in the arithmetic of the
floor and of the clamps. `NoStaleIdle` needs `SamplesStamped`: while a transfer moves and the
pass has read no lease, the activity clock was stamped after the read.

*Placement.* `FallbackLegal` is about the one step that plans (`OnlyPlanning`): the fallback chain over each tier,
once the tiers are known to be tiers (`TiersKept`), and the room the sample showed; `NeverRevived` holds step by step because every commit consults the
table again.

`TypeInv` adds to the types that the insertion order lists each known block once (`OrderListsKnown`);
`InOrderLists` says that a loop over the dictionary then collects each block of a set exactly once, which
`FreedNext` needs to turn the sum over what `release()` collects into the growth of the evicted bytes, and
`HistoryNext` to append one event per block. `HistoryTold` is proved by what appending to a gapless log and
trimming its front keep (`HistoryExtends`, `HistoryTrim`). For `OvercommitBounded`,
`CallChange` isolates the share of one caller in what all claim. A sample can add to the claims only if its
block fits beside what the peer holds, and then the others claim at most one block
each (`SampleBounded`); planning may drop a claim or keep it (`PlanBounded`), and a commit turns a claim
into bytes held or into nothing (`MigrateBounded`).

*Sums and folds.* `SumFunctionOnSet` removes elements in an order that CHOOSE picks. `FoldTheorems`
shows by induction on the size of the set that any order gives the same sum
(`SumRemove`), and from it that sums add up, grow and are bounded. The library's induction theorems
take a predicate as a parameter and cannot be used; the induction here is over the set of sizes at which
the claim fails, which would have a least element (`LeastNat`).

*Connector.* `ConnectorInv` joins the types with two facts: running requests share no slot
(`SlotsDisjoint`), and the block tables added up from deltas are vLLM's (`TableTracked`, which excepts
preempted requests and, without reuse, resumed ones). The first gives `MovesApart`: what one scheduling step
moves to two tiers is disjoint even over several requests, so a plan never moves a slot twice unless a
list names lost slots. Such a list may also name a slot twice; the tier of its last place counts
(`LastAt`, `LastPlace`). `MovesOwnSlots` is `TableTracked` for the requests planned, and `History` for the
slots they lost.
The dictionaries are partial functions on the slots (`Partial`), and a lemma each says that `update`,
removal and re-keying keep them so. `History` adds who ever had a slot: a request that was
never preempted still has every slot it was given, remembered tiers are of slots still in the
list, and (`RemapHeld`) copies are moved only between slots of one resumed request. `Held` is
what `BelievedHeld` becomes inside a step: after planning, the plan brings the copy, or it is there and the
plan spares it; after loading, the plan brings it or it is there. `Intact` follows the content: a
compressed copy of an own slot equals what was computed there, and only a complete block of a
request in the batch is being compressed, since the last block is always in the policy's window
(`LastInHbm`). Both speak of slots with one owner, where no remap can reach.

*Staging.* `StagingInv` types the queue: each operation is what `Op` made (`WellMade`) and its table
resolves (`Resolved`) given how far the relayout came. `SeesOwnStaging` needs the order of streams.
`OrderInv` says that the queue is in the order of passes, layers and kinds (`InOrder`); that copies
await everything before them on the current stream (`Awaited`); that a kernel's copy fills exactly
the slots it reads and its write awaits that copy (`Paired`, `OnePerSlot`, `SameWrites`); and that
once the copy is done the slots hold what it staged and nothing left in the queue before
the kernel can touch them but the pass' own write (`Filled`).

*Selector and probe.* `DecisionOurs` says of a decision only that it came from `OnlineSelect` on the
recorded request; the three properties are then facts about the operators, for any
costs, with minima over the finite set of points. `VerdictAged` bounds how long the link can have been down by
the age of the stamp, or by the ticks the probe has run when its answer arrives.

## 7. What is only model-checked

Liveness: `EverySubmissionServed`, `EveryPopFinishes`, `ShutdownEnds` and `NoAbsorption`, which
rest on fairness and so on ENABLED, out of the prover's reach. The four runs of section 8
exhibit behaviours and prove nothing in general.

## 8. Where the code and its documents part

Four have a run that exhibits them:

* `lease_leak`: `_trim_view()` at `governor.py:292` runs after `admit()` and before the
  `try` whose `finally` releases. A victim's first feed in between raises, the lease
  stays, and later transfers to that receiver are deferred for ever.
* `stale_lease`: a lease admitted at half trim doubles when the trim recovers, on top
  of what was admitted since (`governor.py:301`).
* `shadowed`: the worker keeps the compressed copies of a finished request under their
  slot numbers. When the next owner of such a slot has the block demoted to Grace and
  reheated, `restore()` takes the compressed copy first (`gh200_connector.py:236`) and writes
  another request's KV over live KV.
* `peer_lost`: `forward()` stages and remaps before vLLM writes the new tokens
  (`peerkv_attn.py:132`), and vLLM's slot mapping still names unsplit block ids; tokens of a peer
  block reach the scratch or nothing, never the peer tensor.

Two more can be had from existing configurations:

* An exception of `rate_fn` ends the mirror thread (`native.py:102`), the only relay of
  the stop event: `gov_service` with `Actuators = {"native"}` and `Victims = {g1, g2}`
  violates `ShutdownQuiesces`.
* `_m_floor` comes from the receiver/peer curve only (`governor.py:116`), so on a route whose
  curve grants less the floor is below `min_rate` and a transfer can be deferred for ever:
  `epochs` with `Used = {"receiver/host"}` violates `NoAbsorption`.

Others were met while reading and are recorded without a run.

*Governor.* The trim that a lease is rescaled from is read after the admission (`governor.py:292`), in
another pass than the one that priced it; a back-off in between makes the lease grow, when the trim recovers,
beyond what was ever granted. Deferred workers poll independently, so admission is FIFO only within a
source; after a failed train the next one starts from the old pacing clock (`PacedLaunches`
excepts that launch); depth 2 lets a second chunk start on the link right after a slow
first one; an exception of the first `rate_fn` call means "no gap" to the native actuator;
`plan_migration` reserves nothing, so plans can overcommit the peer, by as much as
`OvercommitBounded` says; `release()` appends to the event log without the trim; a pass of the
epoch loop can take a sample of a transfer it has not seen into the idle baseline; silent
epochs need not be consecutive to use up the grace; a submission after `shutdown()` never
completes; one beside it that creates a worker makes `shutdown()` raise (`governor.py:333`, `335`), and so does
`synchronize()` after a CUDA error, before all workers are joined and all streams drained (`ShutdownEnds` excepts
both, `ShutdownQuiesces` speaks of a `shutdown()` that returned); a CUDA
call that fails in either pacer, or a `rate_fn` that raises in the Python one, leaves `run()` before its drain, so the lease is
released (`governor.py:315`) with chunks still moving.

*Connector.* With `coherent_read` (the default) a request resumed in other slots has its
Grace copies re-keyed and then dropped on restore without a copy into the new slot, against
the docstring of `apply_remap` (205-208). `apply_remap` re-keys by slot, not by owner, so where one
request's new slots are another's old ones a copy moves under the wrong block.
With `enable_external_reuse` off, a resumed request's new slots are appended to those it lost
(`gh200_connector.py:499`, `511-512`), although `update_block_table` is to "Maintain the full block table"; from
then on the plan moves slots that may be another's, which `MovesOwnSlots` and the types of a plan except
(`Stale`).
`num_new_matched_tokens` counts blocks the scheduler placed in HBM, which nobody holds after a
preemption. A block that goes from Grace to compressed to HBM keeps its residency
hint on Grace. The copy to Grace on a side stream waits for nothing. The residency
controller has no remap. This is why `BelievedHeld` and `OwnKVKept` speak of slots that had one
owner, and `OwnKVKept` of requests that were never preempted.

*PeerKV.* A relayout that fails keeps the layers it has split, though the log says "falling
back to vanilla single-GPU KV. Tiering disabled this run."; layers with no attention
implementation of their own are relaid without a peer tier, whose blocks then read out of range
(the model takes every layer as registered); `PEERKV_*` variables of an earlier engine in the process freeze
an old layout; a probe that throws or finds an empty topology reads as a healthy link,
though the comment says that undecided must not (`selector.py:66-72`; `VerdictLag` excepts that verdict, and
without the exception TLC finds it used over a dead link of any age); the stamp of the verdict is written before the
probe runs, so a concurrent caller may use an arbitrarily old one (the model has one caller);
`online_select` without a probe makes a new one per call, which caches nothing; NVML is read before
the topology is refreshed, by as much as the probe takes; on a machine up for less than the
time to live the first probe is skipped.

## 9. What is not modelled

Most of the repository's lines are not a system to model: snapshots of other projects'
code under `docs/`, experiment drivers, plots, benchmarks and CUDA kernels. Of the package
`umallm`, these are left out:

* Kernels and numeric code (`peer_parallel_attn.py`, `torch_tiered_attn.py`, the MLX back ends,
  `compression.py`): their correctness is about floating-point values.
* Hardware probes, calibration measurements and cost formulas: `runtime/calibration.py`,
  `uma_model.py`, `multigpu.py`. They keep no state; the models take their results as tables.
* Registration glue and the enumeration of attention layers: it runs once at start-up.
* `TieredKVCache` of `kv_runtime.py`: a single-threaded reference for the policy, which is modelled.
* The pressure listener and the recalibration daemon: two polling threads that each write one value;
  the connector passes a constant level.
* The estimator's polling thread and its NVML counters: `Governor` takes any answer of `ambient()`, `EpochLoop`
  none (without an estimator the epoch thread finds no ambient traffic).

Rounding is outside TLC's reach: rates and multipliers are whole units. `quote()` and
`report()` only read. The unpaced mode of the copiers is for experiments. `TypeOK` and
the guard of `stage()` keep a full scratch from being overrun, but the engine does not
survive the exception and no recovery exists to model.

## 10. Plan

What could still be added, in order:

1. A second caller of one `LiveBoxProbe`.
2. `TieredKVCache` under pressure levels, over `UMAPolicy`.
3. The curve algebra of `calib.py` as operators against reference definitions.
4. A run of TLC in which trims move beside `GrantStep`: with both actuators the instances take too long.
