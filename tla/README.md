# TLA+ models of the ironmlx backend

ironmlx serves language models on one Apple-silicon machine: a Rust server
(`src/ironmlx`) that batches requests on the GPU, and a macOS app
(`src/ironmlx-app`) that runs and supervises it. The models here are about the
server's control state: who holds a batch row, a stream, a budget, a lease or an
engine, and whether everyone who waits is answered.

`PROJECT.json` is the index: `map` names the source lines of every definition,
`hazards` what in the code is hard to test and which property covers it,
`findings` where code and comments disagree, `mutants` a plausible bug for each
property that makes it fail.

## 1. The system

| Part | State it keeps | Operations | Talks to |
|---|---|---|---|
| **Scheduler** (`core/scheduler.rs`) | slots of the batch, phase (Idle, Admitting, Decoding, Draining), poison flag, KV budget charge, governor reservation of each row, tokens | `admit`, `prefill_admitted`, `step`, `gc_finished_rows`, `evict`, `evict_all`, `admit_mid_begin/finalize`, park, restore | owned by one actor thread; model, paged KV, governor |
| **Scheduler actor** (`server/scheduler_actor.rs`) | event channels, admission queue, mid-admit in flight, parked requests, burst counter | one driver loop: assemble a batch, prefill, then roll between decode steps, prompt chunks and commands; handoff to the next batch | command channel from the HTTP handlers, oneshot replies, event channel per request |
| **Engine pool** (`server/engine.rs`) | slot object per model: state, pin, active requests, Arc count, last use; the load gate | `resolve_engine`, `ensure_loaded`, LRU eviction, TTL sweep, memory monitor, reload with rollback, register, pin, unload and drain | requests and operators (tokio tasks), governor, an actor per engine |
| **Model manager** (`server/model_manager.rs`) | registry, deferred reloads, parameters | configuration calls of the app | engine pool |
| **Memory governor** (`process_memory.rs`) | pressure level, sample counters, reservations | sample, reserve, commit, release | engine pool, scheduler actor |
| **Paged KV** (`cache/paged_kv.rs`), immutable prefix pool (`scheduler.rs`) | pages, reference counts, owners, pending rows | reserve, commit, fork, publish, release an owner | scheduler |
| **Prefix store** (`cache/prefix_store.rs`) | pending jobs and bytes, permits, files, LRU | admit, submit, cancel a model, evict | scheduler, its own I/O thread |
| **Active KV offload** (`cache/active_kv.rs`) | payload files of parked requests | write, read, discard | scheduler actor |
| **Adaptive admission** (`server/adaptive_admission.rs`) | learned thresholds | decide whether a request may join | scheduler actor |
| **Speculative decoding** (MTP, drafter, prompt lookup; DFlash2 has an actor of its own) | draft caches | draft, verify, roll back | scheduler |
| **Sampling, grammars, tool calls** | grammar sessions | start, advance | scheduler |
| **HTTP surface** (`openai.rs`, `anthropic.rs`, `responses.rs`) | one task per response | parse, submit, forward events | actor, pool |
| **Model implementations, loader** | weights | forward pass | scheduler |
| **App: supervision** (Swift) | restart budget, back-off, incidents | start, observe, restart, give up | server process |
| **App: downloads** (Swift) | queue, partial files | start, pause, resume, cancel, recover | model repository |
| **App: configuration, dashboards** | settings | edit, show | server's HTTP API |

What is hard, and what makes each part correct:

* **Scheduler.** Eight methods write the phase, four paths charge or release a
  budget, three produce a first token. Correct: charge, reservation, phase and
  rows agree after any legal sequence of calls, and no request is decoded past
  its limit, parked and restored or not.
* **Scheduler actor.** Clients hang up between any two steps; a step or a chunk
  can fail with a handle in flight, requests queued and others parked. Correct:
  each request is answered once and its stream ends with its final event;
  streams, rows and parked requests match; nobody waits for ever.
* **Engine pool.** What a task saw is stale after each await: the slot it looked
  up, the victim it chose, the room it found. Correct: an engine in use stays,
  the cap holds, a load has one loader, every waiter is woken.
* **Governor.** Levels move on counts of samples; reservations are taken and
  given back on different threads, and each recomputes the allocator's budget; several
  callers want the same cold weights. Correct: levels move as counted, the reserved bytes
  are those of live reservations, the budget fits, cold weights have one owner and nobody
  sleeps on what nobody warms.
* **Paged KV, prefix pool.** One page is shared by requests, forks and the prefix
  pool; rows are working copies of block tables; layouts are rebuilt at every change of the
  batch. Correct: a page is free exactly when nobody holds it, and nobody reads
  another's tokens.
* **Prefix store.** Shared counters of jobs and bytes. Correct: they return to zero.
* **App.** Crash, restart and resumption. Correct: no restart loop without
  end, no partial file taken for a whole one.

## 2. The modules

| Module | What it is |
|---|---|
| `SchedulerCore` | the calls of `Scheduler`, each an operator from scheduler state to scheduler state; closed under an arbitrary caller by `CoreSpec` |
| `SchedulerCoreProofs` | theorems about `CoreSpec` |
| `SchedulerActor` | the driver loop, its clients and the pressure around it; instantiates `SchedulerCore` for its scheduler |
| `SchedulerActorCalls` | lemmas: what the driver's calls do to its queue, its parked requests and its scheduler |
| `SchedulerActorProofs` | theorems about its `Spec` |
| `SchedulerActorRefinement` | the theorem that it implements `RequestService` |
| `RequestService` | what the actor promises to a handler, one request at a time |
| `EnginePool` | slots, load gate, evictors, operators and requests |
| `EnginePoolProofs` | theorems about its `Spec` |
| `MemoryGovernor` | pressure levels, reservations, cache budget, cold weights, on any number of threads |
| `MemoryGovernorProofs` | theorems about its `Spec` |
| `PagedKV` | the calls of the paged K/V cache, each an operator from cache to cache |
| `PagedCache` | the same calls as a specification of their own, in any order; an append runs position by position |
| `PagedCacheProofs` | theorems about its `Spec` |
| `PrefixPool` | the calls on the pool of immutable prefix blocks, on top of `PagedKV` |
| `PagedScheduler` | the scheduler's calls that use both, in the driver's order |
| `PagedSchedulerProofs` | theorems about its `Spec` |
| `MCSchedulerCore`, `MCSchedulerActor`, `MCEnginePool`, `MCMemoryGovernor`, `MCPagedScheduler` | the instances TLC checks |

### Scheduler life cycle: `SchedulerCore`

A scheduler is the record `[phase, poisoned, rows, tok, done, charged,
reserved]`: the occupied slots (`Slot`, by request), the tokens of each request,
the finished rows, and the requests that hold a KV charge (`budget_state`) and a
governor reservation not yet committed. `Admit`, `Evict`, `EvictAll`, `Prefill`,
`Step`, `GcFinishedRows`, `FinalizeMid`, `Park` and `Restore` are the methods of the
same names; `CanX` is the condition under which the method does not return an
error. A call that fails after it has changed something is an operator of its own:
`AdmitSessionFails`, `PrefillFails` and `StepFails`. `CoreSpec` lets a
caller make any legal call in any order; `parked` and `spent` are what such a
caller must remember, the requests it took out with their KV and the request ids
it has used.

Left out: tensors, page tables and positions (Paged KV's business; releasing
pages therefore never fails here), and the MTP, drafter and prompt-lookup variants
of `step`, which push several tokens at once. A row's charge is its presence
in `charged`; the byte count is a function of the request and of nothing else.

### Driver loop: `SchedulerActor`

| Code | Model |
|---|---|
| `driver_loop`, program position | `pc` |
| `event_txs`, `admission_queue`, `in_flight_mid_admit`, `parked_active_kv` | same names |
| chunks of the mid-admit's prompt still to prefill | `chunks_left` |
| `decode_steps_due_after_admission` | `steps_due` |
| mpsc command channel, its senders | `cmds`, `open` |
| oneshot reply, event with a `finish_reason` | `reply`, `last_event` |
| 3536–3724: first command, window, sweep, prefill | `Top`, `FirstAdmit`, `OuterClosed`, `AdmissionWindow`, `WindowDeadline`, `Sweep`, `Prefill`, `PrefillFails` |
| 3726–3800: abandoned clients, pressure | `Cancel`, `Press` |
| 3802–4130: the biased select | `Step`, `StepFails`, `AdmitDirect`, `AdmitByParking`, `AdmitQueued`, `PicksAdvance`, `AdvanceMidAdmit`, `AdvanceFails`, `Shutdown` |
| 4041–4184: after the select | `ParkForQueue`, `Drain`, `LoopTail` |
| 5041–5378: empty-scheduler handoff | `Handoff`, `Restore`, `BatchFromQueue`, `BatchMoreFromQueue`, `BatchFromCommand`, `NoNextBatch`, `BreakRolling` |
| handlers and the world | `Submit`, `HangUp`, `PressureChange`, `Close` |

One action is the code between two points where something else may be
observed: a receive, a closed reply or event channel, the pressure level. Each
action makes every state-changing call of its lines.

Choices: the ordinary decode mode and the disabled adaptive policy (the
default); a chunk of a mid-admit makes the same short decode burst due whatever its length,
the burst being counted in `steps_due`; a step that fails part-way has no effect but
the failure, because the driver drops the whole batch next.

`RequestService` has, for each request, `new`, `waiting`, `refused`, `streaming`,
`ended` and `cut`. `Service` in `SchedulerActor` maps the driver's state onto it;
`ImplementsService` says every driver step is a step of it: no second answer, no
stream that ends without its final event unless its client left or the model
failed or the engine closed.

### Engine pool: `EnginePool`

A slot object is `<<model, n>>`; `map` is the slots map, and a call goes on
with the object it looked up when a reload or a registration has put another one in
the map. `state`, `pinned`, `active`, `recency` are fields of the object; `refs`
are the tasks that hold its `Arc`; `streams` the response bodies its actor
still fills; `gate` the FIFO load gate, holder first. A task's `pc` follows
`ensure_loaded` (2114–2322) and `ensure_capacity_for` (1899–1963) await by await:
look, wait or queue for the gate, look again, reserve, reclaim, retry, capacity,
evict, load, lease, stream. Around them: `ReloadRemove`, `ReloadInsert`, `ReloadUndo` and
`ReloadRestore` (1440–1501), `RegisterKeep`, `RegisterNew` and `RegisterInsert` (1519–1545),
`PinCheck`, `SetPinned`, `Unload`, `FinishDraining`, `TtlCheck`, `TtlUnload`,
`MonitorChoose`, `MonitorEvict`, `HangUp`.

Choices: the registry is folded into the slot map and Disabled models are left
out; scans that lock the slots one at a time (`loaded_count`, the choice of a
victim) are one action, and so are the drain poll with the lock it takes, and an
unload with its lookup. There is no clock: a sweep that found a slot expired finds
it recent once it has been used (`Touch` clears `sweep`), which is the
re-check of `last_used` under the lock. Ties in recency are not modelled. A task makes
one call. Whether the governor refuses and whether a load fails is left open. The deferred
reloads of `model_manager.rs` are not modelled.

### Memory governor: `MemoryGovernor`

| Code (`process_memory.rs`) | Model |
|---|---|
| `GovernorState`, under its mutex | `gov`, a record with the same fields |
| `refresh_telemetry`, `advance_pressure_state`, fail-safe | `Update`, `Advance`, `FailSafe`; a sample is any member of `Samples` |
| age of the last sample | `gov.age`: fresh, due, stale; `Tick` lets it grow |
| `try_reserve_inner`, `release_reservation` | `Reserve`, `Release`; `TryReserve`, `GiveBack` |
| `apply_mlx_cache_budget_locked` | `ApplyCacheBudget`, part of each of the above |
| `plan_prefill_chunk` and its retry | `Plan`, `Refresh`, `SafeChunks` |
| `ColdMaterializationTracker` | `comp`, `owned`; `Begin`, `CommitCold`, `Mark`; its condition variable is the place `asleep`, and `Wake` its `notify_all` |
| the monitor thread; a level read by an actor | `MonitorSamples`; `Observe` |
| callers: engine load, admission, vision, chunks, cold | `Call` with a kind, and the places of `pc` |

Each action is one critical section. `low_run` and `high_run` are history: the samples
in a row that were low or that showed one level, whatever the code's own counters say;
`LevelMovesSlowly` compares the two. Bytes are small units and saturation at
`usize::MAX` is out of range; a sample is independent of what the threads have committed.

### Paged cache: `PagedKV`, `PrefixPool`, `PagedScheduler`

| Code | Model |
|---|---|
| `page_ref_counts`, free list | `kv.ref`; a page without references is free |
| block tables by owner, `execution_rows` | `kv.table`, `kv.rows` (a row's copy is written back by `Commit`) |
| contents of a page | `kv.holds`: the token prefix up to its last written position, for the K/V of a position depend on all tokens before it |
| `append_on` with copy-on-write, `adopt_row_from_on`, `fork_owner`, `release_owner` | `AppendRows`, `AdoptRow`, `ForkOwner`, `ReleaseOwner` |
| immutable pins | `kv.pins`; `PinBlock`, `InstallBlock`, `ReleasePin` |
| `ImmutablePrefixBlockPool` | `paged.pool`: entries by chain, recency, blocks still to be stored |
| restore of a prompt's prefix, publication, reclaim for pages | `Restore`, `Publish`, `Reclaim` |
| `cache`, `cache_rows` of `Scheduler` | `paged.kv` or `NoCache`, `paged.rows` |
| `rebuild_cache_layout`, `install_initial_cache_for_rows`, `install_cache_with_temp_row` | `Layout`, `Install`, `Adopt` |
| `admit_mid_begin`, `admit_mid_chunk`, in place or in a temporary cache | `MidBegin`, `MidChunk` |
| `step` and `gc_finished_rows`, `evict`, `evict_all` | `Step`, `HangUp`, `EvictAll` |
| `fork_request_blocks`, park, restore | `Fork`, `Park`, `Unpark` |
| `apply_process_memory_pressure` | `Pressure` |
| prefix store's queue and worker | `disk`, `queue`; `RetryStores`, `StoreWorker` |

All layers of a model go through the same calls, so one stands for all. A call that
fails half-way keeps what it has done: operators return `[w, ok]`, and what the
code then rolls back, `Abort`, `GivesUp` or `Undone` rolls back. An
append that finds no page fails with the rows before it written and nothing committed. `admit_mid_begin` without a main
cache fails. After the rollback that loses the cache the model goes on until the batch is gone; it starts no
further one over a pool whose pages no longer exist. The scheduler is in the ordinary
FullPaged mode; the parked requests are the domain of `saved`, which is what a payload says its request has cached. Pressure
may strike at any moment between two calls, which is more often than the driver looks.

`PagedCache` closes the calls of `PagedKV` under any caller, for the proofs: a row bound to each of some owners, a fork, a
release, a pin and so on, with the refusals of `bind_execution_rows`, `fork_owner` and the `validate_immutable_*` functions as
guards. Its `append_on` is one action per position (`BeginRow`, `WritePosition`, `EndRow`, `CommitRows`), where
`PagedKV` folds `Put` over the positions: a state in the middle of an append is a state of it, and so is one an
append abandoned. Between two rows of an append other calls may come, which the code never does.
`cached` is what each owner has cached: the tokens up to its offset, which the scheduler's requests remember in the code.
Pins are known by the tokens up to the end of their block, as in `PrefixPool`. Three guards are the callers': an append
goes on where its owner is, a block is pinned under its source's tokens, and `BeginAdopt` is for an owner with nothing cached.

## 3. What the runs check

| Run | Instance | Distinct states | Shows |
|---|---|---|---|
| `core` | 4 requests, 2 rows | 3,882 | the ledgers of the scheduler are exact under any caller |
| `actor_safety` | 4 requests, 2 rows, queue 1, one failure, offload, pressure, close | 933,620 | streams, rows, parked requests and the mid-admit handle match; no request is lost; an idle driver owns nothing |
| `actor_live` | the same without pressure changes and close | 88,543 | the driver implements `RequestService`; every request is answered and every stream ends |
| `pool` | 3 models, cap 2, LRU eviction, 2 requests, 1 operator | 103,440 | leases, cap, load gate and pins are kept; every call ends but those behind a load whose client left, and every drain |
| `pool_reload` | 2 models, cap 1, Reject, 1 request, 2 operators, 2 objects per model | 1,167,131 | a lease keeps its engine and a model its slot while objects are replaced and an operator may hang up |
| `governor` | 2 threads, 2 components with cost, ceiling 100, 3 kinds of sample | 1,540,740 | reservations, cache budget and levels are exact under any samples; cold weights have one owner and every sleeper a waker |
| `paged_cache` | 3 requests and a fork, 3 rows, 5 pages of 3 positions, pool of 2 blocks | 752,437 | every request is in one place, pages are counted exactly, nobody reads another's tokens, layout and pool follow the batch |
| `idle_queue`, `poison`, `rollback`, `pool_cap`, `stream_cut` | see section 4 | | a counterexample each |

**Scheduler.** `CoreTypeOK`; `BudgetFollowsRows` (the charged requests are those
with a row, but for a failed grammar session); `ReservedUntilFirstToken` (a governor reservation lives from admission
to the row's first token); `PhaseDescribesRows`; `TokensWithinLimit` (no token past the
last one, and a row with its last one is finished; a limit of 0 admits one token, `Limit`).

**Actor.** `StreamsOwned` (open streams are the rows and the parked requests, never both);
`MidAdmitOwnsSlot` (in a decoding batch the one row without a token is the handle in
flight); `NoLostRequest` (an unanswered request is in the channel or the queue, once);
`IdleOwnsNothing`; `CoreInvariants` (the scheduler's, under this caller's
calls); `ImplementsService`; `EveryRequestAnswered`; `EveryStreamEnds`.

**Pool.** `LeaseKeepsEngine` (what is lent is not unloaded); `ActiveCountsLeases`;
`CapRespected`; `LoadingHasLoader` (nothing but a dropped load leaves a slot in Loading); `PreloadStays`; `FailedNeedsControl` (a request never
retries a failed load, not even one that failed while it queued); `EveryCallEnds`;
`DrainingEnds`; `ModelKept`.

**Governor.** `ReservedExact` (the counters are what live reservations hold, the
cache growth shared by a run of prefills included); `CacheWithinTarget`; `LevelMovesSlowly`; `WarmingOwned`;
`WarmBeforeUse` (a call that goes ahead finds its components warm or its own);
`SleepersAwaited` (no lost wake-up).

**Paged cache.** `OnePlace` (a request runs, is parked, has ended or has no token, and a mid-batch admission
keeps its slot as long as its handle exists); `PagesExact` (each page has as many references as tables and pins);
`OwnTokens` (a request's pages hold its own tokens, and a decodable row has cached all but its last);
`PoolSound` (the pool is a forest with parents, counts and pins); `RowsBound`; `GoneHoldNothing`;
`CacheKept` (nobody else's call sets a running request back). `PoolSound`, `RowsBound` and `CacheKept` except
the one rollback that `rollback` shows, through the history variable `lost`: set where it drops the cache, cleared with the
pool's last block. `PoolHasCache` is the same without the exception, and fails.

### Bounds, and why they are enough

* `BMax = 2`: two rows are needed for one to finish, fail, be cancelled or be
  parked beside another; a full batch and a free slot both occur.
* Four requests: two in the batch, one queued, one in the channel. `r1` asks for no token and
  ends with its first; `r2` has two prompt chunks and three tokens and
  only joins an empty batch (`BatchLimit` 1); `r3` may be refused; `r4`'s grammar session
  may not start (safety run).
* `QueueMax = 1` makes the queue full with one request; `ChannelCap = 1` (64 in
  the code) because the order of commands is all that a longer channel adds.
* `MaxFaults = 1`: the driver resets everything on a failure.
* `DecodeBurst` 2 in the safety run, 1 in the live run.
* Pool: a cap of 2 with a preloaded model leaves one place for two lazy ones; two requests
  and an operator make two waiters and a loader. `MaxObjects = 1` is the static
  pool; with 2, a replaced object and its successor are live together. One request may hang up
  at any await in both, in `pool_reload` an operator too. A call dropped half-way through a load or a reload
  ends at a point of its own (`loadcut`, `reloadcut`), which is all the properties need to name what it leaves behind.
* Governor: two threads give every pair of interleaved calls, one that owns a component and one that
  sleeps; promotion and recovery after 2 samples (2 and 3 in the code, 370–371) keep a count apart from its threshold.
  The three samples are low, low but above each watermark with what may be reserved (30, or
  20 and 10 of cold weights), and failed.
* Paged cache: a page of three positions lets a fork and its source diverge inside the block they
  share; five pages are too few for three requests, so reclaiming and shortage both
  occur; two prompts share a first block and a third does not; limits are 4, 1 and 0 tokens. `MaxBlocks + BMax` pages is the
  code's own sizing. Three rows are what a rollback beside a vacated row and a running one takes. One client may hang
  up and one forward may fail.
* No symmetry: the requests and the models differ, as do the threads' calls.

`CHECK_DEADLOCK FALSE` stands where the system stops for good: the driver thread
returns on shutdown, a driver without clients blocks in its receive, and one-shot
calls are done. The `core` and `governor` runs check deadlock.

### Fairness

* `WF_vars(Driver)`: the driver is a thread that only its next receive
  blocks. Nothing is assumed of clients.
* `WF_vars(Proceed(t))` for each task of the pool: the runtime polls a woken task, the
  load gate is a FIFO lock, and loads and responses end.
* `WF_vars(FinishDraining(s))`: the drain task polls every 50 ms.
* Operators, the monitor and the TTL sweep are never obliged to act.

`EveryRequestAnswered` excepts a request in the queue of an idle driver after a
client left or the model failed: that is the finding `idle_queue`. The live run
keeps pressure constant: with rows parked and pressure above Normal, the handoff sleeps and
loops until the pressure falls (5160–5168), so liveness there depends on the machine, and so does
`ImplementsService` (section 4).

## 4. Where code and comments disagree

1. **`idle_queue`**. scheduler_actor.rs:3570–3572 says the admission queue is empty at the idle
   receive. When the sweep cancels the whole batch (3652–3654), or a batch from a command fails
   to prefill (5358–5369), it may not be; what is queued waits for somebody else's request.
2. **`poison`**. scheduler.rs:7373 says `evict_all` recovers a poisoned scheduler. If the
   queue's head is refused when its batch starts, the handoff resumes rolling in Idle
   (5208–5211), the step poisons the scheduler, and `evict_all` refuses an Idle one.
3. **`rollback`**. scheduler.rs:6632–6635 requires a cache for a prefix pool with blocks. A temporary row is
   adopted into the main cache without reclaiming pages first (7541–7660). When that fails beside a row vacated by
   a hang-up or an ordinary finish, the rollback asks for the vacated row's owner (7633) and returns with
   `cache` and `cache_rows` taken (7579–7583): the rows that decode have lost their K/V and the pool its pages. TLC
   needs eight states: two rows, one mid-admitted, one hang-up. Until the rows and the pool's blocks are dropped,
   `PoolSound` (no cache), `RowsBound` (decodable rows outside an empty layout) and `CacheKept` (the
   step itself) would fail too; they except this state by name (`lost`) and nothing else.
4. **`pool_cap`**. serve.rs:65 and docs/engine-pool.md:39 promise a maximum of loaded models. A reload
   takes its loaded slot out of the map, another model takes the place, and the rollback
   puts the old slot back loaded.
5. **`stream_cut`**. docs/engine-pool.md:68–69 and 78–79 say a model in use is neither evicted nor
   unloaded. The lease ends when the `Response` is returned, so a model that still
   streams looks idle; the unload closes its actor and the stream is cut.

Seen while modelling, with no statement in the repository to hold against them:
a grammar session that does not start (6917–6921) leaves `admit` with the charge made and no slot, though
5395–5396 speaks of a release on slot clear (`BudgetFollowsRows` excepts that request); `max_new_tokens` = 0 is accepted and
yields one token (15544–15559, `Limit`); a client that leaves while its load is
past `Loading` (engine.rs 2238–2311; its awaits yield when a lock is contended) leaves the slot in Loading with
nobody at work, although docs/engine-pool.md:84 calls that state a load in progress, and every later call for that model
waits for ever (`LoadCut`, excepted by `LoadingHasLoader` and `EveryCallEnds`);
a failed restore removes a parked request's stream without a final event; when the batch ends with requests
parked and the pressure stays above Normal, the handoff makes the scheduler Idle and goes back to rolling
(5160–5168), the next decode step is refused in Idle, and the driver drops the parked streams although no
model failed (with pressure varying and offload on `ImplementsService` fails in 18 states; with offload off it
holds on all 205,626 states); an operator whose connection drops between `remove` and `insert` of a reload leaves
the model without a slot (engine.rs 1461–1479, and 1487–1501 in a rollback; `Parts`, excepted by `ModelKept`); the decode burst
is enforced only while admission work is pending (346–352), and sustained commands can delay decoding; two
overlapping reloads that both fail can lose a model (`ModelKept` excepts them); a pin between the
TTL sweep's test and its lock is not honoured.

Of the governor: the fail-safe of a stale sample leaves `recovery_samples` as it was; samples
that alternate between Soft and Hard promote to neither; a request that read Normal may reserve after
the level has risen to Soft, at which docs/process-memory-safety-loop.md:56 pauses new admissions;
the batched candidates of dflash2_actor.rs:728 are not looked at again.

Of the paged cache, scheduler.rs unless named:

* A hang-up vacates a row and leaves it in `cache_rows`. A mid-admission in place that meets such a
  layout is given up (16239–16245; scheduler_actor.rs:4555–4558): its request ends for somebody
  else's hang-up. In the model this is `WriteChunk` with `GivesUp`.
* An Emergency reclaim empties the pool; if the level read again is lower, the idle scheduler keeps a cache
  with an empty pool (5640–5775), and the next prefill is refused because a cache is there (6714–6758,
  `CannotInstall`).
* The pages a step reclaims do not count the clones of copy-on-write (15657–15703), so a fork's
  first step may fail for want of a page.
* A prefill that cannot queue its blocks because the store is closed fails as a whole; a crash in a
  save leaves a `.tmp-` directory behind.

## 5. What is proved

`SchedulerCoreProofs` proves about `CoreSpec`, for every finite set of requests, every `BMax > 0`, every
`MaxNew` of natural numbers, 0 included, and every set of requests whose grammar session fails:

| Theorem | Says |
|---|---|
| `CoreInvariant` | `[]CoreIInv` |
| `CoreTypeCorrect` | `[]CoreTypeOK`, the row limit included |
| `BudgetExact` | `[]BudgetFollowsRows` |
| `ReservationsExact` | `[]ReservedUntilFirstToken` |
| `PhaseExact` | `[]PhaseDescribesRows` |
| `TokensBounded` | `[]TokensWithinLimit` |

The argument: `Sound(s)` says of one scheduler state that it is well formed, fits the
batch, has its budget and reservations exact, its phase right, and no finished row in
the wrong place. One lemma per call (`AdmitSound`, `StepSound`, `ParkSound` and so on)
shows that the call keeps it. `Sound` alone is not inductive: a restore re-inserts a
request with tokens, and an admit of a request that has some would break
`ReservedUntilFirstToken`. `Accounted` adds what the caller remembers: a parked request holds no
row, has a token and is below its limit, and a request never used has none.
`CoreIInv == Sound(sched) /\ Accounted(sched, parked, spent)` is inductive (`CoreStart`,
`CoreStep`). Assumptions: `RequestsFinite`, `BMaxPositive`, `MaxNewNatural`,
`SessionFaultsAreRequests`, all evaluated by TLC in every run.

`SchedulerActorProofs` proves about `SchedulerActor`'s `Spec`, for every finite set of requests, batch size, queue and
channel bound, decode burst and number of failures, all prompts and limits, with and without offload, varying
pressure and closing:

| Theorem | Says |
|---|---|
| `DriverInvariant` | `[]IInv` |
| `DriverTypeCorrect` | `[]TypeOK` |
| `StreamsAlwaysOwned` | `[]StreamsOwned` |
| `MidAdmitAlwaysOwnsSlot` | `[]MidAdmitOwnsSlot` |
| `NoRequestLost` | `[]NoLostRequest` |
| `IdleAlwaysOwnsNothing` | `[]IdleOwnsNothing` |
| `LedgersExact` | `[]CoreInvariants`: what `SchedulerCoreProofs` shows for an arbitrary caller holds for this one |

None of the properties is inductive alone: whether a stream has an owner after a step depends on where the loop stands.
`IInv` has four parts. `InLine`: channel and queue are without repetition, disjoint, and hold exactly the unanswered
requests. `Batch`: the scheduler with the parked requests satisfies `Sound` and `Accounted` of `SchedulerCoreProofs`
(instantiated as `P`, so each call costs one citation), a poisoned scheduler is Idle and has nothing reserved
(`Recoverable`), the handle of a mid-admit is the row without a token, and finished rows have had their event.
`Place`: what each place of the loop may hold, such as no parked request while a batch is assembled and no handle in
the handoff. `Scalars`: ranges. One lemma per action proves the last three; the loops over rows
and over the queue that an action makes at once are set expressions, so no induction is needed. TLC checked `IInv` on the
933,620 states of `actor_safety` before it was proved. Assumptions: `RequestsAreFinite`, `NoRequestIsNone`,
`BatchOK`, `BoundsAreNat`, `PoliciesOK`, `SwitchesAreBoolean`, all evaluated by TLC.

`SchedulerActorRefinement` proves `DriverImplementsService`: `Spec => ImplementsService`, if the pressure stays Normal or
nothing is ever parked (`Steady`; section 4 says what happens otherwise). The mapping is `Service`. Besides `IInv` it
needs `Calm`: the loop never makes a decode step in Idle over parked requests. Each action is shown to change
every request's `ClientSees` by an edge of `RequestService` or not at all; an action that touches a whole batch is one
step of the abstract `Next`, which moves any number of requests.

`MemoryGovernorProofs` proves about `MemoryGovernor`'s `Spec`, for every set of threads, every ceiling, every
set of samples, thresholds and costs:

| Theorem | Says |
|---|---|
| `Invariant` | `[]Inv` |
| `GovernorTypeCorrect` | `[]TypeOK`: no counter passes its threshold |
| `BudgetFits` | `[]CacheWithinTarget` |
| `LevelIsSlow` | `LevelMovesSlowly`, an action property |
| `OneOwner`, `NeverCold`, `NoLostWake` | `[]WarmingOwned`, `[]WarmBeforeUse`, `[]SleepersAwaited` |
| `ReservationsCounted` | `[]ReservedExact` |

`Inv` has three parts. `Governed` is about the governor's record alone: its type, the budget within the
target, and the code's counters never ahead of the samples in a row, without which a level could move early.
`ThreadsOK` gives each thread's place what it holds there. `Tracked` says that a component is Warming exactly
while one call owns it, that owners are past their claim and that a sleeper waits for another call's component.
`AdvanceSound` carries `LevelIsSlow`; `BudgetApplied` recomputes the budget after any change; `BeginTracked` and
`MarkTracked` are the two steps that move components. For `ReservedExact`, `Ledger` adds to the four totals that a
reservation's growth is part of its bytes and none but a prefill's has any; without it a release might saturate, and
the totals drift. Bytes held are counted as pairs of a thread and a number, so that one more reservation is one more
disjoint set (`MoreTransients`, `OneMoreHolder`) and a release is the same lemma read backwards. Assumption:
`GovernorAssumption`.

`EnginePoolProofs` proves about `EnginePool`'s `Spec`, for any number of models, objects, requests and operator
calls, both capacity policies, with or without a tight governor:

| Theorem | Says |
|---|---|
| `Invariant` | `[]Inv` |
| `PoolTypeCorrect` | `[]TypeOK` |
| `LeasesHold` | `[]LeaseKeepsEngine` |
| `CountsExact` | `[]ActiveCountsLeases` |
| `PreloadIsSafe`, `FailedWaitsForOperator` | `PreloadStays` and `FailedNeedsControl`, action properties |
| `LoaderExists` | `[]LoadingHasLoader` |
| `StaticCap` | `[]CapRespected`, if `MaxObjects = 1` |
| `ModelsKept` | `[]ModelKept` |

`LeaseKeepsEngine` is not inductive: an eviction looks at `active` and not at the tasks, so `Inv` adds that
`active` counts the leases (`Counted`); a load writes its slot without looking again, so `Inv` adds what a task
past the gate knows of its slot (`TaskOK`) and that only the gate's holder is there (`Queue`). `Settles(t)`
and `Wakes(t)` say what a step of `t` leaves of the others, and `OthersOK` that this keeps their `TaskOK`.
`Names` adds that no victim is a Preload model, and `Moves` what a step may do to a slot's state; the two action
properties follow. For `StaticCap`, `Room` says that who is past the cap's check has the room still: only the
gate's holder loads, and everything else only gives engines up. With two objects per model it is
false, as the run `pool_cap` shows. For `LoaderExists`, a load's holder stays until the load ends
or it is dropped (`LoadersStep`), and a dropped load stays dropped (`CutStays`). For `ModelsKept`, `Reloading` adds that only an
operator reloads, that only a reload reaches a rollback, and that a rollback that restores has a slot to restore;
`HangUpReloads` is the operator whose connection drops in between. Neither theorem assumes anything of who hangs up. Assumption:
`PoolAssumption`.

`PagedCacheProofs` proves about `PagedCache`'s `Spec`, for every finite set of requests and of pages, every block size, and
texts over any vocabulary and of any length:

| Theorem | Says |
|---|---|
| `CacheStaysSound` | `[]CacheInv` |
| `CacheTypeCorrect` | `[]TypeOK` |
| `CacheCountsExact` | `[]PagesExact`, what `validate_owner_invariants` checks at run time |
| `CachePositionsCovered` | `[]PositionsCovered` |
| `CacheOwnTokens` | `[]OwnTokens`: the pages of an owner's table hold the tokens it has cached |
| `CachePinsTrue` | `[]PinsTrue`: a pinned page holds the tokens it stands for |
| `CacheOwnersIsolated` | `OwnersIsolated`, an action property: a call changes what at most one owner reads |
| `CachePinsImmutable` | `PinnedImmutable`, an action property: pins keep page and contents |

`Sound(c)` says of one cache that it has its type, exact counts, no page twice in a table, no owner in two rows, and every
position in a page. The counts are needed for what follows: a write in place is harmless because a
count of one says that no other table and no pin has the page, and a free page belongs to nobody
(`HeldIsCounted`). An owner's table is in its row when one is bound, so counts and reads go through `TableOf`, which
`Commit` does not change (`CommitKeeps`). Every call is then one of three shapes: it changes no table (`NeutralCallKeeps`),
it gives one owner other pages, counted (`OwnerCallKeeps`), or it takes or drops one pin (`PinCallKeeps`); `RowCallKeeps` is the
second one through a row, for adoption, writes and the offset. A position has three cases: a fresh page, a shared page
exchanged for a copy, a page of the row's own (`PutKeeps`).

`CacheInv` adds what pages hold. Every call says what its owner reads afterwards (`Reads`), so the rest is about
sequences of tokens. `ViewSound(r, text)`: each page of what is read agrees with the text up to where the text ends in
it (`Shows`), and no page holds more than ends in its block (`Fits`), without which a pin could stand for less than its page
holds. `OwnTokens` is not inductive: in the middle of an append the pages are ahead of the offset, and the append may be abandoned
there. `WriteShows` says that the row being written shows its text as far as that is written and that its owner's tokens are the
beginning of it. A position that is written then adds one to what is shown (`LastWrittenIsText`, `ShowsNext`) and takes nothing
from what is cached (`ShowsStill`). `PinsTrue` is part of the invariant for two reasons: an owner that starts with pins reads their
text (`ChainShown`), and blocks of one text are different pages because they hold different tokens (`ChainPinned`),
so that no table names a page twice. `PagedCache` has no run of its own; `paged_cache` runs the same operators.
Assumption: `KVAssumption`.

`PagedSchedulerProofs` proves about `PagedScheduler`'s `Spec`, for every set of requests, batch size, page pool, prompts
and limits, and any number of failures:

| Theorem | Says |
|---|---|
| `PlacesInvariant` | `[]PlaceInv` |
| `RequestsInOnePlace` | `[]OnePlace`: a request runs in one slot, is parked, has ended or has no token; a mid-batch admission keeps its slot as long as its handle exists |

`PlaceInv` is `OnePlace` with the types it needs; a request that is nowhere has no token, which is what lets a new one be
admitted with an empty text. What the calls on the cache return is left open: only how a call ends is read, so the proof
holds for whatever pages a call finds. Every action is then one of four shapes: a request takes a free slot
(`TakePlaces`; the free slot is a least element, `MinOfSlots`), some leave theirs and are forgotten (`EndPlaces`), one leaves its
slot for a payload (`ParkPlaces`), or nobody moves (`StayPlaces`). The handle is the delicate part: between two
chunks finished rows, hang-ups and failed restores vacate slots, and whatever vacates the handle's slot has to drop the handle with it
(`HangUp`, `GivesUp`, `Abort`).
Assumptions: `PagedAssumption`, `KVAssumption`.

Only model-checked: the other properties of `PagedScheduler`. Its calls are folds of the cache's over
rows, blocks and positions, and what a fold computes is an induction over data, so its `PagesExact` is not a corollary of
`CacheCountsExact` that the prover can see, nor its `OwnTokens` one of `CacheOwnTokens`; the pool's properties are not proved. `ImplementsService` under varying pressure is refuted, not open. Out of the prover's reach:
liveness under fairness and `ENABLED`, induction over data, `RECURSIVE` operators (none is used).

## 6. Plan

1. Done: `SchedulerCore`, `SchedulerActor` with `RequestService`, `EnginePool`, `MemoryGovernor`,
   `PagedKV` with `PrefixPool` and `PagedScheduler`; proofs of the scheduler core, the driver loop and its
   refinement, the governor, the pool, the cache's calls (`PagedCache`), and the places of requests in `PagedScheduler`.
2. `PrefixStoreQueue`: `try_admit`, `submit_permit`, `reserve_pending`, `cancel_model` and the
   worker. Jobs and bytes return to zero; a cancelled model publishes nothing.
3. `DFlash2Actor`, against `RequestService` again.
4. `BackendSupervisor` (restart coordinator, back-off, give-up) and `ModelDownloads` (pause,
   resume, recovery from a crash).
5. Proofs: of `PrefixPool`, that each call keeps its layout and its pins matched to the cache's.

## Not modelled

* Tensor code, model implementations and loaders, samplers, grammars, tool-call parsing, HTTP formats and user
  interface: sequential transformations of data or pure I/O. They are most of the repository's lines.
* Speculative decoding (MTP, drafter, prompt lookup): numeric verification inside one decode step; its rollback of the
  cache is a truncation the paged model does not have.
* The prefix store's counters, cancellation and files, and the files of the active KV store: see the plan.
* Of the paged cache: tensor growth, hot and cold tiers, TurboQuant, MLA and linear layers, whole-prompt entries.
* The app: supervision and downloads are planned; configuration and dashboards have no protocol.
