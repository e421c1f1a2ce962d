# TLA+ models of the Phat offchain rollup anchor

These modules model the rollup-anchor protocol of this repository. An
on-chain anchor (`PhatRollupAnchor`) holds a key-value store and a FIFO
queue. An off-chain worker reads that state and submits a batch
(`rollupU256CondEq`). The anchor applies the batch only if its conditions
still hold, then forwards callbacks to a receiver (the oracle contract) or
moves the queue head.

The repository's `src/` holds the hardhat tests of the anchor and the
oracle (`evm/test/*.ts`), the typings and devphase test of the Phat
contracts (`phat/`), and two RPC scripts. The Solidity and ink! contracts
are not in it. So the contracts' handlers are modelled from `spec.md`
(marked `spec_modelled` in `PROJECT.json`). The batches, fixtures,
encodings, revert reasons and worker steps are modelled from the tests and
typings that build or assert them.

## 1. Inventory

| Component | State | Operations | Source |
|---|---|---|---|
| KeyValueStore | `phatStorage`: key -> bytes; an absent key reads `'0x'` | `getStorage`; written by rollups, pushes and ProcessedTo | spec 4.1; tests `PhatRollupAnchor.ts` 29-34, 96 |
| Queue | `<prefix>_head`, `<prefix>_tail` (uint32 in the same store), slots `<prefix><i>` | `pushMessage` (onlyOwner, `MessageQueued`), `queueGetUint`, ProcessedTo | spec 4.2; tests 134-170 |
| RollupTransactionApplier | none of its own | `rollupU256CondEq`: submitter check, length checks, conditions compared as uint, updates in order, actions | spec 4.3; tests 37-130 |
| ActionDispatcher | none | selector `0x00` forwards a callback, whose receiver must return the selector; `0x01` sets the head and emits `MessageProcessedTo`; any other selector reverts | spec 4.4; tests 150-161 |
| AccessGuard | submitter (constructor), Ownable owner | `bad submitter`, `transferOwnership`, onlyOwner push | tests 38-50, `SampleOracle.ts` 21 |
| Oracle (TestOracle) | request ids, registered feeds | `setAnchor`, `request` (pushes to the anchor), `registerFeed`, `onPhatRollupReceived` with Response / Feed / Error | spec 4.6; `SampleOracle.ts` |
| Off-chain worker (SampleOracle Phat contract) | config | `config(rpc, anchor)`; `handleRollup` reads the lock, the queue head and the message, then returns `None` or `Some(RollupResult{tx, signature, target})`; errors FailedToFetchLock, FailedToReadQueueHead, FailedToGetStorage, FailedToDecodeStorage, ... | typings; `substrate.test.ts` |
| Relay | transactions in flight | hands a RollupTx to the anchor as the submitter | tests (`connect(submitter)`) |
| Bridge scripts | the process of each script and its WsProvider | `bridge.js`: schema branch, `ApiPromise.create`, `apiFeeds.entries()`, print, `finally(process.exit)`; `get_metadata.js`: `create`, `getMetadata`, print, `catch` only | `scripts/bridge` |

How they interact: the oracle owns the anchor after the fixture and pushes
one request id per `request`. Workers, triggered by a scheduler
(`feedPrice`), read the anchor's state over RPC. Each builds a batch
conditioned on the global lock key `0x00`. The batch answers the request at
the head and moves the head past it. The relay submits the batch. The
anchor calls back the oracle inside the same transaction.

What is hard:
- the worker's three reads are separate and can see different states;
- several rounds race on one lock;
- the relay can deliver a transaction twice, late, or never;
- an action failing after the updates were written;
- queue counters that are ordinary store keys;
- the U256 comparison, for which `'0x'` equals `u32(0)`;
- liveness despite lost races and failures.

Properties that make each part correct:
- anchor: a replayed batch is refused; the queue history is kept; the
  head never passes the tail.
- system: every queued request is answered exactly once and in queue
  order; every request is eventually processed.

## 2. Plan

1. `RollupAnchor` (done): store, queue, apply, dispatch, access guard. The
   receiver is a parameter (`OnRollupReceived`, state `recv`).
2. `MCRollupAnchor` (done): the anchor alone with the TestReceiver, over
   every batch of small shape.
3. `OracleRollup` + `MCOracleRollup` (done): the anchor instantiated with
   the oracle as its receiver, plus workers with separate reads, and the
   relay.
4. `AbstractOracleQueue` (done): an abstract FIFO of requests where one
   atomic step answers the head. `OracleRollup` refines it (`AbsQueue`,
   `INSTANCE ... WITH` mapping the queue view and the oracle's answers; the
   abstract `Spec` is the `PROPERTY` `RefinesAbstractQueue`).
5. Done as a run: the test's error rollup without ProcessedTo.
6. `RpcScripts` (done): the two bridge scripts and how each one ends.
7. Done: the lock's width (`LockModulus`) and its wrap at the top,
   checked as a violation run.
8. Done: the worker's `config` is owner-only (`BadOrigin` otherwise), and
   a round before any config ends in `NotConfigurated`; `oracle_safety`
   checks what the owner check protects.
9. Left out for good: `registerFeed` and feed correlation (the oracle
   contract is not in the repository, see section 7).

## 3. Modules

`RollupAnchor.tla` has these variables: `owner`, `storage` (all keys,
including the head and tail counters), `qMsgs` (message slots), `recv`
(the receiver's state) and `lastCall` (the outcome and events of the last
call). Its operators and actions:
- `CheckRollup` holds the require statements in their order.
- `CondsHold` compares as integers through `UintOf`, where `'0x'` is 0.
- `ApplyUpdates` lets the last write win.
- `HandleAction` is one step of the dispatch loop. It is folded over the
  actions by `RollupEffects`.
- `RollupU256CondEq` commits the effects only when everything succeeded.
  This is what the EVM revert does, and it is policy (a) of spec section 7.
- `PushMessage` and `TransferOwnership` complete the anchor's operations.

`OracleRollup.tla` instantiates the anchor as `Anchor` with:
- the lock key as the only user key;
- request ids as messages;
- `OracleOnRollupReceived` as the receiver.

It adds these variables:
- `oracle`: whether `setAnchor` was called, and the next request id;
- `worker`: per worker, `rpc` (no endpoint yet, the owner's, or one a
  stranger set), the pc and what was read;
- `pool`: the transactions handed to the relay;
- `faults`: the failures spent so far.

Its actions:
- `TransferToOracle` and `SetAnchor` are the fixture steps.
- `Request` pushes a request id and reverts with the push.
- `Config`, `ReadLock`, `ReadQueueHead`, `ReadMessage` and `ReadFails`
  are the worker's round. `Config(w, caller)` succeeds only for
  `PhatOwner`, the account that instantiated the contract (the `Owner`
  query); any other caller gets `BadOrigin` and nothing changes. A worker
  with no endpoint does not start a round (`NotConfigurated`).
  `ReadableHeads` is what an endpoint answers for the queue head: the
  anchor's own head through the owner's endpoint, any earlier head through
  a stranger's. `ReadMessage` builds `AnswerTx` (Response or
  Error + ProcessedTo) or `FeedTx`, as the tests build them.
- `Deliver` hands a transaction to the anchor, possibly keeping it for a
  second delivery. `Drop` loses a transaction.

It has these switches, constants of the module:
- `ErrorAdvancesQueue`: whether an Error answer carries ProcessedTo, as a
  Response does, or is the test's error rollup (`ErrorTx`, callback only).
- `LockModulus`: 2^width of the lock. The worker writes `LockNext(v)`,
  which is `v + 1` as a uint32 and wraps to 0 at the top.

`OracleRollup` also holds these definitions:
- `AnsweredAtMostOnce`;
- `RefinesAbstractQueue`, through `AbsQueue`. The mapping is:
  - `msgs` is the slots `0 .. tail-1`;
  - `head` is the decoded head counter;
  - `answers` is the oracle's answer count per request.

`AbstractOracleQueue.tla` is what the queue and the oracle promise
together. It has three variables:
- `msgs`, the queued requests;
- `head`;
- `answers`.

It has two steps:
- `Enqueue` appends a request;
- `AnswerHead` answers `msgs[head+1]` and moves the head past it, in one
  step.

`RpcScripts.tla` models the scripts `bridge.js` and `get_metadata.js` as
two processes. They talk to one endpoint, `node`, which goes down and comes
back at any time. Each `await` is one step:
- `*Main` creates the provider. In `bridge.js` this step also covers the
  `schema.json` branch, where a malformed file throws in `JSON.parse`.
- `*ApiReady` is `ApiPromise.create`, which resolves only while the
  endpoint is up.
- `BridgeEntries` / `BridgeQueryFails` and `MetaGetMetadata` are the one
  query. It is rejected if the connection drops under it.
- `BridgeSettle` is `catch(...).finally(process.exit)`.
- `MetaSettle` is `catch` only. The process then stays alive while the
  provider's socket is open (`providerOpen`).

## 4. Runs

| Run | What it checks | Result |
|---|---|---|
| `anchor_replay` | `ReplayRejected` (spec 8): a successful batch that rewrote its own condition key fails when resubmitted. | violation: cond `0x01 = '0x'`, update `0x01 := u32(0)` succeeds twice and the receiver gets the callback twice |
| `anchor_history` | `MessageHistoryKept` (spec 3): a queued message is never overwritten. | violation: push, then a rollup writes `_tail := '0x'`, then a push overwrites slot 0 |
| `oracle_safety` | `TypeOK`, `ProcessedExactlyOnce`: head <= tail, and each queued request is answered once if before the head and not at all from the head on. A stranger (`Configurers = {Deployer, Stranger}`) also sends `config` to both workers. | pass (about 1.1M states, 2 min) |
| `oracle_liveness` | `AllRequestsProcessed`: every queued request is eventually passed by the head. | pass |
| `oracle_refinement` | `RefinesAbstractQueue`: every step is `Enqueue`, `AnswerHead` or leaves the queue view unchanged. | pass (3 requests, 751,068 states, about 2 min; Response answers only, since with `ErrorAdvancesQueue` an Error has the same shape) |
| `oracle_error_rollup` | `AnsweredAtMostOnce` with the test's error rollup (`ErrorAdvancesQueue = FALSE`). | violation: the Error for request 1 commits and the head stays at 0. The next round reads head 0 again, and the oracle gets a second Error for request 1. |
| `oracle_lock_wrap` | `ProcessedExactlyOnce` with a one-bit lock that wraps. | violation: the rollup for request 1 is relayed twice. The second copy arrives after the lock has gone 0, 1, 0, passes the condition again, answers request 1 a second time and moves the head back to 1. |
| `bridge_exit` | `BridgeTerminates`: if the endpoint is eventually up for good, `bridge.js` exits on every path: malformed schema, dropped request, success. | pass |
| `metadata_exit` | `MetaTerminates`: the same for `get_metadata.js`. | violation: main resolves, then the process stays alive on the open socket forever |

Each property of a passing run has a mutant, a plausible bug that breaks
it:
- `TypeOK` breaks when the lock is read without decoding it.
- `ProcessedExactlyOnce` breaks when the worker takes the lock value after
  reading the head. A commit in between then lets a stale head pass the
  lock condition, and the request is answered twice.
- `ProcessedExactlyOnce` also breaks when `config`
  skips the owner check (`ConfigAnyCaller`). A stranger's endpoint then
  serves the current lock with an old head, the rollup passes the lock
  condition, and a processed request is answered again: the lock is the
  only on-chain check of what a worker read.
- `AllRequestsProcessed` breaks when the message-slot bound check is one
  short.
- `RefinesAbstractQueue` breaks when the answer marks the queue processed
  to `h` instead of `h + 1` (`AnswerTxSameHead`). The request is then
  answered without the head moving.
- `BridgeTerminates` breaks when `bridge.js` ends like `get_metadata.js`,
  with `catch` and no `finally(process.exit)` (`BridgeSettleNoExit`).

Findings of the violation runs:
- `get_metadata.js` never exits. This is a code bug at line 16.
- The test's error rollup answers a request twice. This is a spec gap:
  spec 4.6 does not say whether an Error consumes the request.
- The lock's uint32 top value is a spec gap. If the increment wraps, old
  batches become valid again (ABA). At the real width this takes 2^32
  commits.

## 5. Bounds and why they suffice

`MCOracleRollup.cfg` uses:
- 2 workers, enough for one to commit between another's reads;
- 2 requests, so that a stale head answers an already answered request;
- feeds while the lock is below 1;
- 1 read failure, 1 lost transaction and 1 duplicate delivery.

Each of the known ways to break `ProcessedExactlyOnce` needs one worker
round to interleave with another's commit, and appears at these sizes. The
mutant run finds it within seconds. The liveness run uses the same bounds,
but with no duplicate deliveries and Response answers only, to stay small.

The lock-wrap run shrinks the lock to one bit, so that the wrap
happens within the bounds. TLC cannot hold 2^32: its integers are 32-bit
signed. The passing runs use `LockModulus = 1024`, which is above any lock
value they reach, so the wrap never happens there, as at the real width.
`oracle_refinement` uses 3 requests: a stale head can then lag two
requests behind.

The anchor runs (`MCRollupAnchor_replay.cfg`, `MCRollupAnchor_history.cfg`)
have:
- one user key plus the tail counter;
- the values `'0x'`, 0 and 1;
- 2 queue slots;
- 2 receiver log entries.

Workers are symmetric (`WorkerSymmetry`) in the safety run only. The
liveness run has no symmetry.

`RpcScripts` is small enough to run without bounds:
- the three states of `schema.json`;
- both initial states of the endpoint;
- any number of outages.

## 6. Fairness

Weak fairness holds for each worker's `Config` by the owner, `ReadLock`,
`ReadQueueHead` and `ReadMessage`, and for the relay's delivery. The
justification:
- the workers are triggered over and over by a scheduler (`feedPrice` in
  `substrate.test.ts`, the `LocalScheduler` typings);
- a relayer keeps submitting what it holds.

In `RpcScripts`, each script step is weakly fair: node.js runs a callback
whose promise has settled. Nothing is assumed about the endpoint. The
termination properties take "up for good from some point on" as their
hypothesis (`NodeStaysUp`). Without it, `ApiPromise.create` waits forever,
since it has no timeout.

Read failures, lost transactions and duplicates are bounded rather than
assumed fair. Requests and the fixture get no fairness: liveness is about
requests once queued.

## 7. Not modelled

- Signatures and the `target` of `RollupResult`.
- Gas estimation.
- What a stranger's endpoint returns besides the queue head: the model
  lets it serve only an old head, which is already enough to break the
  queue without the owner check.
- `maybeInitRollup` and the substrate test's scenario. The SubPriceFeed
  contract and its typings are not in the repository, and the test asserts
  none of its query results. Two observations on it are recorded instead:
  - `config` is awaited only until submission, 1 s before the queries.
    Whether that is long enough depends on the chain, which the scenario
    does not let the model tell apart.
  - The sixth `feedPrice` call queries `priceFeed` instead of `priceFeed6`
    (`substrate.test.ts:143`). The sixth deployment is therefore never
    fed, and the first is fed twice.
- `registerFeed` and the pair and price values: the oracle keeps only how
  many times each request was answered. The TestOracle contract that keeps
  the feeds is not in the repository and its typings are absent, so
  neither the feed registry nor which feed a Feed payload updates can be
  modelled from code.
- A receiver that refuses a payload: the anchor's handling of it
  (`HandleAction` reverts the call) is modelled, but no receiver in the
  repository refuses, so no run uses one.
- The order of the worker's reads. The Phat contract's code is not in the
  repository; only its error variants (`FailedToFetchLock`,
  `FailedToReadQueueHead`, `FailedToGetStorage`) name the reads. The model
  reads the lock first. The `ReadMessageLateLock` mutant shows that the
  other order answers a request twice.
- Whether an overflow of the lock increment traps: the model takes the
  wrapping build, in which the overflow matters for safety.
- Re-entrant calls from the receiver into the anchor.
- uint32 overflow of the queue counters: 2^32 pushes, bounded in the
  guards. The lock's overflow is modelled.
- What the bridge scripts print, and the registry they read: only the
  control flow of the scripts is modelled. `START_BLOCK`, `END_BLOCK` and
  `EXTRINSIC_DATA_PATH` are read but never used.
