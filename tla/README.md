# TLA+ verification of chainlink-stellar

This directory models the parts of chainlink-stellar in which an order of events nobody wrote a
test for can do harm: the relayer's transaction manager, the CCIP OffRamp and OnRamp, the governance
contracts (MCMS and timelock), the committee verifier, the workflow forwarder, the data feeds cache, the
pools' rate limits and lock boxes, the CCV services' event readers, and the deployment tool. TLC checks the models on
small instances; TLAPS proves every safety property the passing runs check, for every value of the
constants.

`tlc -config X.cfg M` runs a model, `tlapm M.tla` checks a proof module. `PROJECT.json` holds the
machine-readable side: which definition models which lines, the runs, one mutant of the code per
property (TLC must find the property violated in it), the hazards and the theorems.

## 1. Inventory

### The system

chainlink-stellar connects Chainlink to Stellar. Soroban contracts (Rust, `src/contracts`) carry
CCIP messages, data feeds and workflow reports; Go services (`src/relayer`, `src/ccv`) submit
transactions and read events through a Stellar RPC.

| Component | State | Operations | Hard behaviour | What makes it correct |
|---|---|---|---|---|
| Transaction manager (`relayer/txm`) | id map, broadcast channel, one `TxStore` per account (head, unconfirmed envelopes, recycled sequences) | `Enqueue`, `EnqueueAndWait`, broadcast loop, confirm loop, prune loop, `Close` | three goroutines and any number of callers on shared stores; lagging, failing and lossy RPC; expiry and retry; a restart that forgets the stores | a payload takes effect at most once, sequences are neither shared nor lost, every request is resolved with the truth |
| OffRamp (`contracts/offramp`) | execution state per message, lanes, re-entrancy guard | `execute`, `get_ccvs_for_message`, lane updates | calls into verifiers, pools, router and receivers that fail, trap or change between attempts | at-most-once execution, nothing released unverified, no stuck message |
| RMN remote, Router | cursed subjects; on- and off-ramps per chain | curse/uncurse, add/remove ramps, `route_message` | change between attempts | a cursed or unrouted lane executes nothing |
| MCMS (`contracts/mcms`) | signer tree and its version, current root with op count, seen hashes | `initialize`, `set_config`, `set_root`, `execute` | long call sequences: overrides, cleared roots, new signers, reverted calls | nonces and roots used once, a quorum in force behind each operation, no unusable configuration |
| Timelock (`contracts/timelock`) | ready time per operation id, minimum delay, roles, blocked functions | schedule, execute, cancel, bypass, administration | batches that change the timelock itself; a call that fails midway | each batch once, with notice, after its predecessor, atomically |
| OnRamp, Router send path | message number per lane, CCV configuration, collected fees | `ccip_send`, `forward_from_router`, lane updates, fee sweep | lists of sender, lane and pool merged; fees converted once and paid out in parts | numbers without gap, every CCV that was asked for, no receipt paid from another message's fee |
| Token pools, lock boxes, hooks | rate-limit buckets, locked tokens, silos | `lock_or_burn`, `release_or_mint`, reconfiguration | refill arithmetic, shared and moved silos, decimals | rates respected over every span, boxes cover what can come back |
| Committee verifier, resolver | signature configuration per source chain | `verify_message`, configuration | configuration replaced between signing and verifying | only a quorum attests |
| CRE forwarder | signer configurations, transmission and relay states | `report`, `relay`, configuration | retries of failed deliveries by other nodes, receivers that appear late | what a key carries takes effect once |
| Data feeds cache | rounds and their window per feed | `on_report`, configuration, search by time | entries whose life the network changes between rounds | readable rounds without a hole, an exact search |
| CCV readers (`src/ccv`) | event cursors, attempt cache, retry queue | polling, retrying, fetching a range | two loops on one cache, pages over a growing chain, failing calls, restarts | no event lost or given up early |
| Deployment tool (`src/deployment`) | recorded addresses, the contracts on the ledger | one run: upload, create, initialise, configure, record | runs that die anywhere while an envelope is under way, operators in between | reruns neither skip nor overwrite |
| Fee quoter, executor, registries, authorization, tokens | tables and their owners | setters, two-step transfers, queries | little | |
| Chain service, bindings, tests, tools | | | wiring, generated code, tooling | not modelled |

How they interact. A caller (a workflow, or the CCV executor) hands an invocation to the
transaction manager, which simulates, signs and sends it and waits for the ledger. On chain, the
OffRamp asks the pool, the receiver and its own lane configuration which verifiers (CCVs) a message
needs, asks the verifiers, releases tokens through the pool and delivers through the Router, which
accepts registered OffRamps only. RMN curses stop lanes. The timelock owns the contracts; MCMS
instances hold its proposer, canceller and bypasser roles, and are themselves configured by it. The
CCV services read the events of OnRamp and OffRamp. The deployment tool creates and configures the
contracts and hands them to the timelock.

`PROJECT.json` lists every component, also those left out, and 40 hazards at their lines. The
properties below were chosen from that list.

### Plan

| Step | Modules | Runs and bounds | Theorems | State |
|---|---|---|---|---|
| 1 | `TxStore`, `Txm`, abstract `TxDelivery` | section 3.1 | types, store consistency, usable sequence, tracked snapshot, no gap, dead recycled sequences, one place, one in flight, no orphan, truthful status, refinement | done |
| 2 | `OffRamp`, abstract `MsgExecution` | section 3.2 | types, nothing stuck, nothing unverified, policies, view, refinement | done |
| 3 | `Mcms`, `Timelock`, their composition `Governance`, abstract `DelayedExecution` | section 3.3 | types, nonces, roots, quorum, usable configurations, refinement | done |
| 4 | `RateLimiter`, `SiloedPool`, `OnRamp`, `Forwarder`, `DataFeedsCache`, `CommitteeVerifier`, over a common `Ledger`, in `Contracts` | section 3.5 | rate bound, readable suffix, exact search, effects once, committees, messages, fees, lock boxes | done |
| 5 | `EventFeed`, `AttemptPoller`, `SourceReader`, in `CcvReaders` | section 3.6 | cursor, cache, retries, ranges | done |
| 6 | `Deployer`, `FullDeploy` | section 3.4 | retries, records, configuration, settings | done |
| 7 | `Lane`: OnRamp, pools and OffRamp of two chains composed, with conservation of tokens across them | two chains, one token | conservation | open |
| 8 | Advanced pool hooks; registries and two-step ownership; MCMS calling `execute_batch`, `upgrade` | two owners, two candidates | at most one owner | open |

No safety property of a passing run is left unproved. Wanted next, besides steps 7 and 8: the
observed exceptions of `Txm` (lost answers, a latest ledger of 0) as a weaker abstract specification
that the manager implements under all faults.

## 2. Modules

| Module | Models |
|---|---|
| `TxStore` | `relayer/txm/txstore.go`: one account's sequences, as operators on a record |
| `Txm` | `relayer/txm/txm.go`, `broadcast.go`, `restore.go`, with the Stellar network as its environment |
| `TxDelivery` | what the manager promises for a request (abstract) |
| `OffRamp` | `contracts/offramp`, with the parts of Router and RMN remote it depends on |
| `MsgExecution` | what the destination chain promises for a message (abstract) |
| `Mcms` | `contracts/mcms`: one instance, as operators on a record |
| `Timelock` | `contracts/timelock`, as operators on a record |
| `Governance` | MCMS instances and accounts acting on a timelock that owns the instances |
| `DelayedExecution` | what a timelock promises for a batch (abstract) |
| `Deployer` | `deployment/deployer.go`: one call of the deployment tool and the ledger it acts on |
| `FullDeploy` | `deployment/sequences`: runs of the full deployment, operators and third parties |
| `EventFeed` | the RPC's `getEvents`, as the readers use it (external) |
| `AttemptPoller` | `ccv/destination_reader`: the execution attempt poller |
| `SourceReader` | `ccv/source_reader`: the fetch of a ledger range |
| `CcvReaders` | either reader over the feed |
| `Ledger` | ledger number and entry lives, as the contracts see them (external) |
| `Forwarder` | `contracts/cre/forwarder` |
| `DataFeedsCache` | `contracts/data-feeds/data-feeds-cache` |
| `RateLimiter` | `contracts/common/pool/src/rate_limit.rs` and its callers in a pool |
| `SiloedPool` | `contracts/pools/siloed-lock-release-pool` and `token-lock-box`: the liquidity |
| `OnRamp` | `contracts/onramp` and the Router's `ccip_send` |
| `CommitteeVerifier` | `contracts/ccvs`: committees and quorum, and the resolver's inbound map |
| `Contracts` | any one of these six contracts over the ledger |
| `MCTxm`, `MCOffRamp`, `MCGovernance`, `MCFullDeploy`, `MCContracts` | the instances TLC runs |
| `Induction` | facts the proofs share: induction on naturals, finite sets and ascending sequences, division, functions defined step by step |
| `TxmProofs`, `TxmDeliveryProofs` | the theorems on `Txm`: its stores, and what becomes of a request |
| `OffRampProofs`, `GovernanceProofs`, `ContractsProofs`, `FullDeployProofs`, `CcvReadersProofs` | the theorems on the others |

Definitions marked "mutant" next to a definition are its deliberately wrong twins. Nothing uses
them; they exist so that every property can be shown to notice a plausible bug.

### 2.1 Txm

An Enqueue call is numbered by its timestamp; `caller[c].pc` is where its goroutine stands.
`b` holds the broadcast loop's locals: a request, the sequence it read, the counters of
`simulateAssembleSignAndSend`. An action covers the code between two points at which another
goroutine or the network can act: an RPC call, a channel operation, a delay, or the release of the
store's lock. `todo` is the snapshot of `checkUnconfirmed`, resolved one envelope at a time, and
`cur` the envelope for which the second call (`GetLatestLedger`) is pending. A tick of the confirm
loop begins with `getClient`: `CGetClientFail` is the tick that ends there, `CSnapshot` the one that
goes on.

The network holds envelopes in `pool`; `CloseLedger` includes at most one per account, the next in
sequence and within its bounds. An RPC answers as of any ledger at most `MaxLag` behind. `Faults`
selects what an instance's environment may do: refuse, fail, lose the answer of a send, report
nothing, leave an envelope from before a restart.

Abstractions. Time is counted in ledgers (wall clock and close time advance together). Inclusion
fees are left out: no branch of the state depends on them. A payload is a model value. The three
loops are not bounded; calls, ledgers and retry budgets are.

### 2.2 OffRamp

A transaction of Soroban is atomic, so transactions do not interleave, but the steps inside
`execute` are separate actions because every one of them asks another contract, which may answer
anything, fail, or trap: `Execute` (checks, guard, InProgress), `VerifyCcvQuorum`, `ReleaseOrMint`,
`RouteMessage`, `Finish`, and their failing twins. `call.saved` is the state a failed transaction
returns to. Between transactions, owners change the lane, the curse, the Router, the pool's and the
receiver's answers. Message bytes, amounts and gas are left out. Lane lists and supplied CCVs are
sets; the receiver's lists are sequences, because duplicates in them are checked.

The failing twins are enabled whatever the callee's configuration says: any external call can fail.

The decoder does not look at the length of a receiver (`offramp/src/lib.rs:593-599`), so a message
has one of four kinds: an address, the canonical zero address, zeros in front of an address
(`"padded"`), or anything else (`"malformed"`). Three places read it differently, and the model
follows each. A payload is delivered, and its receiver asked for CCVs, only at 32 bytes
(`ReceiverKind`). The view refuses any other length (`GetCcvsForMessage`). A release of tokens strips
zero padding (`TokenReceiverKind`), and a transfer may name a token receiver of its own
(`elsewhere`). A message without payload never has its receiver parsed by `verify_ccv_quorum`.

`ChangePool` stands for `set_pool` of the registry and for a pool whose required CCVs change;
the answers it draws from are a constant, a superset of what the pools in the repository give.

The guard lives in temporary storage. The comment at `common/guard/src/lib.rs:9` says it is cleared
at the end of the transaction; entries in fact live until their TTL, so the `exit` on every path
that commits matters. That is what `NothingStuck` and its mutant are about.

### 2.3 Mcms, Timelock and Governance

An instance of MCMS is a record with its configuration, root, count, seen hashes and three history
fields (roots accepted, operations executed, signers behind the current root). A Merkle root is the
set of its leaves, so a valid proof is membership; a signed hash is the pair of root and expiry.
Signers are numbered in address order, which makes "strictly increasing" a set.

`Governance` interleaves whole transactions: `SetRootOf`, `ExecuteOp`, direct calls by accounts,
and batches. A batch is opened (`ExecuteBatch`, `BypasserExecuteBatch`, or `ExecuteOpBypass` when an
MCMS does it), makes its calls one by one (`MakeCall`), and is finished or reverted; any call may
fail, so `Revert` is always possible. Calls of the timelock on itself go to `Administer`, as in
`execute_self_admin`, without a look at the ADMIN role; calls on an MCMS are `set_config`. Soroban
forbids re-entry, so an MCMS cannot be reconfigured by a batch it is itself executing
(`frame.via`). A transaction that fails before its first effect is a stuttering step.

Not modelled: `upgrade`, ownership transfer, TTL and archival (an archived entry has to be restored
before a transaction can read it, so it is not read as absent), the permissionless calls `execute`,
`set_root` and `execute_batch` made by an MCMS or by a batch, and the encodings.

### 2.4 Deployer and FullDeploy

`d` holds the locals of one call of `buildAndSubmitTransaction`: the attempt, the envelope it signed
and what became of it. The ledger includes an envelope whose sequence is next, or never sees it; a
restore of archived entries uses a sequence of the same account. `waitForTransaction` gives up by a
local timer, while the network compares MaxTime with the close time of a ledger, so `TimedOut` may
come at any time and the envelope may still be included afterwards (`late`). `d.hits` counts how
often the call took effect and `d.missed` how often the wait gave up on an envelope that had been
included, or was included later.

`FullDeploy` runs the pipeline step by step: resolve a component (recorded address, or the address
its salt gives), upload, create, read the owner, initialise, configure, record. A run ends anywhere
(`RunFails` stands for an error and for a killed process; nothing is saved then) and its last
envelope may still land in a later run. Operators change settings, upgrade and hand contracts over;
a third party may initialise a contract first. The plan is the pipeline of the code (`Steps`, and
`After` for what follows a step); an instance keeps the steps of the components in `Stack`. The
framework's idempotency reports, which live outside the repository, are taken as absent: a rerun
repeats its operations.

### 2.5 EventFeed, AttemptPoller, SourceReader

The feed appends events to ledgers and answers pages. Two things the code leaves to the server are
open: whether a cursor's own event comes again (`inclusive`), which `events.go` copes with by its
dedupe, and how far an empty page has scanned. `endLedger` is exclusive, as
`tests/staging/helpers_test.go:240` says. One consistent RPC node is assumed.

The poller is two loops on a cache and an LRU queue: a poll (`PollStart`, `Page`, `Process`,
`PollDone`, `PollError`) and a retry round (`RetryTick`, `RetryPeek`, `RetryRemove`, `RetryFetched`,
`RetryFails`). `Peek` and `Remove` take the queue's lock separately, so the poll can enqueue or evict
the same event between them.
`Stop` loses everything, `Start` begins at the lookback. Expiry of the attempt cache is left out.

### 2.6 Contracts

A Soroban transaction is atomic and does not interleave, so an action here is a whole entry point,
and what matters is the order of calls by different parties and what callees answer. The six
contracts write disjoint state; a behaviour runs one of them. `netTtl`, the longest life the network
gives an entry, may change at any ledger.

- `Forwarder`: a transmission is a replay key with a state. Receivers exist or not yet, and a call
  returns nothing, returns a value, fails, or fails unreadably; what returned has taken effect.
  Signatures are ideal: a report carries the set of its signers.
- `DataFeedsCache`: a round remembers its ledger and the life it was given. `Stored` is what the
  network still has, `Readable` what the window of `next_window` lets `read_round` return.
  `FindRound` is the binary search of `search.rs`: `Narrow` is one pass of its loop, and it is
  repeated no more often than there are rounds. u32 saturation and
  persistent entries, which are restored and never read as absent, are abstracted.
- `RateLimiter`: the standard and the fast-finality bucket of a lane in one direction, with the
  fallback from one to the other; the directions are alike and share nothing. `meter` is the
  reader's: what passed since a moment `StartMeter` chose, hence over every span.
- `SiloedPool`: `held` is a box's balance and `abroad` what exists of the token on a remote chain,
  in its decimals. A fee stays with the pool.
- `OnRamp`: one fee token. What verifiers, pool, executor and fee quoter charge is a `Quote`; powers
  of ten cancel in the conversions and are left out, the rounding of each division is kept.
  Conditions that only refuse (curses, address widths, token receivers) are left out: they disable a
  step and change nothing.
- `CommitteeVerifier`: `Attest` is what the OffRamp does per CCV, resolve by the version in front of
  the results and then `verify_message`. A signature names signer, version and message, and recovers
  to nobody in any other setting; addresses are numbers, for the order the code insists on. `OffRamp`
  abstracts the same call to a CCV that attests or does not.

## 3. Runs

Deadlock is checked in `offramp_execute` and `contracts`. The other models stop by their bounds (no
more calls, runs, ledgers or time), so there it is off. The type invariants
of `Txm`, `OffRamp` and `Governance` are theorems (section 4), and each other proof's invariant
has the types it needs.

### 3.1 Transaction manager

| Run | States | Properties |
|---|---|---|
| `txm_confirm` | 950,590 | `StoreConsistent`, `NoSequenceGap`, `RecycledSequenceDead`, `OnePlace`, `ImplementsDelivery` |
| `txm_faults` | 2,137,538 | `AllocatedSequenceUsable`, `SnapshotTracked`, `TruthfulStatus`, `NoOrphan`, `OneInFlightPerId`, `WaitersServed` |
| `txm_liveness` | 212,934 | `AcceptedResolves`, `StopHalts` |
| `txm_lost_answer`, `txm_status_regress`, `txm_orphan` | | the three findings, below |

Two requests of one account are enough for every conflict over a sequence: one is tracked or
recycled while the other is being sent. Two submissions make each retry path happen once and each
budget run out; `txm_confirm` also has two attempts of a request. `MaxLag = 1` there puts the RPC
one ledger behind, which is where the margin in `cannotBeIncluded` matters: the mutant that drops it
breaks `ImplementsDelivery`. The faults are split over two runs to keep each state space small.
`txm_faults` gives three callers, two of them with one id, a channel of one slot, so that requests
are evicted, refused and put back while the loops run and the pruner forgets ids. The third caller
waits, on a request it may share with the first: `WaitersServed` says that whoever is blocked in
`EnqueueAndWait` waits for a request that is closed, registered and being enqueued or in the
pipeline, or rejected (see below). `txm_liveness` has a single request, the most for which TLC decides
a temporal property in minutes; what more callers can do to a waiter is the business of
`WaitersServed`.

Fairness (`txm_liveness`, `txm_orphan`): weak fairness of each caller, each loop and of
the closing of ledgers. Go runs every runnable goroutine, RPC calls carry deadlines, and Stellar
closes ledgers. The stop cases of the loops' `select` get strong fairness, since Go picks among
ready cases at random and the loops return to the `select` again and again. No fairness is assumed
of a good answer: simulations, sends and status queries may fail forever. One assumption is made of
`getClient`, in `AcceptedResolves` itself: `ClientServes`, that the confirm loop's call succeeds
again and again while something is tracked. Without it the property is false, because
`checkUnconfirmed` returns before it polls anything (`txm.go:977-981`) and the time-bound rule of
`txm.go:1055-1073` is never reached: a request whose client cannot be had stays `Unconfirmed` and its
waiter blocked until its own context ends. `StopHalts` does not need the assumption.

Findings. Each is a run TLC must find violated.

- `txm_lost_answer` (`txm.go:745`): `SendTransaction` returns an error although the network took
  the envelope. The loop signs again; after `tx_bad_seq` or when its budget is exhausted it gives
  the sequence up, and a later attempt uses another one. Both envelopes take effect. For the same
  situation on the confirm side, `txm.go:1055` says that the "payload must not be sent again".
  `ImplementsDelivery` holds where no answer is lost.
- `txm_status_regress` (`txm.go:765`): the envelope is in the store before `Unconfirmed` is written,
  so the confirm loop can finish the request first; its terminal status is then overwritten, and
  `EnqueueAndWait`, woken by `Done`, returns a status that is not terminal.
- `txm_orphan` (`txm.go:1384`): a request that is put back after a failed `getClient` and finds the
  channel full is dropped without a terminal status. Its waiter hangs until its own context ends.

Observed, not listed as a finding: NOT_FOUND with a latest ledger of 0 leads to a second RPC call
(`txm.go:1076-1085`), above which the code says "the status is known, so any latest ledger will
do". An envelope that lands between the two answers is in no ledger for the first and past its
bounds for the second: it is taken for expired and the payload is sent again. Adding `"zeroLedger"`
to the faults of `txm_confirm` makes TLC show it as a violation of `ImplementsDelivery`; `txm_faults`
has the fault and sets such requests apart in `TruthfulStatus` (`lossy`). If the second call fails
forever the request stays pending, because the time-bound rule is only applied to status errors;
the liveness run leaves this out.

Observed too: a caller is accepted on an id that is already in the map (`txm.go:279-287`) and waits
on that request's `Done`. If the request is then rejected because the channel is full again
(`txm.go:321-328`), it is deleted from the map and its `Done` stays open, so the second caller waits
until its own context ends, although `txm.go:215` promises a terminal state. This is the last
disjunct of `WaitersServed`; without it TLC shows the case in 18 steps of `txm_faults`.

### 3.2 OffRamp

`offramp_execute`, 746,432 states: four messages (tokens and data, data, tokens with a padded
receiver, tokens for an address of their own with the zero receiver) on one lane with two verifiers, and configurations that include refused ones. Two
verifiers are enough for required, optional, default and mandated to differ; one lane suffices
because lanes share only the guard. Properties: `NothingStuck`; `NeverUnverified` (no
effect without an attestation); `PoliciesHeld` (each of lane, pool and receiver has had its
requirements met at delivery); `ViewMatchesExecute` (where what
`get_ccvs_for_message` tells an executor is what `execute` enforces, and where not; checked between
transactions, when executors ask, for every message there can be and not only the four); `ImplementsExecution`.

Observed, not listed as a finding: the doc of the view (`offramp/src/lib.rs:667-673`) says that
off-chain report and on-chain quorum "cannot drift". For a message without payload whose receiver
does not have 32 bytes they do: `execute` resolves the CCVs, and even releases tokens to a padded
receiver, while the view answers `InvalidReceiverLength`, so an executor that plans with it never
executes the message. The other difference is harmless: for a payload to a receiver that is no Wasm
contract the view lists CCVs and `execute` fails.

### 3.3 Governance

`governance`, 211,336 states: a proposer MCMS, a bypasser MCMS, one account, three signers in up to
three groups, four roots and four batches. The roots include one that overrides another and one for
the next configuration; the batches replace signers with and without clearing the root, set the
delay to 0, grant ADMIN to the account, block functions, and try an unreachable configuration. Times
run to 4 with `TimeMax = 5`, so that a delay can saturate; versions run to 3.

Properties: `NoncesUsedOnce`; `NoRootTwice`; `BackedByQuorum`; `ConfigUsable` (the vote
count agrees with the meaning of the group tree for every set of signers, and all signers together
reach the quorum); `ImplementsDelay`.

Observed, not listed as findings. `docs/mcms-stellar-plan.md:209` says `schedule_batch` checks the
predecessor; the code checks it in `execute_batch` only, so a batch can be scheduled before, or
without, its predecessor (it cannot be executed). The comment at `timelock/src/lib.rs:72` says that
administration is reachable only through a self-call; an account that was given ADMIN can call
directly. The internal dispatch does not check that the timelock still holds ADMIN, so revoking it
from the timelock does not stop scheduled administration.

### 3.4 Deployment

`full_deploy`, 4,749,711 states: three runs over two components (one with four configuration parts,
one with two), three submission attempts per call. Three runs let an envelope of a dead first run
land in the second and be met by the third. Properties: `RecordedIsOurs` (no address is recorded
whose contract is missing, uninitialised or somebody else's), `InitializedIsConfigured` (a run that
completes has configured what it initialised), `SettingsKept` (an operator's setting is never
overwritten, not by a late envelope either), `RetriesUnexecuted` (of the retried failures only a
wait that timed out can be on an envelope that executes the call).

Finding. `deployer_timeout` (`deployer.go:893`): the wait ends at the deadline although the envelope
was included just before and no poll has shown it yet, or is included in a ledger that closes within
its bounds after the local timer has fired. The comment at line 963 says that past the
deadline it "can never land and the on-ledger sequence is unchanged, so a rebuilt transaction retries
safely"; the rebuilt call takes effect a second time. An `initialize` is refused the second time; a
setter is repeated.

Observed: a component that a failed run initialised, and did not configure, is configured by no
later run, because configuration follows what *this* run deployed or initialised.

### 3.5 Contracts

`contracts`, 608,361 states.

| Property | About |
|---|---|
| `EffectsOnce` | two nodes deliver a payload by report and by relay to a conforming and to an odd receiver, deployed at any time, under changing configurations: at a conforming receiver it takes effect once, exactly when `Succeeded` is recorded |
| `ReadableSuffix`, `FindRoundExact` | four rounds while the network switches between lives shorter and longer than the retention: readable rounds have no hole, and the binary search agrees with a scan for every timestamp in both directions |
| `RateBound` | no limit, a usable one and one that is refused because its rate exceeds its capacity: over every span at most capacity plus rate times its length |
| `SilosCovered` | three lanes (more, fewer and equal decimals) on two boxes: a box whose lanes were never pointed elsewhere covers all that can come back, however it is split and rounded |
| `MessagesSound` | two lanes reconfigured between sends: numbers without gap, no CCV twice, none dropped that sender, lane or pool asked for |
| `FeesKept` | a discounted token whose slices round: paying one message's receipts never draws on the network fees of earlier ones |
| `OnlyCommitteeAttests` | two verifiers, versions and source chains, results of up to two signatures by two signers in any order and combination, committees replaced and versions redirected at any time: as many different members as the threshold asks for, of the committee in force, signed this message for the verifier that was asked |

Two nodes, two lanes and two messages suffice because keys, lanes and receipts are independent
beyond one predecessor; four rounds let the window shrink, wait and grow again.

Observed, not listed as findings.

- `forwarder/src/lib.rs:646`: `Ok(Err(_))` also covers a receiver that returned a value which is not
  void. It has taken effect, is recorded `Failed` and is called again on a retry. `EffectsOnce` is
  about receivers in `Conforming`, whose handlers return nothing.
- `report` to an address without a contract writes the terminal state `InvalidReceiver`, though a
  contract may be created there later; `relay` refuses without a state, saying that such a receiver
  "can never become valid for this key".
- A report whose entries the cache ignores (unknown feed, stale timestamp) is `Succeeded` for the
  forwarder. A frozen feed still takes reports.
- `set_config` of a bucket refills it, so a bound across reconfigurations does not hold.
- A lane pointed at another lock box leaves its tokens behind; `SilosCovered` sets such lanes apart.
- `onramp/src/lib.rs:1143` says the network-fee receipt "is exactly the amount awaiting sweep". What
  the OnRamp holds can be more: the sum is converted once and paid out in parts, and the dust stays.

### 3.6 CCV readers

`ccv_readers`, 216,343 states: four ledgers, three events, pages of two, a retry queue of one, two
retries, one restart. With one slot in the queue two failing events evict each other; with pages of
two a range needs a continuation. Properties: `CursorCovers` (the poll cursor passes no event that is
not cached, queued, in the retry loop's hands or knowingly given up), `CachedAtMostTwice`,
`GivenUpAfterRetries`, `FetchedRange` (a fetch returns all of its range but possibly the last
ledger, nothing outside, in order), and `EventsResolve` (every event of the window is eventually
cached or given up).

Fairness: weak fairness of closing ledgers and of both loops (tickers fire and calls return), and
strong fairness of the answer to each page: a page that is asked for again and again is answered
again and again. No fairness is assumed of fetching a transaction; that is what the retry budget is
for.

Observed: `source_reader.go:155` says the range is `[fromLedger, toLedger]`. With an exclusive
`endLedger` the events of `toLedger` come only if the range needed a continuation, whose query is
open-ended. The caller is outside the repository; `FetchedRange` promises the ledgers below
`toLedger`.

## 4. Proofs

TLAPS proves every invariant, every action property and every refinement of the passing runs, for
every value of the constants that satisfies the modules' `ASSUME`s. TLC evaluates the assumptions in
every run that extends the module. Most only type the constants. The others:

- `OffRampAssumption`, `SiloAssumption`: finitely many CCVs and lanes; powers of ten and the divider
  of basis points are positive; `NoBox` is no box.
- `GovernanceAssumption`: the first configurations are valid, and the instances are distinct from the
  timelock.
- `VerifierAssumption`: nobody has address 0, which stands for a signature that recovers to nobody
  known.
- `OnRampAssumption`: a token has a price.
- `FeedAssumption`: a page has room for two events (`eventsPageLimit` is 100); ledgers start at 1.
- `FullDeployAssumption`: the components and parts are those of the pipeline; `Stack` is any part of it.

Three theorems of `TxmDeliveryProofs` have a hypothesis on `Faults`. `NoneOrphaned` and
`AllWaitersServed` exclude failures of `getClient`, which do lose requests (finding `txm_orphan`).
`DeliveryRefined` excludes lost answers
(finding `txm_lost_answer`) and a latest ledger of 0 (the observation in 3.1). In each case the
excluded behaviour violates the property, so the hypothesis cannot be dropped; all other faults are
allowed, in any combination.

| Module | Theorem | States |
|---|---|---|
| `TxmProofs` | `TypeCorrect` | `TypeOK` |
| | `StoreConsistency`, `AllocatedUsable`, `SnapshotAlwaysTracked` | `StoreConsistent`, `AllocatedSequenceUsable`, `SnapshotTracked` |
| `TxmDeliveryProofs` | `NoGapEver`, `RecycledAreDead` | `NoSequenceGap`, `RecycledSequenceDead` |
| | `OnePlaceOnly`, `OneInFlight`, `NoneOrphaned` | `OnePlace`, `OneInFlightPerId`, `NoOrphan` |
| | `AllWaitersServed` | `WaitersServed` |
| | `StatusIsTruthful`, `DeliveryRefined` | `TruthfulStatus`, `ImplementsDelivery` |
| `OffRampProofs` | `OffRampTypeCorrect`, `NeverStuck`, `AlwaysVerified` | `TypeOK`, `NothingStuck`, `NeverUnverified` |
| | `PoliciesAlwaysHeld`, `ViewAlwaysMatches`, `ExecutesAtMostOnce` | `PoliciesHeld`, `ViewMatchesExecute`, `ImplementsExecution` |
| `GovernanceProofs` | `GovernanceTypeCorrect`, `NoncesOnce`, `RootsOnce` | `TypeOK`, `NoncesUsedOnce`, `NoRootTwice` |
| | `QuorumBehind`, `ConfigsAreUsable`, `DelayKept` | `BackedByQuorum`, `ConfigUsable`, `ImplementsDelay` |
| `FullDeployProofs` | `RetriesAreUnexecuted`, `RecordedAreOurs` | `RetriesUnexecuted`, `RecordedIsOurs` |
| | `InitializedAreConfigured`, `SettingsAreKept` | `InitializedIsConfigured`, `SettingsKept` |
| `CcvReadersProofs` | `CursorAlwaysCovers`, `AttemptsCachedAtMostTwice` | `CursorCovers`, `CachedAtMostTwice` |
| | `GivenUpOnlyAfterRetries`, `FetchesAreComplete` | `GivenUpAfterRetries`, `FetchedRange` |
| `ContractsProofs` | `ReadableSuffixHolds`, `SearchesAreExact` | `ReadableSuffix`, `FindRoundExact` |
| | `RateBoundHolds`, `EffectsOnceHolds`, `OnlyCommitteeAttestsHolds` | `RateBound`, `EffectsOnce`, `OnlyCommitteeAttests` |
| | `MessagesAreSound`, `FeesAreKept`, `SilosAreCovered` | `MessagesSound`, `FeesKept`, `SilosCovered` |

**Induction.** The library's induction theorems take an operator as a parameter, which the provers
cannot instantiate. `Induction` states what is needed over sets instead: a set of naturals that has 0
and is closed under successor has all of them (`NatSetInduction`, from `LeastNatural`), and a function
whose value at n depends on its values below n exists as defined (`StepwiseFunction`). With these the
recursive functions of the models (merged lists, sums, passes of a search, counts of votes) are
unfolded and reasoned about by ordinary steps.

**Txm, stores.** `Inv` is `ReqOK /\ QueueOK /\ StoresOK /\ LoopOK /\ SnapOK /\ ChainOK`. Consistency
of the stores alone is not inductive: adding an envelope keeps it only if the sequence is free, which
is what `LoopOK` says of the sequence the broadcast loop holds. That in turn survives the confirm loop
only because a confirmation removes nothing but tracked envelopes, which is `SnapOK`. Lemmas on the
operators of `TxStore` (what confirm, release and resync do to a consistent store and to a free
sequence) come first, then one lemma per action.

**Txm, requests.** Four more invariants, each using the ones before.

- `ChainInv` relates stores, pool and ledger. Every sequence between the account's and the head is
  tracked or recycled (`Gaps`); what landed did so within its bounds and used its sequence;
  what the network may still include is tracked, unless its answer was lost (`PoolInv`). A sequence is
  recycled only after an expiry, and the margin in `cannotBeIncluded` covers the lag of the RPC, so no
  envelope in the pool can have it.
- `PlaceInv` says of every request that it is in at most one of channel, batch, loop and stores, in
  none once it is closed, that its id leads to it while it is on its way, and that an open, registered
  request is somewhere. Uniqueness needs the second and third parts: a request that is put back must
  not have been registered anew.
- `EffectInv`: a payload that took effect is tracked until its request is closed as Finalized or as
  unknown, and takes effect once. Retrying after an expiry keeps it because an expired envelope is in
  no ledger and in no pool, which is `ChainInv`.

- `WaitInv` says of what a caller waits on that it is closed, registered or rejected: only a rejection
  takes an open request out of the map. With `PlaceInv`, which says where a registered request is, it
  gives `WaitersServed`.

The refinement maps a request to open or closed and to the number of its effects. `NothingLost` (no
answer was lost, no second call is pending) is inductive under the two hypotheses; with it every step
maps to a step of `TxDelivery` or to a stutter.

**OffRamp.** `Inv` is `TypeOK /\ NothingStuck /\ FrameOK /\ LanesOK /\ ProofOK`. `FrameOK` says what
the saved state of a running transaction looks like, so that a rollback restores the invariant and
a success adds exactly one release and one delivery. `LanesOK` says that a stored lane has
defaults; from it the lemma `SomeVerified` derives that merging pool, receiver and lane lists never
yields an empty set of verifiers, in each of the branches. `ProofOK` carries the attestation from
verification to the effects. `PoliciesOK` adds that a frame past the verification carries the
attestations of lane, pool and receiver. `ViewAlwaysMatches` needs no invariant: it compares the two
resolutions branch by branch, for every message, the malformed receivers included.
The point of `PoliciesOK` is `ThresholdKept`: optional CCVs that are
also required leave the list and lower the threshold by as many, so the receiver still gets its
number of different ones.

**Governance.** `Inv` is `TypeOK`, every instance `McmsGood`, and `FrameGood`. `McmsGood` adds to
the count of nonces that accepted roots are among the seen hashes (`Fresh`), that a root with
operations left whose version is current has the quorum of the current configuration (`Backed`), and
that the configuration passed `validate_group_tree`.
The version comparison is what makes `Backed` survive `set_config`: every change raises the version.
`FrameGood` says that the state to return to is good, and that the only difference of the ready
times is the mark of the running batch; it is why a batch that changes the delay, the roles or the
blocks in the middle still maps to one step of `DelayedExecution`, or to none if it is reverted.
The refinement maps the committed timelock (`CommittedTl`) to statuses and times.

`ConfigsAreUsable` is about the count itself. A vote counts for its group and, each time it makes a
group's quorum, for the parent; those groups form a chain (`ReachedChain`). Hence after any set of
signatures the votes of a group are its members among the signers plus its children that have won
(`VotesOK`), in whatever order they were counted. Parents have smaller numbers than children, so this
agrees with the meaning of the tree from the leaves up (`VotesAgree`), and a tree whose groups all
have enough members and children is won by all signers together.

**Deployment.** `IInv` ties the call to the step of the run (`CallOfRun`), says which envelopes can
still land (`OwnEnvelopes`, `PoolBounded`: none of the run in progress but those of the call, of
which all but the last are late, and none
that would overwrite a setting), counts effects against timed-out waits (`HitsCounted`), and says
that what this run initialised is configured up to the present step (`ConfiguredSoFar`).
`SettingsKept` follows from `PoolBounded`: the operator's transaction takes the one sequence a late
envelope could still use, so after it none can land.

**CCV readers.** `FeedInv` is the order of events on a growing chain. `ReaderInv` and `PollInv` say
how far a cursor has scanned: all up to its position is in the result. `CoverInv` is `CursorCovers`
up to the event in hand. For `CachedAtMostTwice` the invariant counts chances: what is cached, queued
or in hand of an event is at most the number of times it was polled (`Chances`, `Allowed`), and two
successive ranges share one ledger only. A task between `Peek` and `Remove` is in hand and in the
queue at once, and counts for one (`InHand`): what the poll puts in its place meanwhile, `Remove` drops. A task's event has failed more often than it was retried
(`TaskOK`), from which `GivenUpAfterRetries`.

**Contracts.** One invariant per contract.

- `CacheInv` says of every feed that the life of each round still fits the window (`RoundFits`): at
  every future moment the window is at most as wide as the narrowest life among the rounds in it. That
  is what the field `grow_at_ledger` is for, and why its anchor must be the latest round written under
  the old limit: the mutant that counts from the first round breaks it. From it, readability only
  depends on a round's distance from now, which is monotonic. Rounds are also in order of time, so what
  the search accepts is monotonic, and `SearchOK` (all below `lo` and above `hi` is on its side of the
  answer) is kept by each pass of the loop, whose span shrinks.
- `LimiterInv` relates the tokens left in a bucket to the meter: used plus tokens, refilled to now, is
  at most capacity plus rate times the span; the refill's cap keeps it.
- `ForwarderInv` is `EffectsOnce` with the types of its two variables, and is inductive because a
  terminal state refuses every call and a failed call has no effect.
- `CommitteeInv` is the property with its types. Strictly ascending signers are different
  (`AscendingOrder`), so their number is a cardinality.
- `OnRampInv` has the lengths of the message logs and that lane defaults do not repeat. The merged list
  is built by appending what is not there yet, which keeps it free of duplicates and adds every CCV
  asked for. Fees: the sum of the rounded receipts is at most the rounded sum (`DivAdd`), over any list.
- `SiloInv` says that lanes which were never pointed elsewhere use one box, which holds at least the sum
  of what each of its lanes can claim in local decimals. A release rounds down, so splitting it gains
  nothing (`ReleaseOwes`); a lock adds at least what it lets exist abroad (`LockOwes`).

Model-checked only: `AcceptedResolves`, `StopHalts` and `EventsResolve`. They are
liveness properties under fairness, which this prover does not handle. The properties of the four
violation runs are false, so there is nothing to prove.

## 5. Not modelled

- Advanced pool hooks, registries, two-step ownership: step 8 of the plan. Of the committee verifier
  and its resolver: allow list, fees, storage locations and the outbound map. OffRamp and OnRamp meet verifiers and pools as contracts that answer anything.
- Fee quoter, executor contract, tokens, RMN proxy: tables with setters, and standard contracts.
- TTL extension and archival of persistent entries, upgrades, admin setters without effect on the
  properties.
- XDR, ABI and message encodings; signatures and hashes, which are taken as ideal; 128-bit
  arithmetic and its overflow checks, which refuse.
- Chain service, relayer wiring, metrics, logging.
- Generated bindings (`src/bindings`, more than half of the Go lines of the repository), fixtures,
  integration tests, examples and scripts. They have no logic of their own, so the share of the
  repository's lines that the map covers stays small.
