# superwatcher in TLA+

superwatcher follows an Ethereum chain for a service: it polls event logs over
overlapping ranges of blocks, notices when blocks it has reported were replaced by
a chain reorganization (a *reorg*), and hands new and replaced blocks to the
service. These modules model the pipeline from the node to the service, how its
goroutines start and stop, the simulated chain its tests run on, and the demo
service of the repository. TLC checks them on small instances. TLAPS proves most of the
properties of the separate parts for every configuration, and those of the composed
pipeline for every configuration in which nothing fails, however the chain changes.

## The system

| Component | State | Operations | Talks to |
|---|---|---|---|
| Emitter (`internal/emitter`) | `emitterStatus`: last range, reorg flag, retries | `loopEmit`: compute a range, poll, emit, wait for the engine; `Loop` re-enters it after an error | gateway (read), node (head), poller (call), engine (channels) |
| Poller (`internal/poller`) | block tracker, `doReorg`, policy, filter, last recorded block | `Poll`; `SetDoReorg` and the setters of addresses and topics | node (logs, headers), under its own lock |
| Engine (`internal/engine`) | metadata tracker: one block state per hash | `handleResults`: reorged blocks, good blocks, clear, record, sync | emitter (channels), service (calls), gateway (write) |
| Emitter client (`internal/emitterclient`) | channels | receive a result or an error, send the sync signal | between emitter and engine |
| Service (`ServiceEngine`, the user's) | whatever it derives from logs | `HandleGoodBlocks`, `HandleReorgedBlocks`, `HandleEmitterError` | called by the engine |
| State data gateway (the user's) | one number, persisted | get, set | emitter, engine |
| Node | the canonical chain | `BlockNumber`, `FilterLogs`, a batch of headers | emitter, poller |
| Thin engine (`internal/thinengine`) | none | hands each result to the service | emitter (channels), service |
| Constructors, options (`pkg/components`) | none | which channels, client and poller each side gets | |
| reorgsim (`pkg/reorgsim`) | one chain per scripted reorg, current height, event counters | build the chains, move logs; `FilterLogs`, `BlockNumber`, headers | stands in for the node in tests |
| servicetest (`pkg/servicetest`) | none | `RunService`: run emitter and engine until the exit block | emitter, engine |
| Demo service (`examples/demoservice`) | ENS and pool records in Redis or in a mock | router, ENS and pool factory sub-engines; artifacts | called by the engine |
| Generated bindings, test logs, logger | | see *Not modelled* | |

A round goes: the emitter reads the recorded block and the head, chooses a range,
calls `Poll`; the result goes to the engine over an unbuffered channel; the engine
calls the service, forgets old metadata, records `LastGoodBlock` and signals back;
the emitter starts over. Emitter and engine are goroutines, but one of them always
waits for the other. What runs free of them is the chain.

What is hard here:

- *The chain moves between any two calls* to the node: between the head and the
  poll, and between the logs and the headers of one poll.
- *Ranges depend on history*: a normal range looks back one `FilterRange`; a reorg at
  its first block makes the next one start one `FilterRange` earlier, up to
  `MaxGoBackRetries` times; a shrunken head, an error or a restart changes the rule.
- *Two memories are cleared by height* while ranges go back: the poller's tracker
  and the engine's metadata. Cleared too early, a reorg is missed, a block is handled
  twice, or the engine panics. Both clears subtract unsigned numbers that wrap around.
- *Blocks are delivered many times*; only the metadata make it once.
- *A crash* loses both memories and keeps the gateway and what the service did.
- *Three goroutines stop each other* through a context that only some of their waits
  watch, and three channels that one side closes and the other uses.
- *Forked chains share block objects* in reorgsim, and logs are moved between blocks in
  the order of a map.
- *A service reverts with artifacts* that came from the blocks it handled, by way of the
  engine's metadata, and deletes records by key, whatever block wrote them.

What makes each part correct: the **emitter** skips no height, bounds its ranges,
looks at every height twice and catches up; the **poller** reports as reorged only
what it reported as good, and once, and its tracker is exact after every poll; the
**engine** hands a block over once and takes it back at most once, after that; the
**whole** leaves the service with the logs of the canonical chain; the **goroutines**
neither panic nor wait for one that is gone, and stop when the context is cancelled;
**reorgsim** shows each log once, in its block, and ends; the **demo service** has the
records of the blocks it was given and no others. `PROJECT.json`
lists the hazards behind these, each at its line.

## Modules

| Module | Models |
|---|---|
| `BlockNumbers` | the three range rules of `blocknum_utils.go`; `uint64` subtraction and the `int64` score |
| `Config` | the configuration that steers behaviour, and the gateway |
| `Emitter` | `loopEmit`, `computeFromBlockToBlock`, `Loop` as actions; the head and the kind of answer of `Poll` are parameters |
| `EmitterSystem` | the emitter with the weakest environment it relies on |
| `Chain` | the node (external): mining, reorgs, restored branches, three calls |
| `Poller` | `Poll` as one action per call to the node, the tracker, the controller |
| `PollerSystem` | the poller with the chain and an arbitrary caller |
| `Engine` | `handleResults`, the state machine, the metadata tracker, the record of what the service was told |
| `ServiceContract` | abstract: a hash is new, then applied, then reverted |
| `EngineSystem` | the engine with an arbitrary source of results; it implements `ServiceContract` |
| `SuperWatcher` | emitter, poller, engine, gateway and chain composed; it implements `ServiceContract` too |
| `Components` | the constructors: who holds which channel, client and poller |
| `Lifecycle` | the emitter's `Loop`, `handleResults` and the caller of `engine.Loop` with their channels, context and `Shutdown`, for the managed and the thin engine, run by `superWatcher.Run`, `RunService` or easywatcher |
| `ReorgSim` | the simulated chain: building, forking, answering |
| `DemoService` | router, sub-engines, artifacts and data gateways of the demo, behind a short form of the engine |
| `EmitterProofs`, `PollerProofs`, `EngineProofs` | the proofs about `EmitterSystem`, `PollerSystem`, `EngineSystem` |
| `PollerLemmas` | lemmas about the chain and about one `Poll`, whoever calls it |
| `SuperWatcherProofs` | the proofs about `SuperWatcher`: a chain that changes between polls, and one that changes at any time |
| `LifecycleProofs`, `ReorgSimProofs` | the proofs about `Lifecycle`, `ReorgSim` |
| `NumberProofs` | lemmas about the numbers of `BlockNumbers` that poller and engine share |
| `MC*` | the instances for TLC |

`EmitterSystem` and `SuperWatcher` share the actions of `Emitter`; so do `PollerSystem`
and `EngineSystem` for theirs. `SuperWatcher` conjoins them: `CallPoll` is the
emitter's `ComputeRange` and the poller's `Poll`, `EmitResult` the emitter's step and
the engine's `ReceiveResult`, `Sync` both ends of the sync channel. `Lifecycle` keeps
the channels and abstracts a poll to its outcome; `DemoService` keeps the service and
abstracts polling to results over the blocks that are new or replaced.

### State and actions

*Emitter.* `epc` is the place in `loopEmit`: `compute`, `poll`, `emit` (result at hand,
status updated after the sync), `emitReorging` (status updated before it), `emitError`,
`panicked` (`emitFilterResult(nil)`). `status` holds the fields of `emitterStatus` that
are read again; `call` the arguments of `Poll`, clipped to `StartBlock`. The status that
`Loop` passes to `loopEmit` never has a retry in it, because `loopEmit` replaces its own
pointer: so `EmitError` starts from `NewStatus`.

*Poller.* `ppc` is the place in `Poll`. `FilterLogs` then `FetchHeaders` is `pollCheap`,
and `pollExpensive` when the logs arrive first; `FetchHeadersFirst` then `FilterLogsLast`
is `pollExpensive` the other way round; `FetchMissing` is the call in `pollMissing`. What
follows the last call (`findReorg`, `processResult`, `LastGoodBlock`) touches nothing
shared and belongs to it. A block is a record of number, fork and the addresses that
logged; the record serves as the hash. A header the node does not have yields `ZeroHash`,
since the batch call never reads the error of an element. `hung` is the loop of
`pollMissing` at block zero, `panicked` the nil tracker or the room for a negative number
of headers. `NotImplemented` is `PolicyExpensiveBlock`, which returns an error.

*Engine.* One action per block of a result, one for each service call with the update
of the metadata that follows it, one for recording, one for the sync. `HandlerFails`
covers the error returns; a failing service call may have had its effect or not.
`ledger` counts, per hash, the calls for good and for reorged blocks, and keeps the logs.

*Lifecycle.* `epc`, `rpc` and `mpc` are the places of the three goroutines, `upc` that of a
user inside `Shutdown`. A send and the receive it meets are one action; a send or close
on a closed channel, a close of a nil one and a call of a missing part end the process.
`wired` is what `Components` built. A poll has nothing new, a result or an error, and a
handler of the service returns an error or not; `failed` remembers that `handleResults`
returned one. `Loop` and `loopEmit` look at the context where the code does, and nowhere
else.

*ReorgSim.* A block object is named by its number and by the event that made it, which is
also its hash: chains share the objects they did not replace, so `chains` maps numbers to
names and `store` maps names to logs. `ForkEvent`, `MoveNextBlock`, `MoveLogs` and
`EventBuilt` build the chain of one event, blocks to move from in any order;
`NewReorgSim` validates the script. `FilterLogs` triggers and forks. `HeaderByNumber` and
`BatchCallContext` change no state: the actions are their panics, `BatchHash` their answer.

*DemoService.* A block holds names and pools, in any order; a registration logs a transfer, the
registrar's event and the controller's, a pool one event. A call of a sub-engine is a
fold over its logs that carries the records, the artifacts and the writes so far; write
number `failAt` fails, in the Redis gateways. The router calls the sub-engines in any
order. `known` is the engine's metadata: the block handed over at a height, with its
artifacts. `wiring` is `main` (the routes of the demo's `main`) or `suite` (those of its
test suites). `Restart` keeps the records and the recorded block and empties `known`.
`PollResult` hands over what a range has: after a restart
`fromBlockToBlockGoBackFirstRun`, which starts above the recorded block and may end above
the head, otherwise `LaterRange`, which looks back from the recorded block, for any
`FilterRange`. So blocks recorded before a restart are handed over again only when a
later range looks back at them.

*SuperWatcher* starts as `InitTestComponents` does: from a gateway that has nothing
recorded, or has `StartBlock` (`FirstRuns`).

*Abstracted*: artifacts (passed on and never read by the engine; kept in `DemoService`), logging, `DoHeader`, header fields other
than the hash, `LogsMigrated` (read by services only), sleeping.

## Runs

| Run | Question | Bounds |
|---|---|---|
| `emitter` | no height skipped, ranges bounded, every height looked at twice, catches up | heads 1..8, `StartBlock` 2, `FilterRange` 2, one go-back; 3 moves of the chain, 2 faults |
| `poller` | reports and tracker, the chain changing during polls | heights to 3, 2 reorgs, restored branches, 3 polls, all policies |
| `poller_control` | reported once, with all logs, never falsely; panics | chain changes between polls; 2 reorgs, 3 polls from 0, 1 and 4, setters in between, policies Fast and Expensive |
| `engine` | the contract of the service, no panic | 5 hashes on 3 heights, 3 results, failures |
| `superwatcher` | the service ends up with the canonical chain | heights to 5, 2 reorgs of depth 2 between polls, all policies |
| `superwatcher_race` | what still holds when the chain changes during polls | heights to 3, 2 reorgs, all policies, both gateways at the start |
| `superwatcher_live` | catches up after a reorg, a failed call and a crash | heights to 3, both gateways at the start |
| `lifecycle` | panics, lockstep, waiting and stopping | every wiring with any channel, the client or the poller missing on either side; 2 calls of `Shutdown` |
| `reorgsim` | the chains built, forks, answers, termination | scripts of up to 2 events on a few blocks, valid and invalid, with moves in both directions |
| `demoservice` | records match blocks; stops only on faults | 2 names and 2 pools, symmetric, 2 of them on the chain at a time; 3 blocks, 1 reorg, 1 failed write and a restart |
| `nil_result`, `reentry` | violations, see Findings | |

*Why the bounds suffice.* Everything depends on a block's distance from the recorded
block in units of `FilterRange`. With `FilterRange` 2, heights to 5 or 8 let the
window move on until a block leaves the look-back, the tracker and the metadata;
three polls are what it takes to see a block, see it replaced, and see the replacement
replaced. Two reorgs give a block two successors, and a reorg during a go-back. One
address is enough, as the code compares only hashes and numbers of logs. `Half` stands
for 2^63: any value above the heights gives the same comparisons. Two events are what
it takes for one to fork a chain that another made. Two items of two names and two pools
let one move, vanish or fail while another stays, and let one call revert two of a kind;
with one reorg each record is written, reverted and written again, and three blocks let a
range leave out a replaced block, and a process restart between a recorded and an
unrecorded one. Writes fail only with the routes of the test suites, as the routes differ
only in what a reorg does. A name is like any other name and a pool like any other pool:
the order of the items in a block is chosen by the actions, so permuting them is a
symmetry.

*Conditions.* `MaxReorgDepth` keeps reorgs within `FilterRange` of the highest head: a
deeper one is outside the look-back and superwatcher does not claim to notice it.
`CalmPolls` lets the chain move between polls only. `ServiceMatchesChain` needs both,
no crash, no failed call, equal ranges in emitter and poller, and no restored branch;
dropping any one of them makes it fail, as the hazards say. `SeesBlockOnce` needs
`MaxGoBackRetries` of 2 for the go-backs that occur.
`OneLivePerHeight` speaks of blocks with logs: under `PolicyFast` the removal of an
empty block is not reported.

`SeenTwice` is about heights recorded by a loop that was not re-entered (`reentered`).
The conditions of the demo's properties are the ways in which the demo does go wrong:
`skewed` (a result whose range leaves out a replaced block, so that the reorg is reported in
parts), `crowded` (the pools that a call had to revert before its last one), `Orphans` (the
items of blocks that a stopped process had handed over and that were replaced before the
next one saw them, or that it had begun to hand over below the recorded block), two names
in one transaction. `ToCome` excepts what a stopped process left above the recorded block, until
the next process has been there. `MovesUp` and `Rising` are what scripts of reorgsim must keep to. `CancelStops`
and `SyncReturns` are about systems that were fully wired.

*Deadlock* is checked except where the system may stop: the poller's caller has a
bounded number of calls, the engine stops after a handler error, `EmitNil` ends
in a panic, a stopped `Lifecycle` and a simulation at its exit block have nothing left to
do, and so has the demo when its chain is full.

*Fairness.* Weak fairness of the steps of emitter, poller, engine and service: loops
that never end by themselves, with calls that return. None for the chain, faults or
crashes. `EmitterSystem` states it per action, `SuperWatcher` for the disjunction,
since there one step at most is possible at a time, apart from the chain's. `Lifecycle`
has weak fairness of each of its three goroutines: the scheduler runs one that can go on,
polls and handlers return; the user need not cancel or shut down. `ReorgSim` has it of
`BlockNumber`, which the emitter calls in every round.

*History variables* (`requested`, `repeated`, `goods`, `reorgeds`, `again`, `short`,
`refiltered`, `quiet`, `forgotten`, `calm`, `reentered`, `failed`, `asked`, `earlier`,
`torn`, `skewed`, `crowded`) record what happened for the properties and
guard no action of the code; `forgotten` limits what the environment of the engine
delivers.

## Findings

- **`nil_result`**: a reorg between the logs and the headers of one poll makes `Poll`
  return no result with an `ErrChainIsReorging`, and the emitter panics on it.
- **`reentry`**: whenever `loopEmit` is entered, its rule to go back multiplies by a retry
  count of zero. In the run block 2 is recorded and then replaced by a block with a log, a
  call fails, and the emitter, entered again, polls blocks 3 and 4 only. The recorded block
  is then 4, which is also the head; no ordinary poll looks at block 2 again, and the service
  never gets its log.
- With `MaxGoBackRetries` 1 the engine forgets metadata that the next go-back needs, and
  the service handles a block twice. In general *k* consecutive go-backs need
  `MaxGoBackRetries` of *k* + 1.
- `SetDoReorg(false)` makes the next `Poll` use a nil tracker, and so does the second `Poll`
  of a poller made without `doReorg`.
- `Loop` of the engine does not exit when `handleResults` fails (`engine.go:42` says it
  does); the emitter then waits forever to send its next result, cancelled or not.
- `RunService` hangs on any error other than `ErrExitBlockReached`.
- reorgsim changes the hash of an empty block below `ReorgBlock` when the next event goes
  deeper.
- The pool factory sub-engine reverts with the last artifact only, so one of two pools
  stays; the ENS mock logs a `DEL` for every set, which its tests take for a deletion;
  `newSuperWatcherOptions` of the demo does not pass on its client.

Smaller ones, met while modelling: the emitter does not exit on `ErrMaxRetriesReached`
(`config.go:20`); a restored branch is skipped silently (`block_metadata_states.go:26`
says panic); `LogsMigrated` is set on good blocks (`block.go:15` says never); with a reorg
of the last good block `LastGoodBlock` is the reorged block itself (`poll_result.go:23`
wants it lower); `HeaderByNumber` of reorgsim indexes past the last event
(`reorgsim_ethclient_impl.go:94`); logs may be moved into a block below `ReorgBlock`, which
changes earlier chains too (`chain.go:93`); with the routes of the demo's `main` a reorg of
an ENS registration ends in "event topic not found" (`ensengine/engine_impl.go:213`); the
mock `DelPool` dereferences nil on a second delete.

## Proofs

Each module proves `Invariance`, `Spec => []IInv`, and takes its theorems from it. `IInv` is
a conjunction of named parts with one lemma per action that disturbs it, and each was
model-checked before it was proved. The assumptions are those the model modules state
(naturals, `FilterRange` and `StartBlock` not zero, heights below `Half`, finite sets of
addresses); there is no bound on heads, polls, reorgs, results, faults or calls other than
that every constant that bounds them is some natural number.

**`EmitterProofs`**

- `TypeCorrect`: all block numbers stay naturals, so no range rule wraps around;
- `NoHeightSkipped`: every height from `StartBlock` to the recorded block was asked for;
- `PollsBounded`: no poll asks for more than `FilterRange * (MaxGoBackRetries + 2)` heights;
- `EveryHeightSeenTwice` (`SeenTwice`): every height above `StartBlock` and at least
  `FilterRange` below the recorded block was in two polls, unless the loop was re-entered.

`NoGap` is not inductive: it must be known that a poll under way starts no higher than the
first height never asked for (`CallCovered`), that the same holds of the range a reorg makes
the emitter go back from (`GoBackCovered`), and that the result at hand leaves nothing out
(`ResultCovered`). For the bound, ranges are measured by the retries (`CallWidth`,
`RetryWidth`), and retries are zero outside a reorg (`RetriesCounted`). `LooksInv` says the
same things of second looks. Lemma `ComputedRange` says what the three range rules yield.

**`PollerProofs`**: every invariant of `PollerSystem`.

- `TypeCorrect`; `RevertsOnlyGiven` (`ReorgedWereGood`); `TracksTheChain`
  (`TrackerMatchesChain`); `NeverProcessReorgError`; `NoPanicUnlessMisused`;
- with `CalmPolls`: `ReportsAllLogs` (`GoodBlocksComplete`), `ReportsOnlyReorgs`
  (`NoFalseReorg`);
- with `CalmPolls` and no restored branch: `ReorgedOnlyOnce` (`ReorgedOnce`).

What is reported as reorged comes from the tracker, so the invariant relates the tracker to
the past: tracked blocks were reported good (`TrackedWereGood`) and have all their logs
(`TrackedComplete`). What a poll has fetched so far is what the chain still has if it has
stood still (`QuietFetch`), and with calm polls it has (`CalmFetch`). That a block is reorged
once needs forks to be numbered: a reorged block belongs to a fork older than the newest and
is not in the chain, and a tracked block is either in the chain or of an older fork
(`ReorgedAreGone`). The extra conditions are those the runs need too: without them TLC finds
the counterexamples that the hazards describe.

**`EngineProofs`**: `TypeCorrect`, `NeverPanics` (`NoPanic`), and `Refinement`:
`EngineSystem` implements `ServiceContract`, so no service is told of a hash twice or told to
revert what it was not given. The state of a block's metadata tells what the service was told
(`StateTellsLife`); that is only of use as long as the metadata are there, so a block the
service was told of is tracked until its height is forgotten (`ToldIsTracked`,
`GoodIsTracked`), and results hold nothing that low (`ResultRecent`, which the environment
provides). States `Seen` and `Reorged` exist only for blocks of the batch being handled
(`InBatch`). `DoneGoodIInv` is where the clear happens: `ClearUntilOK` shows that it forgets
exactly what is `FilterRange * MaxGoBackRetries` below the last good block, also when its
subtraction wraps around.

**`SuperWatcherProofs`**: every invariant of the run `superwatcher`, and what the run
`superwatcher_race` checks.

However the chain changes, also in the middle of a poll, from an empty gateway and from a
recorded block (in a `Setting`):

- `OneBlockPerHeight` (`OneLivePerHeight`): the service never has the logs of two blocks of
  one height;
- `Refinement`: the composed pipeline implements `ServiceContract`: no block is given to the
  service twice, or reverted twice or before it was given;
- `TypeCorrect`.

When the chain changes between two polls only and nothing is recorded at first (the `Setting`
and `Calm`):

- `ServiceFollowsChain` (`ServiceMatchesChain`): when emitter and engine are done with a
  result and the chain has not moved on, the service holds the canonical chain up to the
  recorded block;
- `SeesEachBlockOnce` (`SeesBlockOnce`), `NeverPanics` (`NoPanic`).

They hold for every length of the chain, number of reorgs, `FilterRange` and set of
addresses, under the policies Fast, Normal and Expensive. The `Setting`: reorgs are no deeper
than `FilterRange`, restore no earlier branch and leave `StartBlock` alone (`StartBlock +
MaxReorgDepth <= InitHeight`); no call fails and nobody crashes; emitter and poller have the
same `FilterRange`; `MaxGoBackRetries` is 2 or more; if `StartBlock` is recorded at first, the
chain has the first range (`StartBlock + FilterRange <= InitHeight`). Those of `Calm` and
all but two of the `Setting` are the conditions of the runs, explained under *Conditions*; the
properties are false without them (Findings, hazards). The two about `InitHeight` are the
proof's own: the runs start at height 2 and also cover a reorg of `StartBlock` itself.

*The calm part.* Its invariant `IInv` looks ahead: `Held` is what the service will hold once
the result at hand has been handled, so that chain, tracker and service can be compared in
every phase. `ViewOK` does that. The service holds what is tracked (`TrackerLive`); what it
holds and the poller does not track is canonical and too deep to be replaced (`LiveKnown`);
what it has dropped never comes back (`Gone`); it has everything that no later poll looks at
(`Complete`). A tracked block that was replaced is less than a `FilterRange` below the
recorded block (`StaleRecent`), the next range starts at or below that point (`RangeOK`), so
the next poll finds it; when it is the first block of the range, the emitter goes back
once, and then the first block is in place (`StatusOK`, `GoBackOK`). `LostOK` is why a
block is handed over once: what the engine forgets is two `FilterRange` below the highest
head, one below the recorded block and one below every block that could make the emitter go
back, so no range reaches it. That is the place where `MaxGoBackRetries >= 2` is used.
`LoopOK`, `MetaOK` and `LedgerOK` carry this through the engine's loops. There is one lemma per
step: `ChainMovesOK`, `WaitOK`, `CallPollOK`, `StepPollOK`, `EmitResultOK`, `HandleOK`,
`RecordIInv`, `SyncIInv`. TLC checked the parts of `IInv` one by one with the constants of
`MCSuperWatcher.cfg` and `InitHeight` 3 (1.5 million states).

*The other part.* When the chain changes during a poll, none of the comparisons with the
chain survive: a poll mixes the logs of one branch with the headers of another, reports a block
that is already replaced, reports the hash of a header that does not exist (`ZeroHash`), or
tracks a block without the logs it has. The invariant `RaceInv` therefore says where the damage
can be. Whatever a poll has fetched is either what the chain has or `Recent`: in the last
`FilterRange` of its range and out of reach of what the engine has forgotten (`RaceFetch`,
`RaceTracker`). So an unsound block is in the overlap of the next range, and the next poll
reports it as reorged. What the service holds with logs is about to be reverted, is tracked
with that hash, or is final (`RaceCover`): before another block of that height can be good, the
tracker must have had a different hash, and the old block is in the same result as reorged. The
engine finds its metadata, because what was forgotten is below every block that can be
unsound (`RaceForgotten`), also when the emitter goes back (`RaceGoBack`), which it does once per
reorg and then from a sound block (`RaceStatus`). `RaceMeta` and `RaceLoop` relate metadata and
ledger through the engine's loops. The emitter may panic (finding `nil_result`): from then on
nothing happens, and only the part `Safe` is kept. The invariant leaves it open whether the
engine can panic too, on a reorged `ZeroHash` without metadata; TLC finds no such case within
the bounds below. There is one lemma per step again, `RaceChainMoves` to `RaceSync`.
TLC checked the parts one by one with all policies, both gateways and two reorgs
(`FilterRange` 1 and heights to 6; `FilterRange` 2 and heights to 4).

The contract speaks of `AllBlocks`, which `ZeroHash` is not one of, because no address is
called "none" (`ChainAssumption`).

**`NumberProofs`**: `ScoreOfSub64`: the `int64` view of a wrapped-around `uint64` difference
is the true difference, for operands below `Half`. This is why both clears, which subtract
beyond zero early in the chain, are harmless.

**`LifecycleProofs`**: `TypeCorrect`, `InLockstep` (`Lockstep`) and `NoPanicUnlessMisused`
(`PanicsOnlyWhenMisused`), for every wiring, every way to run and any number of calls of
`Shutdown`. The invariant says who may close what: the engine closes `syncChan` last
(`SyncClosedLast`), and without `Shutdown` only the emitter closes its two channels, when
it will not send again (`EmitterClosesLast`).

**`ReorgSimProofs`**: `TypeCorrect`, `ForksTakeTwoCalls` (`ForkTakesTwoCalls`),
`ForksChangeHashes` (`HashChangesWithFork`) and `EveryLogOnce` (`LogsInOneBlock`), for every
script. `ChainsOK` says which blocks an event replaced and `StoreOK` that all chains have
their objects. `OnePlace` is the invariant behind `LogsInOneBlock`: in every chain, each log
has one place. A move keeps it because a script that moves logs upwards changes only objects of
the event itself, which older chains do not share (`MovesOwnBlocks`). `EveryLogOnce` assumes
`TopicsTellAddresses`: `appendFilterLogs` takes a log that matches the topics or the
addresses of a query, where a node asks for both, so the two must select the same logs.

Only model-checked:

- liveness, which needs fairness and `ENABLED`: `CatchesUp`, `SyncReturns`, `CancelStops`,
  `ReachesExit`;
- the composed `SuperWatcher` outside of the `Setting` of its proofs: a reorg of `StartBlock`
  (runs `superwatcher`, `superwatcher_race`), the faults and crashes of the other runs;
- `PathsTellDestination` of `ReorgSim`: what a sequence of moves does to a log, by
  induction over the sequence;
- `DemoService`: its handlers are folds over the logs of a call in an order `SetToSeq` picks,
  and what a fold yields takes induction over data.

## Not modelled

- *Generated bindings* (`examples/demoservice/internal/lib/contracts`): half of the Go lines,
  made by abigen; the demo reads the ABI strings.
- *Test data and helpers*: `testlogs`, `pkg/testutils`, `DebugServiceEngine` (prints and calls
  functions of the test), the mock poller, the gateway on a file.
- *Logger and debugger*: output.
- `SetPolicy` (returns an error), `DoHeader` (nothing reads it), `DoReorg` and the other getters.
- The setters of the controller in the composed `SuperWatcher`: they are checked against
  the poller in `PollerSystem`.
- In the demo: decoding of log data, owners and expiry dates, the readers of the data
  gateways, the sub-engines that no code registers.

## Plan

What is left to prove: `SuperWatcherProofs` without the condition on `StartBlock`. A head that
falls below `StartBlock` makes the emitter wait, with the tracker and the service ahead of the
chain.

The model is complete with respect to the components listed as modelled.
