----------------------------- MODULE DemoService -----------------------------
(***************************************************************************)
(* The demo service (examples/demoservice): a router engine that hands the *)
(* logs of each block to the ENS sub-engine or the Uniswap V3 pool factory *)
(* sub-engine, the data gateways the sub-engines write to, and the engine  *)
(* that calls the router, first with the reorged and then with the good    *)
(* blocks of a result.                                                     *)
(*                                                                         *)
(* The chain holds items: a name is registered by a transaction that logs  *)
(* a Transfer and a NameRegistered of the registrar and a NameRegistered   *)
(* of the controller; a pool is created by one log.  A reorg may move or   *)
(* drop any item at or above its block.  What the superwatcher hands to    *)
(* the service is what ServiceContract promises; after a restart it begins *)
(* above the recorded block, and knows of no block before that.            *)
(***************************************************************************)
EXTENDS Naturals, FiniteSets, SequencesExt

CONSTANTS
    Names,          \* ENS names; a name stands for its ID as well
    Pools,          \* pool addresses
    TxOf,           \* the transaction that registers each name
    MaxHead,        \* bound: the highest block mined
    MaxItems,       \* bound: items on the chain at a time
    MaxForks,       \* bound: reorgs
    MaxFaults,      \* bound: gateway writes that fail, a restart after each
    NoRecord,       \* the key was never written, or is gone
    NilRecord       \* the mock gateways' nil under a key that was deleted

ASSUME DemoAssumption ==
    /\ Names \cap Pools = {}
    /\ DOMAIN TxOf = Names
    /\ MaxHead \in Nat \ {0} /\ MaxItems \in Nat /\ MaxForks \in Nat /\ MaxFaults \in Nat
    /\ NoRecord # NilRecord

VARIABLES
    gateway,    \* the data gateways: "redis" or "mock"
    wiring,     \* the routes: contractsToServices' "main" or NewMockRouter's "suite"
    chain,      \* the blocks of the canonical chain, by number
    fork,       \* the number of reorgs so far
    recorded,   \* the state data gateway: the last recorded block, or NoRecord
    goBack,     \* emitterStatus.GoBackFirstStart: no range was computed since the start
    known,      \* number -> the block handed to the service and its artifacts
    pc,         \* "idle", "reorged", "good", "down" (handleResults returned) or "panic"
    result,     \* the result being handled
    todo,       \* the sub-engines the router has still to call
    out,        \* the artifacts the sub-engines called so far returned
    ens,        \* RepositoryENS
    pools,      \* RepositoryPoolFactory
    faults,     \* gateway writes that failed
    earlier,    \* history: blocks handed over by a process that stopped, and not since,
                \* and those above the recorded block that it had begun to hand over
    torn,       \* history: those not above it that it had begun to hand over
    skewed,     \* history: a result left a stale block outside its range
    crowded     \* history: the pools that a call had to revert before its last one

history == <<earlier, torn, skewed, crowded>>
vars == <<gateway, wiring, chain, fork, recorded, goBack, known, pc, result, todo, out,
          ens, pools, faults, history>>

Items == Names \cup Pools
SubEngines == {"ens", "pool"}
NoName == "no name"
Nothing == [reorged |-> <<>>, good |-> <<>>, lastGood |-> 0]

Block(n, f, items) == [number |-> n, fork |-> f, items |-> items]

\* A block of the chain is known by its number and the reorg that made it.
Hash(block) == <<block.number, block.fork>>

Log(event, item, tx, block) ==
    [event |-> event, item |-> item, tx |-> tx, block |-> block]

(* The logs of an item in a block: the registrar logs the mint of the      *)
(* name's token, then the name; the controller logs the name after that.   *)
LogsOf(item, block) ==
    IF item \in Names
    THEN << Log("Transfer", NoName, TxOf[item], Hash(block)),
            Log("RegistrarNameRegistered", item, TxOf[item], Hash(block)),
            Log("ControllerNameRegistered", item, TxOf[item], Hash(block)) >>
    ELSE << Log("PoolCreated", item, item, Hash(block)) >>

BlockLogs(block) ==
    FlattenSeq([i \in DOMAIN block.items |-> LogsOf(block.items[i], block)])

--------------------------------------------------------------------------
(* The router: a log goes to the sub-engine that has its address and topic *)
(* among its routes.  Of the hard-coded topics the model keeps those that  *)
(* the transactions of the chain log.                                      *)
contractTopicsMap ==
    [ENSRegistrar     |-> {"RegistrarNameRegistered", "Transfer"},
     ENSController    |-> {"ControllerNameRegistered"},
     Uniswapv3Factory |-> {"PoolCreated"}]

contractsToServices ==
    [ens  |-> contractTopicsMap.ENSRegistrar \cup contractTopicsMap.ENSController,
     pool |-> contractTopicsMap.Uniswapv3Factory]

\* The suite of the ENS sub-engine has the event NameRegistered of both contracts.
NewTestSuiteENS == {"RegistrarNameRegistered", "ControllerNameRegistered"}

NewTestSuitePoolFactory == contractTopicsMap.Uniswapv3Factory

NewMockRouter == [ens |-> NewTestSuiteENS, pool |-> NewTestSuitePoolFactory]

Routes == IF wiring = "main" THEN contractsToServices ELSE NewMockRouter

logToSubEngine(log, se) == log.event \in Routes[se]

mapBlocksToSubEngine(blocks, se) ==
    LET logs == FlattenSeq([i \in 1..Len(blocks) |-> BlockLogs(blocks[i])])
    IN  SelectSeq(logs, LAMBDA log : logToSubEngine(log, se))

\* Mutant: only one sub-engine gets its logs.
FirstCalled(blocks) ==
    LET called == {se \in SubEngines : mapBlocksToSubEngine(blocks, se) # <<>>}
    IN  IF called = {} THEN {} ELSE {CHOOSE se \in called : se = "pool" \/ called = {se}}

\* The sub-engines that have a log in the blocks.
Called(blocks) == {se \in SubEngines : mapBlocksToSubEngine(blocks, se) # <<>>}

\* Mutant: only the last block's artifacts are looked at.
LastBlockArtifacts(se, artifacts) ==
    SelectSeq(Last(artifacts), LAMBDA a : a.for = se)

\* The artifacts of the blocks that are for the sub-engine; each block's are one element.
filterArtifacts(se, artifacts) ==
    SelectSeq(FlattenSeq(artifacts), LAMBDA a : a.for = se)

\* Mutant: every block gets all the artifacts.
MergeAll(block) == out

\* The artifacts the sub-engines returned for a block.
mergeArtifacts(block) == SelectSeq(out, LAMBDA a : a.block = block)

--------------------------------------------------------------------------
(* What is stored: entity.ENS and entity.Uniswapv3PoolCreated.             *)
ENS(id, name, tx, block) == [id |-> id, name |-> name, tx |-> tx, block |-> block]

Uniswapv3PoolCreated(address, block) == [address |-> address, block |-> block]

--------------------------------------------------------------------------
(* A call of a sub-engine goes through its logs with what it has so far:   *)
(* the records, the artifacts it can look at, those it returns, the writes *)
(* it made, and how it stands.  Write number failAt fails.                 *)
Call(db, artifacts) ==
    [db |-> db, artifacts |-> artifacts, out |-> <<>>, writes |-> 0, err |-> "none"]

Stop(s, err) == [s EXCEPT !.err = err]

Write(s, key, record) == [s EXCEPT !.db[key] = record, !.writes = @ + 1]

(* The Redis gateways.  A command fails, or is done.                       *)
handleRedisErr(s, failAt, done) == IF s.writes + 1 = failAt THEN Stop(s, "error") ELSE done

RedisSetENS(s, name, failAt) == handleRedisErr(s, failAt, Write(s, name.id, name))
RedisDelENS(s, name, failAt) == handleRedisErr(s, failAt, Write(s, name.id, NoRecord))
RedisSetPool(s, pool, failAt) == handleRedisErr(s, failAt, Write(s, pool.address, pool))
RedisDelPool(s, pool, failAt) == handleRedisErr(s, failAt, Write(s, pool.address, NoRecord))

(* The mock gateways.  Del wants the key to be there and leaves nil under  *)
(* it; DelPool reads the block of the record it deletes, which may be nil. *)
MockSetENS(s, name) == Write(s, name.id, name)
MockDelENS(s, name) ==
    IF s.db[name.id] = NoRecord THEN Stop(s, "error") ELSE Write(s, name.id, NilRecord)
MockSetPool(s, pool) == Write(s, pool.address, pool)
MockDelPool(s, pool) ==
    CASE s.db[pool.address] = NoRecord -> Stop(s, "error")
      [] s.db[pool.address] = NilRecord -> Stop(s, "panic")
      [] OTHER -> Write(s, pool.address, NilRecord)

SetENS(s, name, failAt) ==
    IF gateway = "redis" THEN RedisSetENS(s, name, failAt) ELSE MockSetENS(s, name)
DelENS(s, name, failAt) ==
    IF gateway = "redis" THEN RedisDelENS(s, name, failAt) ELSE MockDelENS(s, name)
SetPool(s, pool, failAt) ==
    IF gateway = "redis" THEN RedisSetPool(s, pool, failAt) ELSE MockSetPool(s, pool)
DelPool(s, pool, failAt) ==
    IF gateway = "redis" THEN RedisDelPool(s, pool, failAt) ELSE MockDelPool(s, pool)

--------------------------------------------------------------------------
(* The ENS sub-engine.  Its artifact is the name as known so far.          *)
ENSArtifact(name) == [for |-> "ens", ens |-> name, block |-> name.block]

\* The first artifact with the log's ID or transaction; with none the lookup panics.
prevRegistrarArtifact(log, artifacts) ==
    SelectSeq(artifacts, LAMBDA a : a.ens.id = log.item \/ a.ens.tx = log.tx)

\* The registrar's log has the ID, the controller's the name.
unmarshalLogToENS(log, name) ==
    IF log.event = "RegistrarNameRegistered" THEN [name EXCEPT !.id = log.item]
    ELSE [name EXCEPT !.name = log.item]

\* The record is written before its artifact is kept.
Save(s, name, failAt) ==
    LET set == SetENS(s, name, failAt)
    IN  IF set.err # "none" THEN set
        ELSE [set EXCEPT !.artifacts = Append(@, ENSArtifact(name)),
                         !.out = Append(@, ENSArtifact(name))]

handleNameRegisteredRegistrar(s, log, failAt) ==
    Save(s, unmarshalLogToENS(log, ENS(NoName, NoName, log.tx, log.block)), failAt)

\* The controller's log completes the registrar's artifact of the same transaction.
handleNameRegisteredController(s, log, failAt) ==
    LET prev == prevRegistrarArtifact(log, s.artifacts)
    IN  IF prev = <<>> \/ prev[1].ens.block # log.block \/ prev[1].ens.tx # log.tx
        THEN Stop(s, "panic")
        ELSE Save(s, unmarshalLogToENS(log, prev[1].ens), failAt)

HandleGoodLog(s, log, failAt) ==
    CASE s.err # "none" -> s
      [] log.event = "Transfer" -> s    \* ErrNoNeedHandle
      [] log.event = "RegistrarNameRegistered" ->
            handleNameRegisteredRegistrar(s, log, failAt)
      [] log.event = "ControllerNameRegistered" ->
            handleNameRegisteredController(s, log, failAt)

revertNameRegisteredRegistrar(s, log, prev, failAt) ==
    IF prev.id # log.item THEN Stop(s, "panic") ELSE DelENS(s, prev, failAt)

revertNameRegisteredController(s, log, prev, failAt) ==
    DelENS(s, unmarshalLogToENS(log, prev), failAt)

HandleReorgedLog(s, log, failAt) ==
    LET prev == prevRegistrarArtifact(log, s.artifacts)
    IN  CASE s.err # "none" -> s
          [] prev = <<>> -> Stop(s, "panic")
          [] log.event = "Transfer" -> Stop(s, "error")    \* event topic not found
          [] log.event = "RegistrarNameRegistered" ->
                revertNameRegisteredRegistrar(s, log, prev[1].ens, failAt)
          [] log.event = "ControllerNameRegistered" ->
                revertNameRegisteredController(s, log, prev[1].ens, failAt)

--------------------------------------------------------------------------
(* The pool factory sub-engine.  Its artifact is a map from pools to their *)
(* states, made anew for every log: here, the pools in state Created.      *)
\* Mutant: the pool's state is not set.
ArtifactNotCreated(pool) ==
    [for |-> "pool", created |-> {}, block |-> pool.block]

PoolFactoryArtifact(pool) ==
    [for |-> "pool", created |-> {pool}, block |-> pool.block]

mapLogToPoolCreated(log) == Uniswapv3PoolCreated(log.item, log.block)

handlePoolCreated(s, pool, failAt) == SetPool(s, pool, failAt)

revertPoolCreated(s, pool, failAt) == DelPool(s, pool, failAt)

handleGoodPoolLog(s, log, failAt) ==
    LET set == handlePoolCreated(s, mapLogToPoolCreated(log), failAt)
    IN  IF s.err # "none" THEN s
        ELSE IF set.err # "none" THEN set
        ELSE [set EXCEPT !.out = Append(@, PoolFactoryArtifact(mapLogToPoolCreated(log)))]

\* The pool is deleted when it is Created in the artifact, then marked Null there.
handleReorgedPool(s, pool, artifact, failAt) ==
    LET del == IF pool \in s.artifacts[artifact].created
               THEN revertPoolCreated(s, pool, failAt) ELSE s
    IN  IF del.err # "none" THEN del
        ELSE [del EXCEPT !.artifacts[artifact].created = @ \ {pool}]

\* Of the artifacts, handleReorgedLog looks at the last one only.
handleReorgedPoolLog(s, log, failAt) ==
    LET last == Len(s.artifacts)
    IN  CASE s.err # "none" -> s
          [] last = 0 -> Stop(s, "panic")    \* a write to a nil map
          [] OTHER -> handleReorgedPool(s, mapLogToPoolCreated(log), last, failAt)

--------------------------------------------------------------------------
(* One sub-engine's HandleGoodBlocks or HandleReorgedBlocks.  HandleGood   *)
(* gets no artifacts: the engine collects them in the wrong list.          *)
ENSHandleGoodBlocks(logs, failAt) ==
    FoldLeft(LAMBDA s, log : HandleGoodLog(s, log, failAt), Call(ens, <<>>), logs)

PoolHandleGoodBlocks(logs, failAt) ==
    FoldLeft(LAMBDA s, log : handleGoodPoolLog(s, log, failAt), Call(pools, <<>>), logs)

ENSHandleReorgedBlocks(logs, artifacts, failAt) ==
    FoldLeft(LAMBDA s, log : HandleReorgedLog(s, log, failAt), Call(ens, artifacts), logs)

PoolHandleReorgedBlocks(logs, artifacts, failAt) ==
    FoldLeft(LAMBDA s, log : handleReorgedPoolLog(s, log, failAt), Call(pools, artifacts), logs)

HandleGoodBlocks(se, blocks, failAt) ==
    LET logs == mapBlocksToSubEngine(blocks, se)
    IN  IF se = "ens" THEN ENSHandleGoodBlocks(logs, failAt)
        ELSE PoolHandleGoodBlocks(logs, failAt)

HandleReorgedBlocks(se, blocks, failAt) ==
    LET logs == mapBlocksToSubEngine(blocks, se)
        artifacts == filterArtifacts(se,
            [i \in 1..Len(blocks) |-> known[blocks[i].number].artifacts])
    IN  IF se = "ens" THEN ENSHandleReorgedBlocks(logs, artifacts, failAt)
        ELSE PoolHandleReorgedBlocks(logs, artifacts, failAt)

\* What the call of one sub-engine leaves: its records, and the end of the run on an error.
Returns(se, s, failAt) ==
    /\ s.writes + 1 >= failAt    \* a fault is a fault of a write that was made
    /\ ens' = IF se = "ens" THEN s.db ELSE ens
    /\ pools' = IF se = "pool" THEN s.db ELSE pools
    /\ faults' = IF failAt > 0 THEN faults + 1 ELSE faults
    /\ todo' = IF s.err = "none" THEN todo \ {se} ELSE {}
    /\ out' = IF s.err = "none" THEN out \o s.out ELSE <<>>
    /\ pc' = CASE s.err = "none" -> pc
               [] s.err = "error" -> "down"
               [] s.err = "panic" -> "panic"

(* Only the Redis gateways have writes that fail.  (Bound: writes fail     *)
(* with the suites' routes only; the two differ in what a reorg does.)     *)
MayFail == gateway = "redis" /\ wiring = "suite" /\ faults < MaxFaults

FailAt == IF MayFail THEN 0..(2 * Cardinality(Names) + Cardinality(Pools)) ELSE {0}

--------------------------------------------------------------------------
(* The chain.  It is only read where a result is polled, so it moves while *)
(* no result is handled.                                                   *)
Placed(blocks) == UNION {Range(b.items) : b \in blocks}

\* The ways to fill blocks on top of a chain with items that are not on it.
ItemsFor(below) ==
    LET placed == Placed(Range(below))
    IN  {items \in SetToAllKPermutations(Items \ placed) :
            Cardinality(placed) + Len(items) <= MaxItems}

\* A block on top.
Mine ==
    /\ pc = "idle" /\ Len(chain) < MaxHead
    /\ \E items \in ItemsFor(chain) :
          chain' = Append(chain, Block(Len(chain) + 1, fork, items))
    /\ UNCHANGED <<gateway, wiring, fork, recorded, goBack, known, pc, result, todo, out,
                   ens, pools, faults, history>>

\* Blocks r and up are replaced; an item of theirs lands anywhere there, or nowhere,
\* and others may come.
Reorg ==
    /\ pc = "idle" /\ fork < MaxForks
    /\ \E r \in 1..Len(chain) :
         LET kept == SubSeq(chain, 1, r - 1)
         IN  \E items \in ItemsFor(kept) : \E to \in [Range(items) -> r..Len(chain)] :
               chain' = kept \o [i \in 1..(Len(chain) - r + 1) |->
                   Block(r + i - 1, fork + 1,
                         SelectSeq(items, LAMBDA item : to[item] = r + i - 1))]
    /\ fork' = fork + 1
    /\ UNCHANGED <<gateway, wiring, recorded, goBack, known, pc, result, todo, out, ens,
                   pools, faults, history>>

--------------------------------------------------------------------------
(* The ranges of the emitter, for any FilterRange; StartBlock is 1.        *)

LastRecorded == IF recorded = NoRecord THEN 1 ELSE recorded

Recorded(block) == recorded # NoRecord /\ block.number <= recorded

\* Mutant: the first range leaves out a block.
FirstRangeTooHigh(from, to) == from = recorded + 2 /\ to \in from..Max({from, MaxHead})

(* The first range of a process that finds a recorded block: from the next *)
(* block on, because the go-back is multiplied by no retries, and not      *)
(* capped by the head.  (Bound: it does not go on above MaxHead.)          *)
fromBlockToBlockGoBackFirstRun(from, to) ==
    from = recorded + 1 /\ to \in from..Max({from, MaxHead})

(* Any later range, also after a reorg of its first block: it looks back   *)
(* from the recorded block, or from the head if that is lower, and ends no *)
(* lower than there.  There is none without a new block.                   *)
LaterRange(from, to) ==
    /\ LastRecorded # Len(chain)
    /\ from \in 1..Max({1, Min({Len(chain) - 1, LastRecorded})})
    /\ to \in Max({from, Min({Len(chain), LastRecorded})})..Len(chain)

computeFromBlockToBlock(from, to) ==
    IF goBack /\ recorded # NoRecord THEN fromBlockToBlockGoBackFirstRun(from, to)
    ELSE LaterRange(from, to)

\* Of the heights reported as good and as reorged; what is reorged is also good.
LastGoodBlock(to, good, reorged) ==
    IF reorged = {} THEN to
    ELSE IF Max(good) > Min(reorged) THEN Min(reorged) - 1 ELSE Max(good)

--------------------------------------------------------------------------
(* The engine's handleResults around the service.                          *)
NoBlock == [block |-> NilRecord, artifacts |-> <<>>]

Seen(n) == known[n].block # NilRecord
Live == {known[n].block : n \in {m \in DOMAIN known : Seen(m)}}
Stale(n) == Seen(n) /\ known[n].block # chain[n]
Blocks(nums, at(_)) == [i \in 1..Cardinality(nums) |-> at(SetToSortSeq(nums, <)[i])]

(* A result: the stale blocks of the range as reorged, the blocks not      *)
(* known as good.  Whether blocks without logs are tracked too, which only *)
(* LastGoodBlock depends on, is up to the policy.                          *)
PollResult ==
    /\ pc = "idle" /\ chain # <<>>
    /\ \E from \in 1..(MaxHead + 1), to \in 1..(MaxHead + 1) :
         LET range == from..Min({to, Len(chain)})
             stale == {n \in range : Stale(n)}
             fresh == {n \in range : known[n].block # chain[n]}
         IN  /\ computeFromBlockToBlock(from, to)
             /\ \E tracked \in {range, {n \in range : Seen(n) /\ known[n].block.items # <<>>}} :
                  result' = [reorged |-> Blocks(stale, LAMBDA n : known[n].block),
                             good |-> Blocks(fresh, LAMBDA n : chain[n]),
                             lastGood |-> LastGoodBlock(to,
                                 tracked \cup {n \in range : chain[n].items # <<>>},
                                 tracked \cap stale)]
             /\ skewed' = (skewed \/ \E n \in DOMAIN chain \ range : Stale(n))
    /\ goBack' = FALSE
    /\ pc' = "reorged"
    /\ todo' = Called(result'.reorged)
    /\ UNCHANGED <<gateway, wiring, chain, fork, recorded, known, out, ens, pools, faults,
                   earlier, torn, crowded>>

\* The router calls the sub-engines in the order of a map, which is any order.
RouterHandleReorgedBlocks(se, failAt) ==
    /\ pc = "reorged" /\ se \in todo
    /\ Returns(se, HandleReorgedBlocks(se, result.reorged, failAt), failAt)
    /\ crowded' = LET logs == mapBlocksToSubEngine(result.reorged, "pool")
                  IN  IF se = "pool" THEN crowded \cup {log.item : log \in Range(Front(logs))}
                      ELSE crowded
    /\ UNCHANGED <<gateway, wiring, chain, fork, recorded, goBack, known, result, earlier,
                   torn, skewed>>

RouterHandleGoodBlocks(se, failAt) ==
    /\ pc = "good" /\ se \in todo
    /\ Returns(se, HandleGoodBlocks(se, result.good, failAt), failAt)
    /\ UNCHANGED <<gateway, wiring, chain, fork, recorded, goBack, known, result, history>>

\* The reorged blocks' metadata are updated and the good blocks come next.
ReorgedHandled ==
    /\ pc = "reorged" /\ todo = {}
    /\ known' = [n \in DOMAIN known |->
                   IF known[n].block \in Range(result.reorged) THEN NoBlock ELSE known[n]]
    /\ pc' = "good" /\ todo' = Called(result.good) /\ out' = <<>>
    /\ UNCHANGED <<gateway, wiring, chain, fork, recorded, goBack, result, ens, pools,
                   faults, history>>

(* The good blocks' artifacts are saved with their metadata, and the last  *)
(* good block is recorded; when Redis refuses that, handleResults returns. *)
(* (No metadata are cleared: Engine shows that of what can be reported as  *)
(* reorged none are.)                                                      *)
GoodHandled ==
    /\ pc = "good" /\ todo = {}
    /\ known' = [n \in DOMAIN known |->
                   LET new == SelectSeq(result.good, LAMBDA b : b.number = n)
                   IN  IF new = <<>> THEN known[n]
                       ELSE [block |-> new[1], artifacts |-> mergeArtifacts(Hash(new[1]))]]
    /\ \/ recorded' = result.lastGood /\ pc' = "idle" /\ UNCHANGED faults
       \/ MayFail /\ faults' = faults + 1 /\ pc' = "down" /\ UNCHANGED recorded
    /\ result' = Nothing /\ out' = <<>>
    /\ earlier' = earlier \ Range(result.good) /\ torn' = torn \ Range(result.good)
    /\ UNCHANGED <<gateway, wiring, chain, fork, goBack, todo, ens, pools, skewed, crowded>>

(* The process is started again after handleResults returned: tracker and  *)
(* metadata are empty, the records and the recorded block are where they   *)
(* were.  (The mocks would be gone with the process.)                      *)
Restart ==
    /\ pc = "down" /\ faults > 0 /\ gateway = "redis"
    /\ LET begun == Range(result.good)
           above == {b \in begun : ~Recorded(b)}
       IN  /\ earlier' = earlier \cup Live \cup above
           /\ torn' = torn \cup (begun \ above)
    /\ known' = [n \in DOMAIN known |-> NoBlock]
    /\ goBack' = TRUE
    /\ pc' = "idle" /\ result' = Nothing /\ todo' = {} /\ out' = <<>>
    /\ UNCHANGED <<gateway, wiring, chain, fork, recorded, ens, pools, faults, skewed,
                   crowded>>

\* The mock gateways begin with an empty map, like a new Redis.
NewMockDataGatewayENS == [n \in Names |-> NoRecord]

NewMockDataGatewayPoolFactory == [p \in Pools |-> NoRecord]

Init ==
    /\ gateway \in {"redis", "mock"}
    /\ wiring \in {"suite"} \cup (IF gateway = "redis" THEN {"main"} ELSE {})
    /\ chain = <<>> /\ fork = 0
    /\ recorded = NoRecord /\ goBack = TRUE
    /\ known = [n \in 1..MaxHead |-> NoBlock]
    /\ pc = "idle" /\ result = Nothing /\ todo = {} /\ out = <<>>
    /\ ens = NewMockDataGatewayENS
    /\ pools = NewMockDataGatewayPoolFactory
    /\ faults = 0
    /\ earlier = {} /\ torn = {} /\ skewed = FALSE /\ crowded = {}

Next ==
    \/ Mine
    \/ Reorg
    \/ PollResult
    \/ \E se \in SubEngines, failAt \in FailAt :
          RouterHandleReorgedBlocks(se, failAt) \/ RouterHandleGoodBlocks(se, failAt)
    \/ ReorgedHandled
    \/ GoodHandled
    \/ Restart

Spec == Init /\ [][Next]_vars

--------------------------------------------------------------------------
BlockType == [number : 1..MaxHead, fork : 0..MaxForks, items : SetToAllKPermutations(Items)]

\* The artifacts kept for a block are those of its own logs, in order of the calls.
ArtifactOf(a, block) ==
    /\ a.block = Hash(block)
    /\ \/ a.for = "ens" /\ a.ens.id \in Range(block.items)
       \/ a.for = "pool" /\ \A p \in a.created : p.address \in Range(block.items) /\ p.block = a.block

(* The records and the artifacts are of the shapes the service writes, and *)
(* a block's artifacts are made from the block's own logs.                 *)
TypeOK ==
    /\ gateway \in {"redis", "mock"} /\ wiring \in {"main", "suite"}
    /\ Range(chain) \subseteq BlockType /\ fork \in 0..MaxForks
    /\ \A n \in DOMAIN known :
          Seen(n) => /\ known[n].block \in BlockType /\ known[n].block.number = n
                     /\ \A a \in Range(known[n].artifacts) : ArtifactOf(a, known[n].block)
    /\ pc \in {"idle", "reorged", "good", "down", "panic"}
    /\ Range(result.reorged) \cup Range(result.good) \subseteq BlockType
    /\ recorded \in {NoRecord} \cup 0..(MaxHead + 1)
    /\ todo \subseteq SubEngines /\ faults \in 0..MaxFaults
    /\ \A n \in Names : \/ ens[n] \in {NoRecord, NilRecord}
                        \/ ens[n].id = n /\ ens[n].tx = TxOf[n]
    /\ \A p \in Pools : \/ pools[p] \in {NoRecord, NilRecord}
                        \/ pools[p].address = p /\ pools[p].block \in (1..MaxHead) \X (0..MaxForks)

--------------------------------------------------------------------------
OneNamePerTx == \A m, n \in Names : TxOf[m] = TxOf[n] => m = n

Deleted(record) == record \in {NoRecord, NilRecord}

\* The blocks handed over and not reverted that hold an item.
Holds(item) == {b \in Live \cup earlier : item \in Range(b.items)}

(* What a stopped process leaves that no later one will put in order: the  *)
(* items of blocks that were replaced before they were handed over again,  *)
(* and of those it had only begun to hand over and that are not above the  *)
(* recorded block.                                                         *)
Orphans == Placed(torn \cup (earlier \ Range(chain)))

\* What it leaves for the next ranges: the items of blocks above the recorded one.
ToCome == Placed({b \in earlier : ~Recorded(b)})

(* Between two results the ENS records are exactly the names registered in *)
(* the blocks handed over and not reverted since, by this process or one   *)
(* before it, each with its ID, its name and its block merged from the two *)
(* logs of its transaction: through reorgs that move or drop names, failed *)
(* writes and restarts above the recorded block, as long as the result     *)
(* that reports a reorg covers all its blocks.                             *)
ENSMatchesBlocks ==
    pc = "idle" /\ ~skewed /\ OneNamePerTx =>
        \A n \in Names \ (Orphans \cup ToCome) :
            IF Holds(n) = {} THEN Deleted(ens[n])
            ELSE \E b \in Holds(n) : ens[n] = ENS(n, n, TxOf[n], Hash(b))

(* The same for the pools.  When one call has to revert several it is so   *)
(* of the last: handleReorgedLog sees the artifact of that one only.       *)
PoolsMatchBlocks ==
    pc = "idle" /\ ~skewed =>
        \A p \in Pools \ (Orphans \cup ToCome \cup crowded) :
            IF Holds(p) = {} THEN Deleted(pools[p])
            ELSE \E b \in Holds(p) : pools[p] = Uniswapv3PoolCreated(p, Hash(b))

(* Also when a reorg is reported in parts: no ENS record is of a block     *)
(* that was reverted.  (A record may be missing then: DelENS of the old    *)
(* block deletes what the new block wrote.)                                *)
NoRevertedENS ==
    pc = "idle" /\ OneNamePerTx =>
        \A n \in Names \ Orphans :
            Deleted(ens[n]) \/ ens[n].block \in {Hash(b) : b \in Holds(n)}

(* The service never stops by itself: with the routes of its test suites,  *)
(* one name to a transaction and reorgs reported whole, the router and the *)
(* sub-engines find every artifact they look for, and an error is always a *)
(* write that Redis refused.                                               *)
StopsOnlyOnFaults ==
    wiring = "suite" /\ OneNamePerTx /\ ~skewed =>
        /\ pc # "panic"
        /\ pc = "down" => faults > 0
=============================================================================
