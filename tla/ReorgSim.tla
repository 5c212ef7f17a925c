------------------------------- MODULE ReorgSim -------------------------------
(***************************************************************************)
(* pkg/reorgsim: the simulated node that the tests of emitter, engine and  *)
(* services run on.  A list of ReorgEvents scripts the reorgs.  Before it  *)
(* answers, one chain per event is built from the chain before it: blocks  *)
(* from ReorgBlock on are replaced, and logs are moved between blocks.     *)
(*                                                                         *)
(* Chains share the block objects they did not replace, so an object is    *)
(* named by its number and by the chain that made it: <<n, 0>> is a block  *)
(* of the original chain, <<n, i + 1>> one that event i made.  The same    *)
(* pair stands for its hash.                                               *)
(***************************************************************************)
EXTENDS Integers, Sequences, FiniteSets, Functions

CONSTANTS
    Txs,            \* the logs, one per transaction
    Home,           \* transaction -> the block it is in before any reorg
    Address, Topic, \* transaction -> the address and the first topic of its log
    Queries,        \* the addresses and topics a client asks for, Nil for any
    Nil,
    EventLists,     \* sequences of [trigger, block, moves]; moves maps a block
                    \* to a sequence of [to, txs]
    SimStart,       \* Param.StartBlock
    BlockProgress,  \* Param.BlockProgress
    ExitBlock,      \* Param.ExitBlock
    Numbers         \* the block numbers a client asks for

\* A []ReorgEvent.  Logs are moved out of blocks, to others, by their transactions.
ReorgEvents(list) ==
    /\ list \in Seq([trigger : Nat, block : Nat,
                      moves : { list[i].moves : i \in DOMAIN list }])
    /\ \A i \in DOMAIN list :
         /\ DOMAIN list[i].moves \subseteq Nat
         /\ \A from \in DOMAIN list[i].moves :
              list[i].moves[from] \in Seq([to : Nat, txs : SUBSET Txs])

\* With StartBlock zero BlockNumber would answer zero forever, and without
\* BlockProgress it would stay at StartBlock.  Topics without addresses are answered
\* with nothing; a poller has addresses when it has topics.
ASSUME ReorgSimAssumption ==
    /\ Home \in [Txs -> Nat]
    /\ DOMAIN Address = Txs /\ DOMAIN Topic = Txs
    /\ \A q \in Queries : q.addresses = Nil => q.topics = Nil
    /\ \A list \in EventLists : ReorgEvents(list)
    /\ SimStart \in Nat \ {0}
    /\ BlockProgress \in Nat \ {0}
    /\ ExitBlock \in Nat
    /\ Numbers \subseteq Nat

VARIABLES
    pc,         \* "fork", "move", "run", "rejected" or "panicked"
    events,
    chains,     \* chains[1] is the original one, chains[i + 2] that of event i:
                \* block number -> the chain that made the block
    store,      \* block object -> its logs
    pending,    \* moveLogs: the blocks whose logs have still to be moved
    moving,     \* moveLogs: [from, rest], the moves out of one block
    currentReorgEvent, triggered, forked, currentBlock,
    asked       \* history: a FilterLogs had the trigger block of the event to come in its range

buildVars == <<chains, store, pending, moving>>
reorgState == <<currentReorgEvent, triggered, forked, currentBlock>>
simVars == <<reorgState, asked>>
vars == <<pc, events, buildVars, simVars>>

NotMoving == [from |-> 0, rest |-> <<>>]

ReorgHash(n, i) == <<n, i + 1>>

\* The block object that a chain has at a number
Block(chain, n) == <<n, chain[n]>>

MapLogsToNumber == [n \in Range(Home) |-> { tx \in Txs : Home[tx] = n }]

\* newBlockChain makes a block for every number that has logs.
newBlockChain == [n \in DOMAIN MapLogsToNumber |-> 0]

Init ==
    /\ pc = "fork"
    /\ events \in EventLists
    /\ chains = <<newBlockChain>>
    /\ store = [b \in { Block(newBlockChain, n) : n \in DOMAIN newBlockChain } |->
                   { [tx |-> tx, block |-> b] : tx \in MapLogsToNumber[b[1]] }]
    /\ pending = {}
    /\ moving = NotMoving
    /\ currentReorgEvent = 0
    /\ triggered = -1
    /\ forked = -1
    /\ currentBlock = 0
    /\ asked = FALSE

Panic == pc' = "panicked" /\ UNCHANGED <<events, buildVars, simVars>>

-----------------------------------------------------------------------------
(* NewBlockChain, event by event *)

LastChain == chains[Len(chains)]

\* Block.reorg: the logs of the new object with hash new, copies of the old one's.
ReorgLogs(old, new) == { [tx |-> l.tx, block |-> new] : l \in store[old] }

\* copyBlockChain, then BlockChain.reorg: blocks from reorgBlock on get a new object.
Reorg(i, reorgBlock) ==
    LET replaced == { n \in DOMAIN LastChain : n >= reorgBlock }
    IN  /\ chains' = Append(chains, [n \in DOMAIN LastChain |->
                               IF n \in replaced THEN i + 1 ELSE LastChain[n]])
        /\ store' = [b \in DOMAIN store \cup { ReorgHash(n, i) : n \in replaced } |->
               IF b \in DOMAIN store THEN store[b]
               ELSE ReorgLogs(Block(LastChain, b[1]), b)]

ForkEvent ==
    LET i == Len(chains) - 1
    IN  /\ pc = "fork"
        /\ i < Len(events)
        /\ Reorg(i, events[i + 1].block)
        /\ pending' = DOMAIN events[i + 1].moves
        /\ pc' = "move"
        /\ UNCHANGED <<events, moving, simVars>>

\* moveLogs ranges over a map: the next block is any of them.
MoveNextBlock ==
    /\ pc = "move"
    /\ moving.rest = <<>>
    /\ \E from \in pending :
         IF from \notin DOMAIN LastChain THEN Panic
         ELSE /\ pending' = pending \ {from}
              /\ moving' = [from |-> from, rest |-> events[Len(chains) - 1].moves[from]]
              /\ UNCHANGED <<pc, events, chains, store, simVars>>

\* Mutant of Move: the logs are not removed from the block they were in.
MoveKeepsOld(from, to, txs) ==
    LET moved == { l \in store[from] : l.tx \in txs }
    IN  store' = [store EXCEPT ![to] = @ \cup { [tx |-> l.tx, block |-> to] : l \in moved }]

\* The logs leave one block object and join the other, with its number and hash.
Move(from, to, txs) ==
    LET moved == { l \in store[from] : l.tx \in txs }
    IN  store' = [store EXCEPT ![from] = @ \ moved,
                               ![to]   = @ \cup { [tx |-> l.tx, block |-> to] : l \in moved }]

\* One MoveLogs.  A missing target and a source without logs are panics; a log
\* that is not in the source is passed over.
MoveLogs ==
    /\ pc = "move"
    /\ moving.rest # <<>>
    /\ LET move == Head(moving.rest)
           from == Block(LastChain, moving.from)
       IN  IF move.to \notin DOMAIN LastChain \/ store[from] = {} THEN Panic
           ELSE /\ Move(from, Block(LastChain, move.to), move.txs)
                /\ moving' = [moving EXCEPT !.rest = Tail(@)]
                /\ UNCHANGED <<pc, events, chains, pending, simVars>>

\* All logs of the event are moved.  (What NewBlockChain then does for blocks that
\* one of the two chains lacks is never reached: they have the same numbers, and
\* moveLogs has panicked on others.)
EventBuilt ==
    /\ pc = "move"
    /\ pending = {}
    /\ moving.rest = <<>>
    /\ moving' = NotMoving
    /\ pc' = "fork"
    /\ UNCHANGED <<events, chains, store, pending, simVars>>

-----------------------------------------------------------------------------
(* NewReorgSim *)

\* Mutant of validateReorgEvent: the trigger is not filled in.
NotFilledIn == events

validateReorgEvent ==
    [i \in DOMAIN events |->
        IF events[i].trigger = 0 THEN [events[i] EXCEPT !.trigger = events[i].block]
        ELSE events[i]]

\* Logs may not be moved out of a block below ReorgBlock.
NewReorgSim ==
    /\ pc = "fork"
    /\ Len(chains) = Len(events) + 1
    /\ IF \E i \in DOMAIN events : \E from \in DOMAIN events[i].moves : from < events[i].block
       THEN pc' = "rejected" /\ UNCHANGED events
       ELSE pc' = "run" /\ events' = validateReorgEvent
    /\ UNCHANGED <<buildVars, simVars>>

-----------------------------------------------------------------------------
(* The EthClient *)

\* Mutant of forkChain: the event is not left behind.
ForkAgain ==
    /\ currentBlock' = events[currentReorgEvent + 1].block
    /\ UNCHANGED <<forked, triggered, currentReorgEvent>>

forkChain ==
    /\ currentBlock' = events[currentReorgEvent + 1].block
    /\ forked' = triggered
    /\ currentReorgEvent' = currentReorgEvent + 1
    /\ UNCHANGED triggered

\* The block that triggers the event to come is in the range.
TriggerIn(from, to) ==
    currentReorgEvent < Len(events) /\ events[currentReorgEvent + 1].trigger \in from .. to

\* Mutant of triggerForkChain: the first sight of the trigger forks.
TriggerAtOnce(from, to) ==
    IF TriggerIn(from, to)
    THEN /\ triggered' = currentReorgEvent
         /\ currentBlock' = events[currentReorgEvent + 1].block
         /\ forked' = currentReorgEvent
         /\ currentReorgEvent' = currentReorgEvent + 1
    ELSE UNCHANGED reorgState

\* The first call with the trigger in its range marks the event, the second forks.
triggerForkChain(from, to) ==
    IF TriggerIn(from, to)
    THEN IF triggered < currentReorgEvent
         THEN /\ triggered' = currentReorgEvent
              /\ UNCHANGED <<currentReorgEvent, forked, currentBlock>>
         ELSE IF triggered > forked /\ currentReorgEvent > forked THEN forkChain
              ELSE UNCHANGED reorgState
    ELSE UNCHANGED reorgState

\* The logs of a query.  With addresses and topics, a log that matches either is in.
appendFilterLogs(logs, q) ==
    { l \in logs : \/ q.addresses = Nil /\ q.topics = Nil
                   \/ q.addresses # Nil /\ q.topics # Nil /\ Topic[l.tx] \in q.topics
                   \/ q.addresses # Nil /\ Address[l.tx] \in q.addresses }

\* What FilterLogs answers when it has switched to the chain
Answer(chain, from, to, q) ==
    UNION { appendFilterLogs(store[Block(chain, n)], q) : n \in (from .. to) \cap DOMAIN chain }

\* FilterLogs answers from the chain it has just switched to.
FilterLogs(from, to) ==
    /\ pc = "run"
    /\ LET end == IF from > to THEN from ELSE to
       IN  /\ triggerForkChain(from, end)
           /\ asked' = IF forked' # forked THEN FALSE ELSE asked \/ TriggerIn(from, end)
    /\ UNCHANGED <<pc, events, buildVars>>

\* The first call answers StartBlock, and so does the second: the number moves on
\* after it has been read.
BlockNumber ==
    /\ pc = "run"
    /\ \/ currentBlock = 0 /\ currentBlock' = SimStart
       \/ /\ currentBlock # 0 /\ currentBlock < ExitBlock
          /\ currentBlock' = currentBlock + BlockProgress
    /\ UNCHANGED <<pc, events, buildVars, currentReorgEvent, triggered, forked, asked>>

\* Mutant of BatchHash: a block without logs never changes its hash.
EmptyNeverReorged(chain, event, n) ==
    IF n \in DOMAIN chain THEN Block(chain, n) ELSE <<n, -1>>

\* BatchCallContext: the hash of a block.  A block that no chain has gets a made-up
\* hash, ReorgHash from the ReorgBlock of the event to come, PRandomHash below.
BatchHash(chain, event, n) ==
    IF n \in DOMAIN chain THEN Block(chain, n)
    ELSE LET eventIndex == IF event >= Len(events) THEN Len(events) - 1 ELSE event
         IN  IF n >= events[eventIndex + 1].block THEN ReorgHash(n, event) ELSE <<n, -1>>

\* The panics of the header calls, on a number without a block: with no event left
\* HeaderByNumber has none to index; BatchCallContext takes the last one, if any.
HeaderByNumber ==
    /\ pc = "run"
    /\ currentReorgEvent >= Len(events)
    /\ \E n \in Numbers : n \notin DOMAIN newBlockChain
    /\ Panic

BatchCallContext ==
    /\ pc = "run"
    /\ events = <<>>
    /\ \E n \in Numbers : n \notin DOMAIN newBlockChain
    /\ Panic

-----------------------------------------------------------------------------
(* LogsReorgPaths, what tests ask about the script *)

\* The moves of event i that name tx.
MovesOf(i, tx) ==
    UNION { { [from |-> from, to |-> events[i].moves[from][k].to] :
                k \in { k \in DOMAIN events[i].moves[from] :
                           tx \in events[i].moves[from][k].txs } } :
            from \in DOMAIN events[i].moves }

\* Mutant of LogsReorgPaths: where the first event moves the log.
FirstMove(tx) ==
    LET moved == { i \in DOMAIN events : MovesOf(i, tx) # {} }
    IN  (CHOOSE m \in MovesOf(CHOOSE i \in moved : \A j \in moved : i <= j, tx) : TRUE).to

\* LogsReorgPaths, the destination of a log that is moved: where the last event that
\* names it moves it.
LogsReorgPaths(tx) ==
    LET moved == { i \in DOMAIN events : MovesOf(i, tx) # {} }
    IN  (CHOOSE m \in MovesOf(CHOOSE i \in moved : \A j \in moved : i >= j, tx) : TRUE).to

-----------------------------------------------------------------------------

Next ==
    \/ ForkEvent \/ MoveNextBlock \/ MoveLogs \/ EventBuilt \/ NewReorgSim
    \/ \E from, to \in Numbers : FilterLogs(from, to)
    \/ BlockNumber \/ HeaderByNumber \/ BatchCallContext

\* The emitter asks for the height in every round of its loop.
Spec == Init /\ [][Next]_vars /\ WF_vars(BlockNumber)

-----------------------------------------------------------------------------
(* Properties *)

AnyLog == [addresses |-> Nil, topics |-> Nil]

\* The blocks of chain i in which a query shows the log of tx.
ShownIn(i, tx, q) ==
    { n \in DOMAIN chains[i] : \E l \in Answer(chains[i], n, n, q) : l.tx = tx }

PlacesOf(i, tx) == ShownIn(i, tx, AnyLog)

\* eth_getLogs: the log has one of the addresses and one of the topics.
Matches(tx, q) ==
    /\ q.addresses = Nil \/ Address[tx] \in q.addresses
    /\ q.topics = Nil \/ Topic[tx] \in q.topics

\* No event moves logs into a block it does not replace.  (Out of one is refused.)
MovesUp ==
    \A i \in DOMAIN events : \A tx \in Txs : \A m \in MovesOf(i, tx) :
        m.from >= events[i].block /\ m.to >= events[i].block

\* The counters run behind each other, and a running simulation knows the trigger
\* of every event that has a block.
TypeOK ==
    /\ pc \in {"fork", "move", "run", "rejected", "panicked"}
    /\ Len(chains) <= Len(events) + 1
    /\ \A i \in DOMAIN chains : \A n \in DOMAIN chains[i] : Block(chains[i], n) \in DOMAIN store
    /\ currentReorgEvent = forked + 1
    /\ triggered \in {forked, forked + 1}
    /\ currentBlock \in Nat
    /\ pc = "run" =>
         \A i \in DOMAIN events : events[i].trigger = 0 => events[i].block = 0

\* pkg/reorgsim/README.md: reorged blocks differ from "their counterparts in the
\* original chain", "this includes their logs", and moving logs changes where they
\* are and nothing else.  In every chain, while later chains are built from it and
\* share its blocks, a query is shown each log it asks for once, with the number and
\* the hash of its block, and no other log.
LogsInOneBlock ==
    MovesUp => \A i \in DOMAIN chains :
        /\ \A tx \in Txs, q \in Queries :
              Cardinality(ShownIn(i, tx, q)) = IF Matches(tx, q) THEN 1 ELSE 0
        /\ \A n \in DOMAIN chains[i] : \A l \in Answer(chains[i], n, n, AnyLog) :
              l.block = Block(chains[i], n)

\* reorgsim_reorg.go: "triggerForkChain needs 2 calls with event.ReorgTrigger within
\* range".  The chain forks only in a FilterLogs after one that had the trigger block
\* of the same event in its range: not in the first such call, nor counting the calls
\* that made the event before it fork.  (The blocks that the fork replaces start at
\* ReorgBlock, which may lie below the trigger and need not have been asked for.)
ForkTakesTwoCalls == [][forked' # forked => asked]_vars

\* The answer of BatchCallContext, in the chain of the moment.
HashOf(n) == BatchHash(chains[forked + 2], currentReorgEvent, n)

Rising ==
    \A i, j \in DOMAIN events : i <= j => events[i].block <= events[j].block

\* pkg/reorgsim/README.md: up to ReorgBlock "the reorged chains' blocks have identical
\* data", from there on "different block hashes".  A block's hash changes when an
\* event at or below it forks the chain, and at no other time.  For a block without
\* logs this takes events that go no deeper than the one before.
HashChangesWithFork ==
    [][(pc = "run" /\ pc' = "run" /\ events # <<>>) =>
          \A n \in Numbers :
              n \in DOMAIN newBlockChain \/ Rising =>
                  (HashOf(n)' # HashOf(n) <=>
                      forked' # forked /\ n >= events[forked' + 1].block)]_vars

\* Every event that names the log moves it once, out of a block that holds it.
MovedFromItsPlace(tx) ==
    \A i \in DOMAIN events : MovesOf(i, tx) # {} =>
        /\ Cardinality(MovesOf(i, tx)) = 1
        /\ \A m \in MovesOf(i, tx) : m.from \in PlacesOf(i, tx)

\* utils.go: LogsReorgPaths tells "which blockNumber is the final destination for a
\* log", and tests of the services trust it.  It is where the last chain has the log,
\* whatever order moveLogs takes the blocks in.
PathsTellDestination ==
    (pc = "run" /\ MovesUp) => \A tx \in Txs :
        (MovedFromItsPlace(tx) /\ \E i \in DOMAIN events : MovesOf(i, tx) # {}) =>
            PlacesOf(Len(chains), tx) = {LogsReorgPaths(tx)}

\* However often forks throw the height back, the exit block is reached, and the
\* test that runs on the simulation ends.
ReachesExit == (pc = "run") ~> (currentBlock >= ExitBlock \/ pc # "run")

=============================================================================
