------------------------- MODULE SuperWatcherProofs -------------------------
(***************************************************************************)
(* Proofs about SuperWatcher, the composed pipeline, for every length of   *)
(* the chain, every number of reorgs, every FilterRange and each of the    *)
(* three policies.  The first part is about a chain that changes between   *)
(* two polls: what the service holds is the canonical chain, it is given a *)
(* block once, and no part panics.  The second is about a chain that       *)
(* changes at any time: the service holds one block of a height at a time, *)
(* and is given and told to revert a block at most once.                   *)
(***************************************************************************)
EXTENDS SuperWatcher, PollerLemmas

\* The setting of the theorems.  Reorgs are no deeper than FilterRange, never reach
\* StartBlock and never restore a replaced branch; nothing fails and nobody dies; emitter
\* and poller have the same FilterRange and the engine remembers twice as much or more;
\* block numbers are far from the greatest word.  With StartBlock recorded at first, the
\* chain has the blocks of the first range.
Setting ==
    /\ FlipBacks = FALSE
    /\ MaxCrashes = 0 /\ MaxErrors = 0
    /\ FALSE \in FirstRuns => StartBlock + FilterRange <= InitHeight
    /\ Policies \subseteq {"Fast", "Normal", "Expensive"}
    /\ PollerFilterRange = FilterRange
    /\ MaxReorgDepth <= FilterRange
    /\ StartBlock + MaxReorgDepth <= InitHeight
    /\ InitHeight <= MaxHeight /\ MaxHeight < Half
    /\ MaxGoBackRetries >= 2
    /\ FilterRange * MaxGoBackRetries < Half

\* Some theorems need more: the chain changes between two polls only, and nothing is
\* recorded at first.
Calm == CalmPolls = TRUE /\ FirstRuns \subseteq {TRUE}

-----------------------------------------------------------------------------
(* The inductive invariant: who is at work, and with what *)

\* The emitter is between two rounds.
Computing == epc = "compute" /\ ppc = "idle" /\ npc = "receive"

\* A call of Poll is under way.
Polling == epc = "poll" /\ ppc \in {"fetch", "headers", "logs", "missing"} /\ npc = "receive"

\* Poll has returned, and the emitter has not looked at its result.
Polled == epc = "poll" /\ ppc = "idle" /\ npc = "receive"

\* The emitter waits for the engine to handle the result.
Handling ==
    /\ epc \in {"emit", "emitReorging"}
    /\ ppc = "idle"
    /\ npc \in {"seeReorged", "seeGood", "record", "sync"}

\* Emitter, poller and engine take turns.
PhaseOK == Computing \/ Polling \/ Polled \/ Handling

\* What the setters could change stays as it is, and the fields have their types.
Fields ==
    /\ doReorg = TRUE
    /\ filter = Addresses
    /\ policy \in {"Fast", "Normal", "Expensive"}
    /\ tracker # NoTracker /\ BlockMap(tracker)
    /\ ArgsOK /\ FetchedOK
    /\ call \in [from : Nat, to : Nat]
    /\ status \in [from : Nat, to : Nat, goBack : BOOLEAN, isReorging : BOOLEAN, retries : Nat]
    /\ GatewayTypeOK

\* In a calm poll, what was fetched is what the chain has.
FieldsOK == Fields /\ StillFetch /\ calm \in BOOLEAN

\* The head stays above StartBlock and less than FilterRange below the highest head.
HeadOK ==
    /\ ChainOK
    /\ tallest \in Nat /\ InitHeight <= tallest /\ tallest <= MaxHeight
    /\ BlockNumber <= tallest
    /\ BlockNumber = tallest \/ BlockNumber > tallest - MaxReorgDepth
    /\ BlockNumber > tallest - FilterRange
    /\ BlockNumber >= StartBlock

-----------------------------------------------------------------------------
(* What the service will hold once the result at hand is handled *)

\* The reorged blocks of a result that the service has not been told of yet
Reverting ==
    IF ppc = "idle" /\ (epc = "poll" \/ npc = "seeReorged")
    THEN HashesOf(ret.result.reorged) ELSE {}

\* The blocks the service has applied and not reverted
Alive == { h \in DOMAIN ledger : ledger[h].bad = 0 }

\* The blocks the service has applied or is about to
Known == DOMAIN ledger \cup HashesOf(ret.result.good)

\* The blocks the service then holds
Held == (Alive \cup (HashesOf(ret.result.good) \ DOMAIN ledger)) \ Reverting

\* A tracked block is that of the chain.
Exact(n) == Exists(n) /\ tracker[n].hash = BlockAt(n)

\* The tracked blocks that the chain has replaced
Stale == { n \in DOMAIN tracker : ~Exact(n) }

\* No block below StartBlock gets to the service.
KnownOK == \A h \in Known : h \in Blocks /\ h.number >= StartBlock

\* The service holds what the poller tracks, with all of its logs.
TrackerLive ==
    \A n \in DOMAIN tracker :
        /\ n >= StartBlock
        /\ tracker[n].hash.number = n
        /\ tracker[n].logs = tracker[n].hash.logs
        /\ tracker[n].hash \in Held

\* A replaced block is of an older fork and within reach of the next poll.
StaleRecent ==
    \A n \in Stale :
        /\ tracker[n].hash.fork < reorgs
        /\ n > lastRecorded - FilterRange
        /\ n > StartBlock

\* Of the blocks with logs the service holds only those the poller tracks and those
\* that are canonical for good.
LiveKnown ==
    \A h \in Held :
        h.logs # {} =>
            \/ h.number \in DOMAIN tracker /\ tracker[h.number].hash = h
            \/ /\ h.number \notin DOMAIN tracker
               /\ h.number <= tallest - FilterRange
               /\ Exists(h.number) /\ BlockAt(h.number) = h

\* What the service has dropped is gone for good.
Gone ==
    \A h \in Known \ Held : h.fork < reorgs /\ \A i \in 1 .. Len(chain) : chain[i] # h

\* The service holds the canonical blocks with logs up to the recorded block: those no
\* poll looks at any more, and after a poll all of them.
Complete ==
    \A n \in StartBlock .. lastRecorded :
        (n <= lastRecorded - FilterRange \/ (calm /\ ppc = "idle"))
        /\ Exists(n) /\ BlockAt(n).logs # {} => BlockAt(n) \in Held

\* After a poll no replaced block is tracked in or below its range.
CalmExact == calm /\ ppc = "idle" => \A n \in Stale : n > args.to

\* How chain, tracker and service agree
ViewOK ==
    /\ KnownOK /\ TrackerLive /\ StaleRecent /\ LiveKnown /\ Gone /\ Complete /\ CalmExact

-----------------------------------------------------------------------------
(* What emitter and poller know *)

\* The gateway and the poller have recorded the same block, after the first round.
RecordOK ==
    /\ lastRecorded \in Nat /\ lastRecorded <= tallest
    /\ Computing \/ Polling =>
         \/ gateway = NoRecord /\ lastRecorded = 0 /\ DOMAIN tracker = {} /\ DOMAIN ledger = {}
         \/ gateway = lastRecorded /\ lastRecorded >= StartBlock
    /\ npc = "sync" => gateway = lastRecorded
    /\ Polled \/ Handling => ret.result.lastGood = lastRecorded /\ lastRecorded >= StartBlock
    /\ calm /\ ppc = "idle" => lastRecorded <= args.to

\* A poll asks for existing blocks, and looks back far enough.
RangeOK ==
    /\ ~Computing => /\ call = args /\ calm = TRUE
                     /\ StartBlock <= args.from /\ args.from <= args.to
                     /\ args.to <= BlockNumber
    /\ Polling => /\ args.from = StartBlock \/ args.from <= lastRecorded + 1 - FilterRange
                  /\ ret.result = NoResult

\* The emitter goes back at most once for a reorg: the poll that does finds the first
\* block of its range in place.
StatusOK ==
    /\ status.goBack => gateway = NoRecord /\ Computing
    /\ status.retries = IF status.isReorging THEN 1 ELSE 0
    /\ epc = "emitReorging" => status.isReorging
    /\ Polled /\ ret.err = "fromBlockReorged" =>
         lastRecorded \in {args.from - 1, args.from} /\ ~status.isReorging
    /\ Polling /\ status.isReorging => args.from \notin Stale

\* The next range is to start FilterRange earlier.
GoingBack == status.isReorging /\ epc \in {"emitReorging", "compute"}

\* The blocks the engine has forgotten
Lost == DOMAIN ledger \ DOMAIN meta

\* When the emitter is about to go back, it will go back far enough, and not so far that
\* it meets a block the engine has forgotten.
GoBackOK ==
    GoingBack =>
        /\ lastRecorded \in {status.from - 1, status.from}
        /\ StartBlock <= status.from /\ status.from <= status.to /\ status.from <= tallest
        /\ \A n \in Stale : n > status.from - FilterRange
        /\ \A h \in Lost : h.number < status.from - FilterRange

\* The result holds the chain's blocks, and the replaced ones the service has.
ResultOK ==
    /\ Polled => ret.err \in {"none", "fromBlockReorged"}
    /\ Handling => result = ret.result
    /\ Polled \/ Handling =>
         /\ \A n \in DOMAIN ret.result.good :
              /\ n \in args.from .. args.to
              /\ ret.result.good[n].hash = BlockAt(n)
              /\ ret.result.good[n].logs = BlockAt(n).logs
         /\ \A n \in DOMAIN ret.result.reorged :
              /\ n \in DOMAIN ret.result.good
              /\ ret.result.reorged[n].hash.number = n
              /\ ret.result.reorged[n].hash # BlockAt(n)
              /\ ret.result.reorged[n].hash \in DOMAIN ledger
              /\ Polled \/ npc = "seeReorged" => ret.result.reorged[n].hash \in Alive

-----------------------------------------------------------------------------
(* What engine and service know *)

\* The service has seen each block once, with its logs.
LedgerOK ==
    \A h \in DOMAIN ledger : ledger[h] \in [good : {1}, bad : {0, 1}, logs : {h.logs}]

\* A block's state tells what the service has done with it.
StateOK(h) ==
    \/ meta[h].state = "Handled" /\ h \in Alive
    \/ meta[h].state = "HandledReorg" /\ h \in DOMAIN ledger \ Alive
    \/ /\ meta[h].state = "Seen" /\ h \notin DOMAIN ledger
       /\ npc = "seeGood" /\ \E n \in batch : result.good[n].hash = h
    \/ /\ meta[h].state = "Reorged" /\ h \in Alive
       /\ npc = "seeReorged" /\ \E n \in batch : result.reorged[n].hash = h

\* Every metadata is that of its block.
MetaOK ==
    \A h \in DOMAIN meta :
        meta[h] \in blockMetadata /\ meta[h].number = h.number /\ StateOK(h)

\* Every reorged block goes to the service, and every good one it does not know.
LoopOK ==
    /\ npc = "seeReorged" =>
         /\ todo \cup batch = DOMAIN result.reorged
         /\ todo \cap batch = {}
         /\ \A n \in batch : /\ result.reorged[n].hash \in DOMAIN meta
                             /\ meta[result.reorged[n].hash].state = "Reorged"
    /\ npc = "seeGood" =>
         /\ todo \subseteq DOMAIN result.good
         /\ batch \subseteq DOMAIN result.good \ todo
         /\ \A n \in DOMAIN result.good \ todo :
              /\ n \in batch <=> result.good[n].hash \notin DOMAIN ledger
              /\ n \in batch => /\ result.good[n].hash \in DOMAIN meta
                                /\ meta[result.good[n].hash].state = "Seen"
    /\ npc \in {"record", "sync"} \/ epc = "compute" =>
         HashesOf(ret.result.good) \subseteq DOMAIN ledger

\* The service has the logs of one block of a height only.
OneAlive ==
    \A g, h \in Alive : g.logs # {} /\ h.logs # {} /\ g.number = h.number => g = h

\* Engine and service agree.
EngineOK == LedgerOK /\ MetaOK /\ LoopOK /\ OneAlive

\* A block the engine has forgotten is too old to be reported again.
LostOK ==
    \A h \in Lost :
        /\ h.number <= tallest - 2 * FilterRange
        /\ h.number <= lastRecorded - FilterRange
        /\ \A n \in Stale : h.number + FilterRange < n
        /\ epc = "poll" \/ npc \in {"seeReorged", "seeGood"} => h.number < args.from
        /\ Polling => h.number <= args.to - FilterRange
        /\ Polled /\ ret.err = "fromBlockReorged" => h.number < args.from - FilterRange

\* The inductive invariant
IInv ==
    /\ PhaseOK /\ FieldsOK /\ HeadOK /\ ViewOK /\ RecordOK /\ RangeOK /\ StatusOK
    /\ GoBackOK /\ ResultOK /\ EngineOK /\ LostOK

-----------------------------------------------------------------------------
(* Numbers, and steps that leave the chain alone *)

\* How far below the recorded block the engine forgets
LookBack == FilterRange * MaxGoBackRetries

\* It is twice FilterRange or more.
LEMMA LookBackFacts ==
    ASSUME Setting
    PROVE  LookBack \in Nat /\ LookBack >= 2 * FilterRange /\ LookBack < Half
<1>1. /\ FilterRange \in Nat /\ FilterRange >= 1
      /\ MaxGoBackRetries \in Nat /\ MaxGoBackRetries >= 2
  BY ConfigAssumption DEF Setting
<1> DEFINE more == MaxGoBackRetries - 2
<1>2. more \in Nat /\ MaxGoBackRetries = 2 + more
  BY <1>1
<1>3. FilterRange * more \in Nat /\ FilterRange * MaxGoBackRetries \in Nat
  BY <1>1, <1>2
<1>4. FilterRange * (2 + more) = 2 * FilterRange + FilterRange * more
  BY <1>1, <1>2
<1> QED
  BY <1>1, <1>2, <1>3, <1>4 DEF LookBack, Setting

\* The numbers of the setting
LEMMA SettingFacts ==
    ASSUME Setting
    PROVE  /\ FilterRange \in Nat /\ FilterRange >= 1 /\ FilterRange < Half
           /\ StartBlock \in Nat /\ StartBlock >= 1
           /\ Half \in Nat /\ NoRecord \notin Nat
           /\ MaxReorgDepth \in Nat /\ MaxReorgDepth <= FilterRange
           /\ InitHeight \in Nat /\ StartBlock + MaxReorgDepth <= InitHeight
           /\ MaxHeight \in Nat /\ InitHeight <= MaxHeight /\ MaxHeight < Half
           /\ MaxGoBackRetries \in Nat /\ MaxGoBackRetries >= 2
<1>1. FilterRange < Half
  BY LookBackFacts, HalfAssumption, ConfigAssumption
<1> QED
  BY <1>1, ConfigAssumption, ChainAssumption, SuperWatcherAssumption, HalfAssumption
     DEF Setting

\* The blocks of a chain that does not change
LEMMA SameChain ==
    ASSUME UNCHANGED chain
    PROVE  /\ BlockNumber' = BlockNumber
           /\ \A n : Exists(n)' = Exists(n) /\ BlockAt(n)' = BlockAt(n)
BY DEF BlockNumber, Exists, BlockAt

\* The blocks of the chain, by number
LEMMA ChainBlocks ==
    ASSUME ChainOK
    PROVE  /\ BlockNumber \in Nat /\ Len(chain) = BlockNumber + 1 /\ reorgs \in Nat
           /\ \A n \in Nat : Exists(n) <=> n <= BlockNumber
           /\ \A n \in Nat : Exists(n) =>
                /\ BlockAt(n) \in Blocks /\ BlockAt(n).number = n
                /\ BlockAt(n).fork \in Nat /\ BlockAt(n).fork <= reorgs
                /\ n + 1 \in 1 .. Len(chain) /\ chain[n + 1] = BlockAt(n)
           /\ \A i \in 1 .. Len(chain) :
                i - 1 \in Nat /\ Exists(i - 1) /\ BlockAt(i - 1) = chain[i]
<1>1. Len(chain) \in Nat /\ Len(chain) > 0 /\ BranchOK(chain) /\ reorgs \in Nat
  BY ChainAssumption DEF ChainOK, BranchOK
<1>2. BlockNumber \in Nat /\ Len(chain) = BlockNumber + 1
  BY <1>1 DEF BlockNumber
<1>3. \A n \in Nat : Exists(n) <=> n <= BlockNumber
  BY <1>2 DEF Exists
<1>4. ASSUME NEW n \in Nat, Exists(n)
      PROVE  /\ BlockAt(n) \in Blocks /\ BlockAt(n).number = n
             /\ BlockAt(n).fork \in Nat /\ BlockAt(n).fork <= reorgs
             /\ n + 1 \in 1 .. Len(chain) /\ chain[n + 1] = BlockAt(n)
  <2>1. n + 1 \in 1 .. Len(chain)
    BY <1>2, <1>3, <1>4
  <2>2. chain[n + 1] = BlockAt(n)
    BY DEF BlockAt
  <2>3. /\ chain[n + 1] \in Blocks /\ chain[n + 1].number = (n + 1) - 1
        /\ chain[n + 1].fork \in Nat /\ chain[n + 1].fork <= reorgs
    BY <1>1, <2>1, BranchBlocks
  <2> QED
    BY <2>1, <2>2, <2>3
<1>5. \A i \in 1 .. Len(chain) :
        i - 1 \in Nat /\ Exists(i - 1) /\ BlockAt(i - 1) = chain[i]
  BY <1>2, <1>3 DEF BlockAt
<1> QED
  BY <1>1, <1>2, <1>3, <1>4, <1>5

\* The view is the same when the chain and the poller's knowledge are, and when the
\* service will hold the same.
LEMMA SameView ==
    ASSUME ViewOK, UNCHANGED <<chain, tallest, reorgs, tracker, lastRecorded, args, calm>>,
           ppc' = "idle" => ppc = "idle", Known' = Known, Held' = Held
    PROVE  ViewOK' /\ Stale' = Stale
<1>1. \A n : Exists(n)' = Exists(n) /\ BlockAt(n)' = BlockAt(n)
  BY SameChain
<1>2. Stale' = Stale
  BY <1>1 DEF Stale, Exact
<1>3. KnownOK' /\ TrackerLive' /\ Gone'
  BY DEF ViewOK, KnownOK, TrackerLive, Gone
<1>4. StaleRecent' /\ CalmExact'
  BY <1>2 DEF ViewOK, StaleRecent, CalmExact
<1>5. LiveKnown'
  BY <1>1 DEF ViewOK, LiveKnown
<1>6. Complete'
  BY <1>1 DEF ViewOK, Complete
<1> QED
  BY <1>2, <1>3, <1>4, <1>5, <1>6 DEF ViewOK

-----------------------------------------------------------------------------
(* Initially, and when the chain moves *)

\* Nothing is known before the first poll.
LEMMA InitIInv == Setting /\ Calm /\ Init => IInv
<1> SUFFICES ASSUME Setting, Calm, Init
             PROVE  IInv
  OBVIOUS
<1>1. gateway = NoRecord
  BY DEF Init, InitTestComponents, NewDataGatewayMem, Calm
<1>2. epc = "compute" /\ status = NewStatus /\ call = [from |-> 0, to |-> 0]
  BY DEF Init, EmitterInit
<1>3. /\ ppc = "idle" /\ args = [from |-> 0, to |-> 0]
      /\ pollResults = NoBlocks /\ headers = NoBlocks
      /\ doReorg = TRUE /\ policy \in Policies /\ tracker = NoBlocks
      /\ filter = Addresses /\ lastRecorded = 0
      /\ ret = [result |-> NoResult, err |-> "none"]
  BY DEF Init, PollerInit, newTracker
<1>4. npc = "receive" /\ DOMAIN meta = {} /\ DOMAIN ledger = {}
  BY DEF Init, EngineInit, newMetadataTracker, Nothing
<1>5. ChainOK /\ tallest = InitHeight /\ BlockNumber = InitHeight
  <2>1. ChainInit /\ chain \in Branches(0, 0, InitHeight) /\ tallest = InitHeight
    BY DEF Init, ChainInit
  <2>2. Len(chain) = InitHeight + 1
    BY <2>1, BranchesOK, ChainAssumption
  <2> QED
    BY <2>1, <2>2, ChainInitOK, ChainAssumption DEF BlockNumber
<1>6. calm = FALSE
  BY DEF Init
<1>7. PhaseOK /\ Computing /\ ~Polling /\ ~Polled /\ ~Handling
  BY <1>2, <1>3, <1>4 DEF PhaseOK, Computing, Polling, Polled, Handling
<1>8. FieldsOK
  BY <1>1, <1>2, <1>3, <1>6, NoBlocksOK
     DEF FieldsOK, Fields, ArgsOK, FetchedOK, StillFetch, NewStatus, GatewayTypeOK, Setting
<1>9. HeadOK
  BY <1>5, SettingFacts DEF HeadOK
<1>10. DOMAIN tracker = {} /\ HashesOf(ret.result.good) = {} /\ Known = {} /\ Held = {}
       /\ Stale = {} /\ Lost = {} /\ Alive = {}
  BY <1>3, <1>4, NoBlocksOK DEF Known, Held, Stale, Alive, Lost
<1>11. ViewOK
  <2>1. Complete
    BY <1>3, <1>6, SettingFacts DEF Complete
  <2> QED
    BY <1>6, <1>10, <2>1
       DEF ViewOK, KnownOK, TrackerLive, StaleRecent, LiveKnown, Gone, CalmExact
<1>12. RecordOK
  BY <1>1, <1>3, <1>4, <1>5, <1>6, <1>7, <1>10, SettingFacts DEF RecordOK
<1>13. RangeOK /\ StatusOK /\ GoBackOK
  BY <1>1, <1>2, <1>3, <1>7 DEF RangeOK, StatusOK, GoBackOK, GoingBack, NewStatus
<1>14. ResultOK /\ LostOK
  BY <1>7, <1>10 DEF ResultOK, LostOK
<1>15. EngineOK
  BY <1>4, <1>10 DEF EngineOK, LedgerOK, MetaOK, LoopOK, OneAlive
<1> QED
  BY <1>7, <1>8, <1>9, <1>11, <1>12, <1>13, <1>14, <1>15 DEF IInv

\* How the chain moves in the setting: the blocks that are final stay, a block that is
\* replaced was of an older fork, and new blocks are of the newest.
LEMMA ChainMove ==
    ASSUME Setting, HeadOK, ChainStep
    PROVE  /\ HeadOK'
           /\ tallest <= tallest'
           /\ reorgs <= reorgs' /\ reorgs' \in Nat
           /\ \A n \in Nat : n <= tallest - MaxReorgDepth =>
                Exists(n) /\ Exists(n)' /\ BlockAt(n)' = BlockAt(n)
           /\ \A n \in Nat : Exists(n) =>
                (Exists(n)' /\ BlockAt(n)' = BlockAt(n)) \/ reorgs < reorgs'
           /\ \A n \in Nat : Exists(n)' =>
                (Exists(n) /\ BlockAt(n)' = BlockAt(n)) \/ BlockAt(n)'.fork = reorgs'
<1>1. ChainOK /\ ChainOK' /\ ChainChange
  BY ChainStepOK DEF HeadOK
<1>2. /\ BlockNumber \in Nat /\ Len(chain) = BlockNumber + 1
      /\ BlockNumber' \in Nat /\ Len(chain') = BlockNumber' + 1
      /\ reorgs \in Nat /\ reorgs' \in Nat
  <2>1. /\ Len(chain) \in Nat /\ Len(chain) > 0 /\ reorgs \in Nat
        /\ Len(chain') \in Nat /\ Len(chain') > 0 /\ reorgs' \in Nat
    BY <1>1, ChainAssumption DEF ChainOK, BranchOK
  <2> QED
    BY <2>1 DEF BlockNumber
<1>3. /\ tallest \in Nat /\ InitHeight <= tallest /\ tallest <= MaxHeight
      /\ BlockNumber <= tallest /\ BlockNumber > tallest - FilterRange
      /\ BlockNumber >= StartBlock
      /\ BlockNumber = tallest \/ BlockNumber > tallest - MaxReorgDepth
  BY DEF HeadOK
<1>d. /\ FilterRange \in Nat /\ FilterRange >= 1 /\ StartBlock \in Nat
      /\ MaxReorgDepth \in Nat /\ MaxReorgDepth <= FilterRange
      /\ InitHeight \in Nat /\ StartBlock + MaxReorgDepth <= InitHeight /\ MaxHeight \in Nat
  BY SettingFacts
<1>e. BlockNumber \in Nat /\ BlockNumber' \in Nat
  BY <1>2
<1> DEFINE Moves(cut) ==
             /\ cut \in Nat /\ cut > tallest - MaxReorgDepth
             /\ cut <= BlockNumber + 1 /\ cut <= BlockNumber' + 1
             /\ \A i \in 1 .. cut : chain'[i] = chain[i]
             /\ BlockNumber' > tallest - MaxReorgDepth \/ BlockNumber' >= tallest
             /\ BlockNumber' <= MaxHeight
             /\ tallest' = Max({tallest, BlockNumber'})
<1>4. \E cut : Moves(cut) /\ BlockNumber' >= StartBlock
  <2>1. CASE Mine
    <3> DEFINE next == BlockNumber + 1
    <3>1. PICK block \in Branches(BlockAt(BlockNumber).fork, next, next) : chain' = chain \o block
      BY <2>1 DEF Mine
    <3>2. /\ next \in 1 .. Len(chain) /\ next = Len(chain)
          /\ BlockAt(BlockNumber).fork \in 0 .. MaxReorgs
          /\ chain' = Extended(next, block)
      BY <1>1, <3>1, MineExtends
    <3> HIDE DEF next
    <3>3. /\ Len(chain') = next + 1
          /\ \A i \in 1 .. next : chain'[i] = chain[i]
      <4>1. next \in Nat /\ next <= next
        BY <1>2, <3>2
      <4> QED
        BY <1>1, <3>1, <3>2, <4>1, ExtendedOK
    <3>4. BlockNumber < MaxHeight /\ tallest' = Max({tallest, BlockNumber + 1})
      BY <2>1 DEF Mine
    <3>5. BlockNumber' = BlockNumber + 1 /\ next = BlockNumber + 1
      BY <1>2, <3>2, <3>3
    <3>6. next \in Nat /\ next > tallest - MaxReorgDepth
      BY <1>e, <1>3, <3>5, <1>d
    <3>7. Moves(next) /\ BlockNumber' >= StartBlock
      <4>1. BlockNumber' > tallest - MaxReorgDepth \/ BlockNumber' >= tallest
        BY <1>e, <1>3, <3>5, <1>d
      <4>2. BlockNumber' <= MaxHeight /\ BlockNumber' >= StartBlock
        BY <1>e, <1>3, <3>4, <3>5, <1>d
      <4>3. tallest' = Max({tallest, BlockNumber'})
        BY <3>4, <3>5
      <4>4. next <= BlockNumber + 1 /\ next <= BlockNumber' + 1
        BY <1>2, <3>5
      <4> QED
        BY <3>3, <3>6, <4>1, <4>2, <4>3, <4>4
    <3> QED
      BY <3>7
  <2>2. CASE Reorg
    <3>1. PICK cut \in 1 .. BlockNumber :
            /\ cut > tallest - MaxReorgDepth
            /\ \E to \in cut .. BlockNumber + 1 :
                 /\ to <= MaxHeight
                 /\ \E branch \in Branches(reorgs + 1, cut, to) : chain' = Extended(cut, branch)
                 /\ tallest' = Max({tallest, to})
      BY <2>2 DEF Reorg, Extended
    <3>2. PICK to \in cut .. BlockNumber + 1 :
            /\ to <= MaxHeight
            /\ \E branch \in Branches(reorgs + 1, cut, to) : chain' = Extended(cut, branch)
            /\ tallest' = Max({tallest, to})
      BY <3>1
    <3>3. PICK branch \in Branches(reorgs + 1, cut, to) : chain' = Extended(cut, branch)
      BY <3>2
    <3>4. reorgs < MaxReorgs /\ MaxReorgs \in Nat
      BY <2>2, ChainAssumption DEF Reorg
    <3>5. cut \in 1 .. Len(chain) /\ to \in Nat /\ cut <= to /\ reorgs + 1 \in 0 .. MaxReorgs
      BY <1>2, <3>4
    <3>6. /\ Len(chain') = to + 1
          /\ \A i \in 1 .. cut : chain'[i] = chain[i]
      BY <1>1, <3>3, <3>5, ExtendedOK
    <3>7. BlockNumber' = to
      <4>1. to \in Nat /\ BlockNumber' \in Nat /\ Len(chain') = BlockNumber' + 1
        BY <1>2, <3>5
      <4> QED
        BY <3>6, <4>1
    <3>8. Moves(cut)
      <4>1. /\ cut \in Nat /\ cut > tallest - MaxReorgDepth
            /\ cut <= BlockNumber + 1 /\ cut <= BlockNumber' + 1
            /\ BlockNumber' > tallest - MaxReorgDepth
        BY <1>e, <1>3, <3>1, <3>5, <3>7, <1>d
      <4>2. BlockNumber' <= MaxHeight /\ tallest' = Max({tallest, BlockNumber'})
        BY <3>2, <3>7
      <4> QED
        BY <3>6, <4>1, <4>2
    <3>9. BlockNumber' >= StartBlock
      BY <1>e, <1>3, <3>1, <3>5, <3>7, <1>d
    <3> QED
      BY <3>8, <3>9
  <2>3. CASE FlipBack
    BY <2>3 DEF FlipBack, Setting
  <2> QED
    BY <2>1, <2>2, <2>3 DEF ChainStep
<1>5. PICK cut : Moves(cut) /\ BlockNumber' >= StartBlock
  BY <1>4
<1>a. /\ cut \in Nat /\ cut > tallest - MaxReorgDepth
      /\ cut <= BlockNumber + 1 /\ cut <= BlockNumber' + 1
      /\ \A i \in 1 .. cut : chain'[i] = chain[i]
  BY <1>5
<1>b. /\ BlockNumber' > tallest - MaxReorgDepth \/ BlockNumber' >= tallest
      /\ BlockNumber' <= MaxHeight
      /\ BlockNumber' >= StartBlock
  BY <1>5
<1>c. \A n \in Nat : /\ Exists(n) <=> n + 1 \in 1 .. Len(chain)
                     /\ Exists(n)' <=> n + 1 \in 1 .. Len(chain')
                     /\ BlockAt(n) = chain[n + 1] /\ BlockAt(n)' = chain'[n + 1]
  <2> SUFFICES ASSUME NEW n \in Nat
               PROVE  /\ Exists(n) <=> n + 1 \in 1 .. Len(chain)
                      /\ Exists(n)' <=> n + 1 \in 1 .. Len(chain')
                      /\ BlockAt(n) = chain[n + 1] /\ BlockAt(n)' = chain'[n + 1]
    OBVIOUS
  <2>1. Exists(n) <=> n \in 0 .. BlockNumber
    BY DEF Exists
  <2>2. Exists(n)' <=> n \in 0 .. BlockNumber'
    BY DEF Exists
  <2>3. BlockAt(n) = chain[n + 1] /\ BlockAt(n)' = chain'[n + 1]
    BY DEF BlockAt
  <2>4. \A b \in Nat : n \in 0 .. b <=> n + 1 \in 1 .. b + 1
    OBVIOUS
  <2>5. n \in 0 .. BlockNumber <=> n + 1 \in 1 .. Len(chain)
    BY <1>2, <2>4, Zenon
  <2>6. n \in 0 .. BlockNumber' <=> n + 1 \in 1 .. Len(chain')
    BY <1>2, <2>4, Zenon
  <2> QED
    BY <2>1, <2>2, <2>3, <2>5, <2>6, Zenon
<1> HIDE DEF Moves
<1>6. tallest' \in {tallest, BlockNumber'} /\ tallest <= tallest' /\ BlockNumber' <= tallest'
  <2>1. tallest' = Max({tallest, BlockNumber'})
    BY <1>5 DEF Moves
  <2>2. tallest \in Int /\ BlockNumber' \in Int
    BY <1>2, <1>3
  <2> QED
    BY <2>1, <2>2, MaxOfTwo
<1>7. HeadOK'
  <2>1. tallest' \in Nat /\ InitHeight <= tallest' /\ tallest' <= MaxHeight
    <3>1. CASE tallest' = tallest
      BY <1>3, <3>1
    <3>2. CASE tallest' = BlockNumber'
      <4>1. InitHeight \in Nat
        BY SettingFacts
      <4> QED
        BY <1>2, <1>3, <1>6, <1>b, <3>2, <4>1
    <3> QED
      BY <1>6, <3>1, <3>2
  <2>2. BlockNumber' = tallest' \/ BlockNumber' > tallest' - MaxReorgDepth
    <3>1. CASE tallest' = tallest /\ BlockNumber' >= tallest
      BY <1>3, <1>6, <1>e, <3>1
    <3>2. CASE tallest' = tallest /\ BlockNumber' > tallest - MaxReorgDepth
      BY <3>2
    <3> QED
      BY <1>6, <1>b, <3>1, <3>2
  <2>3. BlockNumber' > tallest' - FilterRange
    <3>1. \A b, t \in Nat : b = t \/ b > t - MaxReorgDepth => b > t - FilterRange
      BY <1>d
    <3> QED
      BY <1>e, <2>1, <2>2, <3>1
  <2> QED
    BY <1>1, <1>6, <1>b, <2>1, <2>2, <2>3 DEF HeadOK
<1>8. ASSUME NEW n \in Nat, n <= tallest - MaxReorgDepth
      PROVE  Exists(n) /\ Exists(n)' /\ BlockAt(n)' = BlockAt(n)
  <2>1. n + 1 \in 1 .. cut
    BY <1>3, <1>8, <1>a, SettingFacts
  <2>2. /\ cut \in Nat /\ cut <= BlockNumber + 1 /\ cut <= BlockNumber' + 1
        /\ chain'[n + 1] = chain[n + 1]
    BY <1>a, <2>1
  <2>3. n + 1 \in 1 .. Len(chain) /\ n + 1 \in 1 .. Len(chain')
    <3>1. \A b \in Nat : cut <= b + 1 => n + 1 \in 1 .. b + 1
      BY <2>1, <2>2
    <3> QED
      BY <1>2, <2>2, <3>1, Zenon
  <2> QED
    BY <1>c, <2>2, <2>3
<1>9. ASSUME NEW n \in Nat, Exists(n)
      PROVE  (Exists(n)' /\ BlockAt(n)' = BlockAt(n)) \/ reorgs < reorgs'
  BY <1>1, <1>9, <1>c DEF ChainChange
<1>10. ASSUME NEW n \in Nat, Exists(n)'
       PROVE  (Exists(n) /\ BlockAt(n)' = BlockAt(n)) \/ BlockAt(n)'.fork = reorgs'
  BY <1>1, <1>10, <1>c DEF ChainChange, Setting
<1> QED
  BY <1>1, <1>2, <1>6, <1>7, <1>8, <1>9, <1>10 DEF ChainChange

\* Who is at work when the emitter computes a range
LEMMA ComputingOnly ==
    ASSUME PhaseOK, epc = "compute"
    PROVE  Computing /\ ~Polling /\ ~Polled /\ ~Handling
BY DEF PhaseOK, Computing, Polling, Polled, Handling

\* Between two polls the chain changes.  What it replaces is recent.
LEMMA ChainMovesOK ==
    ASSUME Setting, Calm, IInv, ChainMoves
    PROVE  IInv'
<1>1. /\ epc = "compute" /\ ChainStep /\ calm' = FALSE
      /\ UNCHANGED <<gateway, epc, status, call, ppc, args, pollResults, headers, tracker,
                     doReorg, policy, filter, lastRecorded, ret>>
      /\ UNCHANGED <<npc, result, todo, batch, meta, ledger>>
  BY DEF ChainMoves, Calm, emitterVars, pollerVars, engineVars
<1>2. Computing /\ ~Polling /\ ~Polled /\ ~Handling
  BY <1>1, ComputingOnly DEF IInv
<1>3. Computing' /\ ~Polling' /\ ~Polled' /\ ~Handling'
  BY <1>1, <1>2 DEF Computing, Polling, Polled, Handling
<1>4. HeadOK
  BY DEF IInv
<1>5. /\ HeadOK'
      /\ tallest <= tallest'
      /\ reorgs <= reorgs' /\ reorgs' \in Nat
      /\ \A n \in Nat : n <= tallest - MaxReorgDepth =>
           Exists(n) /\ Exists(n)' /\ BlockAt(n)' = BlockAt(n)
      /\ \A n \in Nat : Exists(n) =>
           (Exists(n)' /\ BlockAt(n)' = BlockAt(n)) \/ reorgs < reorgs'
  BY <1>1, <1>4, ChainMove
<1>6. Known' = Known /\ Held' = Held /\ Alive' = Alive /\ Lost' = Lost
  BY <1>1 DEF Known, Held, Alive, Lost, Reverting
<1>7. /\ tallest \in Nat /\ tallest >= StartBlock + MaxReorgDepth /\ reorgs \in Nat
      /\ lastRecorded \in Nat /\ lastRecorded <= tallest /\ tallest' \in Nat
  <2>1. reorgs \in Nat
    BY <1>4, ChainBlocks DEF HeadOK
  <2> QED
    BY <1>4, <1>5, <2>1, SettingFacts DEF HeadOK, IInv, RecordOK
<1>8. DOMAIN tracker \subseteq Nat
  BY DEF IInv, FieldsOK, Fields, BlockMap
<1>9. ASSUME NEW n \in Stale', n \notin Stale
      PROVE  /\ n \in Nat /\ n > tallest - MaxReorgDepth /\ n > tallest - FilterRange
             /\ n > StartBlock
             /\ tracker[n].hash.fork < reorgs'
  <2>1. n \in DOMAIN tracker /\ n \in Nat
    BY <1>1, <1>8 DEF Stale
  <2>2. Exists(n) /\ tracker[n].hash = BlockAt(n)
    BY <1>9, <2>1 DEF Stale, Exact
  <2>3. ~(Exists(n)' /\ BlockAt(n)' = BlockAt(n))
    BY <1>1, <1>9, <2>2 DEF Stale, Exact
  <2>4. reorgs < reorgs' /\ n > tallest - MaxReorgDepth
    BY <1>5, <1>7, <2>1, <2>2, <2>3, SettingFacts
  <2>5. BlockAt(n).fork \in Nat /\ BlockAt(n).fork <= reorgs
    BY <1>4, <2>1, <2>2, ChainBlocks DEF HeadOK
  <2> QED
    BY <1>5, <1>7, <2>1, <2>2, <2>4, <2>5, SettingFacts
<1>10. ViewOK'
  <2>1. KnownOK' /\ TrackerLive'
    BY <1>1, <1>6 DEF IInv, ViewOK, KnownOK, TrackerLive
  <2>2. StaleRecent'
    <3> SUFFICES ASSUME NEW n \in Stale'
                 PROVE  /\ tracker[n].hash.fork < reorgs'
                        /\ n > lastRecorded - FilterRange
                        /\ n > StartBlock
      BY <1>1 DEF StaleRecent
    <3>1. CASE n \in Stale
      <4>1. tracker[n].hash.fork < reorgs /\ n > lastRecorded - FilterRange /\ n > StartBlock
        BY <3>1 DEF IInv, ViewOK, StaleRecent
      <4>2. tracker[n].hash \in Blocks
        BY <3>1 DEF IInv, ViewOK, TrackerLive, KnownOK, Held, Known, Alive, Stale
      <4>3. tracker[n].hash.fork \in Nat
        BY <4>2, ChainAssumption DEF Blocks
      <4> QED
        BY <1>5, <1>7, <4>1, <4>3
    <3>2. CASE n \notin Stale
      BY <1>7, <1>9, <3>2, SettingFacts
    <3> QED
      BY <3>1, <3>2
  <2>3. LiveKnown'
    <3> SUFFICES ASSUME NEW h \in Held, h.logs # {}
                 PROVE  \/ h.number \in DOMAIN tracker /\ tracker[h.number].hash = h
                        \/ /\ h.number \notin DOMAIN tracker
                           /\ h.number <= tallest' - FilterRange
                           /\ Exists(h.number)' /\ BlockAt(h.number)' = h
      BY <1>1, <1>6 DEF LiveKnown
    <3>1. \/ h.number \in DOMAIN tracker /\ tracker[h.number].hash = h
          \/ /\ h.number \notin DOMAIN tracker
             /\ h.number <= tallest - FilterRange
             /\ Exists(h.number) /\ BlockAt(h.number) = h
      BY DEF IInv, ViewOK, LiveKnown
    <3>2. h \in Known
      BY DEF Held, Known, Alive
    <3>3. h.number \in Nat
      BY <3>2 DEF IInv, ViewOK, KnownOK, Blocks
    <3>4. h.number <= tallest - FilterRange =>
            h.number <= tallest - MaxReorgDepth /\ h.number <= tallest' - FilterRange
      BY <1>5, <1>7, <3>3, SettingFacts
    <3> QED
      BY <1>5, <3>1, <3>3, <3>4
  <2>4. Gone'
    <3> SUFFICES ASSUME NEW h \in Known \ Held
                 PROVE  h.fork < reorgs' /\ \A i \in 1 .. Len(chain') : chain'[i] # h
      BY <1>6 DEF Gone
    <3>1. h.fork < reorgs /\ \A i \in 1 .. Len(chain) : chain[i] # h
      BY DEF IInv, ViewOK, Gone
    <3>2. h.fork \in Nat
      BY ChainAssumption DEF IInv, ViewOK, KnownOK, Blocks
    <3>3. h.fork < reorgs' /\ h.fork # reorgs'
      BY <1>5, <1>7, <3>1, <3>2
    <3>4. \A i \in 1 .. Len(chain') :
            (i \in 1 .. Len(chain) /\ chain'[i] = chain[i]) \/ chain'[i].fork = reorgs'
      BY <1>1, <1>4, ChainStepOK DEF HeadOK, ChainChange, Setting
    <3> QED
      BY <3>1, <3>3, <3>4
  <2>5. Complete'
    <3> SUFFICES ASSUME NEW n \in StartBlock .. lastRecorded, n <= lastRecorded - FilterRange,
                        Exists(n)', BlockAt(n)'.logs # {}
                 PROVE  BlockAt(n)' \in Held
      BY <1>1, <1>6 DEF Complete
    <3>1. n \in Nat /\ n <= tallest - MaxReorgDepth
      BY <1>7, SettingFacts
    <3>2. Exists(n) /\ BlockAt(n)' = BlockAt(n)
      BY <1>5, <3>1
    <3> QED
      BY <3>2 DEF IInv, ViewOK, Complete
  <2>6. CalmExact'
    BY <1>1 DEF CalmExact
  <2> QED
    BY <2>1, <2>2, <2>3, <2>4, <2>5, <2>6 DEF ViewOK
<1>11. RecordOK'
  BY <1>1, <1>2, <1>3, <1>5, <1>7 DEF IInv, RecordOK
<1>12. FieldsOK'
  BY <1>1, <1>2 DEF IInv, FieldsOK, Fields, Computing, ArgsOK, FetchedOK, StillFetch, GatewayTypeOK
<1>13. RangeOK' /\ StatusOK' /\ ResultOK'
  BY <1>1, <1>3 DEF IInv, RangeOK, StatusOK, ResultOK
<1>14. GoBackOK'
  <2> SUFFICES ASSUME GoingBack
               PROVE  /\ lastRecorded \in {status.from - 1, status.from}
                      /\ StartBlock <= status.from /\ status.from <= status.to
                      /\ status.from <= tallest'
                      /\ \A n \in Stale' : n > status.from - FilterRange
                      /\ \A h \in Lost : h.number < status.from - FilterRange
    BY <1>1, <1>6 DEF GoBackOK, GoingBack
  <2>1. /\ lastRecorded \in {status.from - 1, status.from}
        /\ StartBlock <= status.from /\ status.from <= status.to
        /\ status.from <= tallest
        /\ \A n \in Stale : n > status.from - FilterRange
        /\ \A h \in Lost : h.number < status.from - FilterRange
    BY DEF IInv, GoBackOK
  <2>2. status.from \in Nat
    BY DEF IInv, FieldsOK, Fields
  <2>3. \A n \in Stale' : n > status.from - FilterRange
    BY <1>7, <1>9, <2>1, <2>2, SettingFacts
  <2> QED
    BY <1>5, <1>7, <2>1, <2>2, <2>3
<1>15. EngineOK'
  BY <1>1, <1>6 DEF IInv, EngineOK, LedgerOK, MetaOK, LoopOK, OneAlive, StateOK
<1>16. LostOK'
  <2> SUFFICES ASSUME NEW h \in Lost
               PROVE  /\ h.number <= tallest' - 2 * FilterRange
                      /\ h.number <= lastRecorded - FilterRange
                      /\ \A n \in Stale' : h.number + FilterRange < n
    BY <1>1, <1>2, <1>3, <1>6 DEF LostOK, Computing
  <2>1. /\ h.number <= tallest - 2 * FilterRange
        /\ h.number <= lastRecorded - FilterRange
        /\ \A n \in Stale : h.number + FilterRange < n
    BY DEF IInv, LostOK
  <2>2. h.number \in Nat
    BY DEF IInv, ViewOK, KnownOK, Blocks, Lost, Known
  <2>3. \A n \in Stale' : h.number + FilterRange < n
    BY <1>7, <1>9, <2>1, <2>2, SettingFacts
  <2>4. h.number <= tallest' - 2 * FilterRange
    BY <1>5, <1>7, <2>1, <2>2, SettingFacts
  <2> QED
    BY <2>1, <2>3, <2>4
<1> QED
  BY <1>3, <1>5, <1>10, <1>11, <1>12, <1>13, <1>14, <1>15, <1>16 DEF IInv, PhaseOK

\* The head is as high as it was.
LEMMA HeadStays ==
    ASSUME HeadOK, UNCHANGED chainVars
    PROVE  HeadOK'
<1>1. UNCHANGED <<chain, tallest, reorgs, abandoned>>
  BY DEF chainVars
<1>2. ChainOK' /\ BlockNumber' = BlockNumber
  BY <1>1, ChainStays, SameChain DEF HeadOK
<1> QED
  BY <1>1, <1>2 DEF HeadOK

\* The emitter waits for new blocks; it never gives up on a reorg.
LEMMA WaitOK ==
    ASSUME Setting, Calm, IInv, Wait
    PROVE  IInv'
<1>1. /\ UNCHANGED <<gateway, calm, ppc, args, pollResults, headers, tracker, doReorg, policy,
                     filter, lastRecorded, ret, npc, result, todo, batch, meta, ledger>>
      /\ UNCHANGED <<chain, tallest, reorgs, abandoned>>
      /\ SkipNoNewBlock(BlockNumber) \/ GiveUpReorg(BlockNumber)
  BY DEF Wait, pollerVars, engineVars, chainVars
<1>2. status.retries = IF status.isReorging THEN 1 ELSE 0
  BY DEF IInv, StatusOK
<1>3. ~maxRetriesReached
  BY <1>2, SettingFacts DEF maxRetriesReached
<1>4. /\ epc = "compute" /\ UNCHANGED <<epc, call>>
      /\ status' = [status EXCEPT !.goBack = FALSE]
  BY <1>1, <1>3 DEF SkipNoNewBlock, GiveUpReorg
<1>5. status \in [from : Nat, to : Nat, goBack : BOOLEAN, isReorging : BOOLEAN, retries : Nat]
  BY DEF IInv, FieldsOK, Fields
<1>6. /\ status' \in [from : Nat, to : Nat, goBack : BOOLEAN, isReorging : BOOLEAN, retries : Nat]
      /\ status'.from = status.from /\ status'.to = status.to /\ status'.goBack = FALSE
      /\ status'.isReorging = status.isReorging /\ status'.retries = status.retries
  BY <1>4, <1>5
<1>7. Computing /\ ~Polling /\ ~Polled /\ ~Handling
  BY <1>4, ComputingOnly DEF IInv
<1>8. Computing' /\ ~Polling' /\ ~Polled' /\ ~Handling'
  BY <1>1, <1>4, <1>7 DEF Computing, Polling, Polled, Handling
<1>9. Known' = Known /\ Held' = Held /\ Alive' = Alive /\ Lost' = Lost
  BY <1>1, <1>4 DEF Known, Held, Alive, Lost, Reverting
<1>10. ViewOK' /\ Stale' = Stale
  BY <1>1, <1>9, SameView DEF IInv
<1>11. HeadOK'
  BY <1>1, HeadStays DEF IInv, chainVars
<1>12. FieldsOK'
  BY <1>1, <1>4, <1>6, <1>7
     DEF IInv, FieldsOK, Fields, Computing, ArgsOK, FetchedOK, StillFetch, GatewayTypeOK
<1>13. RecordOK'
  BY <1>1, <1>7, <1>8 DEF IInv, RecordOK
<1>14. RangeOK' /\ ResultOK'
  BY <1>8 DEF RangeOK, ResultOK
<1>15. StatusOK'
  BY <1>2, <1>4, <1>6, <1>8 DEF StatusOK
<1>16. GoBackOK'
  BY <1>1, <1>4, <1>6, <1>9, <1>10 DEF IInv, GoBackOK, GoingBack
<1>17. EngineOK'
  BY <1>1, <1>4, <1>9 DEF IInv, EngineOK, LedgerOK, MetaOK, LoopOK, OneAlive, StateOK
<1>18. LostOK'
  BY <1>1, <1>4, <1>8, <1>9, <1>10 DEF IInv, LostOK
<1> QED
  BY <1>8, <1>10, <1>11, <1>12, <1>13, <1>14, <1>15, <1>16, <1>17, <1>18 DEF IInv, PhaseOK

-----------------------------------------------------------------------------
(* A poll is called *)

\* The blocks the service knows, and those the engine has forgotten, are block numbers
\* from StartBlock on.
LEMMA KnownNumbers ==
    ASSUME IInv
    PROVE  /\ \A h \in Known : h.number \in Nat /\ h.number >= StartBlock /\ h \in Blocks
           /\ Lost \subseteq Known /\ Held \subseteq Known /\ Alive \subseteq Known
BY DEF IInv, ViewOK, KnownOK, Blocks, Known, Lost, Held, Alive

\* The range of the next poll: existing blocks, back far enough and not so far as the blocks
\* the engine has forgotten.
LEMMA NextRange ==
    ASSUME Setting, HeadOK, ComputeRange(BlockNumber), ~goBackFirstStart,
           status \in [from : Nat, to : Nat, goBack : BOOLEAN, isReorging : BOOLEAN,
                       retries : Nat],
           lastRecorded \in Nat, lastRecorded <= tallest,
           \/ gateway = NoRecord /\ lastRecorded = 0
           \/ gateway = lastRecorded /\ lastRecorded >= StartBlock,
           NEW old \in SUBSET Nat,
           \A n \in old : n <= tallest - 2 * FilterRange /\ n <= lastRecorded - FilterRange,
           status.isReorging =>
               /\ lastRecorded \in {status.from - 1, status.from}
               /\ StartBlock <= status.from /\ status.from <= status.to
               /\ status.from <= tallest
               /\ \A n \in old : n < status.from - FilterRange
    PROVE  /\ call' = [from |-> call'.from, to |-> call'.to]
           /\ call'.from \in Nat /\ call'.to \in Nat
           /\ StartBlock <= call'.from /\ call'.from <= call'.to /\ call'.to <= BlockNumber
           /\ call'.from = StartBlock \/ call'.from <= lastRecorded + 1 - FilterRange
           /\ status.isReorging =>
                call'.from = StartBlock \/ call'.from = status.from - FilterRange
           /\ \A n \in old : n < call'.from /\ n <= call'.to - FilterRange
           /\ epc = "compute" /\ epc' = "poll"
           /\ status' \in [from : Nat, to : Nat, goBack : BOOLEAN, isReorging : BOOLEAN,
                           retries : Nat]
           /\ status'.goBack = FALSE
           /\ status'.isReorging = status.isReorging /\ status'.retries = status.retries
<1> DEFINE range == computeFromBlockToBlock(BlockNumber)
<1>1. /\ epc = "compute" /\ epc' = "poll"
      /\ status' = [status EXCEPT !.goBack = FALSE, !.from = range.from, !.to = range.to]
      /\ call' = [from |-> IF range.from < StartBlock THEN StartBlock ELSE range.from,
                  to   |-> range.to]
  BY DEF ComputeRange
<1>3. ~goBackFirstStart
  OBVIOUS
<1>4. /\ BlockNumber \in Nat /\ BlockNumber >= StartBlock
      /\ tallest \in Nat /\ tallest >= StartBlock
      /\ BlockNumber <= tallest /\ BlockNumber > tallest - FilterRange
  <2>1. BlockNumber \in Nat
    BY ChainBlocks DEF HeadOK
  <2> QED
    BY <2>1, SettingFacts DEF HeadOK
<1>5. /\ lastRecorded \in Nat /\ lastRecorded <= tallest
      /\ \/ gateway = NoRecord /\ lastRecorded = 0 /\ old = {}
         \/ gateway = lastRecorded /\ lastRecorded >= StartBlock /\ gateway # NoRecord
  <2>1. ASSUME lastRecorded = 0
        PROVE  old = {}
    BY <2>1, SettingFacts
  <2> QED
    BY <2>1, SettingFacts
<1>6. status \in [from : Nat, to : Nat, goBack : BOOLEAN, isReorging : BOOLEAN, retries : Nat]
  OBVIOUS
<1>7. /\ FilterRange \in Nat /\ FilterRange >= 1
      /\ StartBlock \in Nat /\ StartBlock >= 1
  BY SettingFacts
<1>8. \A n \in old : /\ n \in Nat /\ n <= tallest - 2 * FilterRange
                     /\ n <= lastRecorded - FilterRange
  OBVIOUS
<1>9. CASE ~status.isReorging
  <2> DEFINE last == IF gateway = NoRecord THEN StartBlock ELSE gateway
             new  == Min2(BlockNumber, last + 1)
             from == IF FilterRange > new THEN StartBlock ELSE new - FilterRange
             to   == Min2(BlockNumber, last + FilterRange)
  <2>1. range = [from |-> from, to |-> to]
    BY <1>3, <1>9
       DEF computeFromBlockToBlock, fromBlockToBlockNormal, lastRecordedBlock, GetLastRecordedBlock
  <2>2. /\ last \in Nat /\ last >= StartBlock
        /\ gateway # NoRecord => last = lastRecorded
        /\ gateway = NoRecord => last = StartBlock
    BY <1>5, <1>7
  <2>3. /\ new \in Nat /\ new <= last + 1 /\ new <= BlockNumber
        /\ new = BlockNumber \/ new = last + 1
    BY <1>4, <2>2 DEF Min2
  <2>4. /\ to \in Nat /\ to <= BlockNumber /\ to >= StartBlock
        /\ to = BlockNumber \/ to = last + FilterRange
    BY <1>4, <1>7, <2>2 DEF Min2
  <2> HIDE DEF last, new, to
  <2>5. from \in Nat /\ (from = StartBlock \/ from = new - FilterRange)
        /\ (FilterRange > new \/ from = new - FilterRange)
    BY <1>7, <2>3
  <2> HIDE DEF from
  <2>6. from <= to
    BY <1>4, <1>7, <2>2, <2>3, <2>4, <2>5
  <2>7. from <= StartBlock \/ from <= lastRecorded + 1 - FilterRange
    BY <1>5, <1>7, <2>2, <2>3, <2>5
  <2>8. \A n \in old : n < from /\ n <= to - FilterRange
    <3> SUFFICES ASSUME NEW n \in old
                 PROVE  n < from /\ n <= to - FilterRange
      OBVIOUS
    <3>1. last = lastRecorded
      BY <1>5, <2>2
    <3>2. /\ n \in Nat /\ n <= tallest - 2 * FilterRange
          /\ n <= last - FilterRange
      BY <1>8, <3>1
    <3>3. n < new - FilterRange
      BY <1>4, <1>7, <2>2, <2>3, <3>2
    <3>4. n <= to - FilterRange
      BY <1>4, <1>7, <2>2, <2>4, <3>2
    <3> QED
      BY <1>7, <2>3, <2>5, <3>2, <3>3, <3>4
  <2>9. /\ call' = [from |-> IF from < StartBlock THEN StartBlock ELSE from, to |-> to]
        /\ status' = [status EXCEPT !.goBack = FALSE, !.from = from, !.to = to]
    BY <1>1, <2>1
  <2>10. /\ call'.from = (IF from < StartBlock THEN StartBlock ELSE from) /\ call'.to = to
         /\ call' = [from |-> call'.from, to |-> call'.to]
    BY <2>9
  <2>11. /\ status' \in [from : Nat, to : Nat, goBack : BOOLEAN, isReorging : BOOLEAN,
                         retries : Nat]
         /\ status'.goBack = FALSE
         /\ status'.isReorging = status.isReorging /\ status'.retries = status.retries
    BY <1>6, <2>4, <2>5, <2>9
  <2>12. /\ call'.from \in Nat /\ StartBlock <= call'.from /\ call'.from <= to
         /\ call'.from = StartBlock \/ call'.from <= lastRecorded + 1 - FilterRange
         /\ from <= call'.from
    BY <1>5, <1>7, <2>4, <2>5, <2>6, <2>7, <2>10
  <2>13. \A n \in old : n < call'.from
    BY <1>8, <2>5, <2>8, <2>12
  <2> QED
    BY <1>1, <1>9, <2>4, <2>8, <2>10, <2>11, <2>12, <2>13
<1>10. CASE status.isReorging
  <2> DEFINE from == IF FilterRange > status.from THEN StartBlock ELSE status.from - FilterRange
             to   == Min2(status.to, BlockNumber)
  <2>1. range = [from |-> from, to |-> to]
    BY <1>3, <1>10 DEF computeFromBlockToBlock, fromBlockToBlockIsReorging
  <2>2. /\ lastRecorded \in {status.from - 1, status.from}
        /\ StartBlock <= status.from /\ status.from <= status.to /\ status.from <= tallest
        /\ \A n \in old : n < status.from - FilterRange
    BY <1>10
  <2>3. status.from \in Nat /\ status.to \in Nat
    BY <1>6
  <2>4. /\ to \in Nat /\ to <= BlockNumber /\ to >= StartBlock
        /\ to = BlockNumber \/ to = status.to
    BY <1>4, <1>7, <2>2, <2>3 DEF Min2
  <2> HIDE DEF to
  <2>5. from \in Nat /\ (from = StartBlock \/ from = status.from - FilterRange)
        /\ (FilterRange > status.from \/ from = status.from - FilterRange)
    BY <1>7, <2>3
  <2> HIDE DEF from
  <2>6. from <= to
    BY <1>4, <1>7, <2>2, <2>3, <2>4, <2>5
  <2>7. from = StartBlock \/ from <= lastRecorded + 1 - FilterRange
    BY <1>5, <1>7, <2>2, <2>3, <2>5
  <2>8. \A n \in old : n < from /\ n <= to - FilterRange
    <3> SUFFICES ASSUME NEW n \in old
                 PROVE  n < from /\ n <= to - FilterRange
      OBVIOUS
    <3>2. /\ n \in Nat /\ n <= tallest - 2 * FilterRange
          /\ n < status.from - FilterRange
      BY <1>8, <2>2
    <3>4. n <= to - FilterRange
      BY <1>4, <1>7, <2>2, <2>3, <2>4, <3>2
    <3> QED
      BY <1>7, <2>3, <2>5, <3>2, <3>4
  <2>9. /\ call' = [from |-> IF from < StartBlock THEN StartBlock ELSE from, to |-> to]
        /\ status' = [status EXCEPT !.goBack = FALSE, !.from = from, !.to = to]
    BY <1>1, <2>1
  <2>10. /\ call'.from = (IF from < StartBlock THEN StartBlock ELSE from) /\ call'.to = to
         /\ call' = [from |-> call'.from, to |-> call'.to]
    BY <2>9
  <2>11. /\ status' \in [from : Nat, to : Nat, goBack : BOOLEAN, isReorging : BOOLEAN,
                         retries : Nat]
         /\ status'.goBack = FALSE
         /\ status'.isReorging = status.isReorging /\ status'.retries = status.retries
    BY <1>6, <2>4, <2>5, <2>9
  <2>12. /\ call'.from \in Nat /\ StartBlock <= call'.from /\ call'.from <= to
         /\ call'.from = StartBlock \/ call'.from <= lastRecorded + 1 - FilterRange
         /\ call'.from = StartBlock \/ call'.from = status.from - FilterRange
         /\ from <= call'.from
    BY <1>5, <1>7, <2>3, <2>4, <2>5, <2>6, <2>7, <2>10
  <2>13. \A n \in old : n < call'.from
    BY <1>8, <2>5, <2>8, <2>12
  <2> QED
    BY <1>1, <2>4, <2>8, <2>10, <2>11, <2>12, <2>13
<1> QED
  BY <1>9, <1>10

\* In a calm setting the range starts with a block that is still there when the emitter has
\* gone back.
LEMMA CalmRange ==
    ASSUME Setting, Calm, IInv, ComputeRange(BlockNumber)
    PROVE  /\ call' = [from |-> call'.from, to |-> call'.to]
           /\ call'.from \in Nat /\ call'.to \in Nat
           /\ StartBlock <= call'.from /\ call'.from <= call'.to /\ call'.to <= BlockNumber
           /\ call'.from = StartBlock \/ call'.from <= lastRecorded + 1 - FilterRange
           /\ status.isReorging => call'.from \notin Stale
           /\ \A h \in Lost : h.number < call'.from /\ h.number <= call'.to - FilterRange
           /\ epc = "compute" /\ epc' = "poll"
           /\ status' \in [from : Nat, to : Nat, goBack : BOOLEAN, isReorging : BOOLEAN,
                           retries : Nat]
           /\ status'.goBack = FALSE
           /\ status'.isReorging = status.isReorging /\ status'.retries = status.retries
<1> DEFINE old == { h.number : h \in Lost }
<1>1. epc = "compute"
  BY DEF ComputeRange
<1>2. Computing
  BY <1>1, ComputingOnly DEF IInv
<1>3. ~goBackFirstStart
  BY DEF IInv, StatusOK, goBackFirstStart, GetLastRecordedBlock
<1>4. /\ status \in [from : Nat, to : Nat, goBack : BOOLEAN, isReorging : BOOLEAN,
                     retries : Nat]
      /\ DOMAIN tracker \subseteq Nat /\ HeadOK
  BY DEF IInv, FieldsOK, Fields, BlockMap
<1>5. /\ lastRecorded \in Nat /\ lastRecorded <= tallest
      /\ \/ gateway = NoRecord /\ lastRecorded = 0
         \/ gateway = lastRecorded /\ lastRecorded >= StartBlock
  BY <1>2 DEF IInv, RecordOK
<1>6. /\ old \in SUBSET Nat
      /\ \A n \in old : n <= tallest - 2 * FilterRange /\ n <= lastRecorded - FilterRange
  BY KnownNumbers DEF IInv, LostOK
<1>7. status.isReorging =>
        /\ lastRecorded \in {status.from - 1, status.from}
        /\ StartBlock <= status.from /\ status.from <= status.to
        /\ status.from <= tallest
        /\ \A n \in old : n < status.from - FilterRange
        /\ \A n \in Stale : n > status.from - FilterRange
  BY <1>1 DEF IInv, GoBackOK, GoingBack
<1>8. \A h \in Lost : h.number \in old
  OBVIOUS
<1> HIDE DEF old
<1>9. /\ call' = [from |-> call'.from, to |-> call'.to]
      /\ call'.from \in Nat /\ call'.to \in Nat
      /\ StartBlock <= call'.from /\ call'.from <= call'.to /\ call'.to <= BlockNumber
      /\ call'.from = StartBlock \/ call'.from <= lastRecorded + 1 - FilterRange
      /\ status.isReorging =>
           call'.from = StartBlock \/ call'.from = status.from - FilterRange
      /\ \A n \in old : n < call'.from /\ n <= call'.to - FilterRange
      /\ epc' = "poll"
      /\ status' \in [from : Nat, to : Nat, goBack : BOOLEAN, isReorging : BOOLEAN,
                      retries : Nat]
      /\ status'.goBack = FALSE
      /\ status'.isReorging = status.isReorging /\ status'.retries = status.retries
  BY <1>3, <1>4, <1>5, <1>6, <1>7, NextRange
<1>10. status.isReorging => call'.from \notin Stale
  <2>1. \A n \in Stale : n \in Nat /\ n > StartBlock
    BY <1>4 DEF IInv, Stale, ViewOK, StaleRecent
  <2> QED
    BY <1>4, <1>7, <1>9, <2>1, SettingFacts
<1> QED
  BY <1>1, <1>8, <1>9, <1>10

\* The poll forgets tracked blocks, none of them replaced, and starts.
LEMMA CallPollOK ==
    ASSUME Setting, Calm, IInv, CallPoll
    PROVE  IInv'
<1>1. /\ ComputeRange(BlockNumber) /\ Poll(call'.from, call'.to) /\ calm' = TRUE
      /\ UNCHANGED <<gateway, npc, result, todo, batch, meta, ledger>>
      /\ UNCHANGED <<chain, tallest, reorgs, abandoned>>
  BY DEF CallPoll, engineVars, chainVars
<1>3. /\ epc = "compute" /\ epc' = "poll"
      /\ status' \in [from : Nat, to : Nat, goBack : BOOLEAN, isReorging : BOOLEAN,
                      retries : Nat]
      /\ status'.goBack = FALSE
      /\ status'.isReorging = status.isReorging /\ status'.retries = status.retries
  BY <1>1, CalmRange
<1>4. Computing /\ ~Polling /\ ~Polled /\ ~Handling
  BY <1>3, ComputingOnly DEF IInv
<1>2. /\ call' = [from |-> call'.from, to |-> call'.to]
      /\ call'.from \in Nat /\ call'.to \in Nat
      /\ StartBlock <= call'.from /\ call'.from <= call'.to /\ call'.to <= BlockNumber
      /\ call'.from = StartBlock \/ call'.from <= lastRecorded + 1 - FilterRange
      /\ status.isReorging => call'.from \notin Stale
      /\ \A h \in Lost : h.number < call'.from /\ h.number <= call'.to - FilterRange
  BY <1>1, CalmRange
<1>5. tracker # NoTracker /\ BlockMap(tracker) /\ DOMAIN tracker \subseteq Nat
  BY DEF IInv, FieldsOK, Fields, BlockMap
<1>6. /\ lastRecorded \in Nat /\ lastRecorded < Half /\ lastRecorded <= tallest
      /\ tallest \in Nat
  BY SettingFacts DEF IInv, RecordOK, HeadOK
<1>7. /\ args' = call' /\ ppc' = "fetch"
      /\ tracker' = clearUntil(tracker, Sub64(lastRecorded, FilterRange))
      /\ ret' = [result |-> NoResult, err |-> "none"]
      /\ UNCHANGED <<pollResults, headers, doReorg, policy, filter, lastRecorded>>
  <2>1. ~(call'.from > call'.to + 1)
    BY <1>2
  <2> QED
    BY <1>1, <1>2, <1>5, <2>1 DEF Poll, Setting
<1>8. /\ DOMAIN tracker' = { n \in DOMAIN tracker : n > lastRecorded - FilterRange }
      /\ \A n \in DOMAIN tracker' : tracker'[n] = tracker[n]
  <2>1. Score(Sub64(lastRecorded, FilterRange)) = lastRecorded - FilterRange
    BY <1>6, SettingFacts, ScoreOfSub64
  <2> QED
    BY <1>7, <2>1 DEF clearUntil
<1>9. \A n : Exists(n)' = Exists(n) /\ BlockAt(n)' = BlockAt(n)
  BY <1>1, SameChain
<1>10. Stale' \subseteq Stale
  BY <1>8, <1>9 DEF Stale, Exact
<1>11. Polling' /\ ~Computing' /\ ~Polled' /\ ~Handling'
  BY <1>1, <1>3, <1>4, <1>7 DEF Computing, Polling, Polled, Handling
<1>12. Known' = Known /\ Held' = Held /\ Alive' = Alive /\ Lost' = Lost
  <2>1. HashesOf(ret.result.good) \subseteq DOMAIN ledger
    BY <1>3 DEF IInv, EngineOK, LoopOK
  <2>2. HashesOf(ret'.result.good) = {}
    BY <1>7, NoBlocksOK
  <2>3. Reverting = {} /\ Reverting' = {}
    BY <1>3, <1>4, <1>7 DEF Reverting, Computing
  <2>4. Alive' = Alive /\ Lost' = Lost
    BY <1>1 DEF Alive, Lost
  <2>5. HashesOf(ret.result.good)' = {}
    BY <2>2 DEF HashesOf
  <2> QED
    BY <1>1, <2>1, <2>3, <2>4, <2>5 DEF Known, Held
<1>13. ViewOK'
  <2>1. KnownOK' /\ TrackerLive'
    BY <1>1, <1>8, <1>12 DEF IInv, ViewOK, KnownOK, TrackerLive
  <2>2. StaleRecent'
    <3>1. Stale' \subseteq DOMAIN tracker'
      BY DEF Stale
    <3> QED
      BY <1>1, <1>7, <1>8, <1>10, <3>1 DEF IInv, ViewOK, StaleRecent
  <2>3. LiveKnown'
    <3> SUFFICES ASSUME NEW h \in Held, h.logs # {}
                 PROVE  \/ h.number \in DOMAIN tracker' /\ tracker'[h.number].hash = h
                        \/ /\ h.number \notin DOMAIN tracker'
                           /\ h.number <= tallest - FilterRange
                           /\ Exists(h.number) /\ BlockAt(h.number) = h
      BY <1>1, <1>9, <1>12 DEF LiveKnown
    <3>1. \/ h.number \in DOMAIN tracker /\ tracker[h.number].hash = h
          \/ /\ h.number \notin DOMAIN tracker
             /\ h.number <= tallest - FilterRange
             /\ Exists(h.number) /\ BlockAt(h.number) = h
      BY DEF IInv, ViewOK, LiveKnown
    <3>2. CASE h.number \in DOMAIN tracker /\ tracker[h.number].hash = h
               /\ h.number > lastRecorded - FilterRange
      BY <1>8, <3>2
    <3>3. CASE h.number \in DOMAIN tracker /\ tracker[h.number].hash = h
               /\ ~(h.number > lastRecorded - FilterRange)
      <4>1. h.number \notin Stale
        BY <3>3 DEF IInv, ViewOK, StaleRecent
      <4>2. Exists(h.number) /\ BlockAt(h.number) = h
        BY <3>3, <4>1 DEF Stale, Exact
      <4>3. h.number <= tallest - FilterRange
        BY <1>5, <1>6, <3>3, SettingFacts
      <4> QED
        BY <1>8, <3>3, <4>2, <4>3
    <3>4. CASE h.number \notin DOMAIN tracker
      BY <1>8, <3>1, <3>4
    <3> QED
      BY <3>1, <3>2, <3>3, <3>4
  <2>4. Gone'
    BY <1>1, <1>12 DEF IInv, ViewOK, Gone
  <2>5. Complete'
    BY <1>1, <1>7, <1>9, <1>12 DEF IInv, ViewOK, Complete
  <2>6. CalmExact'
    BY <1>7 DEF CalmExact
  <2> QED
    BY <2>1, <2>2, <2>3, <2>4, <2>5, <2>6 DEF ViewOK
<1>14. HeadOK'
  BY <1>1, HeadStays DEF IInv, chainVars
<1>15. FieldsOK'
  <2>1. BlockMap(tracker')
    BY <1>5, <1>8 DEF BlockMap
  <2>2. tracker' # NoTracker
    BY <2>1, MapIsTracker DEF BlockMap
  <2>3. ArgsOK' /\ call' \in [from : Nat, to : Nat]
    BY <1>2, <1>7 DEF ArgsOK
  <2>4. FetchedOK' /\ StillFetch'
    BY <1>7 DEF IInv, FieldsOK, Fields, FetchedOK, StillFetch, BlockMap
  <2> QED
    BY <1>1, <1>3, <1>7, <2>1, <2>2, <2>3, <2>4 DEF IInv, FieldsOK, Fields, GatewayTypeOK, BlockMap
<1>16. RecordOK'
  <2>1. DOMAIN tracker = {} => DOMAIN tracker' = {}
    BY <1>8
  <2> QED
    BY <1>1, <1>4, <1>7, <1>11, <2>1 DEF IInv, RecordOK, Computing
<1>17. RangeOK'
  <2>1. BlockNumber' = BlockNumber
    BY <1>1, SameChain
  <2> QED
    BY <1>1, <1>2, <1>7, <1>11, <2>1 DEF RangeOK
<1>18. StatusOK' /\ GoBackOK' /\ ResultOK'
  BY <1>2, <1>3, <1>7, <1>10, <1>11 DEF IInv, StatusOK, GoBackOK, GoingBack, ResultOK
<1>19. EngineOK'
  BY <1>1, <1>3, <1>4, <1>12
     DEF IInv, EngineOK, LedgerOK, MetaOK, LoopOK, OneAlive, StateOK, Computing
<1>20. LostOK'
  BY <1>1, <1>2, <1>7, <1>10, <1>11, <1>12 DEF IInv, LostOK
<1> QED
  BY <1>11, <1>13, <1>14, <1>15, <1>16, <1>17, <1>18, <1>19, <1>20 DEF IInv, PhaseOK

-----------------------------------------------------------------------------
(* Poll *)

\* Who is at work when Poll makes a step
LEMMA PollingOnly ==
    ASSUME PhaseOK, ppc # "idle"
    PROVE  Polling /\ ~Computing /\ ~Polled /\ ~Handling
BY DEF PhaseOK, Computing, Polling, Polled, Handling

\* How a step of Poll ends in this setting: it fetches more or it finishes.
LEMMA PollStepCases ==
    ASSUME Setting, Calm, IInv, StepPoll
    PROVE  /\ UNCHANGED <<gateway, epc, status, call, npc, result, todo, batch, meta, ledger>>
           /\ UNCHANGED <<chain, tallest, reorgs, abandoned, calm, args, doReorg, policy, filter>>
           /\ Polling /\ ~Computing /\ ~Polled /\ ~Handling
           /\ FilterLogs \/ FetchHeadersFirst \/ GoesOn(TRUE) \/ Finishes(TRUE)
<1>1. /\ PollStep
      /\ UNCHANGED <<gateway, epc, status, call, npc, result, todo, batch, meta, ledger>>
      /\ UNCHANGED <<chain, tallest, reorgs, abandoned, calm>>
  BY DEF StepPoll, emitterVars, chainVars, engineVars
<1>2. ChainOK /\ ArgsOK /\ FetchedOK /\ StillFetch
  BY DEF IInv, HeadOK, FieldsOK, Fields
<1>3. /\ UNCHANGED <<args, doReorg, policy, filter>>
      /\ ppc # "idle"
      /\ FilterLogs \/ FetchHeadersFirst \/ Fails(TRUE) \/ Hangs \/ GoesOn(TRUE) \/ Finishes(TRUE)
  BY <1>1, <1>2, StepCases
<1>4. Polling /\ ~Computing /\ ~Polled /\ ~Handling
  BY <1>3, PollingOnly DEF IInv
<1>5. ~Fails(TRUE)
  BY DEF Fails, IInv, FieldsOK, Fields
<1>6. ~Hangs
  <2>1. args.from >= 1
    BY <1>2, <1>4, SettingFacts DEF IInv, RangeOK, ArgsOK
  <2> QED
    BY <2>1 DEF Hangs
<1> QED
  BY <1>1, <1>3, <1>4, <1>5, <1>6

\* Poll fetches more.
LEMMA PollGoesOn ==
    ASSUME Setting, Calm, IInv, StepPoll, FilterLogs \/ FetchHeadersFirst \/ GoesOn(TRUE)
    PROVE  IInv'
<1>1. /\ UNCHANGED <<gateway, epc, status, call, npc, result, todo, batch, meta, ledger>>
      /\ UNCHANGED <<chain, tallest, reorgs, abandoned, calm, args, doReorg, policy, filter>>
      /\ Polling /\ ~Computing /\ ~Polled /\ ~Handling
  BY PollStepCases
<1>2. ppc' \in {"headers", "logs", "missing"} /\ UNCHANGED <<tracker, lastRecorded, ret>>
  BY DEF FilterLogs, FetchHeadersFirst, GoesOn
<1>3. Polling' /\ ~Computing' /\ ~Polled' /\ ~Handling'
  BY <1>1, <1>2 DEF Computing, Polling, Polled, Handling
<1>4. Known' = Known /\ Held' = Held /\ Alive' = Alive /\ Lost' = Lost
  <2>1. Reverting = {} /\ Reverting' = {}
    BY <1>1, <1>2 DEF Reverting, Polling
  <2> QED
    BY <1>1, <1>2, <2>1 DEF Known, Held, Alive, Lost
<1>5. ViewOK' /\ Stale' = Stale
  BY <1>1, <1>2, <1>4, SameView DEF IInv
<1>6. HeadOK' /\ BlockNumber' = BlockNumber
  BY <1>1, HeadStays, SameChain DEF IInv, chainVars
<1>7. FieldsOK'
  <2>1. FetchedOK' /\ StillFetch'
    BY <1>1, FetchOn DEF IInv, HeadOK, FieldsOK, Fields
  <2> QED
    BY <1>1, <1>2, <2>1 DEF IInv, FieldsOK, Fields, ArgsOK, BlockMap, GatewayTypeOK
<1>8. RecordOK'
  BY <1>1, <1>2, <1>3 DEF IInv, RecordOK, Polling
<1>9. RangeOK' /\ StatusOK' /\ GoBackOK' /\ ResultOK'
  BY <1>1, <1>2, <1>3, <1>5, <1>6
     DEF IInv, RangeOK, StatusOK, GoBackOK, GoingBack, ResultOK, Polling
<1>10. EngineOK'
  BY <1>1, <1>2, <1>4 DEF IInv, EngineOK, LedgerOK, MetaOK, LoopOK, OneAlive, StateOK
<1>11. LostOK'
  BY <1>1, <1>2, <1>3, <1>4, <1>5 DEF IInv, LostOK
<1> QED
  BY <1>3, <1>5, <1>6, <1>7, <1>8, <1>9, <1>10, <1>11 DEF IInv, PhaseOK

\* What a Poll that finishes has found: the chain's blocks of its range, among them all
\* that have logs or are tracked, and as forked exactly the replaced ones of the range.
Found(results) ==
    /\ ret'.result.good = results
    /\ DOMAIN ret'.result.reorged = forked(results)
    /\ \A n \in forked(results) : ret'.result.reorged[n] = tracker[n]
    /\ ret'.err = IF args.from \in forked(results) THEN "fromBlockReorged" ELSE "none"
    /\ \A n \in DOMAIN results :
         /\ n \in args.from .. args.to /\ Exists(n)
         /\ results[n].hash = BlockAt(n) /\ results[n].logs = BlockAt(n).logs
    /\ \A n \in args.from .. args.to :
         /\ n \in Nat /\ Exists(n)
         /\ BlockAt(n).logs # {} => n \in DOMAIN results /\ n \in DOMAIN tracker'
         /\ n \in DOMAIN tracker => n \in DOMAIN results
    /\ \A n : n \in forked(results) <=> n \in Stale /\ n \in args.from .. args.to
    /\ \A n \in Stale : n \in Nat /\ n >= args.from
    /\ \A n \in DOMAIN tracker : n \notin args.from .. args.to => n \in DOMAIN tracker'
    /\ \A n \in DOMAIN tracker' :
         \/ n \in DOMAIN results /\ tracker'[n] = results[n]
         \/ /\ n \in DOMAIN tracker /\ n \notin args.from .. args.to
            /\ tracker'[n] = tracker[n]

\* A Poll that finishes has found all that, and has chosen the last good block.
LEMMA PollFinds ==
    ASSUME Setting, Calm, IInv, StepPoll, Finishes(TRUE)
    PROVE  /\ ppc' = "idle" /\ pollResults' = NoBlocks
           /\ tracker' # NoTracker /\ BlockMap(tracker')
           /\ lastRecorded' \in Nat /\ lastRecorded' = ret'.result.lastGood
           /\ \E results :
                /\ Found(results)
                /\ forked(results) = {} => lastRecorded' = args.to
                /\ forked(results) # {} =>
                     \E m \in forked(results) :
                         /\ \A n \in forked(results) : m <= n
                         /\ lastRecorded' \in {m - 1, m}
<1>1. PICK results, missing :
        /\ ResultsOK(results, TRUE) /\ FastOK(results, missing)
        /\ blocksMissing(results) = {}
        /\ FinishPoll(results, missing)
  BY DEF Finishes
<1>2. Polling
  BY PollStepCases
<1>3. /\ doReorg = TRUE /\ filter = Addresses /\ tracker # NoTracker
      /\ BlockMap(tracker) /\ DOMAIN tracker \subseteq Nat
      /\ ArgsOK /\ args.from \in Nat /\ args.to \in Nat
  BY DEF IInv, FieldsOK, Fields, ArgsOK, BlockMap
<1>4. /\ StartBlock <= args.from /\ args.from <= args.to /\ args.to <= BlockNumber
      /\ args.from = StartBlock \/ args.from <= lastRecorded + 1 - FilterRange
  BY <1>2 DEF IInv, RangeOK, Polling, Computing
<1>5. Tracked = DOMAIN tracker
  BY <1>3 DEF Tracked
<1>6. /\ ppc' = "idle" /\ pollResults' = NoBlocks
      /\ ret'.result.good = results
      /\ DOMAIN ret'.result.reorged = forked(results)
      /\ \A n \in forked(results) : ret'.result.reorged[n] = tracker[n]
      /\ ret'.err = IF args.from \in forked(results) THEN "fromBlockReorged" ELSE "none"
      /\ lastRecorded' \in Nat
      /\ lastRecorded' = ret'.result.lastGood
      /\ forked(results) = {} => lastRecorded' = args.to
      /\ forked(results) # {} =>
           \E m \in forked(results) :
               /\ \A n \in forked(results) : m <= n
               /\ lastRecorded' \in {m - 1, m}
  <2>1. args.from # 0
    BY <1>3, <1>4, SettingFacts
  <2> QED
    BY <1>1, <1>3, <2>1, FinishReturns
<1>7. /\ tracker' # NoTracker /\ BlockMap(tracker')
      /\ \A n \in DOMAIN results : results[n].logs # {} => n \in DOMAIN tracker'
      /\ \A n \in DOMAIN tracker : n \notin args.from .. args.to => n \in DOMAIN tracker'
      /\ \A n \in Tracked' :
           \/ n \in DOMAIN results /\ tracker'[n] = results[n]
           \/ n \in Tracked \ (args.from .. args.to) /\ tracker'[n] = tracker[n]
  <2>1. TrackerOK
    BY <1>3 DEF TrackerOK
  <2> QED
    BY <1>1, <1>3, <2>1, FinishTracks
<1>8. Tracked' = DOMAIN tracker'
  BY <1>7 DEF Tracked
<1>9. \A n \in args.from .. args.to : n \in Nat /\ Exists(n) /\ BlockAt(n) \in Blocks
  <2>1. ChainOK /\ BlockNumber \in Nat /\ \A n \in Nat : Exists(n) <=> n <= BlockNumber
    BY ChainBlocks DEF IInv, HeadOK
  <2>2. \A n \in args.from .. args.to : n \in Nat /\ Exists(n)
    BY <1>3, <1>4, <2>1
  <2> QED
    BY <2>1, <2>2, BlockAtOK
<1>10. \A n \in args.from .. args.to : HeaderHash(n) = BlockAt(n) /\ LogsAt(n) = BlockAt(n).logs
  <2>1. \A n \in args.from .. args.to : BlockAt(n).logs \cap Addresses = BlockAt(n).logs
    BY <1>9 DEF Blocks
  <2> QED
    BY <1>3, <1>9, <2>1 DEF HeaderHash, LogsAt
<1>11. \A n \in DOMAIN results :
         /\ n \in args.from .. args.to /\ Exists(n)
         /\ results[n].hash = BlockAt(n) /\ results[n].logs = BlockAt(n).logs
  BY <1>1, <1>9, <1>10 DEF ResultsOK, Canonical
<1>12. \A n \in args.from .. args.to :
         /\ BlockAt(n).logs # {} => n \in DOMAIN results /\ n \in DOMAIN tracker'
         /\ n \in DOMAIN tracker => n \in DOMAIN results
  <2> SUFFICES ASSUME NEW n \in args.from .. args.to
               PROVE  /\ BlockAt(n).logs # {} => n \in DOMAIN results /\ n \in DOMAIN tracker'
                      /\ n \in DOMAIN tracker => n \in DOMAIN results
    OBVIOUS
  <2>1. ASSUME BlockAt(n).logs # {}
        PROVE  n \in DOMAIN results
    <3>1. Exists(n) /\ BlockAt(n).logs \cap filter # {}
      BY <1>3, <1>9, <2>1 DEF Blocks
    <3>2. n \in BlocksWithLogs(args.from, args.to, filter)
      BY <3>1 DEF BlocksWithLogs
    <3> QED
      BY <1>1, <3>2 DEF ResultsOK
  <2>2. n \in DOMAIN tracker => n \in DOMAIN results
    BY <1>1, <1>5 DEF blocksMissing
  <2> QED
    BY <1>7, <1>11, <2>1, <2>2
<1>13. ASSUME NEW n
       PROVE  n \in forked(results) <=> n \in Stale /\ n \in args.from .. args.to
  <2>1. CASE n \in DOMAIN tracker /\ n \in DOMAIN results /\ tracker[n].hash = BlockAt(n)
    <3>1. tracker[n].logs = BlockAt(n).logs
      BY <2>1 DEF IInv, ViewOK, TrackerLive
    <3> QED
      BY <1>11, <2>1, <3>1 DEF forked, Stale, Exact
  <2>2. CASE n \in DOMAIN tracker /\ n \in DOMAIN results /\ tracker[n].hash # BlockAt(n)
    BY <1>5, <1>11, <2>2 DEF forked, Stale, Exact
  <2>3. CASE ~(n \in DOMAIN tracker /\ n \in DOMAIN results)
    BY <1>5, <1>12, <2>3 DEF forked, Stale
  <2> QED
    BY <2>1, <2>2, <2>3
<1>14. \A n \in Stale : n \in Nat /\ n >= args.from
  <2>1. \A n \in Stale : n \in Nat /\ n > lastRecorded - FilterRange /\ n > StartBlock
    BY <1>3 DEF IInv, ViewOK, StaleRecent, Stale
  <2>2. lastRecorded \in Nat
    BY DEF IInv, RecordOK
  <2> QED
    BY <1>3, <1>4, <2>1, <2>2, SettingFacts
<1>15. Found(results)
  <2>1. \A n \in DOMAIN tracker' :
          \/ n \in DOMAIN results /\ tracker'[n] = results[n]
          \/ /\ n \in DOMAIN tracker /\ n \notin args.from .. args.to
             /\ tracker'[n] = tracker[n]
    BY <1>5, <1>7, <1>8
  <2> QED
    BY <1>6, <1>7, <1>9, <1>11, <1>12, <1>13, <1>14, <2>1 DEF Found
<1> QED
  BY <1>6, <1>7, <1>15

\* What the service will hold after a Poll that finishes: the chain's blocks it has found
\* and all that it held but the replaced blocks of the range.
LEMMA PollHeld ==
    ASSUME Setting, Calm, IInv, StepPoll, ppc' = "idle", NEW results, Found(results)
    PROVE  /\ Held = Alive /\ Alive' = Alive /\ Known = DOMAIN ledger
           /\ Lost' = Lost
           /\ Known' = DOMAIN ledger \cup HashesOf(results)
           /\ \A n \in DOMAIN results : results[n].hash \in Held'
           /\ \A h \in Alive :
                \/ h \in Held'
                \/ \E m \in forked(results) : h = tracker[m].hash /\ h.number = m
           /\ \A m \in forked(results) :
                /\ tracker[m].hash \notin Held' /\ tracker[m].hash \in Alive
                /\ tracker[m].hash.number = m
           /\ \A h \in Held' : h \in Alive \/ \E n \in DOMAIN results : h = results[n].hash
<1>1. /\ UNCHANGED <<epc, npc, ledger, meta>>
      /\ UNCHANGED <<chain, tallest, reorgs, abandoned>>
      /\ Polling
  BY PollStepCases
<1>2. epc = "poll" /\ ppc # "idle" /\ ret.result.good = NoBlocks
  BY <1>1, NoBlocksOK DEF Polling, IInv, RangeOK
<1>3. Reverting = {} /\ HashesOf(ret.result.good) = {}
  BY <1>2, NoBlocksOK DEF Reverting
<1>4. Held = Alive /\ Known = DOMAIN ledger
  BY <1>3 DEF Held, Known, Alive
<1>5. Alive' = Alive /\ Lost' = Lost
  BY <1>1 DEF Alive, Lost
<1>6. /\ HashesOf(ret.result.good)' = HashesOf(results)
      /\ Reverting' = { tracker[n].hash : n \in forked(results) }
  <2>1. ret'.result.good = results
    BY DEF Found
  <2>2. HashesOf(ret.result.good)' = HashesOf(results)
    BY <2>1 DEF HashesOf
  <2>3. Reverting' = HashesOf(ret.result.reorged)'
    BY <1>1, <1>2 DEF Reverting
  <2>4. HashesOf(ret.result.reorged)' = { tracker[n].hash : n \in forked(results) }
    BY DEF HashesOf, Found
  <2> QED
    BY <2>2, <2>3, <2>4
<1>7. /\ Known' = DOMAIN ledger \cup HashesOf(results)
      /\ Held' = (Alive \cup (HashesOf(results) \ DOMAIN ledger)) \ Reverting'
  BY <1>1, <1>5, <1>6 DEF Known, Held
<1>8. \A n \in DOMAIN tracker : tracker[n].hash.number = n /\ tracker[n].hash \in Alive
  BY <1>4 DEF IInv, ViewOK, TrackerLive
<1>9. forked(results) \subseteq DOMAIN tracker
  BY DEF Found, Stale
<1>10. ASSUME NEW n \in DOMAIN results
       PROVE  results[n].hash \in Held'
  <2>1. n \in Nat /\ Exists(n) /\ results[n].hash = BlockAt(n)
    BY DEF Found
  <2>2. /\ BlockAt(n).number = n
        /\ n + 1 \in 1 .. Len(chain) /\ chain[n + 1] = BlockAt(n)
    BY <2>1, ChainBlocks DEF IInv, HeadOK
  <2>3. BlockAt(n) \in DOMAIN ledger => BlockAt(n) \in Alive
    BY <1>4, <2>2 DEF IInv, ViewOK, Gone
  <2>4. ASSUME NEW m \in forked(results), tracker[m].hash = BlockAt(n)
        PROVE  FALSE
    <3>1. m = n
      BY <1>8, <1>9, <2>2, <2>4
    <3> QED
      BY <2>1, <2>4, <3>1 DEF Found, Stale, Exact
  <2>5. BlockAt(n) \notin Reverting'
    BY <1>6, <2>4
  <2>6. BlockAt(n) \in HashesOf(results)
    BY <2>1 DEF HashesOf
  <2> QED
    BY <1>7, <2>1, <2>3, <2>5, <2>6
<1>11. \A h \in Alive :
         h \in Held' \/ \E m \in forked(results) : h = tracker[m].hash /\ h.number = m
  BY <1>6, <1>7, <1>8, <1>9
<1>12. \A m \in forked(results) :
         /\ tracker[m].hash \notin Held' /\ tracker[m].hash \in Alive
         /\ tracker[m].hash.number = m
  BY <1>6, <1>7, <1>8, <1>9
<1>13. \A h \in Held' : h \in Alive \/ \E n \in DOMAIN results : h = results[n].hash
  BY <1>7 DEF HashesOf
<1> QED
  BY <1>4, <1>5, <1>7, <1>10, <1>11, <1>12, <1>13

\* The view after a Poll that finishes
LEMMA PollView ==
    ASSUME Setting, Calm, IInv, StepPoll, ppc' = "idle", NEW results, Found(results),
           lastRecorded' \in Nat, lastRecorded' <= args.to
    PROVE  /\ ViewOK'
           /\ \A n \in Stale' : n \in Stale /\ n > args.to
<1>1. /\ UNCHANGED <<epc, npc, ledger, meta, args, calm>>
      /\ UNCHANGED <<chain, tallest, reorgs, abandoned>>
      /\ Polling
  BY PollStepCases
<1>2. \A n : Exists(n)' = Exists(n) /\ BlockAt(n)' = BlockAt(n)
  BY <1>1, SameChain
<1>3. /\ args.from \in Nat /\ args.to \in Nat /\ DOMAIN tracker \subseteq Nat
      /\ StartBlock <= args.from /\ args.from <= args.to
      /\ args.from = StartBlock \/ args.from <= lastRecorded + 1 - FilterRange
  BY <1>1 DEF IInv, RangeOK, Polling, Computing, FieldsOK, Fields, ArgsOK, BlockMap
<1>4. /\ Held = Alive /\ Alive' = Alive /\ Known = DOMAIN ledger
      /\ Known' = DOMAIN ledger \cup HashesOf(results)
      /\ \A n \in DOMAIN results : results[n].hash \in Held'
      /\ \A h \in Alive :
           \/ h \in Held'
           \/ \E m \in forked(results) : h = tracker[m].hash /\ h.number = m
      /\ \A m \in forked(results) :
           /\ tracker[m].hash \notin Held' /\ tracker[m].hash \in Alive
           /\ tracker[m].hash.number = m
      /\ \A h \in Held' : h \in Alive \/ \E n \in DOMAIN results : h = results[n].hash
  BY PollHeld
<1>5. \A n \in DOMAIN results :
        /\ n \in args.from .. args.to /\ n \in Nat /\ Exists(n)
        /\ results[n].hash = BlockAt(n) /\ results[n].logs = BlockAt(n).logs
        /\ BlockAt(n) \in Blocks /\ BlockAt(n).number = n
  BY ChainBlocks DEF IInv, HeadOK, Found
<1>6. /\ \A n \in args.from .. args.to :
           /\ n \in Nat /\ Exists(n)
           /\ BlockAt(n).logs # {} => n \in DOMAIN results /\ n \in DOMAIN tracker'
           /\ n \in DOMAIN tracker => n \in DOMAIN results
      /\ \A n : n \in forked(results) <=> n \in Stale /\ n \in args.from .. args.to
      /\ \A n \in Stale : n \in Nat /\ n >= args.from
      /\ \A n \in DOMAIN tracker : n \notin args.from .. args.to => n \in DOMAIN tracker'
  BY DEF Found
<1>7. \A n \in DOMAIN tracker' :
        \/ n \in DOMAIN results /\ tracker'[n] = results[n]
        \/ /\ n \in DOMAIN tracker /\ n \notin args.from .. args.to
           /\ tracker'[n] = tracker[n]
  BY DEF Found
<1>8. \A n \in DOMAIN tracker :
        /\ n >= StartBlock
        /\ tracker[n].hash.number = n
        /\ tracker[n].logs = tracker[n].hash.logs
        /\ tracker[n].hash \in Alive
  BY <1>4 DEF IInv, ViewOK, TrackerLive
<1>9. ASSUME NEW n \in Stale'
      PROVE  n \in Stale /\ n > args.to /\ tracker'[n] = tracker[n]
  <2>1. n \in DOMAIN tracker' /\ ~(Exists(n) /\ tracker'[n].hash = BlockAt(n))
    BY <1>2 DEF Stale, Exact
  <2>2. n \in DOMAIN tracker /\ n \notin args.from .. args.to /\ tracker'[n] = tracker[n]
    BY <1>5, <1>7, <2>1
  <2>3. n \in Stale
    BY <2>1, <2>2 DEF Stale, Exact
  <2>4. n \in Nat /\ n >= args.from
    BY <1>6, <2>3
  <2> QED
    BY <1>3, <2>2, <2>3, <2>4
<1>10. KnownOK'
  <2>1. \A h \in DOMAIN ledger : h \in Blocks /\ h.number >= StartBlock
    BY <1>4 DEF IInv, ViewOK, KnownOK
  <2>2. \A n \in DOMAIN results : results[n].hash \in Blocks /\ results[n].hash.number >= StartBlock
    <3>1. \A n \in args.from .. args.to : n >= StartBlock
      BY <1>3, SettingFacts
    <3> QED
      BY <1>5, <3>1
  <2> QED
    BY <1>4, <2>1, <2>2 DEF KnownOK, HashesOf
<1>11. TrackerLive'
  <2> SUFFICES ASSUME NEW n \in DOMAIN tracker'
               PROVE  /\ n >= StartBlock
                      /\ tracker'[n].hash.number = n
                      /\ tracker'[n].logs = tracker'[n].hash.logs
                      /\ tracker'[n].hash \in Held'
    BY DEF TrackerLive
  <2>1. CASE n \in DOMAIN results /\ tracker'[n] = results[n]
    <3>1. \A m \in args.from .. args.to : m >= StartBlock
      BY <1>3, SettingFacts
    <3> QED
      BY <1>4, <1>5, <2>1, <3>1
  <2>2. CASE n \in DOMAIN tracker /\ n \notin args.from .. args.to /\ tracker'[n] = tracker[n]
    <3>1. n \notin forked(results)
      BY <1>6, <2>2
    <3>2. tracker[n].hash \in Held'
      BY <1>4, <1>8, <2>2, <3>1
    <3> QED
      BY <1>8, <2>2, <3>2
  <2> QED
    BY <1>7, <2>1, <2>2
<1>12. StaleRecent'
  <2> SUFFICES ASSUME NEW n \in Stale'
               PROVE  /\ tracker'[n].hash.fork < reorgs
                      /\ n > lastRecorded' - FilterRange
                      /\ n > StartBlock
    BY <1>1 DEF StaleRecent
  <2>1. n \in Stale /\ n > args.to /\ tracker'[n] = tracker[n] /\ n \in Nat
    BY <1>6, <1>9
  <2>2. tracker[n].hash.fork < reorgs /\ n > StartBlock
    BY <2>1 DEF IInv, ViewOK, StaleRecent
  <2>3. n > lastRecorded' - FilterRange
    BY <1>3, <2>1, SettingFacts
  <2> QED
    BY <2>1, <2>2, <2>3
<1>13. LiveKnown'
  <2> SUFFICES ASSUME NEW h \in Held', h.logs # {}
               PROVE  \/ h.number \in DOMAIN tracker' /\ tracker'[h.number].hash = h
                      \/ /\ h.number \notin DOMAIN tracker'
                         /\ h.number <= tallest - FilterRange
                         /\ Exists(h.number) /\ BlockAt(h.number) = h
    BY <1>1, <1>2 DEF LiveKnown
  <2>1. CASE \E n \in DOMAIN results : h = results[n].hash
    <3>1. PICK n \in DOMAIN results : h = results[n].hash
      BY <2>1
    <3>2. n = h.number /\ n \in args.from .. args.to /\ h = BlockAt(n)
      BY <1>5, <3>1
    <3>3. n \in DOMAIN tracker'
      BY <1>6, <3>2
    <3>4. tracker'[n] = results[n]
      BY <1>7, <3>2, <3>3
    <3> QED
      BY <3>1, <3>2, <3>3, <3>4
  <2>2. CASE h \in Alive /\ h.number \in DOMAIN tracker /\ tracker[h.number].hash = h
    <3> DEFINE n == h.number
    <3>1. n \notin forked(results)
      BY <1>4, <2>2
    <3>2. CASE n \in args.from .. args.to
      <4>1. n \notin Stale
        BY <1>6, <3>1, <3>2
      <4>2. h = BlockAt(n)
        BY <2>2, <4>1 DEF Stale, Exact
      <4>3. n \in DOMAIN tracker' /\ n \in DOMAIN results
        BY <1>6, <3>2, <4>2
      <4>4. tracker'[n] = results[n] /\ results[n].hash = BlockAt(n)
        BY <1>5, <1>7, <3>2, <4>3
      <4> QED
        BY <4>2, <4>3, <4>4
    <3>3. CASE n \notin args.from .. args.to
      <4>1. n \in DOMAIN tracker'
        BY <1>6, <2>2, <3>3
      <4>2. tracker'[n] = tracker[n]
        BY <1>5, <1>7, <3>3, <4>1
      <4> QED
        BY <2>2, <4>1, <4>2
    <3> QED
      BY <3>2, <3>3
  <2>3. CASE /\ h \in Alive
             /\ h.number \notin DOMAIN tracker
             /\ h.number <= tallest - FilterRange
             /\ Exists(h.number) /\ BlockAt(h.number) = h
    BY <1>5, <1>7, <2>3
  <2>4. h \in Alive => \/ h.number \in DOMAIN tracker /\ tracker[h.number].hash = h
                       \/ /\ h.number \notin DOMAIN tracker
                          /\ h.number <= tallest - FilterRange
                          /\ Exists(h.number) /\ BlockAt(h.number) = h
    BY <1>4 DEF IInv, ViewOK, LiveKnown
  <2> QED
    BY <1>4, <2>1, <2>2, <2>3, <2>4
<1>14. Gone'
  <2> SUFFICES ASSUME NEW h \in Known', h \notin Held'
               PROVE  h.fork < reorgs /\ \A i \in 1 .. Len(chain) : chain[i] # h
    BY <1>1 DEF Gone
  <2>1. h \in DOMAIN ledger
    BY <1>4 DEF HashesOf
  <2>2. CASE h \notin Alive
    BY <1>4, <2>1, <2>2 DEF IInv, ViewOK, Gone
  <2>3. CASE h \in Alive
    <3>1. PICK m \in forked(results) : h = tracker[m].hash /\ h.number = m
      BY <1>4, <2>3
    <3>2. m \in Stale /\ m \in args.from .. args.to
      BY <1>6
    <3>3. h # BlockAt(m) /\ m \in Nat
      BY <1>6, <3>1, <3>2 DEF Stale, Exact
    <3>4. h.fork < reorgs
      BY <3>1, <3>2 DEF IInv, ViewOK, StaleRecent
    <3>5. ASSUME NEW i \in 1 .. Len(chain), chain[i] = h
          PROVE  FALSE
      <4>1. i - 1 \in Nat /\ Exists(i - 1) /\ BlockAt(i - 1) = chain[i]
        BY ChainBlocks DEF IInv, HeadOK
      <4>2. BlockAt(i - 1).number = i - 1
        BY <4>1, ChainBlocks DEF IInv, HeadOK
      <4> QED
        BY <3>1, <3>3, <3>5, <4>1, <4>2
    <3> QED
      BY <3>4, <3>5
  <2> QED
    BY <2>2, <2>3
<1>15. Complete'
  <2> SUFFICES ASSUME NEW n \in StartBlock .. lastRecorded', Exists(n), BlockAt(n).logs # {}
               PROVE  BlockAt(n) \in Held'
    BY <1>1, <1>2 DEF Complete
  <2>0. n \in Nat /\ StartBlock \in Nat
    BY SettingFacts
  <2>1. CASE n >= args.from
    <3>1. n \in args.from .. args.to
      BY <1>3, <2>0, <2>1
    <3> QED
      BY <1>4, <1>5, <1>6, <3>1
  <2>2. CASE ~(n >= args.from)
    <3>0. lastRecorded \in Nat
      BY DEF IInv, RecordOK
    <3>1. n \in StartBlock .. lastRecorded /\ n <= lastRecorded - FilterRange
      BY <1>3, <2>0, <2>2, <3>0, SettingFacts
    <3>2. BlockAt(n) \in Alive
      BY <1>4, <3>1 DEF IInv, ViewOK, Complete
    <3>3. BlockAt(n).number = n
      BY <2>0, ChainBlocks DEF IInv, HeadOK
    <3>4. n \notin args.from .. args.to
      BY <1>3, <2>0, <2>2
    <3> QED
      BY <1>4, <1>6, <3>2, <3>3, <3>4
  <2> QED
    BY <2>1, <2>2
<1>16. CalmExact'
  BY <1>1, <1>9 DEF CalmExact
<1> QED
  BY <1>9, <1>10, <1>11, <1>12, <1>13, <1>14, <1>15, <1>16 DEF ViewOK

\* Poll finishes, and what it found is about to be emitted.
LEMMA PollEnds ==
    ASSUME Setting, Calm, IInv, StepPoll, Finishes(TRUE)
    PROVE  IInv'
<1>1. /\ UNCHANGED <<gateway, epc, status, call, npc, result, todo, batch, meta, ledger>>
      /\ UNCHANGED <<chain, tallest, reorgs, abandoned, calm, args, doReorg, policy, filter>>
      /\ Polling /\ ~Computing /\ ~Polled /\ ~Handling
  BY PollStepCases
<1>2. /\ ppc' = "idle" /\ pollResults' = NoBlocks
      /\ tracker' # NoTracker /\ BlockMap(tracker')
      /\ lastRecorded' \in Nat /\ lastRecorded' = ret'.result.lastGood
  BY PollFinds
<1>3. PICK results :
        /\ Found(results)
        /\ forked(results) = {} => lastRecorded' = args.to
        /\ forked(results) # {} =>
             \E m \in forked(results) :
                 /\ \A n \in forked(results) : m <= n
                 /\ lastRecorded' \in {m - 1, m}
  BY PollFinds
<1>4. /\ args.from \in Nat /\ args.to \in Nat
      /\ StartBlock <= args.from /\ args.from <= args.to /\ args.to <= BlockNumber
      /\ call = args /\ calm = TRUE
  BY <1>1 DEF IInv, RangeOK, FieldsOK, Fields, ArgsOK
<1>5. /\ \A n : n \in forked(results) <=> n \in Stale /\ n \in args.from .. args.to
      /\ \A n \in Stale : n \in Nat /\ n > StartBlock
      /\ ret'.err = IF args.from \in forked(results) THEN "fromBlockReorged" ELSE "none"
  BY <1>3 DEF Found, IInv, ViewOK, StaleRecent
<1>6. /\ StartBlock <= lastRecorded' /\ lastRecorded' <= args.to
      /\ args.from \in forked(results) => lastRecorded' \in {args.from - 1, args.from}
  <2>1. CASE forked(results) = {}
    BY <1>3, <1>4, <2>1, SettingFacts
  <2>2. CASE forked(results) # {}
    <3>1. PICK m \in forked(results) :
            /\ \A n \in forked(results) : m <= n
            /\ lastRecorded' \in {m - 1, m}
      BY <1>3, <2>2
    <3>2. m \in Nat /\ m > StartBlock /\ m >= args.from /\ m <= args.to
      BY <1>4, <1>5
    <3>3. args.from \in forked(results) => m = args.from
      BY <1>4, <3>1, <3>2
    <3> QED
      BY <1>4, <3>1, <3>2, <3>3, SettingFacts
  <2> QED
    BY <2>1, <2>2
<1>7. /\ ViewOK'
      /\ \A n \in Stale' : n \in Stale /\ n > args.to
  BY <1>2, <1>3, <1>6, PollView
<1>8. Polled' /\ ~Computing' /\ ~Polling' /\ ~Handling'
  BY <1>1, <1>2 DEF Computing, Polling, Polled, Handling
<1>9. HeadOK' /\ BlockNumber' = BlockNumber
  BY <1>1, HeadStays, SameChain DEF IInv, chainVars
<1>10. FieldsOK'
  <2>1. FetchedOK' /\ StillFetch'
    BY <1>2, NoBlocksOK DEF FetchedOK, StillFetch
  <2> QED
    BY <1>1, <1>2, <2>1 DEF IInv, FieldsOK, Fields, ArgsOK, GatewayTypeOK
<1>11. RecordOK'
  <2>1. BlockNumber \in Nat /\ BlockNumber <= tallest /\ tallest \in Nat
    BY ChainBlocks DEF IInv, HeadOK
  <2>2. lastRecorded' <= tallest
    BY <1>2, <1>4, <1>6, <2>1
  <2> QED
    BY <1>1, <1>2, <1>6, <1>8, <2>2 DEF RecordOK, Polling
<1>12. RangeOK'
  BY <1>1, <1>4, <1>8, <1>9 DEF RangeOK
<1>13. StatusOK' /\ GoBackOK'
  <2>1. ret'.err = "fromBlockReorged" =>
          lastRecorded' \in {args.from - 1, args.from} /\ ~status.isReorging
    BY <1>1, <1>5, <1>6 DEF IInv, StatusOK
  <2> QED
    BY <1>1, <1>8, <2>1 DEF IInv, StatusOK, GoBackOK, GoingBack, Polling
<1>14. /\ Alive' = Alive /\ Lost' = Lost
       /\ \A m \in forked(results) :
            /\ tracker[m].hash \notin Held' /\ tracker[m].hash \in Alive
            /\ tracker[m].hash.number = m
  BY <1>2, <1>3, PollHeld
<1>15. ResultOK'
  <2>1. /\ ret'.err \in {"none", "fromBlockReorged"}
        /\ DOMAIN ret'.result.good = DOMAIN results /\ ret'.result.good = results
        /\ DOMAIN ret'.result.reorged = forked(results)
        /\ \A n \in forked(results) : ret'.result.reorged[n] = tracker[n]
    BY <1>3 DEF Found
  <2>2. \A n : BlockAt(n)' = BlockAt(n)
    BY <1>1, SameChain
  <2>3. \A n \in DOMAIN results :
          /\ n \in args.from .. args.to
          /\ results[n].hash = BlockAt(n) /\ results[n].logs = BlockAt(n).logs
    BY <1>3 DEF Found
  <2>4. ASSUME NEW n \in forked(results)
        PROVE  n \in DOMAIN results /\ tracker[n].hash # BlockAt(n)
    BY <1>3 DEF Found, Stale, Exact
  <2>5. \A h \in Alive : h \in DOMAIN ledger
    BY DEF Alive
  <2> QED
    BY <1>1, <1>8, <1>14, <2>1, <2>2, <2>3, <2>4, <2>5 DEF ResultOK
<1>16. EngineOK'
  BY <1>1, <1>14
     DEF IInv, EngineOK, LedgerOK, MetaOK, LoopOK, OneAlive, StateOK, Polling
<1>17. LostOK'
  <2> SUFFICES ASSUME NEW h \in Lost
               PROVE  /\ h.number <= tallest - 2 * FilterRange
                      /\ h.number <= lastRecorded' - FilterRange
                      /\ \A n \in Stale' : h.number + FilterRange < n
                      /\ h.number < args.from
                      /\ ret'.err = "fromBlockReorged" => h.number < args.from - FilterRange
    BY <1>1, <1>8, <1>14 DEF LostOK
  <2>1. /\ h.number <= tallest - 2 * FilterRange
        /\ \A n \in Stale : h.number + FilterRange < n
        /\ h.number < args.from
        /\ h.number <= args.to - FilterRange
    BY <1>1 DEF IInv, LostOK, Polling
  <2>2. h.number \in Nat /\ FilterRange \in Nat
    BY KnownNumbers, SettingFacts
  <2>3. h.number <= lastRecorded' - FilterRange
    <3>1. CASE forked(results) = {}
      BY <1>3, <2>1, <3>1
    <3>2. CASE forked(results) # {}
      <4>1. PICK m \in forked(results) : lastRecorded' \in {m - 1, m}
        BY <1>3, <3>2
      <4>2. m \in Nat /\ h.number + FilterRange < m
        BY <1>5, <2>1
      <4> QED
        BY <2>2, <4>1, <4>2
    <3> QED
      BY <3>1, <3>2
  <2>4. ret'.err = "fromBlockReorged" => h.number < args.from - FilterRange
    <3> SUFFICES ASSUME ret'.err = "fromBlockReorged"
                 PROVE  h.number < args.from - FilterRange
      OBVIOUS
    <3>1. args.from \in Stale
      BY <1>5
    <3>2. h.number + FilterRange < args.from
      BY <2>1, <3>1
    <3> QED
      BY <1>4, <2>2, <3>2
  <2> QED
    BY <1>7, <2>1, <2>3, <2>4
<1> QED
  BY <1>7, <1>8, <1>9, <1>10, <1>11, <1>12, <1>13, <1>15, <1>16, <1>17 DEF IInv, PhaseOK

\* A step of Poll
LEMMA StepPollOK ==
    ASSUME Setting, Calm, IInv, StepPoll
    PROVE  IInv'
BY PollStepCases, PollGoesOn, PollEnds

-----------------------------------------------------------------------------
(* The result is handed over *)

\* Who is at work when the engine has a result, and when Poll has returned
LEMMA HandlingOnly ==
    ASSUME PhaseOK
    PROVE  /\ npc # "receive" => Handling /\ ~Computing /\ ~Polling /\ ~Polled
           /\ epc = "poll" /\ ppc = "idle" => Polled /\ ~Computing /\ ~Polling /\ ~Handling
           /\ epc \in {"emit", "emitReorging"} => Handling /\ ~Computing /\ ~Polling /\ ~Polled
BY DEF PhaseOK, Computing, Polling, Polled, Handling

\* The engine takes the result.  After a reorg of the first block of the range the
\* emitter is to go back.
LEMMA EmitResultOK ==
    ASSUME Setting, Calm, IInv, EmitResult
    PROVE  IInv'
<1>1. /\ epc = "poll" /\ ppc = "idle"
      /\ \/ ret.err = "none" /\ PollGood
         \/ ret.err = "fromBlockReorged" /\ PollReorging(doReorg)
      /\ ReceiveResult(ret.result)
      /\ UNCHANGED <<gateway, chain, tallest, reorgs, abandoned, calm>>
      /\ UNCHANGED <<ppc, args, pollResults, headers, tracker, doReorg, policy, filter,
                     lastRecorded, ret>>
  BY DEF EmitResult, PollReturned, chainVars, pollerVars
<1>2. /\ npc = "receive" /\ npc' = "seeReorged" /\ result' = ret.result
      /\ todo' = DOMAIN ret.result.reorged /\ batch' = {} /\ UNCHANGED <<meta, ledger>>
  BY <1>1 DEF ReceiveResult
<1>3. Polled /\ ~Computing /\ ~Polling /\ ~Handling
  BY <1>1, HandlingOnly DEF IInv
<1>4. /\ doReorg = TRUE /\ call = args /\ calm = TRUE
      /\ args.from \in Nat /\ args.to \in Nat
      /\ StartBlock <= args.from /\ args.from <= args.to /\ args.to <= BlockNumber
      /\ call \in [from : Nat, to : Nat]
      /\ status \in [from : Nat, to : Nat, goBack : BOOLEAN, isReorging : BOOLEAN, retries : Nat]
      /\ status.goBack = FALSE
      /\ status.retries = IF status.isReorging THEN 1 ELSE 0
  BY <1>3 DEF IInv, FieldsOK, Fields, RangeOK, ArgsOK, StatusOK
<1>5. UNCHANGED call /\ epc' \in {"emit", "emitReorging"}
  BY <1>1 DEF PollGood, PollReorging
<1>6. \/ epc' = "emit" /\ status' = status
      \/ /\ epc' = "emitReorging" /\ ret.err = "fromBlockReorged"
         /\ status' = [from |-> args.from, to |-> args.to, goBack |-> FALSE,
                       isReorging |-> TRUE, retries |-> 1]
         /\ lastRecorded \in {args.from - 1, args.from}
  <2>1. CASE ret.err = "none" /\ PollGood
    BY <2>1 DEF PollGood
  <2>2. CASE ret.err = "fromBlockReorged" /\ PollReorging(doReorg)
    <3>1. lastRecorded \in {args.from - 1, args.from} /\ ~status.isReorging
      BY <1>3, <2>2 DEF IInv, StatusOK
    <3>2. status.retries + 1 = 1
      BY <1>4, <3>1
    <3> QED
      BY <1>4, <2>2, <3>1, <3>2 DEF PollReorging, updateStatus
  <2> QED
    BY <1>1, <2>1, <2>2
<1>7. Handling' /\ ~Computing' /\ ~Polling' /\ ~Polled'
  BY <1>1, <1>2, <1>5 DEF Computing, Polling, Polled, Handling
<1>8. Known' = Known /\ Held' = Held /\ Alive' = Alive /\ Lost' = Lost
  <2>1. Reverting' = Reverting
    BY <1>1, <1>2 DEF Reverting
  <2> QED
    BY <1>1, <1>2, <2>1 DEF Known, Held, Alive, Lost
<1>9. ViewOK' /\ Stale' = Stale
  BY <1>1, <1>8, SameView DEF IInv
<1>10. HeadOK' /\ BlockNumber' = BlockNumber
  BY <1>1, HeadStays, SameChain DEF IInv, chainVars
<1>11. FieldsOK'
  <2>1. status' \in [from : Nat, to : Nat, goBack : BOOLEAN, isReorging : BOOLEAN, retries : Nat]
    <3>1. CASE status' = status
      BY <1>4, <3>1
    <3>2. CASE status' = [from |-> args.from, to |-> args.to, goBack |-> FALSE,
                          isReorging |-> TRUE, retries |-> 1]
      <4>1. args.from \in Nat /\ args.to \in Nat
        BY <1>4
      <4> QED
        BY <3>2, <4>1
    <3> QED
      BY <1>6, <3>1, <3>2
  <2> QED
    BY <1>1, <1>5, <2>1
       DEF IInv, FieldsOK, Fields, ArgsOK, FetchedOK, StillFetch, BlockMap, GatewayTypeOK
<1>12. RecordOK'
  BY <1>1, <1>2, <1>3, <1>7 DEF IInv, RecordOK
<1>13. RangeOK'
  BY <1>1, <1>4, <1>5, <1>7, <1>10 DEF RangeOK
<1>14. StatusOK'
  BY <1>4, <1>6, <1>7 DEF StatusOK
<1>15. GoBackOK'
  <2> SUFFICES ASSUME GoingBack'
               PROVE  /\ lastRecorded \in {status'.from - 1, status'.from}
                      /\ StartBlock <= status'.from /\ status'.from <= status'.to
                      /\ status'.from <= tallest
                      /\ \A n \in Stale : n > status'.from - FilterRange
                      /\ \A h \in Lost : h.number < status'.from - FilterRange
    BY <1>1, <1>8, <1>9 DEF GoBackOK
  <2>1. /\ ret.err = "fromBlockReorged" /\ status'.from = args.from /\ status'.to = args.to
        /\ lastRecorded \in {args.from - 1, args.from}
    BY <1>6 DEF GoingBack
  <2>2. args.from <= tallest
    <3>1. BlockNumber \in Nat /\ BlockNumber <= tallest /\ tallest \in Nat
      BY ChainBlocks DEF IInv, HeadOK
    <3> QED
      BY <1>4, <3>1
  <2>3. \A n \in Stale : n > args.from - FilterRange
    <3>1. \A n \in Stale : n \in Nat /\ n > args.to
      BY <1>1, <1>4 DEF IInv, ViewOK, CalmExact, FieldsOK, Fields, BlockMap, Stale
    <3> QED
      BY <1>4, <3>1, SettingFacts
  <2>4. \A h \in Lost : h.number < args.from - FilterRange
    BY <1>3, <2>1 DEF IInv, LostOK
  <2> QED
    BY <1>4, <2>1, <2>2, <2>3, <2>4
<1>16. ResultOK'
  <2>1. \A n : BlockAt(n)' = BlockAt(n)
    BY <1>1, SameChain
  <2> QED
    BY <1>1, <1>2, <1>3, <1>7, <1>8, <2>1 DEF IInv, ResultOK
<1>17. EngineOK'
  <2>1. LedgerOK' /\ OneAlive'
    BY <1>2, <1>8 DEF IInv, EngineOK, LedgerOK, OneAlive
  <2>2. MetaOK'
    BY <1>2, <1>8 DEF IInv, EngineOK, MetaOK, StateOK
  <2>3. LoopOK'
    BY <1>2, <1>5 DEF LoopOK
  <2> QED
    BY <2>1, <2>2, <2>3 DEF EngineOK
<1>18. LostOK'
  BY <1>1, <1>7, <1>8, <1>9 DEF IInv, LostOK
<1> QED
  BY <1>7, <1>9, <1>10, <1>11, <1>12, <1>13, <1>14, <1>15, <1>16, <1>17, <1>18
     DEF IInv, PhaseOK

-----------------------------------------------------------------------------
(* The engine handles the result *)

\* What the engine's steps have in common: emitter, poller and chain stand still, the
\* service will hold the same, and what the engine forgets is old.
LEMMA HandleFrame ==
    ASSUME Setting, Calm, IInv, npc # "receive",
           UNCHANGED <<gateway, epc, status, call, ppc, args, pollResults, headers, tracker,
                       doReorg, policy, filter, lastRecorded, ret, calm, result>>,
           UNCHANGED <<chain, tallest, reorgs, abandoned>>,
           npc' \in {"seeReorged", "seeGood", "record"},
           npc' # "record" => npc \in {"seeReorged", "seeGood"} /\ Lost' \subseteq Lost,
           npc' = "seeReorged" => npc = "seeReorged" /\ Alive' = Alive,
           DOMAIN ledger \subseteq DOMAIN ledger',
           Known' = Known, Held' = Held, EngineOK',
           \A h \in Lost' : h \in Lost \/ h.number <= lastRecorded - 2 * FilterRange
    PROVE  IInv'
<1>1. Handling /\ ~Computing /\ ~Polling /\ ~Polled
  BY HandlingOnly DEF IInv
<1>2. Handling' /\ ~Computing' /\ ~Polling' /\ ~Polled'
  BY <1>1 DEF Computing, Polling, Polled, Handling
<1>3. ViewOK' /\ Stale' = Stale
  BY SameView DEF IInv
<1>4. HeadOK' /\ BlockNumber' = BlockNumber
  BY HeadStays, SameChain DEF IInv, chainVars
<1>5. FieldsOK'
  BY <1>1
     DEF IInv, FieldsOK, Fields, Handling, ArgsOK, FetchedOK, StillFetch, BlockMap, GatewayTypeOK
<1>6. RecordOK'
  BY <1>1, <1>2 DEF IInv, RecordOK
<1>7. RangeOK' /\ StatusOK'
  BY <1>1, <1>2, <1>3, <1>4 DEF IInv, RangeOK, StatusOK
<1>8. ResultOK'
  <2>1. \A n : BlockAt(n)' = BlockAt(n)
    BY SameChain
  <2> QED
    BY <1>1, <1>2, <2>1 DEF IInv, ResultOK
<1>9. /\ lastRecorded \in Nat /\ tallest \in Nat /\ lastRecorded <= tallest
      /\ lastRecorded <= args.to /\ args.to \in Nat
      /\ \A n \in Stale : n \in Nat /\ n > args.to
  <2>1. calm /\ ppc = "idle"
    BY <1>1 DEF IInv, RangeOK, Handling
  <2> QED
    BY <2>1
       DEF IInv, RecordOK, HeadOK, FieldsOK, Fields, ArgsOK, ViewOK, CalmExact, Stale, BlockMap
<1>10. \A h \in Lost' : h.number \in Nat
  <2>1. Lost' \subseteq Known'
    BY DEF Lost, Known
  <2> QED
    BY <2>1, KnownNumbers
<1>11. GoBackOK'
  <2> SUFFICES ASSUME GoingBack
               PROVE  \A h \in Lost' : h.number < status.from - FilterRange
    BY <1>3 DEF IInv, GoBackOK, GoingBack
  <2>1. /\ lastRecorded \in {status.from - 1, status.from}
        /\ \A h \in Lost : h.number < status.from - FilterRange
    BY DEF IInv, GoBackOK
  <2>2. status.from \in Nat
    BY DEF IInv, FieldsOK, Fields
  <2>3. \A h \in Lost' : h.number <= lastRecorded - 2 * FilterRange =>
          h.number < status.from - FilterRange
    BY <1>9, <1>10, <2>1, <2>2, SettingFacts
  <2> QED
    BY <2>1, <2>3
<1>12. LostOK'
  <2> SUFFICES ASSUME NEW h \in Lost'
               PROVE  /\ h.number <= tallest - 2 * FilterRange
                      /\ h.number <= lastRecorded - FilterRange
                      /\ \A n \in Stale : h.number + FilterRange < n
                      /\ npc' \in {"seeReorged", "seeGood"} => h.number < args.from
    BY <1>1, <1>2, <1>3 DEF LostOK, Handling
  <2>1. CASE h \in Lost
    BY <2>1 DEF IInv, LostOK
  <2>2. CASE h \notin Lost
    <3>1. h.number <= lastRecorded - 2 * FilterRange /\ h.number \in Nat
      BY <1>10, <2>2
    <3>2. npc' = "record"
      BY <2>2
    <3>3. \A n \in Stale : h.number + FilterRange < n
      BY <1>9, <3>1, SettingFacts
    <3> QED
      BY <1>9, <3>1, <3>2, <3>3, SettingFacts
  <2> QED
    BY <2>1, <2>2
<1> QED
  BY <1>2, <1>3, <1>4, <1>5, <1>6, <1>7, <1>8, <1>11, <1>12 DEF IInv, PhaseOK

\* The good blocks of a result are those of the chain; the reorged ones are not, and have
\* metadata as long as the service is not told of them.
LEMMA ResultBlocks ==
    ASSUME Setting, Calm, IInv, npc \in {"seeReorged", "seeGood"}
    PROVE  /\ result = ret.result /\ Handling
           /\ result.lastGood = lastRecorded
           /\ \A n \in DOMAIN result.good :
                /\ n \in Nat
                /\ result.good[n].hash = BlockAt(n) /\ result.good[n].hash.number = n
                /\ result.good[n].logs = result.good[n].hash.logs
                /\ result.good[n].hash \in Held
                /\ result.good[n].hash \notin Lost
           /\ \A n \in DOMAIN result.reorged :
                /\ n \in Nat
                /\ result.reorged[n].hash.number = n
                /\ result.reorged[n].hash \in DOMAIN ledger
                /\ npc = "seeReorged" => result.reorged[n].hash \in Alive
                /\ result.reorged[n].hash \notin Lost
<1>1. Handling /\ ~Computing
  BY HandlingOnly DEF IInv
<1>2. result = ret.result /\ result.lastGood = lastRecorded
  BY <1>1 DEF IInv, ResultOK, RecordOK
<1>3. /\ args.from \in Nat /\ args.to \in Nat /\ args.to <= BlockNumber
      /\ \A h \in Lost : h.number < args.from
  BY <1>1 DEF IInv, RangeOK, FieldsOK, Fields, ArgsOK, LostOK
<1>4. ASSUME NEW n \in DOMAIN result.good
      PROVE  /\ n \in Nat /\ n >= args.from
             /\ result.good[n].hash = BlockAt(n) /\ result.good[n].hash.number = n
             /\ result.good[n].logs = result.good[n].hash.logs
             /\ result.good[n].hash \in Held
  <2>1. /\ n \in args.from .. args.to
        /\ result.good[n].hash = BlockAt(n)
        /\ result.good[n].logs = BlockAt(n).logs
    BY <1>1, <1>2 DEF IInv, ResultOK
  <2>2. n \in Nat /\ n >= args.from /\ Exists(n)
    <3>1. BlockNumber \in Nat /\ \A k \in Nat : Exists(k) <=> k <= BlockNumber
      BY ChainBlocks DEF IInv, HeadOK
    <3> QED
      BY <1>3, <2>1, <3>1
  <2>3. BlockAt(n).number = n /\ n + 1 \in 1 .. Len(chain) /\ chain[n + 1] = BlockAt(n)
    BY <2>2, ChainBlocks DEF IInv, HeadOK
  <2>4. BlockAt(n) \in Known
    BY <1>2, <2>1 DEF Known, HashesOf
  <2>5. BlockAt(n) \in Held
    BY <2>3, <2>4 DEF IInv, ViewOK, Gone
  <2> QED
    BY <2>1, <2>2, <2>3, <2>5
<1>5. ASSUME NEW n \in DOMAIN result.reorged
      PROVE  /\ n \in Nat /\ n >= args.from
             /\ result.reorged[n].hash.number = n
             /\ result.reorged[n].hash \in DOMAIN ledger
             /\ npc = "seeReorged" => result.reorged[n].hash \in Alive
  <2>1. /\ n \in DOMAIN result.good
        /\ result.reorged[n].hash.number = n
        /\ result.reorged[n].hash \in DOMAIN ledger
        /\ npc = "seeReorged" => result.reorged[n].hash \in Alive
    BY <1>1, <1>2 DEF IInv, ResultOK
  <2> QED
    BY <1>4, <2>1
<1>6. \A n \in DOMAIN result.good : result.good[n].hash \notin Lost
  BY <1>3, <1>4
<1>7. \A n \in DOMAIN result.reorged : result.reorged[n].hash \notin Lost
  BY <1>3, <1>5
<1> QED
  BY <1>1, <1>2, <1>4, <1>5, <1>6, <1>7

\* What a step of the engine leaves alone
HandleLeaves ==
    /\ UNCHANGED <<gateway, epc, status, call, ppc, args, pollResults, headers, tracker,
                   doReorg, policy, filter, lastRecorded, ret, calm>>
    /\ UNCHANGED <<chain, tallest, reorgs, abandoned>>

\* The next reorged block has been handled, and goes to the service.
LEMMA SeeReorgedOK ==
    ASSUME Setting, Calm, IInv, SeeReorgedBlock, HandleLeaves
    PROVE  IInv'
<1> DEFINE n    == Min(todo)
           hash == result.reorged[n].hash
<1>1. npc = "seeReorged" /\ todo # {} /\ todo \cup batch = DOMAIN result.reorged
      /\ todo \cap batch = {}
  BY DEF SeeReorgedBlock, IInv, EngineOK, LoopOK
<1>2. /\ result = ret.result /\ Handling
      /\ \A k \in DOMAIN result.reorged :
           /\ k \in Nat
           /\ result.reorged[k].hash.number = k
           /\ result.reorged[k].hash \in DOMAIN ledger
           /\ result.reorged[k].hash \in Alive
           /\ result.reorged[k].hash \notin Lost
  BY <1>1, ResultBlocks
<1>3. n \in todo
  <2>1. todo \in SUBSET Nat
    BY <1>1, <1>2
  <2> QED
    BY <1>1, <2>1, MinOfNaturals
<1>4. n \in DOMAIN result.reorged /\ n \in Nat /\ n \notin batch
      /\ hash.number = n /\ hash \in Alive /\ hash \in DOMAIN meta
  BY <1>1, <1>2, <1>3 DEF Lost
<1> HIDE DEF n
<1>5. meta[hash].state = "Handled" /\ meta[hash] \in blockMetadata /\ meta[hash].number = hash.number
  <2>1. meta[hash] \in blockMetadata /\ meta[hash].number = hash.number /\ StateOK(hash)
    BY <1>4 DEF IInv, EngineOK, MetaOK
  <2>2. \A m \in batch : result.reorged[m].hash # hash
    BY <1>1, <1>2, <1>4
  <2> QED
    BY <1>1, <1>4, <2>1, <2>2 DEF StateOK
<1>6. /\ meta' = [meta EXCEPT ![hash].state = "Reorged"]
      /\ batch' = batch \cup {n} /\ todo' = todo \ {n}
      /\ UNCHANGED <<npc, result, ledger>>
  <2>1. Fire(GetBlockMetadata(hash, n).state, "SeeReorg") = "Reorged"
    BY <1>4, <1>5 DEF GetBlockMetadata, Fire
  <2> QED
    BY <1>4, <2>1 DEF SeeReorgedBlock, n
<1>7. /\ DOMAIN meta' = DOMAIN meta
      /\ meta'[hash].state = "Reorged" /\ meta'[hash].number = hash.number
      /\ meta'[hash] \in blockMetadata
      /\ \A h \in DOMAIN meta \ {hash} : meta'[h] = meta[h]
  BY <1>4, <1>5, <1>6 DEF blockMetadata, BlockStates
<1>8. Known' = Known /\ Held' = Held /\ Alive' = Alive /\ Lost' = Lost
  BY <1>6, <1>7 DEF Known, Held, Alive, Lost, Reverting, HandleLeaves
<1>9. LedgerOK' /\ OneAlive'
  BY <1>6, <1>8 DEF IInv, EngineOK, LedgerOK, OneAlive
<1>10. MetaOK'
  <2> SUFFICES ASSUME NEW h \in DOMAIN meta
               PROVE  meta'[h] \in blockMetadata /\ meta'[h].number = h.number /\ StateOK(h)'
    BY <1>7 DEF MetaOK
  <2>1. CASE h = hash
    BY <1>1, <1>4, <1>6, <1>7, <1>8, <2>1 DEF StateOK
  <2>2. CASE h # hash
    <3>1. meta[h] \in blockMetadata /\ meta[h].number = h.number /\ StateOK(h)
      BY DEF IInv, EngineOK, MetaOK
    <3> QED
      BY <1>1, <1>6, <1>7, <1>8, <2>2, <3>1 DEF StateOK
  <2> QED
    BY <2>1, <2>2
<1>11. LoopOK'
  <2>1. \A m \in batch : result.reorged[m].hash # hash
    BY <1>1, <1>2, <1>4
  <2>2. \A m \in batch : /\ result.reorged[m].hash \in DOMAIN meta
                         /\ meta[result.reorged[m].hash].state = "Reorged"
    BY <1>1 DEF IInv, EngineOK, LoopOK
  <2>3. \A m \in batch' : /\ result.reorged[m].hash \in DOMAIN meta'
                          /\ meta'[result.reorged[m].hash].state = "Reorged"
    BY <1>4, <1>6, <1>7, <2>1, <2>2
  <2>4. todo' \cup batch' = DOMAIN result.reorged /\ todo' \cap batch' = {}
    BY <1>1, <1>3, <1>6
  <2>5. epc # "compute"
    BY <1>2 DEF Handling
  <2> QED
    BY <1>1, <1>6, <2>3, <2>4, <2>5 DEF LoopOK, HandleLeaves
<1> QED
  BY <1>1, <1>6, <1>8, <1>9, <1>10, <1>11, HandleFrame DEF HandleLeaves, EngineOK

\* What HandleReorgedBlocks changes in the ledger: the replaced blocks of the result, which
\* the service holds, are reverted.
LEMMA ReorgedHanded ==
    ASSUME Setting, Calm, IInv, DoneReorged, NEW hashes,
           hashes = { result.reorged[n].hash : n \in batch }
    PROVE  /\ batch = DOMAIN result.reorged
           /\ hashes \subseteq Alive /\ hashes \subseteq DOMAIN ledger
           /\ DOMAIN ledger' = DOMAIN ledger
           /\ \A h \in DOMAIN ledger :
                /\ ledger'[h] \in [good : {1}, bad : {0, 1}, logs : {h.logs}]
                /\ ledger'[h].bad = IF h \in hashes THEN 1 ELSE ledger[h].bad
<1>1. /\ npc = "seeReorged" /\ todo = {}
      /\ IF batch = {} THEN UNCHANGED ledger ELSE HandleReorgedBlocks
  BY DEF DoneReorged
<1>2. \A k \in DOMAIN result.reorged :
        result.reorged[k].hash \in DOMAIN ledger /\ result.reorged[k].hash \in Alive
  BY <1>1, ResultBlocks
<1>3. batch = DOMAIN result.reorged
  BY <1>1 DEF IInv, EngineOK, LoopOK
<1>4. hashes \subseteq Alive /\ hashes \subseteq DOMAIN ledger
  BY <1>2, <1>3
<1>5. /\ DOMAIN ledger' = DOMAIN ledger
      /\ \A h \in DOMAIN ledger :
           ledger'[h] = IF h \in hashes THEN [ledger[h] EXCEPT !.bad = @ + 1] ELSE ledger[h]
  <2>1. CASE batch = {}
    BY <1>1, <2>1
  <2>2. CASE batch # {}
    <3>1. ledger' = [h \in DOMAIN ledger \cup hashes |->
                      IF h \notin hashes THEN ledger[h]
                      ELSE IF h \in DOMAIN ledger THEN [ledger[h] EXCEPT !.bad = @ + 1]
                           ELSE [good |-> 0, bad |-> 1, logs |-> {}]]
      BY <1>1, <2>2 DEF HandleReorgedBlocks
    <3> QED
      BY <1>4, <3>1
  <2> QED
    BY <2>1, <2>2
<1>6. \A h \in DOMAIN ledger : ledger[h] \in [good : {1}, bad : {0, 1}, logs : {h.logs}]
  BY DEF IInv, EngineOK, LedgerOK
<1>7. ASSUME NEW h \in DOMAIN ledger
      PROVE  /\ ledger'[h] \in [good : {1}, bad : {0, 1}, logs : {h.logs}]
             /\ ledger'[h].bad = IF h \in hashes THEN 1 ELSE ledger[h].bad
  <2>1. CASE h \in hashes
    <3>1. ledger[h].bad = 0
      BY <1>4, <2>1 DEF Alive
    <3> QED
      BY <1>5, <1>6, <2>1, <3>1
  <2>2. CASE h \notin hashes
    BY <1>5, <1>6, <2>2
  <2> QED
    BY <2>1, <2>2
<1> QED
  BY <1>3, <1>4, <1>5, <1>7

\* The replaced blocks of the result are reverted, and no block stays Reorged.
LEMMA DoneReorgedOK ==
    ASSUME Setting, Calm, IInv, DoneReorged, HandleLeaves
    PROVE  IInv'
<1> DEFINE hashes == { result.reorged[n].hash : n \in batch }
<1>1. /\ npc = "seeReorged" /\ npc' = "seeGood" /\ todo = {}
      /\ todo' = DOMAIN result.good /\ batch' = {} /\ UNCHANGED result
      /\ meta' = FireAll(result.reorged, "HandleReorg")
  BY DEF DoneReorged
<1>2. result = ret.result /\ Handling
  BY <1>1, ResultBlocks
<1>3. batch = DOMAIN result.reorged
  BY ReorgedHanded
<1>4. hashes \subseteq Alive /\ hashes \subseteq DOMAIN ledger
  BY ReorgedHanded
<1>5. DOMAIN ledger' = DOMAIN ledger
  BY ReorgedHanded
<1>7. \A h \in DOMAIN ledger :
        /\ ledger'[h] \in [good : {1}, bad : {0, 1}, logs : {h.logs}]
        /\ ledger'[h].bad = IF h \in hashes THEN 1 ELSE ledger[h].bad
  BY ReorgedHanded
<1> HIDE DEF hashes
<1>8. Alive' = Alive \ hashes
  <2>1. \A h \in DOMAIN ledger : ledger'[h].bad = 0 <=> ledger[h].bad = 0 /\ h \notin hashes
    BY <1>7
  <2> QED
    BY <1>5, <2>1 DEF Alive
<1>9. /\ DOMAIN meta' = DOMAIN meta
      /\ \A h \in DOMAIN meta :
           meta'[h] = IF h \in hashes THEN [meta[h] EXCEPT !.state = Fire(@, "HandleReorg")]
                      ELSE meta[h]
  BY <1>1 DEF FireAll, hashes
<1>10. Lost' = Lost
  BY <1>5, <1>9 DEF Lost
<1>11. Known' = Known /\ Held' = Held
  <2>1. Reverting = hashes /\ Reverting' = {}
    BY <1>1, <1>2, <1>3 DEF Reverting, HashesOf, hashes, Handling, HandleLeaves
  <2> QED
    BY <1>4, <1>5, <1>8, <2>1 DEF Known, Held, HandleLeaves
<1>12. LedgerOK' /\ OneAlive'
  BY <1>5, <1>7, <1>8 DEF IInv, EngineOK, LedgerOK, OneAlive
<1>13. MetaOK'
  <2> SUFFICES ASSUME NEW h \in DOMAIN meta
               PROVE  meta'[h] \in blockMetadata /\ meta'[h].number = h.number /\ StateOK(h)'
    BY <1>9 DEF MetaOK
  <2>1. meta[h] \in blockMetadata /\ meta[h].number = h.number /\ StateOK(h)
    BY DEF IInv, EngineOK, MetaOK
  <2>2. CASE h \in hashes
    <3>1. meta[h].state = "Reorged"
      BY <1>1, <2>2 DEF IInv, EngineOK, LoopOK, hashes
    <3>2. Fire(meta[h].state, "HandleReorg") = "HandledReorg"
      BY <3>1 DEF Fire
    <3>3. meta'[h] = [meta[h] EXCEPT !.state = "HandledReorg"]
      BY <1>9, <2>2, <3>2
    <3>4. meta'[h].state = "HandledReorg" /\ meta'[h].number = h.number /\ meta'[h] \in blockMetadata
      BY <2>1, <3>3 DEF blockMetadata, BlockStates
    <3> QED
      BY <1>4, <1>5, <1>8, <2>2, <3>4 DEF StateOK
  <2>3. CASE h \notin hashes
    <3>1. \/ meta[h].state = "Handled" /\ h \in Alive
          \/ meta[h].state = "HandledReorg" /\ h \in DOMAIN ledger \ Alive
      BY <1>1, <2>1, <2>3 DEF StateOK, hashes
    <3> QED
      BY <1>5, <1>8, <1>9, <2>1, <2>3, <3>1 DEF StateOK
  <2> QED
    BY <2>2, <2>3
<1>14. LoopOK'
  <2>1. epc # "compute"
    BY <1>2 DEF Handling
  <2> QED
    BY <1>1, <2>1 DEF LoopOK, HandleLeaves
<1> QED
  BY <1>1, <1>5, <1>10, <1>11, <1>12, <1>13, <1>14, HandleFrame DEF HandleLeaves, EngineOK

\* The next good block is one the service has, or a new one, which goes to the service.
LEMMA SeeGoodOK ==
    ASSUME Setting, Calm, IInv, SeeGoodBlock, HandleLeaves
    PROVE  IInv'
<1> DEFINE n    == Min(todo)
           hash == result.good[n].hash
           old  == GetBlockMetadata(hash, n)
           new  == Fire(old.state, "SeeBlock")
<1>1. /\ npc = "seeGood" /\ todo # {} /\ todo \subseteq DOMAIN result.good
      /\ batch \subseteq DOMAIN result.good \ todo
      /\ \A k \in DOMAIN result.good \ todo :
           /\ k \in batch <=> result.good[k].hash \notin DOMAIN ledger
           /\ k \in batch => /\ result.good[k].hash \in DOMAIN meta
                             /\ meta[result.good[k].hash].state = "Seen"
  BY DEF SeeGoodBlock, IInv, EngineOK, LoopOK
<1>2. /\ result = ret.result /\ Handling
      /\ \A k \in DOMAIN result.good :
           /\ k \in Nat
           /\ result.good[k].hash.number = k
           /\ result.good[k].hash \in Held
           /\ result.good[k].hash \notin Lost
  BY <1>1, ResultBlocks
<1>3. n \in todo
  <2>1. todo \in SUBSET Nat
    BY <1>1, <1>2
  <2> QED
    BY <1>1, <2>1, MinOfNaturals
<1>4. /\ n \in DOMAIN result.good /\ n \in Nat /\ n \notin batch
      /\ hash.number = n /\ hash \in Held /\ hash \notin Lost
      /\ \A k \in DOMAIN result.good \ {n} : result.good[k].hash # hash
  BY <1>1, <1>2, <1>3
<1>5. /\ meta' = Put(meta, hash, [old EXCEPT !.state = new])
      /\ batch' = IF new = "Seen" THEN batch \cup {n} ELSE batch
      /\ todo' = todo \ {n}
      /\ UNCHANGED <<npc, result, ledger>>
  BY DEF SeeGoodBlock
<1> HIDE DEF n
<1>6. \/ /\ hash \in DOMAIN meta /\ hash \in Alive /\ new = "Handled"
         /\ old = meta[hash] /\ old.state = "Handled"
         /\ meta[hash] \in blockMetadata /\ meta[hash].number = n
      \/ /\ hash \notin DOMAIN meta /\ hash \notin DOMAIN ledger /\ new = "Seen"
         /\ old = [state |-> "Null", number |-> n]
  <2>1. CASE hash \in DOMAIN meta
    <3>1. meta[hash] \in blockMetadata /\ meta[hash].number = hash.number /\ StateOK(hash)
      BY <2>1 DEF IInv, EngineOK, MetaOK
    <3>2. hash \in DOMAIN ledger => hash \in Alive
      BY <1>4 DEF Held
    <3>3. \A m \in batch : result.good[m].hash # hash
      BY <1>1, <1>4
    <3>4. meta[hash].state = "Handled" /\ hash \in Alive
      BY <1>1, <3>1, <3>2, <3>3 DEF StateOK
    <3>5. old = meta[hash]
      BY <2>1 DEF GetBlockMetadata
    <3>6. new = "Handled"
      BY <3>4, <3>5 DEF Fire
    <3> QED
      BY <1>4, <2>1, <3>1, <3>4, <3>5, <3>6
  <2>2. CASE hash \notin DOMAIN meta
    <3>1. old = [state |-> "Null", number |-> n]
      BY <2>2 DEF GetBlockMetadata
    <3>2. new = "Seen"
      BY <3>1 DEF Fire
    <3> QED
      BY <1>4, <2>2, <3>1, <3>2 DEF Lost
  <2> QED
    BY <2>1, <2>2
<1> HIDE DEF old, new
<1>7. /\ DOMAIN meta' = DOMAIN meta \cup {hash}
      /\ meta'[hash].state = new /\ meta'[hash].number = n
      /\ meta'[hash] \in blockMetadata
      /\ \A h \in DOMAIN meta \ {hash} : meta'[h] = meta[h]
  <2>1. old \in blockMetadata /\ old.number = n /\ new \in BlockStates
    BY <1>4, <1>6 DEF blockMetadata, BlockStates
  <2>2. /\ DOMAIN meta' = DOMAIN meta \cup {hash}
        /\ meta'[hash] = [old EXCEPT !.state = new]
        /\ \A h \in DOMAIN meta \ {hash} : meta'[h] = meta[h]
    BY <1>5 DEF Put
  <2> QED
    BY <2>1, <2>2 DEF blockMetadata
<1> HIDE DEF hash
<1>8. Known' = Known /\ Held' = Held /\ Alive' = Alive /\ Lost' \subseteq Lost
  BY <1>5, <1>7 DEF Known, Held, Alive, Lost, Reverting, HandleLeaves
<1>9. LedgerOK' /\ OneAlive'
  BY <1>5, <1>8 DEF IInv, EngineOK, LedgerOK, OneAlive
<1>10. batch \subseteq batch' /\ (new = "Seen" => n \in batch') /\ result.good[n].hash = hash
  BY <1>5 DEF hash
<1>11. MetaOK'
  <2> SUFFICES ASSUME NEW h \in DOMAIN meta'
               PROVE  meta'[h] \in blockMetadata /\ meta'[h].number = h.number /\ StateOK(h)'
    BY DEF MetaOK
  <2>1. CASE h = hash
    BY <1>1, <1>4, <1>5, <1>6, <1>7, <1>8, <1>10, <2>1 DEF StateOK
  <2>2. CASE h # hash
    <3>1. /\ h \in DOMAIN meta /\ meta'[h] = meta[h]
          /\ meta[h] \in blockMetadata /\ meta[h].number = h.number /\ StateOK(h)
      BY <1>7, <2>2 DEF IInv, EngineOK, MetaOK
    <3> QED
      BY <1>1, <1>5, <1>8, <1>10, <3>1 DEF StateOK
  <2> QED
    BY <2>1, <2>2
<1>12. LoopOK'
  <2>1. todo' \subseteq DOMAIN result.good /\ batch' \subseteq DOMAIN result.good \ todo'
    BY <1>1, <1>4, <1>5
  <2>2. ASSUME NEW k \in DOMAIN result.good \ todo'
        PROVE  /\ k \in batch' <=> result.good[k].hash \notin DOMAIN ledger
               /\ k \in batch' => /\ result.good[k].hash \in DOMAIN meta'
                                  /\ meta'[result.good[k].hash].state = "Seen"
    <3>1. CASE k = n
      <4>1. n \in batch' <=> new = "Seen"
        BY <1>4, <1>5
      <4>2. hash \in Alive => hash \in DOMAIN ledger
        BY DEF Alive
      <4> QED
        BY <1>6, <1>7, <1>10, <3>1, <4>1, <4>2
    <3>2. CASE k # n
      <4>1. k \in DOMAIN result.good \ todo /\ result.good[k].hash # hash
        BY <1>4, <1>5, <3>2
      <4>2. k \in batch' <=> k \in batch
        BY <1>5, <3>2
      <4> QED
        BY <1>1, <1>7, <4>1, <4>2
    <3> QED
      BY <3>1, <3>2
  <2>3. epc # "compute"
    BY <1>2 DEF Handling
  <2> QED
    BY <1>1, <1>5, <2>1, <2>2, <2>3 DEF LoopOK, HandleLeaves
<1> QED
  BY <1>1, <1>5, <1>8, <1>9, <1>11, <1>12, HandleFrame DEF HandleLeaves, EngineOK

\* What HandleGoodBlocks adds to the ledger
LEMMA GoodHanded ==
    ASSUME Setting, Calm, IInv, DoneGood
    PROVE  /\ DOMAIN ledger' = DOMAIN ledger \cup HashesOf(result.good)
           /\ \A h \in DOMAIN ledger : ledger'[h] = ledger[h]
           /\ \A h \in HashesOf(result.good) \ DOMAIN ledger :
                ledger'[h] = [good |-> 1, bad |-> 0, logs |-> h.logs]
           /\ { result.good[n].hash : n \in batch } = HashesOf(result.good) \ DOMAIN ledger
<1> DEFINE hashes    == { result.good[n].hash : n \in batch }
           logsOf(h) == UNION { result.good[n].logs :
                                n \in { m \in batch : result.good[m].hash = h } }
<1>1. /\ npc = "seeGood" /\ todo = {}
      /\ IF batch = {} THEN UNCHANGED ledger ELSE HandleGoodBlocks
  BY DEF DoneGood
<1>2. \A k \in DOMAIN result.good : result.good[k].logs = result.good[k].hash.logs
  BY <1>1, ResultBlocks
<1>3. /\ batch \subseteq DOMAIN result.good
      /\ \A k \in DOMAIN result.good : k \in batch <=> result.good[k].hash \notin DOMAIN ledger
  BY <1>1 DEF IInv, EngineOK, LoopOK
<1>4. hashes = HashesOf(result.good) \ DOMAIN ledger
  BY <1>3 DEF HashesOf
<1>5. ASSUME NEW h \in hashes
      PROVE  logsOf(h) = h.logs
  <2>1. \A k \in { m \in batch : result.good[m].hash = h } : result.good[k].logs = h.logs
    BY <1>2, <1>3
  <2>2. { m \in batch : result.good[m].hash = h } # {}
    BY <1>5
  <2>3. { result.good[k].logs : k \in { m \in batch : result.good[m].hash = h } } = {h.logs}
    BY <2>1, <2>2
  <2>4. UNION {h.logs} = h.logs
    OBVIOUS
  <2> QED
    BY <2>3, <2>4
<1>6. CASE batch = {}
  <2>1. UNCHANGED ledger /\ hashes = {}
    BY <1>1, <1>6
  <2> QED
    BY <1>4, <2>1
<1>7. CASE batch # {}
  <2>1. ledger' = [h \in DOMAIN ledger \cup hashes |->
            IF h \notin hashes THEN ledger[h]
            ELSE IF h \in DOMAIN ledger
                 THEN [ledger[h] EXCEPT !.good = @ + 1, !.logs = @ \cup logsOf(h)]
                 ELSE [good |-> 1, bad |-> 0, logs |-> logsOf(h)]]
    BY <1>1, <1>7 DEF HandleGoodBlocks
  <2> HIDE DEF hashes, logsOf
  <2>2. /\ DOMAIN ledger' = DOMAIN ledger \cup hashes
        /\ \A h \in DOMAIN ledger : ledger'[h] = ledger[h]
        /\ \A h \in hashes : ledger'[h] = [good |-> 1, bad |-> 0, logs |-> logsOf(h)]
    BY <1>4, <2>1
  <2>3. \A h \in hashes : ledger'[h] = [good |-> 1, bad |-> 0, logs |-> h.logs]
    BY <1>5, <2>2
  <2> QED
    BY <1>4, <2>2, <2>3 DEF hashes
<1> QED
  BY <1>6, <1>7

\* The service has all good blocks of the result; the engine forgets old ones.
LEMMA DoneGoodOK ==
    ASSUME Setting, Calm, IInv, DoneGood, HandleLeaves
    PROVE  IInv'
<1> DEFINE hashes == { result.good[n].hash : n \in batch }
           fired  == FireAll(result.good, "Handle")
<1>1. /\ npc = "seeGood" /\ npc' = "record" /\ todo = {} /\ batch' = {} /\ UNCHANGED result
      /\ meta' = ClearUntil(fired, Sub64(result.lastGood, LookBack))
  BY DEF DoneGood, LookBack
<1>2. /\ result = ret.result /\ Handling
      /\ result.lastGood = lastRecorded
      /\ \A k \in DOMAIN result.good : result.good[k].hash \in Held
  BY <1>1, ResultBlocks
<1>3. /\ DOMAIN ledger' = DOMAIN ledger \cup HashesOf(result.good)
      /\ \A h \in DOMAIN ledger : ledger'[h] = ledger[h]
      /\ \A h \in HashesOf(result.good) \ DOMAIN ledger :
           ledger'[h] = [good |-> 1, bad |-> 0, logs |-> h.logs]
      /\ hashes = HashesOf(result.good) \ DOMAIN ledger
  BY GoodHanded
<1>4. \A h \in hashes : h \in DOMAIN meta /\ meta[h].state = "Seen"
  BY <1>1 DEF IInv, EngineOK, LoopOK
<1>5. /\ DOMAIN fired = DOMAIN meta
      /\ \A h \in DOMAIN meta :
           fired[h] = IF h \in hashes THEN [meta[h] EXCEPT !.state = Fire(@, "Handle")]
                      ELSE meta[h]
  BY DEF FireAll
<1> HIDE DEF fired
<1>6. \A h \in DOMAIN meta :
        /\ meta[h] \in blockMetadata /\ meta[h].number = h.number /\ StateOK(h)
        /\ fired[h] \in blockMetadata /\ fired[h].number = h.number
        /\ h \in hashes => fired[h].state = "Handled"
        /\ h \notin hashes => fired[h] = meta[h]
  <2> SUFFICES ASSUME NEW h \in DOMAIN meta
               PROVE  /\ meta[h] \in blockMetadata /\ meta[h].number = h.number /\ StateOK(h)
                      /\ fired[h] \in blockMetadata /\ fired[h].number = h.number
                      /\ h \in hashes => fired[h].state = "Handled"
                      /\ h \notin hashes => fired[h] = meta[h]
    OBVIOUS
  <2>1. meta[h] \in blockMetadata /\ meta[h].number = h.number /\ StateOK(h)
    BY DEF IInv, EngineOK, MetaOK
  <2>2. CASE h \in hashes
    <3>1. Fire(meta[h].state, "Handle") = "Handled"
      BY <1>4, <2>2 DEF Fire
    <3>2. fired[h] = [meta[h] EXCEPT !.state = "Handled"]
      BY <1>5, <2>2, <3>1
    <3> QED
      BY <2>1, <2>2, <3>2 DEF blockMetadata, BlockStates
  <2>3. CASE h \notin hashes
    BY <1>5, <2>1, <2>3
  <2> QED
    BY <2>2, <2>3
<1>7. /\ DOMAIN meta' = { h \in DOMAIN meta : h.number > lastRecorded - LookBack }
      /\ \A h \in DOMAIN meta' : meta'[h] = fired[h]
  <2>1. lastRecorded \in Nat /\ lastRecorded < Half
    BY SettingFacts DEF IInv, RecordOK, HeadOK
  <2>2. Score(Sub64(result.lastGood, LookBack)) = lastRecorded - LookBack
    BY <1>2, <2>1, LookBackFacts, ScoreOfSub64
  <2>3. meta' = [h \in { g \in DOMAIN fired : fired[g].number > lastRecorded - LookBack } |-> fired[h]]
    BY <1>1, <2>2 DEF ClearUntil
  <2> QED
    BY <1>5, <1>6, <2>3
<1> HIDE DEF hashes
<1>8. Alive' = Alive \cup hashes
  <2>1. \A h \in DOMAIN ledger' : h \in DOMAIN ledger \/ h \in hashes
    BY <1>3
  <2>2. \A h \in hashes : h \in DOMAIN ledger' /\ h \notin DOMAIN ledger /\ ledger'[h].bad = 0
    BY <1>3
  <2>3. \A h \in DOMAIN ledger : h \in DOMAIN ledger' /\ ledger'[h].bad = ledger[h].bad
    BY <1>3
  <2> QED
    BY <2>1, <2>2, <2>3 DEF Alive
<1>9. Known' = Known /\ Held' = Held /\ Held = Alive'
  <2>1. Reverting = {} /\ Reverting' = {}
    BY <1>1, <1>2 DEF Reverting, Handling, HandleLeaves
  <2>2. HashesOf(ret.result.good)' = HashesOf(result.good)
    BY <1>2 DEF HandleLeaves, HashesOf
  <2>3. Known' = Known
    BY <1>2, <1>3, <2>2 DEF Known
  <2>4. Held = Alive \cup hashes
    BY <1>2, <1>3, <2>1 DEF Held
  <2>5. Held' = Alive'
    BY <1>3, <2>1, <2>2 DEF Held
  <2> QED
    BY <1>8, <2>3, <2>4, <2>5
<1>10. LedgerOK'
  <2>1. \A h \in DOMAIN ledger : ledger[h] \in [good : {1}, bad : {0, 1}, logs : {h.logs}]
    BY DEF IInv, EngineOK, LedgerOK
  <2> QED
    BY <1>3, <2>1 DEF LedgerOK
<1>11. OneAlive'
  <2> SUFFICES ASSUME NEW g \in Held, NEW h \in Held, g.logs # {}, h.logs # {},
                      g.number = h.number
               PROVE  g = h
    BY <1>9 DEF OneAlive
  <2> QED
    BY DEF IInv, ViewOK, LiveKnown
<1>12. MetaOK'
  <2> SUFFICES ASSUME NEW h \in DOMAIN meta'
               PROVE  meta'[h] \in blockMetadata /\ meta'[h].number = h.number /\ StateOK(h)'
    BY DEF MetaOK
  <2>1. h \in DOMAIN meta /\ meta'[h] = fired[h]
    BY <1>7
  <2>2. CASE h \in hashes
    BY <1>6, <1>8, <2>1, <2>2 DEF StateOK
  <2>3. CASE h \notin hashes
    <3>1. \/ meta[h].state = "Handled" /\ h \in Alive
          \/ meta[h].state = "HandledReorg" /\ h \in DOMAIN ledger \ Alive
      BY <1>1, <1>6, <2>1, <2>3 DEF StateOK, hashes
    <3> QED
      BY <1>3, <1>6, <1>8, <2>1, <2>3, <3>1 DEF StateOK
  <2> QED
    BY <2>2, <2>3
<1>13. LoopOK'
  <2>1. HashesOf(ret.result.good)' \subseteq DOMAIN ledger'
    BY <1>2, <1>3 DEF HandleLeaves, HashesOf
  <2> QED
    BY <1>1, <2>1 DEF LoopOK
<1>14. \A h \in Lost' : h \in Lost \/ h.number <= lastRecorded - 2 * FilterRange
  <2> SUFFICES ASSUME NEW h \in Lost'
               PROVE  h \in Lost \/ h.number <= lastRecorded - 2 * FilterRange
    OBVIOUS
  <2>1. h \in DOMAIN ledger' /\ h \notin DOMAIN meta'
    BY DEF Lost
  <2>2. CASE h \in DOMAIN meta
    <3>1. ~(h.number > lastRecorded - LookBack)
      BY <1>7, <2>1, <2>2
    <3>2. h.number \in Nat
      BY <1>6, <2>2 DEF blockMetadata
    <3>3. lastRecorded \in Nat
      BY DEF IInv, RecordOK
    <3> QED
      BY <3>1, <3>2, <3>3, LookBackFacts, SettingFacts
  <2>3. CASE h \notin DOMAIN meta
    <3>1. h \in DOMAIN ledger
      BY <1>3, <1>4, <2>1, <2>3
    <3> QED
      BY <2>3, <3>1 DEF Lost
  <2> QED
    BY <2>2, <2>3
<1> QED
  <2>1. EngineOK' /\ DOMAIN ledger \subseteq DOMAIN ledger'
    BY <1>3, <1>10, <1>11, <1>12, <1>13 DEF EngineOK
  <2> QED
    BY <1>1, <1>9, <1>14, <2>1, HandleFrame DEF HandleLeaves

\* handleResults
LEMMA HandleOK ==
    ASSUME Setting, Calm, IInv, Handle
    PROVE  IInv'
<1>1. HandleLeaves
  BY DEF Handle, HandleLeaves, emitterVars, chainVars, pollerVars
<1> QED
  BY <1>1, SeeReorgedOK, DoneReorgedOK, SeeGoodOK, DoneGoodOK DEF Handle, EngineStep

-----------------------------------------------------------------------------
(* The block is recorded, and emitter and engine meet *)

\* The gateway has the block the poller chose.
LEMMA RecordIInv ==
    ASSUME Setting, Calm, IInv, Record
    PROVE  IInv'
<1>1. /\ npc = "record" /\ npc' = "sync" /\ gateway' = result.lastGood
      /\ UNCHANGED <<result, todo, batch, meta, ledger>>
      /\ UNCHANGED <<epc, status, call, ppc, args, pollResults, headers, tracker,
                     doReorg, policy, filter, lastRecorded, ret, calm>>
      /\ UNCHANGED <<chain, tallest, reorgs, abandoned>>
  BY DEF Record, RecordLastGood, SetLastRecordedBlock, emitterVars, chainVars, pollerVars
<1>2. Handling /\ ~Computing /\ ~Polling /\ ~Polled
  BY <1>1, HandlingOnly DEF IInv
<1>3. Handling' /\ ~Computing' /\ ~Polling' /\ ~Polled'
  BY <1>1, <1>2 DEF Computing, Polling, Polled, Handling
<1>4. Known' = Known /\ Held' = Held /\ Alive' = Alive /\ Lost' = Lost
  <2>1. Reverting = {} /\ Reverting' = {}
    BY <1>1, <1>2 DEF Reverting, Handling
  <2> QED
    BY <1>1, <2>1 DEF Known, Held, Alive, Lost
<1>5. ViewOK' /\ Stale' = Stale
  BY <1>1, <1>4, SameView DEF IInv
<1>6. HeadOK' /\ BlockNumber' = BlockNumber
  BY <1>1, HeadStays, SameChain DEF IInv, chainVars
<1>7. gateway' = lastRecorded /\ lastRecorded \in Nat
  BY <1>1, <1>2 DEF IInv, ResultOK, RecordOK
<1>8. FieldsOK'
  BY <1>1, <1>2, <1>7
     DEF IInv, FieldsOK, Fields, Handling, ArgsOK, FetchedOK, StillFetch, BlockMap, GatewayTypeOK
<1>9. RecordOK'
  BY <1>1, <1>2, <1>3, <1>7 DEF IInv, RecordOK
<1>10. RangeOK' /\ StatusOK'
  BY <1>1, <1>2, <1>3, <1>5, <1>6 DEF IInv, RangeOK, StatusOK
<1>11. ResultOK'
  <2>1. \A n : BlockAt(n)' = BlockAt(n)
    BY <1>1, SameChain
  <2> QED
    BY <1>1, <1>2, <1>3, <2>1 DEF IInv, ResultOK
<1>12. EngineOK'
  BY <1>1, <1>2, <1>4
     DEF IInv, EngineOK, LedgerOK, MetaOK, LoopOK, OneAlive, StateOK, Handling
<1>13. GoBackOK' /\ LostOK'
  BY <1>1, <1>2, <1>3, <1>4, <1>5 DEF IInv, GoBackOK, GoingBack, LostOK, Handling
<1> QED
  BY <1>3, <1>5, <1>6, <1>8, <1>9, <1>10, <1>11, <1>12, <1>13 DEF IInv, PhaseOK

\* The emitter goes on to the next range.
LEMMA SyncIInv ==
    ASSUME Setting, Calm, IInv, Sync
    PROVE  IInv'
<1>1. /\ npc = "sync" /\ npc' = "receive" /\ Synced
      /\ UNCHANGED <<todo, batch, meta, ledger>>
      /\ UNCHANGED <<gateway, ppc, args, pollResults, headers, tracker,
                     doReorg, policy, filter, lastRecorded, ret, calm>>
      /\ UNCHANGED <<chain, tallest, reorgs, abandoned>>
  BY DEF Sync, SyncsEmitter, chainVars, pollerVars
<1>2. Handling /\ ~Computing /\ ~Polling /\ ~Polled
  BY <1>1, HandlingOnly DEF IInv
<1>3. epc' = "compute" /\ UNCHANGED call
  BY <1>1 DEF Synced
<1>4. /\ call \in [from : Nat, to : Nat]
      /\ status \in [from : Nat, to : Nat, goBack : BOOLEAN, isReorging : BOOLEAN, retries : Nat]
      /\ status.goBack = FALSE
      /\ status.retries = IF status.isReorging THEN 1 ELSE 0
      /\ epc = "emitReorging" => status.isReorging
  BY <1>2 DEF IInv, FieldsOK, Fields, StatusOK
<1>5. \/ /\ epc = "emit"
         /\ status' = [from |-> call.from, to |-> call.to, goBack |-> FALSE,
                       isReorging |-> FALSE, retries |-> 0]
      \/ epc = "emitReorging" /\ UNCHANGED status
  BY <1>1, <1>2 DEF Synced, updateStatus, Handling
<1>6. Computing' /\ ~Handling' /\ ~Polling' /\ ~Polled'
  BY <1>1, <1>2, <1>3 DEF Computing, Polling, Polled, Handling
<1>7. Known' = Known /\ Held' = Held /\ Alive' = Alive /\ Lost' = Lost
  <2>1. Reverting = {} /\ Reverting' = {}
    BY <1>1, <1>2, <1>3 DEF Reverting, Handling
  <2> QED
    BY <1>1, <2>1 DEF Known, Held, Alive, Lost
<1>8. ViewOK' /\ Stale' = Stale
  BY <1>1, <1>7, SameView DEF IInv
<1>9. HeadOK'
  BY <1>1, HeadStays DEF IInv, chainVars
<1>10. FieldsOK'
  <2>1. status' \in [from : Nat, to : Nat, goBack : BOOLEAN, isReorging : BOOLEAN, retries : Nat]
    <3>1. CASE epc = "emitReorging" /\ UNCHANGED status
      BY <1>4, <3>1
    <3>2. CASE status' = [from |-> call.from, to |-> call.to, goBack |-> FALSE,
                          isReorging |-> FALSE, retries |-> 0]
      <4>1. call.from \in Nat /\ call.to \in Nat
        BY <1>4
      <4> QED
        BY <3>2, <4>1
    <3> QED
      BY <1>5, <3>1, <3>2
  <2> QED
    BY <1>1, <1>2, <1>3, <2>1
       DEF IInv, FieldsOK, Fields, Handling, ArgsOK, FetchedOK, StillFetch, BlockMap, GatewayTypeOK
<1>11. RecordOK'
  BY <1>1, <1>2, <1>6 DEF IInv, RecordOK
<1>12. RangeOK' /\ ResultOK'
  BY <1>6 DEF RangeOK, ResultOK
<1>13. StatusOK'
  BY <1>3, <1>4, <1>5, <1>6 DEF StatusOK
<1>14. GoBackOK'
  <2>1. CASE epc = "emit"
    BY <1>5, <2>1 DEF GoBackOK, GoingBack
  <2>2. CASE epc = "emitReorging" /\ UNCHANGED status
    BY <1>1, <1>4, <1>7, <1>8, <2>2 DEF IInv, GoBackOK, GoingBack
  <2> QED
    BY <1>5, <2>1, <2>2
<1>15. EngineOK'
  <2>1. LedgerOK' /\ OneAlive'
    BY <1>1, <1>7 DEF IInv, EngineOK, LedgerOK, OneAlive
  <2>2. MetaOK'
    BY <1>1, <1>7 DEF IInv, EngineOK, MetaOK, StateOK
  <2>3. LoopOK'
    BY <1>1 DEF IInv, EngineOK, LoopOK
  <2> QED
    BY <2>1, <2>2, <2>3 DEF EngineOK
<1>16. LostOK'
  BY <1>1, <1>3, <1>6, <1>7, <1>8 DEF IInv, LostOK
<1> QED
  BY <1>6, <1>8, <1>9, <1>10, <1>11, <1>12, <1>13, <1>14, <1>15, <1>16 DEF IInv, PhaseOK

-----------------------------------------------------------------------------
(* The invariant *)

\* No call has failed and nobody has died.
Faultless == crashes = 0 /\ errs = 0

\* Nothing happens.
LEMMA StutterOK ==
    ASSUME Setting, Calm, IInv, UNCHANGED vars
    PROVE  IInv'
<1>1. /\ UNCHANGED <<gateway, epc, status, call, ppc, args, pollResults, headers, tracker,
                     doReorg, policy, filter, lastRecorded, ret, calm>>
      /\ UNCHANGED <<npc, result, todo, batch, meta, ledger>>
      /\ UNCHANGED <<chain, tallest, reorgs, abandoned>>
  BY DEF vars
<1>2. Known' = Known /\ Held' = Held /\ Alive' = Alive /\ Lost' = Lost
  BY <1>1 DEF Known, Held, Alive, Lost, Reverting
<1>3. ViewOK' /\ Stale' = Stale
  BY <1>1, <1>2, SameView DEF IInv
<1>4. HeadOK' /\ BlockNumber' = BlockNumber /\ \A n : BlockAt(n)' = BlockAt(n)
  BY <1>1, HeadStays, SameChain DEF IInv, chainVars
<1>5. /\ Computing' = Computing /\ Polling' = Polling /\ Polled' = Polled
      /\ Handling' = Handling /\ PhaseOK'
  BY <1>1 DEF IInv, PhaseOK, Computing, Polling, Polled, Handling
<1>6. FieldsOK'
  <2>1. FetchedOK' /\ ArgsOK'
    BY <1>1 DEF IInv, FieldsOK, Fields, FetchedOK, ArgsOK, BlockMap
  <2>2. StillFetch'
    <3>1. /\ \A n : HeaderHash(n)' = HeaderHash(n) /\ LogsAt(n)' = LogsAt(n)
          /\ BlocksWithLogs(args.from, args.to, filter)'
               = BlocksWithLogs(args.from, args.to, filter)
      BY <1>1 DEF BlocksWithLogs, HeaderHash, LogsAt, Exists, BlockAt, BlockNumber
    <3>2. collectLogs' = collectLogs
      BY <1>1, <1>4, <3>1 DEF collectLogs
    <3>3. getHeadersByNumbers(args.from .. args.to)' = getHeadersByNumbers(args.from .. args.to)
      BY <1>1, <3>1 DEF getHeadersByNumbers
    <3>4. Canonical(pollResults)' <=> Canonical(pollResults)
      BY <1>1, <3>1 DEF Canonical
    <3> QED
      BY <1>1, <3>1, <3>2, <3>3, <3>4 DEF IInv, FieldsOK, Fields, StillFetch
  <2> QED
    BY <1>1, <2>1, <2>2 DEF IInv, FieldsOK, Fields, BlockMap, GatewayTypeOK
<1>7. RecordOK' /\ RangeOK' /\ StatusOK'
  BY <1>1, <1>3, <1>4, <1>5 DEF IInv, RecordOK, RangeOK, StatusOK
<1>8. GoBackOK' /\ LostOK'
  BY <1>1, <1>2, <1>3, <1>5 DEF IInv, GoBackOK, GoingBack, LostOK
<1>9. ResultOK'
  BY <1>1, <1>2, <1>4, <1>5 DEF IInv, ResultOK
<1>10. EngineOK'
  BY <1>1, <1>2 DEF IInv, EngineOK, LedgerOK, MetaOK, LoopOK, OneAlive, StateOK
<1> QED
  BY <1>3, <1>4, <1>5, <1>6, <1>7, <1>8, <1>9, <1>10 DEF IInv

\* In the setting no call fails, nobody dies and no error is emitted.
LEMMA StepsOfSetting ==
    ASSUME Setting, Calm, IInv, Faultless, [Next]_vars
    PROVE  /\ Faultless'
           /\ \/ ChainMoves \/ Wait \/ CallPoll \/ StepPoll \/ EmitResult
              \/ Handle \/ Record \/ Sync \/ UNCHANGED vars
<1>1. ~CallFails /\ ~Crash
  BY DEF CallFails, Crash, Faultless, Setting
<1>2. ~EmitNil /\ ~ReturnPollError
  <2>1. PollReturned => ret.err \in {"none", "fromBlockReorged"}
    BY HandlingOnly DEF IInv, ResultOK, PollReturned
  <2> QED
    BY <2>1 DEF EmitNil, ReturnPollError
<1>3. ~ServiceTakesError
  BY DEF ServiceTakesError, EmitError, IInv, PhaseOK, Computing, Polling, Polled, Handling
<1>4. \/ ChainMoves \/ Wait \/ CallPoll \/ StepPoll \/ EmitResult
      \/ Handle \/ Record \/ Sync \/ UNCHANGED vars
  BY <1>1, <1>2, <1>3 DEF Next
<1> QED
  BY <1>4 DEF Faultless, ChainMoves, Wait, CallPoll, StepPoll, EmitResult, Handle, Record,
              Sync, vars

\* Every step of the pipeline preserves the invariant.
LEMMA NextOK ==
    ASSUME Setting, Calm, IInv, Faultless, [Next]_vars
    PROVE  IInv' /\ Faultless'
BY StepsOfSetting, ChainMovesOK, WaitOK, CallPollOK, StepPollOK, EmitResultOK, HandleOK,
   RecordIInv, SyncIInv, StutterOK

\* The conjunction of the parts above holds in every state of the pipeline.
THEOREM Invariance ==
    ASSUME Setting, Calm
    PROVE  Spec => [](IInv /\ Faultless)
<1>1. Init => IInv /\ Faultless
  BY InitIInv DEF Init, Faultless
<1>2. IInv /\ Faultless /\ [Next]_vars => (IInv /\ Faultless)'
  BY NextOK
<1> QED
  BY <1>1, <1>2, PTL DEF Spec

-----------------------------------------------------------------------------
(* What it means for the service *)

\* The emitter is never handed a nil result, and the engine finds the metadata of every
\* reorged block, in spite of what both trackers forget.
THEOREM NeverPanics ==
    ASSUME Setting, Calm
    PROVE  Spec => []NoPanic
<1>1. IInv => NoPanic
  BY DEF IInv, NoPanic, PhaseOK, Computing, Polling, Polled, Handling
<1> QED
  BY <1>1, Invariance, PTL

\* The service is given each block once, however often the overlapping ranges and the
\* ranges the emitter goes back to repeat it.
THEOREM SeesEachBlockOnce ==
    ASSUME Setting, Calm
    PROVE  Spec => []SeesBlockOnce
<1>1. IInv => SeesBlockOnce
  BY DEF IInv, EngineOK, LedgerOK, SeesBlockOnce
<1> QED
  BY <1>1, Invariance, PTL

\* What is alive at a height
LEMMA LiveIsAlive ==
    ASSUME LedgerOK
    PROVE  /\ \A n : LiveAt(n) = { h \in Alive : h.number = n }
           /\ \A h \in DOMAIN ledger : ledger[h].logs = h.logs
<1>1. \A h \in DOMAIN ledger :
        (ledger[h].good > ledger[h].bad <=> ledger[h].bad = 0) /\ ledger[h].logs = h.logs
  BY DEF LedgerOK
<1> QED
  BY <1>1 DEF LiveAt, Alive

\* What superwatcher is for: when emitter and engine are done with a result and the chain
\* has not moved on, the service holds the canonical chain up to the recorded block.
THEOREM ServiceFollowsChain ==
    ASSUME Setting, Calm
    PROVE  Spec => []ServiceMatchesChain
<1>1. IInv => ServiceMatchesChain
  <2> SUFFICES ASSUME IInv, AtRest, gateway # NoRecord, NEW n \in StartBlock .. gateway
               PROVE  MatchesAt(n)
    BY DEF ServiceMatchesChain
  <2>1. Computing /\ calm /\ ppc = "idle" /\ npc = "receive" /\ epc = "compute"
    BY ComputingOnly DEF IInv, AtRest, Computing
  <2>2. gateway = lastRecorded /\ lastRecorded \in Nat /\ lastRecorded <= args.to
    BY <2>1 DEF IInv, RecordOK
  <2>3. Held = Alive
    <3>1. Reverting = {}
      BY <2>1 DEF Reverting
    <3>2. HashesOf(ret.result.good) \subseteq DOMAIN ledger
      BY <2>1 DEF IInv, EngineOK, LoopOK
    <3> QED
      BY <3>1, <3>2 DEF Held
  <2>4. n \in Nat /\ n <= args.to /\ n \in StartBlock .. lastRecorded
    <3>1. args.to \in Nat /\ StartBlock \in Nat
      BY SettingFacts DEF IInv, FieldsOK, Fields, ArgsOK
    <3> QED
      BY <2>2, <3>1
  <2>5. n \notin Stale
    <3>1. \A k \in Stale : k > args.to
      BY <2>1 DEF IInv, ViewOK, CalmExact
    <3>2. args.to \in Nat
      BY DEF IInv, FieldsOK, Fields, ArgsOK
    <3> QED
      BY <2>4, <3>1, <3>2
  <2>6. LedgerOK
    BY DEF IInv, EngineOK
  <2>7. LiveAt(n) = { h \in Alive : h.number = n }
        /\ \A h \in Alive : ledger[h].logs = h.logs
    BY <2>6, LiveIsAlive DEF Alive
  <2>8. ASSUME NEW h \in LiveAt(n), h.logs # {}
        PROVE  Exists(n) /\ h = BlockAt(n)
    <3>1. h \in Held /\ h.number = n
      BY <2>3, <2>7
    <3>2. \/ n \in DOMAIN tracker /\ tracker[n].hash = h
          \/ Exists(n) /\ BlockAt(n) = h
      BY <2>8, <3>1 DEF IInv, ViewOK, LiveKnown
    <3> QED
      BY <2>5, <3>2 DEF Stale, Exact
  <2>9. ASSUME Exists(n), BlockAt(n).logs # {}
        PROVE  BlockAt(n) \in LiveAt(n) /\ ledger[BlockAt(n)].logs = BlockAt(n).logs
    <3>1. BlockAt(n) \in Alive
      BY <2>1, <2>3, <2>4, <2>9 DEF IInv, ViewOK, Complete
    <3>2. BlockAt(n).number = n
      BY <2>4, <2>9, ChainBlocks DEF IInv, HeadOK
    <3> QED
      BY <2>7, <3>1, <3>2
  <2> QED
    BY <2>8, <2>9 DEF MatchesAt
<1> QED
  BY <1>1, Invariance, PTL

-----------------------------------------------------------------------------
(* When the chain changes in the middle of a poll *)

\* The blocks the service was given.  The hash of a header that does not exist stands for
\* no block.
Given == DOMAIN ledger \ {ZeroHash}

\* Those it has not reverted, and of these the ones with logs
Standing == { h \in Given : ledger[h].bad = 0 }
Logged == { h \in Standing : ledger[h].logs # {} }

\* Those the engine has forgotten
Forgotten == Given \ DOMAIN meta

\* Block m is more than FilterRange above every forgotten block.
AboveForgotten(m) == \A h \in Forgotten : h.number + FilterRange < m

\* A hash fetched for block n
HashOf(h, n) == h = ZeroHash \/ (h \in Blocks /\ h.number = n)

\* The block is tracked as the chain has it.
TrackedSound(n) ==
    Exists(n) /\ tracker[n].hash = BlockAt(n) /\ tracker[n].logs = BlockAt(n).logs

\* A poll that finds this block changed while it is under way does no harm: the block is
\* above what was recorded for good.
Recent(n) ==
    /\ n > StartBlock
    /\ n > args.to - FilterRange
    /\ AboveForgotten(n)
    /\ \A h \in Logged : h.number = n => n \in DOMAIN tracker
    /\ status.isReorging => n # args.from

\* Poll has returned with a result.
Answered == Polled /\ ret.err # "hashesDiffer"

\* Nothing was polled yet.
Unpolled ==
    /\ gateway = NoRecord \/ (gateway = StartBlock /\ FALSE \in FirstRuns)
    /\ lastRecorded = 0
    /\ DOMAIN tracker = {} /\ DOMAIN ledger = {}

\* What was fetched of block n, nothing but the hash if it was not found by its logs, is
\* what the chain has.
FetchedSound(results, n) ==
    IF n \in DOMAIN results
    THEN results[n].hash = HeaderHash(n) /\ results[n].logs = LogsAt(n)
    ELSE LogsAt(n) = {}

\* What was fetched is what the chain has, except for recent blocks.
Fetched(results) ==
    /\ \A n \in DOMAIN results : HashOf(results[n].hash, n)
    /\ \A n \in args.from .. args.to : FetchedSound(results, n) \/ Recent(n)

\* What a Poll under way has fetched so far
RaceFetch ==
    /\ ppc \in {"headers", "missing"} => Fetched(pollResults)
    /\ ppc = "logs" => \A n \in args.from .. args.to :
                         HashOf(headers[n], n) /\ (headers[n] = HeaderHash(n) \/ Recent(n))

\* Where the tracker is behind the chain, the block is in the overlap of the next range,
\* and every forgotten block is further below.
RaceTracker ==
    \A n \in DOMAIN tracker :
        /\ n >= StartBlock
        /\ HashOf(tracker[n].hash, n)
        /\ \/ TrackedSound(n)
           \/ n > StartBlock /\ n > lastRecorded - FilterRange /\ AboveForgotten(n)

\* What the service holds with logs is reverted at once, is tracked, or is so old that the
\* chain has it for good.
RaceCover ==
    \A h \in Logged :
        \/ h \in Reverting
        \/ h.number \in DOMAIN tracker /\ tracker[h.number].hash = h
        \/ /\ h.number \notin DOMAIN tracker /\ h.number <= tallest - FilterRange
           /\ Exists(h.number) /\ BlockAt(h.number) = h

\* What the gateway, the poller and the result have as the last recorded block
RaceRecord ==
    /\ lastRecorded \in Nat /\ lastRecorded <= tallest
    /\ Computing \/ Polling => Unpolled \/ (gateway = lastRecorded /\ lastRecorded >= StartBlock)
    /\ npc = "sync" => gateway = lastRecorded
    /\ Answered \/ Handling => ret.result.lastGood = lastRecorded /\ lastRecorded >= StartBlock

\* The status of the emitter: it goes back at most once for a reorg, and then from where
\* the tracker is sound.
RaceStatus ==
    /\ status.goBack => Computing /\ Unpolled /\ ~status.isReorging
    /\ Computing /\ Unpolled /\ gateway = StartBlock => status.goBack
    /\ status.retries = IF status.isReorging THEN 1 ELSE 0
    /\ epc = "emitReorging" => status.isReorging
    /\ Polled => ret.err \in {"none", "fromBlockReorged", "hashesDiffer"}
    /\ Polled /\ ret.err = "fromBlockReorged" =>
         /\ ~status.isReorging
         /\ lastRecorded \in {args.from - 1, args.from}
         /\ \A h \in Forgotten : h.number < args.from - FilterRange
    /\ Polling /\ status.isReorging =>
         /\ args.from = StartBlock \/ args.from <= tallest - FilterRange
         /\ args.from \in DOMAIN tracker => TrackedSound(args.from)

\* The range that is polled: the tracker keeps no block below it.
RaceRange ==
    /\ ~Computing => /\ call = args
                     /\ StartBlock <= args.from /\ args.from <= args.to /\ args.to <= tallest
                     /\ \A n \in DOMAIN tracker : n >= args.from
    /\ Polling => ret.result = NoResult

\* The emitter is about to go back: the tracker is sound far below the last range.
RaceGoBack ==
    GoingBack =>
        /\ lastRecorded \in {status.from - 1, status.from}
        /\ StartBlock <= status.from /\ status.from <= status.to /\ status.from <= tallest
        /\ \A n \in DOMAIN tracker : TrackedSound(n) \/ n > status.from - FilterRange
        /\ \A h \in Forgotten : h.number < status.from - FilterRange

\* The result: hashes of its range, the good ones with logs tracked
RaceResult ==
    /\ Handling => result = ret.result
    /\ Answered \/ Handling =>
         /\ \A n \in DOMAIN ret.result.good :
              /\ n \in args.from .. args.to
              /\ ret.result.good[n] \in BlockInfo
              /\ HashOf(ret.result.good[n].hash, n)
              /\ ret.result.good[n].logs # {} =>
                   n \in DOMAIN tracker /\ tracker[n].hash = ret.result.good[n].hash
         /\ \A n \in DOMAIN ret.result.reorged :
              n \in args.from .. args.to /\ HashOf(ret.result.reorged[n].hash, n)

\* The blocks that the engine has forgotten are below all that can come again.
RaceForgotten ==
    \A h \in Forgotten :
        /\ h.number <= tallest - 2 * FilterRange
        /\ h.number <= lastRecorded - FilterRange
        /\ epc = "poll" \/ npc \in {"seeReorged", "seeGood"} => h.number < args.from
        /\ Polling => h.number <= args.to - FilterRange

\* Each block was given once, and reverted at most once.
RaceLedger ==
    \A h \in Given :
        /\ h \in Blocks /\ h.number >= StartBlock
        /\ ledger[h] \in [good : {1}, bad : {0, 1}, logs : SUBSET Addresses]

\* The service holds one block with logs of a height.
OneStanding == \A g, h \in Logged : g.number = h.number => g = h

\* The state of a block, and what the service was told of it
RaceState(h) ==
    \/ meta[h].state = "Handled" /\ h \in Standing
    \/ meta[h].state \in {"HandledReorg", "Invalid"} /\ h \in Given \ Standing
    \/ /\ meta[h].state = "Seen" /\ h \notin DOMAIN ledger
       /\ npc = "seeGood" /\ \E n \in batch : result.good[n].hash = h
    \/ /\ meta[h].state = "Reorged" /\ h \in Standing
       /\ npc = "seeReorged" /\ \E n \in batch : result.reorged[n].hash = h

\* The metadata of a block is its own.
RaceMeta ==
    \A h \in DOMAIN meta \ {ZeroHash} : meta[h].number = h.number /\ RaceState(h)

\* The engine in the middle of a result: every reorged block it has seen and the service
\* holds is in the batch, and so are the new good ones.
RaceLoop ==
    /\ npc = "seeReorged" =>
         /\ todo \subseteq DOMAIN result.reorged
         /\ batch \subseteq DOMAIN result.reorged \ todo
         /\ \A n \in DOMAIN result.reorged \ todo :
              LET h == result.reorged[n].hash
              IN  h # ZeroHash =>
                    /\ h \in DOMAIN meta
                    /\ h \in Standing => n \in batch
                    /\ n \in batch => meta[h].state = "Reorged"
    /\ npc = "seeGood" =>
         /\ todo \subseteq DOMAIN result.good
         /\ batch \subseteq DOMAIN result.good \ todo
         /\ \A n \in batch :
              LET h == result.good[n].hash
              IN  h # ZeroHash => h \in DOMAIN meta /\ meta[h].state = "Seen"

\* The metadata of every block has its type.
StatesOK == \A h \in DOMAIN meta : meta[h] \in blockMetadata

\* What holds even when somebody has panicked
Safe == Fields /\ HeadOK /\ RaceLedger /\ OneStanding /\ StatesOK

\* What holds as long as nobody has panicked
Working ==
    /\ PhaseOK /\ RaceFetch /\ RaceTracker /\ RaceCover /\ RaceRecord /\ RaceStatus
    /\ RaceRange /\ RaceGoBack /\ RaceResult /\ RaceForgotten /\ RaceMeta /\ RaceLoop

\* The emitter was handed no result, or the engine a reorged block it does not know.
Panicked ==
    /\ ppc = "idle"
    /\ \/ epc = "panicked" /\ npc = "receive"
       \/ epc \in {"emit", "emitReorging"} /\ npc = "panicked"

\* The inductive invariant of a chain that changes at any time
RaceInv == Safe /\ (Working \/ Panicked)

-----------------------------------------------------------------------------
(* Sets and numbers *)

\* The blocks the service was given are blocks from StartBlock on.
LEMMA GivenNumbers ==
    ASSUME RaceLedger
    PROVE  /\ \A h \in Given : h \in Blocks /\ h.number \in Nat /\ h.number >= StartBlock
           /\ Logged \subseteq Standing /\ Standing \subseteq Given /\ Forgotten \subseteq Given
BY DEF RaceLedger, Blocks, Logged, Standing, Forgotten

\* The hash of a header that does not exist is not that of a block.
LEMMA ZeroHashApart == ZeroHash \notin Blocks
BY ChainAssumption DEF ZeroHash, Blocks

\* A hash is that of blocks of one height only.
LEMMA HashOfOne ==
    ASSUME NEW h, h # ZeroHash, NEW n, NEW m, HashOf(h, n), HashOf(h, m)
    PROVE  n = m
BY DEF HashOf

\* The sets depend on metadata and ledger only.
LEMMA SameGiven ==
    ASSUME UNCHANGED ledger
    PROVE  /\ Given' = Given /\ Standing' = Standing /\ Logged' = Logged
           /\ UNCHANGED meta => Forgotten' = Forgotten
BY DEF Given, Standing, Logged, Forgotten

\* The numbers of chain and recorded block
LEMMA HeadNumbers ==
    ASSUME Setting, HeadOK
    PROVE  /\ BlockNumber \in Nat /\ BlockNumber >= StartBlock /\ BlockNumber <= tallest
           /\ BlockNumber > tallest - FilterRange
           /\ tallest \in Nat /\ tallest >= StartBlock /\ tallest < Half
           /\ tallest >= StartBlock + MaxReorgDepth
           /\ \A n \in Nat : Exists(n) <=> n <= BlockNumber
           /\ \A n \in Nat : Exists(n) => BlockAt(n) \in Blocks /\ BlockAt(n).number = n
<1>1. /\ BlockNumber \in Nat
      /\ \A n \in Nat : Exists(n) <=> n <= BlockNumber
      /\ \A n \in Nat : Exists(n) => BlockAt(n) \in Blocks /\ BlockAt(n).number = n
  BY ChainBlocks DEF HeadOK
<1> QED
  BY <1>1, SettingFacts DEF HeadOK

-----------------------------------------------------------------------------
(* Initially, and when the chain moves *)

\* Nothing is known before the first poll.
LEMMA RaceInit ==
    ASSUME Setting, Init
    PROVE  RaceInv
<1>1. gateway = NoRecord \/ (gateway = StartBlock /\ FALSE \in FirstRuns)
  <2>1. PICK firstRun \in FirstRuns : NewDataGatewayMem(StartBlock, ~firstRun)
    BY DEF Init, InitTestComponents
  <2>2. firstRun \in BOOLEAN
    BY SuperWatcherAssumption
  <2> QED
    BY <2>1, <2>2 DEF NewDataGatewayMem
<1>2. epc = "compute" /\ status = NewStatus /\ call = [from |-> 0, to |-> 0]
  BY DEF Init, EmitterInit
<1>3. /\ ppc = "idle" /\ args = [from |-> 0, to |-> 0]
      /\ pollResults = NoBlocks /\ headers = NoBlocks
      /\ doReorg = TRUE /\ policy \in Policies /\ tracker = NoBlocks
      /\ filter = Addresses /\ lastRecorded = 0
      /\ ret = [result |-> NoResult, err |-> "none"]
  BY DEF Init, PollerInit, newTracker
<1>4. npc = "receive" /\ DOMAIN meta = {} /\ DOMAIN ledger = {}
  BY DEF Init, EngineInit, newMetadataTracker, Nothing
<1>5. ChainOK /\ tallest = InitHeight /\ BlockNumber = InitHeight
  <2>1. ChainInit /\ chain \in Branches(0, 0, InitHeight) /\ tallest = InitHeight
    BY DEF Init, ChainInit
  <2>2. Len(chain) = InitHeight + 1
    BY <2>1, BranchesOK, ChainAssumption
  <2> QED
    BY <2>1, <2>2, ChainInitOK, ChainAssumption DEF BlockNumber
<1>6. DOMAIN tracker = {} /\ Given = {} /\ Standing = {} /\ Logged = {} /\ Forgotten = {}
  BY <1>3, <1>4, NoBlocksOK DEF Given, Standing, Logged, Forgotten
<1>7. Computing /\ ~Polling /\ ~Polled /\ ~Answered /\ ~Handling
  BY <1>2, <1>3, <1>4 DEF Computing, Polling, Polled, Answered, Handling
<1>8. Fields
  <2>1. GatewayTypeOK
    BY <1>1, SettingFacts DEF GatewayTypeOK
  <2> QED
    BY <1>2, <1>3, <2>1, NoBlocksOK DEF Fields, ArgsOK, FetchedOK, NewStatus, Setting
<1>9. HeadOK
  BY <1>5, SettingFacts DEF HeadOK
<1>10. Safe
  BY <1>4, <1>6, <1>8, <1>9 DEF Safe, RaceLedger, OneStanding, StatesOK
<1>11. RaceFetch /\ RaceTracker /\ RaceCover /\ RaceRange /\ RaceResult /\ RaceForgotten
  BY <1>3, <1>6, <1>7
     DEF RaceFetch, RaceTracker, RaceCover, RaceRange, RaceResult, RaceForgotten
<1>12. RaceRecord /\ RaceStatus /\ RaceGoBack
  <2>1. Unpolled
    BY <1>1, <1>3, <1>4, <1>6 DEF Unpolled
  <2>2. RaceRecord
    BY <1>3, <1>4, <1>5, <1>7, <2>1, SettingFacts DEF RaceRecord
  <2>3. status.goBack = TRUE /\ status.isReorging = FALSE /\ status.retries = 0
    BY <1>2 DEF NewStatus
  <2> QED
    BY <1>2, <1>7, <2>1, <2>2, <2>3 DEF RaceStatus, RaceGoBack, GoingBack
<1>13. RaceMeta /\ RaceLoop
  BY <1>4 DEF RaceMeta, RaceLoop
<1> QED
  BY <1>7, <1>10, <1>11, <1>12, <1>13 DEF RaceInv, Working, PhaseOK

\* Only the emitter between two rounds and Poll read the chain.
LEMMA ReadersOnly ==
    ASSUME PhaseOK, ReadsChain
    PROVE  /\ Computing \/ Polling
           /\ ~Polled /\ ~Answered /\ ~Handling /\ npc = "receive"
BY DEF PhaseOK, ReadsChain, Computing, Polling, Polled, Answered, Handling

\* Between two rounds, and while a Poll is under way, no block is about to be reverted.
LEMMA NoneReverting ==
    ASSUME Computing \/ Polling
    PROVE  Reverting = {}
BY DEF Computing, Polling, Reverting

\* When the chain changes, with or without a Poll under way, what it replaces is recent.
LEMMA RaceChainMoves ==
    ASSUME Setting, Safe, Working, ChainMoves
    PROVE  Safe' /\ Working'
<1>1. /\ ReadsChain /\ ChainStep
      /\ UNCHANGED <<gateway, epc, status, call, ppc, args, pollResults, headers, tracker,
                     doReorg, policy, filter, lastRecorded, ret>>
      /\ UNCHANGED <<npc, result, todo, batch, meta, ledger>>
  BY DEF ChainMoves, emitterVars, pollerVars, engineVars
<1>2. /\ Computing \/ Polling
      /\ ~Polled /\ ~Answered /\ ~Handling /\ npc = "receive"
  BY <1>1, ReadersOnly DEF Working
<1>3. /\ Computing' = Computing /\ Polling' = Polling
      /\ ~Polled' /\ ~Answered' /\ ~Handling' /\ npc' = "receive"
  BY <1>1, <1>2 DEF Computing, Polling, Polled, Answered, Handling
<1>4. HeadOK /\ RaceLedger
  BY DEF Safe
<1>5. /\ HeadOK'
      /\ tallest <= tallest'
      /\ \A n \in Nat : n <= tallest - MaxReorgDepth =>
           Exists(n) /\ Exists(n)' /\ BlockAt(n)' = BlockAt(n)
  BY <1>1, <1>4, ChainMove
<1>6. /\ tallest \in Nat /\ tallest >= StartBlock + MaxReorgDepth /\ tallest' \in Nat
      /\ lastRecorded \in Nat /\ lastRecorded <= tallest
  BY <1>4, <1>5, HeadNumbers DEF HeadOK, Working, RaceRecord
<1>7. /\ Given' = Given /\ Standing' = Standing /\ Logged' = Logged
      /\ Forgotten' = Forgotten
      /\ \A n : AboveForgotten(n)' = AboveForgotten(n)
  BY <1>1, SameGiven DEF AboveForgotten
<1>8. Reverting = {} /\ Reverting' = {}
  BY <1>2, <1>3, NoneReverting DEF Computing, Polling, Reverting
<1>9. /\ FilterRange \in Nat /\ FilterRange >= 1 /\ StartBlock \in Nat
      /\ MaxReorgDepth \in Nat /\ MaxReorgDepth <= FilterRange
  BY SettingFacts
<1>10. \A h \in Forgotten : h.number \in Nat /\ h.number <= tallest - 2 * FilterRange
  BY <1>4, GivenNumbers DEF Working, RaceForgotten
\* A block above the final ones may be replaced without harm.
<1> DEFINE Final(n) == n <= tallest - MaxReorgDepth
<1>11. ASSUME NEW n \in Nat, ~Final(n)
       PROVE  n > StartBlock /\ n > tallest - FilterRange /\ AboveForgotten(n)
  <2>1. n > StartBlock /\ n > tallest - FilterRange
    BY <1>6, <1>9, <1>11
  <2> QED
    BY <1>6, <1>9, <1>10, <2>1 DEF AboveForgotten
<1>12. ASSUME NEW n \in Nat, Final(n)
       PROVE  /\ Exists(n) /\ Exists(n)' /\ BlockAt(n)' = BlockAt(n)
              /\ HeaderHash(n)' = HeaderHash(n) /\ LogsAt(n)' = LogsAt(n)
              /\ TrackedSound(n)' = TrackedSound(n)
  BY <1>1, <1>5, <1>12 DEF HeaderHash, LogsAt, TrackedSound
<1>13. DOMAIN tracker \subseteq Nat
  BY DEF Safe, Fields, BlockMap
<1>14. ASSUME NEW n \in DOMAIN tracker, TrackedSound(n), ~TrackedSound(n)'
       PROVE  n > StartBlock /\ n > tallest - FilterRange /\ AboveForgotten(n)
  BY <1>11, <1>12, <1>13, <1>14
<1>15. \A n : Recent(n)' = Recent(n)
  BY <1>1, <1>7 DEF Recent
<1>16. ASSUME Polling, NEW n \in args.from .. args.to, ~Final(n)
       PROVE  n \in Nat /\ Recent(n)
  <2>1. /\ args.from \in Nat /\ args.to \in Nat /\ args.to <= tallest
        /\ StartBlock <= args.from
    BY <1>16 DEF Safe, Fields, ArgsOK, Working, RaceRange, Computing, Polling
  <2>2. n \in Nat
    BY <2>1
  <2>3. n > StartBlock /\ n > tallest - FilterRange /\ AboveForgotten(n)
    BY <1>11, <1>16, <2>2
  <2>4. n > args.to - FilterRange
    BY <1>6, <1>9, <2>1, <2>2, <2>3
  <2>5. \A h \in Logged : h.number = n => n \in DOMAIN tracker
    <3>1. ~(n <= tallest - FilterRange)
      BY <1>6, <1>9, <2>2, <2>3
    <3> QED
      BY <1>8, <3>1 DEF Working, RaceCover
  <2>6. status.isReorging => n # args.from
    <3>1. status.isReorging => args.from = StartBlock \/ args.from <= tallest - FilterRange
      BY <1>16 DEF Working, RaceStatus
    <3> QED
      BY <1>6, <1>9, <2>1, <2>2, <2>3, <3>1
  <2> QED
    BY <2>2, <2>3, <2>4, <2>5, <2>6 DEF Recent
<1>17. RaceFetch'
  <2>1. ASSUME Polling, NEW results, Fetched(results)
        PROVE  Fetched(results)'
    <3>1. \A n \in args.from .. args.to : n \in Nat
      BY DEF Safe, Fields, ArgsOK
    <3>2. \A n \in args.from .. args.to : FetchedSound(results, n)' \/ Recent(n)
      BY <1>12, <1>16, <2>1, <3>1 DEF Fetched, FetchedSound
    <3> QED
      BY <1>1, <1>15, <2>1, <3>2 DEF Fetched
  <2>2. ASSUME ppc \in {"headers", "missing"}
        PROVE  Fetched(pollResults)'
    <3>1. Polling /\ Fetched(pollResults)
      BY <1>2, <2>2 DEF Computing, Working, RaceFetch
    <3> QED
      BY <1>1, <2>1, <3>1 DEF Fetched, FetchedSound
  <2>3. ASSUME ppc = "logs", NEW n \in args.from .. args.to
        PROVE  HashOf(headers[n], n) /\ (headers[n] = HeaderHash(n)' \/ Recent(n))
    <3>1. Polling /\ HashOf(headers[n], n) /\ (headers[n] = HeaderHash(n) \/ Recent(n))
      BY <1>2, <2>3 DEF Computing, Working, RaceFetch
    <3>2. n \in Nat
      BY DEF Safe, Fields, ArgsOK
    <3> QED
      BY <1>12, <1>16, <3>1, <3>2
  <2> QED
    BY <1>1, <1>15, <2>2, <2>3 DEF RaceFetch, HashOf
<1>18. RaceTracker'
  <2> SUFFICES ASSUME NEW n \in DOMAIN tracker
               PROVE  /\ n >= StartBlock
                      /\ HashOf(tracker[n].hash, n)
                      /\ \/ TrackedSound(n)'
                         \/ /\ n > StartBlock /\ n > lastRecorded - FilterRange
                            /\ AboveForgotten(n)
    BY <1>1, <1>7 DEF RaceTracker, HashOf
  <2>1. /\ n >= StartBlock /\ HashOf(tracker[n].hash, n)
        /\ \/ TrackedSound(n)
           \/ n > StartBlock /\ n > lastRecorded - FilterRange /\ AboveForgotten(n)
    BY DEF Working, RaceTracker
  <2>2. n \in Nat
    BY <1>13
  <2>3. n > tallest - FilterRange => n > lastRecorded - FilterRange
    BY <1>6, <1>9, <2>2
  <2> QED
    BY <1>14, <2>1, <2>3
<1>19. RaceCover'
  <2> SUFFICES ASSUME NEW h \in Logged
               PROVE  \/ h.number \in DOMAIN tracker /\ tracker[h.number].hash = h
                      \/ /\ h.number \notin DOMAIN tracker
                         /\ h.number <= tallest' - FilterRange
                         /\ Exists(h.number)' /\ BlockAt(h.number)' = h
    BY <1>1, <1>7 DEF RaceCover
  <2>1. \/ h.number \in DOMAIN tracker /\ tracker[h.number].hash = h
        \/ /\ h.number \notin DOMAIN tracker /\ h.number <= tallest - FilterRange
           /\ Exists(h.number) /\ BlockAt(h.number) = h
    BY <1>8 DEF Working, RaceCover
  <2>2. h.number \in Nat
    BY <1>4, GivenNumbers
  <2>3. h.number <= tallest - FilterRange =>
          Final(h.number) /\ h.number <= tallest' - FilterRange
    BY <1>5, <1>6, <1>9, <2>2
  <2> QED
    BY <1>12, <2>1, <2>2, <2>3
<1>20. RaceRecord' /\ RaceRange' /\ RaceResult'
  <2>1. RaceRecord'
    <3>1. Unpolled' = Unpolled
      BY <1>1 DEF Unpolled
    <3>2. lastRecorded' \in Nat /\ lastRecorded' <= tallest'
      BY <1>1, <1>5, <1>6
    <3> QED
      BY <1>1, <1>2, <1>3, <3>1, <3>2 DEF Working, RaceRecord
  <2>2. RaceRange'
    <3>1. ~Computing => args.to \in Nat /\ args.to <= tallest'
      BY <1>5, <1>6 DEF Safe, Fields, ArgsOK, Working, RaceRange
    <3> QED
      BY <1>1, <1>3, <3>1 DEF Working, RaceRange
  <2> QED
    BY <1>3, <2>1, <2>2 DEF RaceResult
<1>21. RaceStatus'
  <2>1. ASSUME Polling, status.isReorging
        PROVE  /\ args.from = StartBlock \/ args.from <= tallest' - FilterRange
               /\ args.from \in DOMAIN tracker => TrackedSound(args.from)'
    <3>1. /\ args.from = StartBlock \/ args.from <= tallest - FilterRange
          /\ args.from \in DOMAIN tracker => TrackedSound(args.from)
      BY <2>1 DEF Working, RaceStatus
    <3>2. args.from \in Nat /\ Final(args.from)
      BY <1>6, <1>9, <3>1 DEF Safe, Fields, ArgsOK
    <3>3. args.from = StartBlock \/ args.from <= tallest' - FilterRange
      BY <1>5, <1>6, <1>9, <3>1, <3>2
    <3>4. TrackedSound(args.from)' = TrackedSound(args.from)
      <4>1. \A n \in Nat : Final(n) => TrackedSound(n)' = TrackedSound(n)
        BY <1>12
      <4> HIDE DEF Final
      <4> QED
        BY <1>1, <3>2, <4>1 DEF TrackedSound
    <3> QED
      BY <3>1, <3>3, <3>4
  <2> QED
    BY <1>1, <1>3, <2>1 DEF Working, RaceStatus, Unpolled
<1>22. RaceGoBack'
  <2> SUFFICES ASSUME GoingBack
               PROVE  /\ lastRecorded \in {status.from - 1, status.from}
                      /\ StartBlock <= status.from /\ status.from <= status.to
                      /\ status.from <= tallest'
                      /\ \A n \in DOMAIN tracker :
                           TrackedSound(n)' \/ n > status.from - FilterRange
                      /\ \A h \in Forgotten : h.number < status.from - FilterRange
    BY <1>1, <1>7 DEF RaceGoBack, GoingBack
  <2>1. /\ lastRecorded \in {status.from - 1, status.from}
        /\ StartBlock <= status.from /\ status.from <= status.to /\ status.from <= tallest
        /\ \A n \in DOMAIN tracker : TrackedSound(n) \/ n > status.from - FilterRange
        /\ \A h \in Forgotten : h.number < status.from - FilterRange
    BY DEF Working, RaceGoBack
  <2>2. status.from \in Nat
    BY DEF Safe, Fields
  <2>3. \A n \in DOMAIN tracker : TrackedSound(n)' \/ n > status.from - FilterRange
    BY <1>6, <1>9, <1>13, <1>14, <2>1, <2>2
  <2> QED
    BY <1>5, <1>6, <2>1, <2>2, <2>3
<1>23. RaceForgotten'
  <2> SUFFICES ASSUME NEW h \in Forgotten
               PROVE  h.number <= tallest' - 2 * FilterRange
    BY <1>1, <1>3, <1>7 DEF Working, RaceForgotten
  <2> QED
    BY <1>5, <1>6, <1>9, <1>10
<1>24. RaceMeta' /\ RaceLoop' /\ PhaseOK'
  BY <1>1, <1>2, <1>3, <1>7 DEF Working, RaceMeta, RaceState, RaceLoop, PhaseOK
<1>25. Fields'
  BY <1>1, <1>2 DEF Safe, Fields, ArgsOK, FetchedOK, GatewayTypeOK
<1>26. Safe'
  BY <1>1, <1>5, <1>7, <1>25 DEF Safe, RaceLedger, OneStanding, StatesOK
<1> QED
  BY <1>17, <1>18, <1>19, <1>20, <1>21, <1>22, <1>23, <1>24, <1>26 DEF Working

-----------------------------------------------------------------------------
(* The emitter waits, or calls Poll *)

\* What is tracked is as sound as it was when nothing is tracked anew, and when the engine
\* forgets nothing.
LEMMA TrackerStays ==
    ASSUME UNCHANGED <<chain, tracker, lastRecorded>>, Forgotten' \subseteq Forgotten
    PROVE  /\ RaceTracker => RaceTracker'
           /\ \A n : TrackedSound(n)' = TrackedSound(n)
           /\ \A n : AboveForgotten(n) => AboveForgotten(n)'
<1>1. \A n : TrackedSound(n)' = TrackedSound(n)
  BY SameChain DEF TrackedSound
<1>2. \A n : AboveForgotten(n) => AboveForgotten(n)'
  BY DEF AboveForgotten
<1> QED
  BY <1>1, <1>2 DEF RaceTracker, HashOf

\* The emitter waits for new blocks; it never gives up on a reorg.
LEMMA RaceWait ==
    ASSUME Setting, Safe, Working, Wait
    PROVE  Safe' /\ Working'
<1>1. /\ UNCHANGED <<gateway, ppc, args, pollResults, headers, tracker, doReorg, policy,
                     filter, lastRecorded, ret, npc, result, todo, batch, meta, ledger>>
      /\ UNCHANGED <<chain, tallest, reorgs, abandoned>>
      /\ SkipNoNewBlock(BlockNumber) \/ GiveUpReorg(BlockNumber)
  BY DEF Wait, pollerVars, engineVars, chainVars
<1>2. status.retries = IF status.isReorging THEN 1 ELSE 0
  BY DEF Working, RaceStatus
<1>3. ~maxRetriesReached
  BY <1>2, SettingFacts DEF maxRetriesReached
<1>4. /\ epc = "compute" /\ UNCHANGED <<epc, call>> /\ ~goBackFirstStart
      /\ status' = [status EXCEPT !.goBack = FALSE]
  BY <1>1, <1>3 DEF SkipNoNewBlock, GiveUpReorg
<1>5. status \in [from : Nat, to : Nat, goBack : BOOLEAN, isReorging : BOOLEAN, retries : Nat]
  BY DEF Safe, Fields
<1>6. /\ status' \in [from : Nat, to : Nat, goBack : BOOLEAN, isReorging : BOOLEAN, retries : Nat]
      /\ status'.from = status.from /\ status'.to = status.to /\ status'.goBack = FALSE
      /\ status'.isReorging = status.isReorging /\ status'.retries = status.retries
  BY <1>4, <1>5
<1>7. Computing /\ ~Polling /\ ~Polled /\ ~Handling
  BY <1>4, ComputingOnly DEF Working
<1>8. Computing' /\ ~Polling' /\ ~Polled' /\ ~Handling' /\ ~Answered'
  BY <1>1, <1>4, <1>7 DEF Computing, Polling, Polled, Handling, Answered
<1>9. /\ Given' = Given /\ Standing' = Standing /\ Logged' = Logged
      /\ Forgotten' = Forgotten
  BY <1>1, SameGiven
<1>10. /\ \A n : Exists(n)' = Exists(n) /\ BlockAt(n)' = BlockAt(n)
       /\ \A n : TrackedSound(n)' = TrackedSound(n)
       /\ RaceTracker' /\ HeadOK'
  BY <1>1, <1>9, SameChain, TrackerStays, HeadStays DEF Safe, Working, chainVars
<1>11. RaceCover'
  <2>1. Reverting = {} /\ Reverting' = {}
    BY <1>7, <1>8, NoneReverting DEF Computing, Reverting
  <2> QED
    BY <1>1, <1>9, <1>10, <2>1 DEF Working, RaceCover
<1>12. Unpolled' = Unpolled
  BY <1>1 DEF Unpolled
<1>13. RaceRecord' /\ RaceRange' /\ RaceResult' /\ RaceFetch'
  BY <1>1, <1>7, <1>8, <1>12
     DEF Working, RaceRecord, RaceRange, RaceResult, RaceFetch, Computing
<1>14. RaceStatus'
  <2>1. ~(Unpolled /\ gateway = StartBlock)
    BY <1>4, <1>7, SettingFacts
       DEF Working, RaceStatus, goBackFirstStart, GetLastRecordedBlock
  <2> QED
    BY <1>1, <1>2, <1>4, <1>6, <1>8, <1>12, <2>1 DEF RaceStatus
<1>15. RaceGoBack'
  BY <1>1, <1>4, <1>6, <1>9, <1>10 DEF Working, RaceGoBack, GoingBack
<1>16. RaceForgotten' /\ RaceMeta' /\ RaceLoop' /\ PhaseOK'
  BY <1>1, <1>4, <1>7, <1>8, <1>9
     DEF Working, RaceForgotten, RaceMeta, RaceState, RaceLoop, PhaseOK, Computing
<1>17. Safe'
  <2>1. Fields'
    BY <1>1, <1>4, <1>6, <1>7 DEF Safe, Fields, ArgsOK, FetchedOK, GatewayTypeOK, Computing
  <2> QED
    BY <1>1, <1>9, <1>10, <2>1 DEF Safe, RaceLedger, OneStanding, StatesOK
<1> QED
  BY <1>10, <1>11, <1>13, <1>14, <1>15, <1>16, <1>17 DEF Working

\* The range of the next poll: as before, or the blocks after StartBlock when StartBlock was
\* recorded at first.  It starts with a sound block when the emitter has gone back.
LEMMA RaceNextRange ==
    ASSUME Setting, Safe, Working, ComputeRange(BlockNumber)
    PROVE  /\ call' = [from |-> call'.from, to |-> call'.to]
           /\ call'.from \in Nat /\ call'.to \in Nat
           /\ StartBlock <= call'.from /\ call'.from <= call'.to /\ call'.to <= tallest
           /\ \A n \in DOMAIN tracker :
                n > lastRecorded - FilterRange => n >= call'.from
           /\ status.isReorging =>
                /\ call'.from = StartBlock \/ call'.from <= tallest - FilterRange
                /\ call'.from \in DOMAIN tracker => TrackedSound(call'.from)
           /\ \A h \in Forgotten : h.number < call'.from /\ h.number <= call'.to - FilterRange
           /\ epc = "compute" /\ epc' = "poll"
           /\ status' \in [from : Nat, to : Nat, goBack : BOOLEAN, isReorging : BOOLEAN,
                           retries : Nat]
           /\ status'.goBack = FALSE
           /\ status'.isReorging = status.isReorging /\ status'.retries = status.retries
<1>1. epc = "compute"
  BY DEF ComputeRange
<1>2. Computing
  BY <1>1, ComputingOnly DEF Working
<1>3. /\ status \in [from : Nat, to : Nat, goBack : BOOLEAN, isReorging : BOOLEAN,
                     retries : Nat]
      /\ DOMAIN tracker \subseteq Nat /\ HeadOK
  BY DEF Safe, Fields, BlockMap
<1>4. /\ FilterRange \in Nat /\ FilterRange >= 1 /\ StartBlock \in Nat /\ StartBlock >= 1
      /\ BlockNumber \in Nat /\ BlockNumber <= tallest /\ tallest \in Nat
      /\ StartBlock # NoRecord
  BY <1>3, SettingFacts, HeadNumbers
<1>5. CASE goBackFirstStart
  <2>1. /\ Unpolled /\ gateway = StartBlock /\ FALSE \in FirstRuns
        /\ ~status.isReorging /\ status.retries = 0
    BY <1>5 DEF goBackFirstStart, GetLastRecordedBlock, Working, RaceStatus, Unpolled
  <2>2. Forgotten = {} /\ DOMAIN tracker = {}
    BY <2>1 DEF Unpolled, Forgotten, Given
  <2>3. computeFromBlockToBlock(BlockNumber)
          = [from |-> StartBlock + 1, to |-> StartBlock + 1 + FilterRange - 1]
    <3> DEFINE goBack == FilterRange * status.retries
               from   == IF goBack > StartBlock + 1 THEN StartBlock
                         ELSE (StartBlock + 1) - goBack
    <3>1. lastRecordedBlock = StartBlock
      BY <1>4, <2>1 DEF lastRecordedBlock, GetLastRecordedBlock
    <3>2. computeFromBlockToBlock(BlockNumber)
            = [from |-> from, to |-> from + FilterRange - 1]
      <4>1. computeFromBlockToBlock(BlockNumber)
              = fromBlockToBlockGoBackFirstRun(StartBlock, StartBlock, FilterRange, status)
        BY <1>5, <3>1 DEF computeFromBlockToBlock
      <4>2. fromBlockToBlockGoBackFirstRun(StartBlock, StartBlock, FilterRange, status)
              = [from |-> from, to |-> from + FilterRange - 1]
        BY DEF fromBlockToBlockGoBackFirstRun
      <4> QED
        BY <4>1, <4>2
    <3>3. goBack = 0
      BY <1>4, <2>1
    <3> HIDE DEF goBack
    <3>4. from = StartBlock + 1
      BY <1>4, <3>3
    <3> QED
      BY <3>2, <3>4, Zenon
  <2>4. /\ epc' = "poll"
        /\ status' = [status EXCEPT !.goBack = FALSE, !.from = StartBlock + 1,
                                    !.to = StartBlock + 1 + FilterRange - 1]
        /\ call' = [from |-> StartBlock + 1, to |-> StartBlock + 1 + FilterRange - 1]
    <3>1. ~(StartBlock + 1 < StartBlock)
      BY <1>4
    <3> QED
      BY <2>3, <3>1 DEF ComputeRange
  <2>5. StartBlock + FilterRange <= tallest
    <3>1. StartBlock + FilterRange <= InitHeight /\ InitHeight <= tallest
      BY <1>3, <2>1 DEF Setting, HeadOK
    <3>2. InitHeight \in Nat
      BY SettingFacts
    <3> QED
      BY <1>4, <3>1, <3>2
  <2>6. /\ StartBlock + 1 \in Nat
        /\ StartBlock + 1 + FilterRange - 1 \in Nat
        /\ StartBlock + 1 + FilterRange - 1 = StartBlock + FilterRange
        /\ StartBlock + 1 <= StartBlock + FilterRange
        /\ StartBlock <= StartBlock + 1
    BY <1>4
  <2>7. /\ call'.from = StartBlock + 1 /\ call'.to = StartBlock + FilterRange
        /\ call' = [from |-> call'.from, to |-> call'.to]
    BY <2>4, <2>6
  <2>8. /\ status' \in [from : Nat, to : Nat, goBack : BOOLEAN, isReorging : BOOLEAN,
                        retries : Nat]
        /\ status'.goBack = FALSE
        /\ status'.isReorging = status.isReorging /\ status'.retries = status.retries
    BY <1>3, <2>4, <2>6
  <2>9. StartBlock + FilterRange \in Nat
    BY <2>6
  <2> QED
    BY <1>1, <2>1, <2>2, <2>4, <2>5, <2>6, <2>7, <2>8, <2>9
<1>6. CASE ~goBackFirstStart
  <2> DEFINE old == { h.number : h \in Forgotten }
  <2>1. /\ lastRecorded \in Nat /\ lastRecorded <= tallest
        /\ \/ gateway = NoRecord /\ lastRecorded = 0
           \/ gateway = lastRecorded /\ lastRecorded >= StartBlock
    <3>1. Unpolled => gateway = NoRecord /\ lastRecorded = 0
      BY <1>2, <1>4, <1>6
         DEF Unpolled, Working, RaceStatus, goBackFirstStart, GetLastRecordedBlock
    <3> QED
      BY <1>2, <3>1 DEF Working, RaceRecord
  <2>2. /\ old \in SUBSET Nat
        /\ \A n \in old : n <= tallest - 2 * FilterRange /\ n <= lastRecorded - FilterRange
    BY GivenNumbers DEF Safe, Working, RaceForgotten
  <2>3. status.isReorging =>
          /\ lastRecorded \in {status.from - 1, status.from}
          /\ StartBlock <= status.from /\ status.from <= status.to
          /\ status.from <= tallest
          /\ \A n \in old : n < status.from - FilterRange
          /\ \A n \in DOMAIN tracker : TrackedSound(n) \/ n > status.from - FilterRange
    BY <1>1 DEF Working, RaceGoBack, GoingBack
  <2>4. \A h \in Forgotten : h.number \in old
    OBVIOUS
  <2> HIDE DEF old
  <2>5. /\ call' = [from |-> call'.from, to |-> call'.to]
        /\ call'.from \in Nat /\ call'.to \in Nat
        /\ StartBlock <= call'.from /\ call'.from <= call'.to /\ call'.to <= BlockNumber
        /\ call'.from = StartBlock \/ call'.from <= lastRecorded + 1 - FilterRange
        /\ status.isReorging =>
             call'.from = StartBlock \/ call'.from = status.from - FilterRange
        /\ \A n \in old : n < call'.from /\ n <= call'.to - FilterRange
        /\ epc' = "poll"
        /\ status' \in [from : Nat, to : Nat, goBack : BOOLEAN, isReorging : BOOLEAN,
                        retries : Nat]
        /\ status'.goBack = FALSE
        /\ status'.isReorging = status.isReorging /\ status'.retries = status.retries
    BY <1>3, <1>6, <2>1, <2>2, <2>3, NextRange
  <2>6. /\ \A n \in DOMAIN tracker : n > lastRecorded - FilterRange => n >= call'.from
        /\ \A n \in DOMAIN tracker : TrackedSound(n) \/ n > StartBlock
    <3>1. \A n \in DOMAIN tracker : n \in Nat /\ n >= StartBlock
      BY <1>3 DEF Working, RaceTracker
    <3>2. \A n \in DOMAIN tracker : TrackedSound(n) \/ n > StartBlock
      BY DEF Working, RaceTracker
    <3> QED
      BY <1>4, <2>1, <2>5, <3>1, <3>2
  <2>7. ASSUME status.isReorging
        PROVE  /\ call'.from = StartBlock \/ call'.from <= tallest - FilterRange
               /\ call'.from \in DOMAIN tracker => TrackedSound(call'.from)
    <3>1. status.from \in Nat /\ status.from <= tallest
      BY <1>3, <2>3, <2>7
    <3>2. call'.from = StartBlock \/ call'.from = status.from - FilterRange
      BY <2>5, <2>7
    <3>3. ~(call'.from > StartBlock) \/ ~(call'.from > status.from - FilterRange)
      BY <1>4, <2>5, <3>1, <3>2
    <3> QED
      BY <1>4, <2>3, <2>5, <2>6, <2>7, <3>1, <3>2, <3>3
  <2>8. call'.to <= tallest
    BY <1>4, <2>5
  <2> QED
    BY <1>1, <2>4, <2>5, <2>6, <2>7, <2>8
<1> QED
  BY <1>5, <1>6

\* The poll forgets tracked blocks, all of them sound, and starts.
LEMMA RaceCallPoll ==
    ASSUME Setting, Safe, Working, CallPoll
    PROVE  Safe' /\ Working'
<1>1. /\ ComputeRange(BlockNumber) /\ Poll(call'.from, call'.to)
      /\ UNCHANGED <<gateway, npc, result, todo, batch, meta, ledger>>
      /\ UNCHANGED <<chain, tallest, reorgs, abandoned>>
  BY DEF CallPoll, engineVars, chainVars
<1>2. /\ call' = [from |-> call'.from, to |-> call'.to]
      /\ call'.from \in Nat /\ call'.to \in Nat
      /\ StartBlock <= call'.from /\ call'.from <= call'.to /\ call'.to <= tallest
      /\ \A n \in DOMAIN tracker : n > lastRecorded - FilterRange => n >= call'.from
      /\ status.isReorging =>
           /\ call'.from = StartBlock \/ call'.from <= tallest - FilterRange
           /\ call'.from \in DOMAIN tracker => TrackedSound(call'.from)
      /\ \A h \in Forgotten : h.number < call'.from /\ h.number <= call'.to - FilterRange
  BY <1>1, RaceNextRange
<1>3. /\ epc = "compute" /\ epc' = "poll"
      /\ status' \in [from : Nat, to : Nat, goBack : BOOLEAN, isReorging : BOOLEAN,
                      retries : Nat]
      /\ status'.goBack = FALSE
      /\ status'.isReorging = status.isReorging /\ status'.retries = status.retries
  BY <1>1, RaceNextRange
<1>4. Computing /\ ~Polling /\ ~Polled /\ ~Handling /\ Reverting = {}
  BY <1>3, ComputingOnly, NoneReverting DEF Working
<1>5. tracker # NoTracker /\ BlockMap(tracker) /\ DOMAIN tracker \subseteq Nat
  BY DEF Safe, Fields, BlockMap
<1>6. /\ lastRecorded \in Nat /\ lastRecorded < Half /\ lastRecorded <= tallest
      /\ tallest \in Nat /\ FilterRange \in Nat
  BY HeadNumbers, SettingFacts DEF Working, RaceRecord, Safe
<1>7. /\ args' = call' /\ ppc' = "fetch"
      /\ tracker' = clearUntil(tracker, Sub64(lastRecorded, FilterRange))
      /\ ret' = [result |-> NoResult, err |-> "none"]
      /\ UNCHANGED <<pollResults, headers, doReorg, policy, filter, lastRecorded>>
  <2>1. ~(call'.from > call'.to + 1)
    BY <1>2
  <2> QED
    BY <1>1, <1>2, <1>5, <2>1 DEF Poll, Setting
<1>8. /\ DOMAIN tracker' = { n \in DOMAIN tracker : n > lastRecorded - FilterRange }
      /\ \A n \in DOMAIN tracker' : tracker'[n] = tracker[n]
  <2>1. Score(Sub64(lastRecorded, FilterRange)) = lastRecorded - FilterRange
    BY <1>6, SettingFacts, ScoreOfSub64
  <2> QED
    BY <1>7, <2>1 DEF clearUntil
<1>9. \A n : Exists(n)' = Exists(n) /\ BlockAt(n)' = BlockAt(n)
  BY <1>1, SameChain
<1>10. \A n \in DOMAIN tracker' : n \in DOMAIN tracker /\ TrackedSound(n)' = TrackedSound(n)
  BY <1>8, <1>9 DEF TrackedSound
<1>11. /\ Polling' /\ ~Computing' /\ ~Polled' /\ ~Handling' /\ ~Answered'
       /\ Reverting' = {}
  BY <1>1, <1>3, <1>4, <1>7 DEF Computing, Polling, Polled, Handling, Answered, Reverting
<1>12. /\ Given' = Given /\ Standing' = Standing /\ Logged' = Logged
       /\ Forgotten' = Forgotten /\ \A n : AboveForgotten(n)' = AboveForgotten(n)
  BY <1>1, SameGiven DEF AboveForgotten
<1>13. RaceTracker'
  BY <1>7, <1>8, <1>10, <1>12 DEF Working, RaceTracker, HashOf
<1>14. RaceCover'
  <2> SUFFICES ASSUME NEW h \in Logged
               PROVE  \/ h.number \in DOMAIN tracker' /\ tracker'[h.number].hash = h
                      \/ /\ h.number \notin DOMAIN tracker'
                         /\ h.number <= tallest - FilterRange
                         /\ Exists(h.number) /\ BlockAt(h.number) = h
    BY <1>1, <1>9, <1>12 DEF RaceCover
  <2>1. \/ h.number \in DOMAIN tracker /\ tracker[h.number].hash = h
        \/ /\ h.number \notin DOMAIN tracker
           /\ h.number <= tallest - FilterRange
           /\ Exists(h.number) /\ BlockAt(h.number) = h
    BY <1>4 DEF Working, RaceCover
  <2>2. CASE h.number \in DOMAIN tracker /\ tracker[h.number].hash = h
             /\ ~(h.number > lastRecorded - FilterRange)
    <3>1. TrackedSound(h.number)
      BY <2>2 DEF Working, RaceTracker
    <3>2. Exists(h.number) /\ BlockAt(h.number) = h
      BY <2>2, <3>1 DEF TrackedSound
    <3>3. h.number <= tallest - FilterRange
      BY <1>5, <1>6, <2>2
    <3> QED
      BY <1>8, <2>2, <3>2, <3>3
  <2> QED
    BY <1>8, <2>1, <2>2
<1>15. RaceRecord'
  <2>1. Unpolled => Unpolled'
    BY <1>1, <1>7, <1>8 DEF Unpolled
  <2> QED
    BY <1>1, <1>4, <1>6, <1>7, <1>11, <2>1 DEF Working, RaceRecord, Computing
<1>16. RaceRange'
  BY <1>1, <1>2, <1>7, <1>8, <1>11 DEF RaceRange
<1>17. RaceStatus'
  <2>1. status.retries = IF status.isReorging THEN 1 ELSE 0
    BY DEF Working, RaceStatus
  <2>2. ASSUME status.isReorging, args'.from \in DOMAIN tracker'
        PROVE  TrackedSound(args.from)'
    <3>1. /\ call'.from \in DOMAIN tracker /\ TrackedSound(call'.from)
          /\ tracker'[call'.from] = tracker[call'.from]
      BY <1>2, <1>7, <1>8, <2>2
    <3>2. BlockNumber' = BlockNumber
      BY <1>1, SameChain
    <3> QED
      BY <1>1, <1>7, <3>1, <3>2 DEF TrackedSound, Exists, BlockAt
  <2> QED
    BY <1>1, <1>2, <1>3, <1>7, <1>11, <2>1, <2>2 DEF RaceStatus
<1>18. RaceGoBack' /\ RaceResult' /\ RaceFetch' /\ PhaseOK'
  BY <1>3, <1>7, <1>11 DEF RaceGoBack, GoingBack, RaceResult, RaceFetch, PhaseOK
<1>19. RaceForgotten'
  BY <1>1, <1>2, <1>7, <1>12 DEF Working, RaceForgotten
<1>20. RaceMeta' /\ RaceLoop'
  BY <1>1, <1>4, <1>12 DEF Working, RaceMeta, RaceState, RaceLoop, Computing
<1>21. Safe'
  <2>1. BlockMap(tracker') /\ tracker' # NoTracker
    BY <1>5, <1>8, MapIsTracker DEF BlockMap
  <2>2. ArgsOK' /\ FetchedOK' /\ call' \in [from : Nat, to : Nat]
    BY <1>2, <1>7 DEF Safe, Fields, FetchedOK, BlockMap, ArgsOK
  <2>3. Fields'
    BY <1>1, <1>3, <1>7, <2>1, <2>2 DEF Safe, Fields, GatewayTypeOK, BlockMap
  <2>4. HeadOK'
    BY <1>1, HeadStays DEF Safe, chainVars
  <2> QED
    BY <1>1, <1>12, <2>3, <2>4 DEF Safe, RaceLedger, OneStanding, StatesOK
<1> QED
  BY <1>13, <1>14, <1>15, <1>16, <1>17, <1>18, <1>19, <1>20, <1>21 DEF Working

-----------------------------------------------------------------------------
(* Poll *)

\* Headers added to what was fetched are as the chain has them, except for recent blocks.
LEMMA FetchedMerge ==
    ASSUME NEW results, NEW heads, Fetched(results),
           \A n \in DOMAIN heads :
               HashOf(heads[n], n) /\ (heads[n] = HeaderHash(n) \/ Recent(n))
    PROVE  Fetched(collectHeaders(results, heads))
<1> DEFINE merged == collectHeaders(results, heads)
<1>1. /\ DOMAIN merged = DOMAIN results \cup DOMAIN heads
      /\ \A n \in DOMAIN results : merged[n] = results[n]
      /\ \A n \in DOMAIN heads \ DOMAIN results :
           merged[n] = [hash |-> heads[n], logs |-> {}]
  BY CollectHeadersOK, ZenonT(60)
<1> HIDE DEF merged
<1>2. \A n \in DOMAIN merged : HashOf(merged[n].hash, n)
  BY <1>1 DEF Fetched
<1>3. ASSUME NEW n \in args.from .. args.to
      PROVE  FetchedSound(merged, n) \/ Recent(n)
  <2>1. FetchedSound(results, n) \/ Recent(n)
    BY DEF Fetched
  <2>2. CASE n \in DOMAIN results \/ n \notin DOMAIN heads
    BY <1>1, <2>1, <2>2 DEF FetchedSound
  <2>3. CASE n \in DOMAIN heads \ DOMAIN results
    BY <1>1, <2>1, <2>3 DEF FetchedSound
  <2> QED
    BY <2>2, <2>3
<1> QED
  BY <1>2, <1>3 DEF Fetched, merged

\* A Poll that finishes returns what it has fetched.
LEMMA FinishKeeps ==
    ASSUME NEW results, NEW missing, FinishPoll(results, missing), blocksMissing(results) = {}
    PROVE  ppc' = "idle" /\ ret'.result.good = results
BY DEF FinishPoll, Return, processResult

\* Logs and headers together become the results of the poll.
LEMMA CollectKeeps ==
    ASSUME NEW results, NEW heads, Collect(results, heads)
    PROVE  \/ ReturnError("hashesDiffer")
           \/ ppc' = "hung"
           \/ ppc' = "missing" /\ pollResults' = collectHeaders(results, heads)
           \/ ppc' = "idle" /\ ret'.result.good = collectHeaders(results, heads)
<1> DEFINE merged == collectHeaders(results, heads)
<1> HIDE DEF merged
<1>1. CASE hashesDiffer(results, heads)
  BY <1>1 DEF Collect
<1>2. CASE ~hashesDiffer(results, heads)
  <2>1. PollMissing(merged)
    BY <1>2 DEF Collect, merged
  <2>2. \/ ppc' = "hung"
        \/ ppc' = "missing" /\ pollResults' = merged
        \/ blocksMissing(merged) = {} /\ FinishPoll(merged, {})
    BY <2>1 DEF PollMissing
  <2> QED
    BY <2>2, FinishKeeps DEF merged
<1> QED
  BY <1>1, <1>2

\* The headers and logs that the node has are those of the chain.
LEMMA FreshFetch ==
    ASSUME ChainOK, ArgsOK
    PROVE  /\ \A n \in args.from .. args.to : n \in Nat /\ HashOf(HeaderHash(n), n)
           /\ Fetched(collectLogs)
<1>1. \A n \in args.from .. args.to : n \in Nat /\ HashOf(HeaderHash(n), n)
  <2>1. \A n \in args.from .. args.to : n \in Nat
    BY DEF ArgsOK
  <2> QED
    BY <2>1, BlockAtOK DEF HeaderHash, HashOf
<1>2. /\ DOMAIN collectLogs = BlocksWithLogs(args.from, args.to, filter)
      /\ DOMAIN collectLogs \subseteq args.from .. args.to
      /\ Canonical(collectLogs)
  BY CollectLogsOK
<1>3. \A n \in args.from .. args.to : n \notin DOMAIN collectLogs => LogsAt(n) = {}
  BY <1>2 DEF BlocksWithLogs, LogsAt
<1> HIDE DEF collectLogs
<1> QED
  BY <1>1, <1>2, <1>3 DEF Fetched, FetchedSound, Canonical

\* What a step of Poll fetches is what the chain has, except for recent blocks.
LEMMA StepFetches ==
    ASSUME Safe, RaceFetch, PollStep
    PROVE  \/ FilterLogs \/ FetchHeadersFirst \/ NotImplemented
           \/ ReturnError("hashesDiffer")
           \/ ppc' = "hung"
           \/ ppc' = "missing" /\ Fetched(pollResults')
           \/ ppc' = "idle" /\ Fetched(ret'.result.good)
<1>1. ChainOK /\ ArgsOK /\ FetchedOK
  BY DEF Safe, Fields, HeadOK
<1>2. \A n \in args.from .. args.to : n \in Nat /\ HashOf(HeaderHash(n), n)
  BY <1>1, FreshFetch
<1>3. ASSUME NEW numbers \in SUBSET (args.from .. args.to)
      PROVE  /\ DOMAIN getHeadersByNumbers(numbers) = numbers
             /\ \A n \in numbers : /\ getHeadersByNumbers(numbers)[n] = HeaderHash(n)
                                   /\ HashOf(getHeadersByNumbers(numbers)[n], n)
  BY <1>2 DEF getHeadersByNumbers
<1>4. CASE FetchHeaders
  <2> DEFINE numbers == IF policy = "Expensive" THEN args.from .. args.to
                        ELSE DOMAIN pollResults
             heads   == getHeadersByNumbers(numbers)
  <2>1. ppc = "headers" /\ Collect(pollResults, heads)
    BY <1>4 DEF FetchHeaders
  <2>2. numbers \in SUBSET (args.from .. args.to)
    BY <1>1, <2>1 DEF FetchedOK
  <2>3. \A n \in DOMAIN heads : HashOf(heads[n], n) /\ heads[n] = HeaderHash(n)
    BY <1>3, <2>2
  <2> HIDE DEF heads
  <2>4. Fetched(collectHeaders(pollResults, heads))
    BY <2>1, <2>3, FetchedMerge DEF RaceFetch
  <2> QED
    BY <2>1, <2>4, CollectKeeps
<1>5. CASE FilterLogsLast
  <2>1. ppc = "logs" /\ Collect(collectLogs, headers)
    BY <1>5 DEF FilterLogsLast
  <2>2. DOMAIN headers = args.from .. args.to
    BY <1>1, <2>1 DEF FetchedOK
  <2>3. Fetched(collectHeaders(collectLogs, headers))
    BY <1>1, <2>1, <2>2, FreshFetch, FetchedMerge DEF RaceFetch
  <2> QED
    BY <2>1, <2>3, CollectKeeps
<1>6. CASE FetchMissing
  <2> DEFINE missing == blocksMissing(pollResults)
             heads   == getHeadersByNumbers(missing)
             merged  == collectHeaders(pollResults, heads)
  <2>1. ppc = "missing" /\ FinishPoll(merged, missing)
    BY <1>6 DEF FetchMissing
  <2>2. missing \in SUBSET (args.from .. args.to)
    BY DEF blocksMissing
  <2>3. /\ DOMAIN heads = missing
        /\ \A n \in DOMAIN heads : HashOf(heads[n], n) /\ heads[n] = HeaderHash(n)
    BY <1>3, <2>2
  <2> HIDE DEF heads
  <2>4. Fetched(merged)
    BY <2>1, <2>3, FetchedMerge DEF RaceFetch
  <2>5. DOMAIN merged = DOMAIN pollResults \cup missing
    BY <2>3, CollectHeadersOK
  <2>6. blocksMissing(merged) = {}
    BY <2>5 DEF blocksMissing
  <2> HIDE DEF merged, missing
  <2> QED
    BY <2>1, <2>4, <2>6, FinishKeeps
<1> QED
  BY <1>4, <1>5, <1>6 DEF PollStep

\* How a step of Poll ends: it fetches more, finds the chain changed, or finishes.
LEMMA RacePollCases ==
    ASSUME Setting, Safe, Working, StepPoll
    PROVE  /\ UNCHANGED <<gateway, epc, status, call, npc, result, todo, batch, meta, ledger>>
           /\ UNCHANGED <<chain, tallest, reorgs, abandoned, args, doReorg, policy, filter>>
           /\ Polling /\ ~Computing /\ ~Polled /\ ~Handling
           /\ \/ FilterLogs \/ FetchHeadersFirst \/ ReturnError("hashesDiffer")
              \/ GoesOn(FALSE) /\ Fetched(pollResults')
              \/ Finishes(FALSE) /\ Fetched(ret'.result.good)
<1>1. /\ PollStep
      /\ UNCHANGED <<gateway, epc, status, call, npc, result, todo, batch, meta, ledger>>
      /\ UNCHANGED <<chain, tallest, reorgs, abandoned>>
  BY DEF StepPoll, emitterVars, chainVars, engineVars
<1>2. ChainOK /\ ArgsOK /\ FetchedOK /\ policy # "ExpensiveBlock"
  BY DEF Safe, HeadOK, Fields
<1>3. /\ UNCHANGED <<args, doReorg, policy, filter>>
      /\ ppc # "idle"
      /\ FilterLogs \/ FetchHeadersFirst \/ Fails(FALSE) \/ Hangs \/ GoesOn(FALSE)
         \/ Finishes(FALSE)
  BY <1>1, <1>2, StepCases
<1>4. Polling /\ ~Computing /\ ~Polled /\ ~Handling
  BY <1>3, PollingOnly DEF Working
<1>5. ~Hangs
  <2>1. args.from >= 1
    BY <1>2, <1>4, SettingFacts DEF Working, RaceRange, ArgsOK
  <2> QED
    BY <2>1 DEF Hangs
<1>6. \/ FilterLogs \/ FetchHeadersFirst
      \/ ReturnError("hashesDiffer")
      \/ ppc' = "hung"
      \/ ppc' = "missing" /\ Fetched(pollResults')
      \/ ppc' = "idle" /\ Fetched(ret'.result.good)
  BY <1>1, <1>2, StepFetches DEF Working, NotImplemented
<1>7. Fails(FALSE) => ReturnError("hashesDiffer")
  BY <1>2 DEF Fails
<1>8. GoesOn(FALSE) => ppc' = "missing"
  BY DEF GoesOn
<1>9. Finishes(FALSE) => ppc' = "idle" /\ ret'.err # "hashesDiffer"
  <2> SUFFICES ASSUME NEW results, NEW missing, ResultsOK(results, FALSE),
                      blocksMissing(results) = {}, FinishPoll(results, missing)
               PROVE  ppc' = "idle" /\ ret'.err # "hashesDiffer"
    BY DEF Finishes
  <2> QED
    BY <1>2, FinishReturns
<1>10. /\ FilterLogs \/ FetchHeadersFirst => ppc' \in {"headers", "logs"}
       /\ ReturnError("hashesDiffer") => ppc' = "idle" /\ ret'.err = "hashesDiffer"
  BY DEF FilterLogs, FetchHeadersFirst, ReturnError, Return
<1> QED
  BY <1>1, <1>3, <1>4, <1>5, <1>6, <1>7, <1>8, <1>9, <1>10

\* Poll fetches more, or finds that the chain has changed while it was fetching.
LEMMA RacePollGoesOn ==
    ASSUME Setting, Safe, Working, StepPoll,
           \/ FilterLogs \/ FetchHeadersFirst \/ ReturnError("hashesDiffer")
           \/ GoesOn(FALSE) /\ Fetched(pollResults')
    PROVE  Safe' /\ Working'
<1>1. /\ UNCHANGED <<gateway, epc, status, call, npc, result, todo, batch, meta, ledger>>
      /\ UNCHANGED <<chain, tallest, reorgs, abandoned, args, doReorg, policy, filter>>
      /\ Polling /\ ~Computing /\ ~Polled /\ ~Handling
  BY RacePollCases
<1>2. /\ UNCHANGED <<tracker, lastRecorded>>
      /\ \/ ppc' \in {"headers", "logs", "missing"} /\ ret' = ret
         \/ /\ ppc' = "idle" /\ ret' = [result |-> NoResult, err |-> "hashesDiffer"]
            /\ pollResults' = NoBlocks /\ headers' = NoBlocks
  BY DEF FilterLogs, FetchHeadersFirst, GoesOn, ReturnError, Return
<1>3. /\ ~Computing' /\ ~Handling' /\ ~Answered' /\ Reverting' = {}
      /\ Polling' \/ Polled'
      /\ Polling' => ppc' \in {"headers", "logs", "missing"} /\ ret' = ret
      /\ Polled' => ret'.err = "hashesDiffer"
  <2>1. CASE ppc' \in {"headers", "logs", "missing"} /\ ret' = ret
    BY <1>1, <2>1 DEF Computing, Polling, Polled, Handling, Answered, Reverting
  <2>2. CASE ppc' = "idle" /\ ret' = [result |-> NoResult, err |-> "hashesDiffer"]
    <3>1. HashesOf(ret'.result.reorged) = {} /\ ret'.err = "hashesDiffer"
      BY <2>2, NoBlocksOK
    <3> QED
      BY <1>1, <2>2, <3>1 DEF Computing, Polling, Polled, Handling, Answered, Reverting
  <2> QED
    BY <1>2, <2>1, <2>2
<1>4. /\ Given' = Given /\ Standing' = Standing /\ Logged' = Logged /\ Forgotten' = Forgotten
      /\ \A n : AboveForgotten(n)' = AboveForgotten(n)
  BY <1>1, SameGiven DEF AboveForgotten
<1>5. /\ \A n : Exists(n)' = Exists(n) /\ BlockAt(n)' = BlockAt(n)
      /\ \A n : TrackedSound(n)' = TrackedSound(n)
      /\ RaceTracker' /\ HeadOK'
  BY <1>1, <1>2, <1>4, SameChain, TrackerStays, HeadStays DEF Safe, Working, chainVars
<1>6. \A n : Recent(n)' = Recent(n)
  BY <1>1, <1>2, <1>4 DEF Recent
<1>7. \A n : HeaderHash(n)' = HeaderHash(n) /\ LogsAt(n)' = LogsAt(n)
  BY <1>1, <1>5 DEF HeaderHash, LogsAt
<1>8. ChainOK /\ ArgsOK /\ FetchedOK
  BY DEF Safe, Fields, HeadOK
<1>9. RaceFetch'
  <2>1. ASSUME NEW results, Fetched(results), results = pollResults'
        PROVE  Fetched(pollResults)'
    BY <1>1, <1>6, <1>7, <2>1 DEF Fetched, FetchedSound, HashOf
  <2>2. CASE FilterLogs
    <3>1. ppc' = "headers" /\ pollResults' = collectLogs
      BY <2>2 DEF FilterLogs
    <3>2. Fetched(collectLogs)
      BY <1>8, FreshFetch
    <3> QED
      BY <2>1, <3>1, <3>2 DEF RaceFetch
  <2>3. CASE FetchHeadersFirst
    <3>1. ppc' = "logs" /\ headers' = getHeadersByNumbers(args.from .. args.to)
      BY <2>3 DEF FetchHeadersFirst
    <3>2. \A n \in args.from .. args.to : headers'[n] = HeaderHash(n) /\ HashOf(headers'[n], n)
      BY <1>8, <3>1, FreshFetch DEF getHeadersByNumbers
    <3> QED
      BY <1>1, <1>7, <3>1, <3>2 DEF RaceFetch, HashOf
  <2>4. CASE ReturnError("hashesDiffer")
    BY <2>4 DEF ReturnError, Return, RaceFetch
  <2>5. CASE GoesOn(FALSE) /\ Fetched(pollResults')
    <3>1. ppc' = "missing"
      BY <2>5 DEF GoesOn
    <3> QED
      BY <2>1, <2>5, <3>1 DEF RaceFetch
  <2> QED
    BY <2>2, <2>3, <2>4, <2>5
<1>10. RaceCover'
  <2>1. Reverting = {}
    BY <1>1, NoneReverting
  <2> QED
    BY <1>1, <1>2, <1>3, <1>4, <1>5, <2>1 DEF Working, RaceCover
<1>11. RaceRecord'
  <2>1. Unpolled' = Unpolled
    BY <1>1, <1>2 DEF Unpolled
  <2> QED
    BY <1>1, <1>2, <1>3, <2>1 DEF Working, RaceRecord, Polling
<1>12. RaceRange' /\ RaceGoBack' /\ RaceResult' /\ PhaseOK'
  BY <1>1, <1>2, <1>3 DEF Working, RaceRange, RaceGoBack, GoingBack, RaceResult, PhaseOK, Polling
<1>13. RaceStatus'
  <2>1. Unpolled' = Unpolled
    BY <1>1, <1>2 DEF Unpolled
  <2>2. TrackedSound(args.from)' = TrackedSound(args.from)
    BY <1>1, <1>2, SameChain DEF TrackedSound, Exists, BlockAt
  <2> QED
    BY <1>1, <1>2, <1>3, <2>1, <2>2 DEF Working, RaceStatus
<1>14. RaceForgotten' /\ RaceMeta' /\ RaceLoop'
  BY <1>1, <1>2, <1>3, <1>4
     DEF Working, RaceForgotten, RaceMeta, RaceState, RaceLoop, Polling
<1>15. Safe'
  <2>1. FetchedOK'
    <3>1. CASE FilterLogs \/ FetchHeadersFirst \/ GoesOn(FALSE)
      BY <1>1, <1>8, <3>1, FetchOn
    <3>2. CASE ReturnError("hashesDiffer")
      BY <3>2, NoBlocksOK DEF ReturnError, Return, FetchedOK
    <3> QED
      BY <3>1, <3>2
  <2>2. Fields'
    BY <1>1, <1>2, <2>1 DEF Safe, Fields, ArgsOK, BlockMap, GatewayTypeOK
  <2> QED
    BY <1>1, <1>4, <1>5, <2>2 DEF Safe, RaceLedger, OneStanding, StatesOK
<1> QED
  BY <1>5, <1>9, <1>10, <1>11, <1>12, <1>13, <1>14, <1>15 DEF Working

\* What a Poll that finishes has found in a chain that may have changed: the blocks it finds
\* forked are above those recorded for good.
RaceFound(results) ==
    /\ Fetched(results) /\ BlockMap(results) /\ DOMAIN results \subseteq args.from .. args.to
    /\ ret'.result.good = results
    /\ DOMAIN ret'.result.reorged = forked(results)
    /\ \A n \in forked(results) : ret'.result.reorged[n] = tracker[n]
    /\ ret'.err = IF args.from \in forked(results) THEN "fromBlockReorged" ELSE "none"
    /\ forked(results) = {} => lastRecorded' = args.to
    /\ forked(results) # {} =>
         \E m \in forked(results) :
             (\A n \in forked(results) : m <= n) /\ lastRecorded' \in {m - 1, m}
    /\ \A n \in forked(results) :
         /\ n \in DOMAIN tracker /\ n \in DOMAIN results
         /\ n > StartBlock /\ AboveForgotten(n)
         /\ status.isReorging => n # args.from
    /\ \A n \in DOMAIN tracker :
         n \in forked(results)
         \/ (n \in DOMAIN tracker' /\ tracker'[n].hash = tracker[n].hash)
    /\ \A n \in DOMAIN results : results[n].logs # {} => n \in DOMAIN tracker'
    /\ \A n \in DOMAIN tracker' :
         \/ n \in DOMAIN results /\ tracker'[n] = results[n]
         \/ n \in DOMAIN tracker /\ n \notin args.from .. args.to /\ tracker'[n] = tracker[n]

\* A Poll that finishes has found all that.
LEMMA RacePollFinds ==
    ASSUME Setting, Safe, Working, StepPoll, Finishes(FALSE), Fetched(ret'.result.good)
    PROVE  /\ ppc' = "idle" /\ pollResults' = NoBlocks
           /\ tracker' # NoTracker /\ BlockMap(tracker')
           /\ lastRecorded' \in Nat /\ lastRecorded' = ret'.result.lastGood
           /\ \E results : RaceFound(results)
<1>1. PICK results, missing :
        /\ ResultsOK(results, FALSE) /\ FastOK(results, missing)
        /\ blocksMissing(results) = {}
        /\ FinishPoll(results, missing)
  BY DEF Finishes
<1>2. Polling /\ ~Computing
  BY RacePollCases
<1>3. /\ doReorg = TRUE /\ filter = Addresses /\ tracker # NoTracker
      /\ BlockMap(tracker) /\ DOMAIN tracker \subseteq Nat
      /\ ArgsOK /\ args.from \in Nat /\ args.to \in Nat
      /\ StartBlock <= args.from /\ args.from <= args.to
  BY <1>2 DEF Safe, Fields, ArgsOK, BlockMap, Working, RaceRange
<1>4. Tracked = DOMAIN tracker
  BY <1>3 DEF Tracked
<1>5. /\ ppc' = "idle" /\ pollResults' = NoBlocks
      /\ ret'.result.good = results
      /\ DOMAIN ret'.result.reorged = forked(results)
      /\ \A n \in forked(results) : ret'.result.reorged[n] = tracker[n]
      /\ ret'.err = IF args.from \in forked(results) THEN "fromBlockReorged" ELSE "none"
      /\ lastRecorded' \in Nat
      /\ lastRecorded' = ret'.result.lastGood
      /\ forked(results) = {} => lastRecorded' = args.to
      /\ forked(results) # {} =>
           \E m \in forked(results) :
               (\A n \in forked(results) : m <= n) /\ lastRecorded' \in {m - 1, m}
  <2>1. args.from # 0
    BY <1>3, SettingFacts
  <2> QED
    BY <1>1, <1>3, <2>1, FinishReturns
<1>6. /\ tracker' # NoTracker /\ BlockMap(tracker')
      /\ \A n \in DOMAIN results : results[n].logs # {} => n \in DOMAIN tracker'
      /\ \A n \in DOMAIN tracker : n \notin forked(results) => n \in DOMAIN tracker'
      /\ \A n \in Tracked' :
           \/ n \in DOMAIN results /\ tracker'[n] = results[n]
           \/ n \in Tracked \ (args.from .. args.to) /\ tracker'[n] = tracker[n]
  <2>1. TrackerOK
    BY <1>3 DEF TrackerOK
  <2> QED
    BY <1>1, <1>3, <2>1, FinishTracks
<1>7. \A n \in DOMAIN tracker' :
        \/ n \in DOMAIN results /\ tracker'[n] = results[n]
        \/ n \in DOMAIN tracker /\ n \notin args.from .. args.to /\ tracker'[n] = tracker[n]
  <2>1. Tracked' = DOMAIN tracker'
    BY <1>6 DEF Tracked
  <2> QED
    BY <1>4, <1>6, <2>1
<1>8. /\ Fetched(results) /\ BlockMap(results) /\ DOMAIN results \subseteq args.from .. args.to
  BY <1>1, <1>5 DEF ResultsOK
<1>9. \A n \in DOMAIN tracker :
        n \in forked(results) \/ (n \in DOMAIN tracker' /\ tracker'[n].hash = tracker[n].hash)
  <2> SUFFICES ASSUME NEW n \in DOMAIN tracker, n \notin forked(results)
               PROVE  n \in DOMAIN tracker' /\ tracker'[n].hash = tracker[n].hash
    OBVIOUS
  <2>1. n \in DOMAIN tracker'
    BY <1>6
  <2>2. n \in DOMAIN results => results[n].hash = tracker[n].hash
    BY <1>4 DEF forked
  <2> QED
    BY <1>7, <2>1, <2>2
<1>10. ASSUME NEW n \in forked(results)
       PROVE  /\ n \in DOMAIN tracker /\ n \in DOMAIN results
              /\ n > StartBlock /\ AboveForgotten(n)
              /\ status.isReorging => n # args.from
  <2>1. /\ n \in DOMAIN tracker /\ n \in DOMAIN results /\ n \in args.from .. args.to
        /\ \/ tracker[n].hash # results[n].hash
           \/ Cardinality(tracker[n].logs) # Cardinality(results[n].logs)
    BY <1>4, <1>8 DEF forked
  <2>2. CASE Recent(n)
    BY <2>1, <2>2 DEF Recent
  <2>3. CASE FetchedSound(results, n)
    <3>1. results[n].hash = HeaderHash(n) /\ results[n].logs = LogsAt(n)
      BY <2>1, <2>3 DEF FetchedSound
    <3>2. ~TrackedSound(n)
      <4> SUFFICES ASSUME TrackedSound(n)
                   PROVE  FALSE
        OBVIOUS
      <4>1. Exists(n) /\ tracker[n].hash = BlockAt(n) /\ tracker[n].logs = BlockAt(n).logs
        BY DEF TrackedSound
      <4>2. BlockAt(n) \in Blocks
        BY <1>3, <2>1, <4>1, BlockAtOK DEF Safe, HeadOK
      <4>3. HeaderHash(n) = BlockAt(n) /\ LogsAt(n) = BlockAt(n).logs
        BY <1>3, <4>1, <4>2 DEF HeaderHash, LogsAt, Blocks
      <4> QED
        BY <2>1, <3>1, <4>1, <4>3
    <3>3. n > StartBlock /\ AboveForgotten(n)
      BY <2>1, <3>2 DEF Working, RaceTracker
    <3>4. status.isReorging => n # args.from
      BY <1>2, <2>1, <3>2 DEF Working, RaceStatus
    <3> QED
      BY <2>1, <3>3, <3>4
  <2> QED
    BY <1>8, <2>1, <2>2, <2>3 DEF Fetched
<1>11. RaceFound(results)
  BY <1>5, <1>6, <1>7, <1>8, <1>9, <1>10 DEF RaceFound
<1> QED
  BY <1>5, <1>6, <1>11

\* What is tracked after a Poll is what the chain has, or above the last good block; what
\* the service has been given is tracked or will be reverted.
LEMMA RacePollTracks ==
    ASSUME Setting, Safe, Working, StepPoll, ppc' = "idle", NEW results, RaceFound(results),
           lastRecorded' \in Nat, StartBlock <= lastRecorded', lastRecorded' <= args.to
    PROVE  RaceTracker' /\ RaceCover' /\ \A n \in DOMAIN tracker' : n >= args.from
<1>1. /\ UNCHANGED <<gateway, epc, status, call, npc, result, todo, batch, meta, ledger>>
      /\ UNCHANGED <<chain, tallest, reorgs, abandoned, args, doReorg, policy, filter>>
      /\ Polling /\ ~Computing
  BY RacePollCases
<1>2. /\ Given' = Given /\ Logged' = Logged /\ Forgotten' = Forgotten
      /\ \A n : AboveForgotten(n)' = AboveForgotten(n)
      /\ \A n : Exists(n)' = Exists(n) /\ BlockAt(n)' = BlockAt(n)
  BY <1>1, SameGiven, SameChain DEF AboveForgotten
<1>3. /\ args.from \in Nat /\ args.to \in Nat /\ args.to <= tallest
      /\ StartBlock <= args.from /\ filter = Addresses /\ DOMAIN tracker \subseteq Nat
      /\ \A n \in DOMAIN tracker : n >= args.from
  BY <1>1 DEF Safe, Fields, ArgsOK, BlockMap, Working, RaceRange
<1>4. /\ BlockNumber \in Nat /\ BlockNumber >= StartBlock
      /\ BlockNumber > tallest - FilterRange /\ tallest \in Nat
      /\ \A n \in Nat : Exists(n) <=> n <= BlockNumber
      /\ \A n \in Nat : Exists(n) => BlockAt(n) \in Blocks
      /\ StartBlock \in Nat /\ FilterRange \in Nat /\ FilterRange >= 1
  BY HeadNumbers, SettingFacts DEF Safe
<1>5. \A n \in args.from .. args.to : n \in Nat
  BY <1>3
<1>6. ASSUME NEW n \in DOMAIN results, FetchedSound(results, n), Exists(n)
      PROVE  results[n].hash = BlockAt(n) /\ results[n].logs = BlockAt(n).logs
  <2>1. BlockAt(n) \in Blocks
    BY <1>4, <1>5, <1>6 DEF RaceFound
  <2> QED
    BY <1>3, <1>6, <2>1 DEF FetchedSound, HeaderHash, LogsAt, Blocks
<1>7. RaceTracker'
  <2> SUFFICES ASSUME NEW n \in DOMAIN tracker'
               PROVE  /\ n >= StartBlock
                      /\ HashOf(tracker'[n].hash, n)
                      /\ \/ /\ Exists(n) /\ tracker'[n].hash = BlockAt(n)
                            /\ tracker'[n].logs = BlockAt(n).logs
                         \/ /\ n > StartBlock /\ n > lastRecorded' - FilterRange
                            /\ AboveForgotten(n)
    BY <1>2 DEF RaceTracker, TrackedSound, HashOf
  <2>1. CASE n \in DOMAIN results /\ tracker'[n] = results[n]
    <3>1. /\ n \in args.from .. args.to /\ n \in Nat
          /\ HashOf(results[n].hash, n)
          /\ FetchedSound(results, n) \/ Recent(n)
      BY <1>5, <2>1 DEF RaceFound, Fetched
    <3>2. n >= StartBlock
      BY <1>3, <1>4, <3>1
    <3>3. CASE Recent(n)
      <4>1. n > StartBlock /\ n > args.to - FilterRange /\ AboveForgotten(n)
        BY <3>3 DEF Recent
      <4>2. n > lastRecorded' - FilterRange
        BY <1>3, <1>4, <3>1, <4>1
      <4> QED
        BY <2>1, <3>1, <3>2, <4>1, <4>2
    <3>4. CASE FetchedSound(results, n) /\ Exists(n)
      BY <1>6, <2>1, <3>1, <3>2, <3>4
    <3>5. CASE ~Exists(n)
      <4>1. n > BlockNumber
        BY <1>4, <3>1, <3>5
      <4>2. n > StartBlock /\ n > lastRecorded' - FilterRange /\ n > tallest - FilterRange
        BY <1>3, <1>4, <3>1, <4>1
      <4>3. AboveForgotten(n)
        <5> SUFFICES ASSUME NEW h \in Forgotten
                     PROVE  h.number + FilterRange < n
          BY DEF AboveForgotten
        <5>1. h.number \in Nat /\ h.number <= tallest - 2 * FilterRange
          BY GivenNumbers DEF Safe, Working, RaceForgotten
        <5> QED
          BY <1>4, <3>1, <4>2, <5>1
      <4> QED
        BY <2>1, <3>1, <3>2, <4>2, <4>3
    <3> QED
      BY <3>1, <3>3, <3>4, <3>5
  <2>2. CASE n \in DOMAIN tracker /\ n \notin args.from .. args.to /\ tracker'[n] = tracker[n]
    <3>1. /\ n >= StartBlock /\ HashOf(tracker[n].hash, n)
          /\ TrackedSound(n) \/ (n > StartBlock /\ AboveForgotten(n))
      BY <2>2 DEF Working, RaceTracker
    <3>2. n \in Nat /\ n > args.to
      BY <1>3, <2>2
    <3>3. n > lastRecorded' - FilterRange
      BY <1>3, <1>4, <3>2
    <3> QED
      BY <2>2, <3>1, <3>3 DEF TrackedSound
  <2> QED
    BY <2>1, <2>2 DEF RaceFound
<1>8. RaceCover'
  <2> SUFFICES ASSUME NEW h \in Logged
               PROVE  \/ h \in Reverting'
                      \/ h.number \in DOMAIN tracker' /\ tracker'[h.number].hash = h
                      \/ /\ h.number \notin DOMAIN tracker'
                         /\ h.number <= tallest - FilterRange
                         /\ Exists(h.number) /\ BlockAt(h.number) = h
    BY <1>1, <1>2 DEF RaceCover
  <2>1. \/ h.number \in DOMAIN tracker /\ tracker[h.number].hash = h
        \/ /\ h.number \notin DOMAIN tracker /\ h.number <= tallest - FilterRange
           /\ Exists(h.number) /\ BlockAt(h.number) = h
    BY <1>1, NoneReverting DEF Working, RaceCover
  <2>2. CASE h.number \in DOMAIN tracker /\ tracker[h.number].hash = h
    <3>1. CASE h.number \in forked(results)
      <4>1. h.number \in DOMAIN ret'.result.reorged /\ ret'.result.reorged[h.number].hash = h
        BY <2>2, <3>1 DEF RaceFound
      <4>2. h \in HashesOf(ret'.result.reorged)
        BY <4>1 DEF HashesOf
      <4> QED
        BY <1>1, <4>2 DEF Reverting, Polling
    <3>2. CASE h.number \notin forked(results)
      BY <2>2, <3>2 DEF RaceFound
    <3> QED
      BY <3>1, <3>2
  <2>3. CASE /\ h.number \notin DOMAIN tracker /\ h.number \in DOMAIN tracker'
             /\ Exists(h.number) /\ BlockAt(h.number) = h
    <3>1. h.number \in DOMAIN results /\ tracker'[h.number] = results[h.number]
      BY <2>3 DEF RaceFound
    <3>2. ~Recent(h.number)
      BY <2>3 DEF Recent
    <3>3. FetchedSound(results, h.number)
      BY <3>1, <3>2 DEF RaceFound, Fetched
    <3> QED
      BY <1>6, <2>3, <3>1, <3>3
  <2> QED
    BY <2>1, <2>2, <2>3
<1>9. \A n \in DOMAIN tracker' : n >= args.from
  BY <1>3 DEF RaceFound
<1> QED
  BY <1>7, <1>8, <1>9

\* A Poll finishes.
LEMMA RacePollEnds ==
    ASSUME Setting, Safe, Working, StepPoll, Finishes(FALSE), Fetched(ret'.result.good)
    PROVE  Safe' /\ Working'
<1>1. /\ UNCHANGED <<gateway, epc, status, call, npc, result, todo, batch, meta, ledger>>
      /\ UNCHANGED <<chain, tallest, reorgs, abandoned, args, doReorg, policy, filter>>
      /\ Polling /\ ~Computing /\ ~Polled /\ ~Handling
  BY RacePollCases
<1>2. /\ ppc' = "idle" /\ pollResults' = NoBlocks
      /\ tracker' # NoTracker /\ BlockMap(tracker')
      /\ lastRecorded' \in Nat /\ lastRecorded' = ret'.result.lastGood
  BY RacePollFinds
<1>3. PICK results : RaceFound(results)
  BY RacePollFinds
<1>4. /\ args.from \in Nat /\ args.to \in Nat /\ args.to <= tallest /\ call = args
      /\ StartBlock <= args.from /\ args.from <= args.to
      /\ StartBlock \in Nat /\ FilterRange \in Nat /\ tallest \in Nat
  BY <1>1, SettingFacts, HeadNumbers DEF Safe, Fields, ArgsOK, Working, RaceRange
<1>5. /\ \A n \in DOMAIN results : n \in args.from .. args.to /\ results[n] \in BlockInfo
      /\ \A n \in forked(results) : n \in args.from .. args.to /\ n > StartBlock
  BY <1>3 DEF RaceFound, BlockMap
<1>6. /\ StartBlock <= lastRecorded' /\ lastRecorded' <= args.to
      /\ args.from \in forked(results) => lastRecorded' \in {args.from - 1, args.from}
  <2>1. CASE forked(results) = {}
    BY <1>3, <1>4, <2>1 DEF RaceFound
  <2>2. CASE forked(results) # {}
    <3>1. PICK m \in forked(results) :
            (\A n \in forked(results) : m <= n) /\ lastRecorded' \in {m - 1, m}
      BY <1>3, <2>2 DEF RaceFound
    <3>2. m \in Nat /\ m > StartBlock /\ m >= args.from /\ m <= args.to
      BY <1>4, <1>5
    <3>3. args.from \in forked(results) => m = args.from
      BY <1>4, <3>1, <3>2
    <3> QED
      BY <1>4, <3>1, <3>2, <3>3
  <2> QED
    BY <2>1, <2>2
<1>7. RaceTracker' /\ RaceCover' /\ \A n \in DOMAIN tracker' : n >= args.from
  BY <1>2, <1>3, <1>6, RacePollTracks
<1>8. Polled' /\ ~Computing' /\ ~Polling' /\ ~Handling'
  BY <1>1, <1>2 DEF Computing, Polling, Polled, Handling
<1>9. /\ Given' = Given /\ Standing' = Standing /\ Logged' = Logged /\ Forgotten' = Forgotten
  BY <1>1, SameGiven
<1>10. RaceRecord' /\ RaceRange' /\ RaceGoBack' /\ RaceFetch' /\ PhaseOK'
  <2>1. RaceRecord'
    <3>1. lastRecorded' <= tallest
      BY <1>2, <1>4, <1>6
    <3> QED
      BY <1>1, <1>2, <1>6, <1>8, <3>1 DEF RaceRecord, Polling
  <2>2. RaceRange'
    BY <1>1, <1>4, <1>7, <1>8 DEF RaceRange
  <2> QED
    BY <1>1, <1>2, <1>8, <2>1, <2>2 DEF RaceGoBack, GoingBack, RaceFetch, PhaseOK, Polling
<1>11. /\ ret'.err \in {"none", "fromBlockReorged"}
       /\ ret'.err = "fromBlockReorged" =>
            /\ ~status.isReorging /\ lastRecorded' \in {args.from - 1, args.from}
            /\ \A h \in Forgotten : h.number < args.from - FilterRange
  <2>1. ASSUME args.from \in forked(results), NEW h \in Forgotten
        PROVE  h.number < args.from - FilterRange
    <3>1. h.number \in Nat /\ h.number + FilterRange < args.from
      BY <1>3, <2>1, GivenNumbers DEF Safe, RaceFound, AboveForgotten
    <3> QED
      BY <1>4, <3>1
  <2> QED
    BY <1>3, <1>6, <2>1 DEF RaceFound
<1>12. RaceStatus'
  BY <1>1, <1>8, <1>9, <1>11 DEF Working, RaceStatus, Polling
<1>13. RaceResult'
  <2>1. /\ ret'.result.good = results /\ DOMAIN ret'.result.reorged = forked(results)
        /\ \A n \in forked(results) : ret'.result.reorged[n] = tracker[n]
    BY <1>3 DEF RaceFound
  <2>2. \A n \in DOMAIN results :
          /\ HashOf(results[n].hash, n)
          /\ results[n].logs # {} => n \in DOMAIN tracker' /\ tracker'[n].hash = results[n].hash
    BY <1>3, <1>5 DEF RaceFound, Fetched
  <2>3. \A n \in forked(results) : HashOf(tracker[n].hash, n)
    BY <1>3 DEF RaceFound, Working, RaceTracker
  <2> QED
    BY <1>1, <1>5, <1>8, <2>1, <2>2, <2>3 DEF RaceResult, HashOf
<1>14. RaceForgotten'
  <2> SUFFICES ASSUME NEW h \in Forgotten
               PROVE  /\ h.number <= tallest - 2 * FilterRange
                      /\ h.number <= lastRecorded' - FilterRange
                      /\ h.number < args.from
    BY <1>1, <1>8, <1>9 DEF RaceForgotten
  <2>1. /\ h.number <= tallest - 2 * FilterRange /\ h.number < args.from
        /\ h.number <= args.to - FilterRange
    BY <1>1 DEF Working, RaceForgotten, Polling
  <2>2. h.number \in Nat
    BY GivenNumbers DEF Safe
  <2>3. CASE forked(results) = {}
    BY <1>3, <2>1, <2>3 DEF RaceFound
  <2>4. CASE forked(results) # {}
    <3>1. PICK m \in forked(results) : lastRecorded' \in {m - 1, m}
      BY <1>3, <2>4 DEF RaceFound
    <3>2. m \in Nat /\ h.number + FilterRange < m
      BY <1>3, <1>4, <1>5 DEF RaceFound, AboveForgotten
    <3> QED
      BY <1>4, <2>1, <2>2, <3>1, <3>2
  <2> QED
    BY <2>3, <2>4
<1>15. RaceMeta' /\ RaceLoop'
  BY <1>1, <1>9 DEF Working, RaceMeta, RaceState, RaceLoop, Polling
<1>16. Safe'
  <2>1. FetchedOK'
    BY <1>2, NoBlocksOK DEF FetchedOK
  <2>2. Fields'
    BY <1>1, <1>2, <2>1 DEF Safe, Fields, ArgsOK, GatewayTypeOK
  <2>3. HeadOK'
    BY <1>1, HeadStays DEF Safe, chainVars
  <2> QED
    BY <1>1, <1>9, <2>2, <2>3 DEF Safe, RaceLedger, OneStanding, StatesOK
<1> QED
  BY <1>7, <1>10, <1>12, <1>13, <1>14, <1>15, <1>16 DEF Working

\* A step of Poll
LEMMA RaceStepPoll ==
    ASSUME Setting, Safe, Working, StepPoll
    PROVE  Safe' /\ Working'
<1>1. CASE Finishes(FALSE) /\ Fetched(ret'.result.good)
  BY <1>1, RacePollEnds
<1>2. CASE \/ FilterLogs \/ FetchHeadersFirst \/ ReturnError("hashesDiffer")
           \/ GoesOn(FALSE) /\ Fetched(pollResults')
  BY <1>2, RacePollGoesOn
<1> QED
  BY <1>1, <1>2, RacePollCases

-----------------------------------------------------------------------------
(* The result is handed over *)

\* The engine takes the result.  After a reorg of the first block of the range the
\* emitter is to go back.
LEMMA RaceEmitResult ==
    ASSUME Setting, Safe, Working, EmitResult
    PROVE  Safe' /\ Working'
<1>1. /\ epc = "poll" /\ ppc = "idle"
      /\ \/ ret.err = "none" /\ PollGood
         \/ ret.err = "fromBlockReorged" /\ PollReorging(doReorg)
      /\ ReceiveResult(ret.result)
      /\ UNCHANGED <<gateway, chain, tallest, reorgs, abandoned>>
      /\ UNCHANGED <<ppc, args, pollResults, headers, tracker, doReorg, policy, filter,
                     lastRecorded, ret>>
  BY DEF EmitResult, PollReturned, chainVars, pollerVars
<1>2. /\ npc = "receive" /\ npc' = "seeReorged" /\ result' = ret.result
      /\ todo' = DOMAIN ret.result.reorged /\ batch' = {} /\ UNCHANGED <<meta, ledger>>
  BY <1>1 DEF ReceiveResult
<1>3. Polled /\ Answered /\ ~Computing /\ ~Polling /\ ~Handling
  BY <1>1, HandlingOnly DEF Working, Answered
<1>4. /\ doReorg = TRUE /\ call = args
      /\ args.from \in Nat /\ args.to \in Nat
      /\ StartBlock <= args.from /\ args.from <= args.to /\ args.to <= tallest
      /\ call \in [from : Nat, to : Nat]
      /\ status \in [from : Nat, to : Nat, goBack : BOOLEAN, isReorging : BOOLEAN, retries : Nat]
      /\ status.goBack = FALSE
      /\ status.retries = IF status.isReorging THEN 1 ELSE 0
  BY <1>3 DEF Safe, Working, Fields, RaceRange, ArgsOK, RaceStatus
<1>5. UNCHANGED call /\ epc' \in {"emit", "emitReorging"}
  BY <1>1 DEF PollGood, PollReorging
<1>6. \/ epc' = "emit" /\ status' = status
      \/ /\ epc' = "emitReorging"
         /\ status' = [from |-> args.from, to |-> args.to, goBack |-> FALSE,
                       isReorging |-> TRUE, retries |-> 1]
         /\ lastRecorded \in {args.from - 1, args.from}
         /\ \A h \in Forgotten : h.number < args.from - FilterRange
  <2>1. CASE ret.err = "none" /\ PollGood
    BY <2>1 DEF PollGood
  <2>2. CASE ret.err = "fromBlockReorged" /\ PollReorging(doReorg)
    <3>1. /\ lastRecorded \in {args.from - 1, args.from} /\ ~status.isReorging
          /\ \A h \in Forgotten : h.number < args.from - FilterRange
      BY <1>3, <2>2 DEF Working, RaceStatus
    <3>2. status.retries + 1 = 1
      BY <1>4, <3>1
    <3> QED
      BY <1>4, <2>2, <3>1, <3>2 DEF PollReorging, updateStatus
  <2> QED
    BY <1>1, <2>1, <2>2
<1>7. Handling' /\ ~Computing' /\ ~Polling' /\ ~Polled' /\ ~Answered'
  BY <1>1, <1>2, <1>5 DEF Computing, Polling, Polled, Handling, Answered
<1>8. /\ Given' = Given /\ Standing' = Standing /\ Logged' = Logged /\ Forgotten' = Forgotten
      /\ Reverting' = Reverting
  BY <1>1, <1>2, SameGiven DEF Reverting
<1>9. /\ \A n : Exists(n)' = Exists(n) /\ BlockAt(n)' = BlockAt(n)
      /\ \A n : TrackedSound(n)' = TrackedSound(n)
      /\ RaceTracker' /\ HeadOK'
  BY <1>1, <1>8, SameChain, TrackerStays, HeadStays DEF Safe, Working, chainVars
<1>10. RaceCover'
  BY <1>1, <1>8, <1>9 DEF Working, RaceCover
<1>11. RaceRecord' /\ RaceFetch' /\ PhaseOK'
  BY <1>1, <1>2, <1>3, <1>7 DEF Working, RaceRecord, RaceFetch, PhaseOK
<1>12. RaceRange'
  BY <1>1, <1>3, <1>4, <1>5, <1>7 DEF Working, RaceRange
<1>13. RaceStatus'
  BY <1>4, <1>6, <1>7 DEF RaceStatus
<1>14. RaceGoBack'
  <2> SUFFICES ASSUME GoingBack'
               PROVE  /\ lastRecorded \in {status'.from - 1, status'.from}
                      /\ StartBlock <= status'.from /\ status'.from <= status'.to
                      /\ status'.from <= tallest
                      /\ \A n \in DOMAIN tracker : n > status'.from - FilterRange
                      /\ \A h \in Forgotten : h.number < status'.from - FilterRange
    BY <1>1, <1>8 DEF RaceGoBack
  <2>1. /\ status'.from = args.from /\ status'.to = args.to
        /\ lastRecorded \in {args.from - 1, args.from}
        /\ \A h \in Forgotten : h.number < args.from - FilterRange
    BY <1>6 DEF GoingBack
  <2>2. args.from <= tallest
    BY <1>4, HeadNumbers DEF Safe
  <2>3. \A n \in DOMAIN tracker : n \in Nat /\ n >= args.from
    BY <1>3 DEF Safe, Fields, BlockMap, Working, RaceRange
  <2>4. \A n \in DOMAIN tracker : n > args.from - FilterRange
    BY <1>4, <2>3, SettingFacts
  <2> QED
    BY <1>4, <2>1, <2>2, <2>4
<1>15. RaceResult'
  BY <1>1, <1>2, <1>3, <1>7 DEF Working, RaceResult, HashOf
<1>16. RaceForgotten'
  BY <1>1, <1>7, <1>8 DEF Working, RaceForgotten
<1>17. RaceMeta'
  BY <1>2, <1>8 DEF Working, RaceMeta, RaceState
<1>18. RaceLoop'
  BY <1>2 DEF RaceLoop
<1>19. Safe'
  <2>1. status' \in [from : Nat, to : Nat, goBack : BOOLEAN, isReorging : BOOLEAN, retries : Nat]
    <3>1. CASE status' = status
      BY <1>4, <3>1
    <3>2. CASE status' = [from |-> args.from, to |-> args.to, goBack |-> FALSE,
                          isReorging |-> TRUE, retries |-> 1]
      <4>1. args.from \in Nat /\ args.to \in Nat
        BY <1>4
      <4> QED
        BY <3>2, <4>1
    <3> QED
      BY <1>6, <3>1, <3>2
  <2>2. Fields'
    BY <1>1, <1>5, <2>1 DEF Safe, Fields, ArgsOK, FetchedOK, BlockMap, GatewayTypeOK
  <2> QED
    BY <1>2, <1>8, <1>9, <2>2 DEF Safe, RaceLedger, OneStanding, StatesOK
<1> QED
  BY <1>9, <1>10, <1>11, <1>12, <1>13, <1>14, <1>15, <1>16, <1>17, <1>18, <1>19 DEF Working

\* A Poll without a result makes the emitter panic.
LEMMA RaceEmitNil ==
    ASSUME Setting, Safe, Working, EmitNil
    PROVE  Safe' /\ Panicked'
<1>1. /\ epc = "poll" /\ ppc = "idle" /\ epc' = "panicked"
      /\ UNCHANGED <<gateway, status, call, chain, tallest, reorgs, abandoned>>
      /\ UNCHANGED <<ppc, args, pollResults, headers, tracker, doReorg, policy, filter,
                     lastRecorded, ret, npc, result, todo, batch, meta, ledger>>
  BY DEF EmitNil, PollReturned, PollNilResult, chainVars, pollerVars, engineVars
<1>2. npc = "receive"
  BY <1>1, HandlingOnly DEF Working, Polled
<1>3. HeadOK'
  BY <1>1, HeadStays DEF Safe, chainVars
<1>4. Fields'
  BY <1>1 DEF Safe, Fields, ArgsOK, FetchedOK, BlockMap, GatewayTypeOK
<1>5. Logged' = Logged /\ Given' = Given
  BY <1>1, SameGiven
<1>6. Safe'
  BY <1>1, <1>3, <1>4, <1>5 DEF Safe, RaceLedger, OneStanding, StatesOK
<1> QED
  BY <1>1, <1>2, <1>6 DEF Panicked

-----------------------------------------------------------------------------
(* The engine handles the result *)

\* What the engine's steps have in common: emitter, poller and chain stand still, and what
\* the engine forgets is old.
LEMMA RaceHandleFrame ==
    ASSUME Setting, Safe, Working, npc # "receive", HandleLeaves, UNCHANGED result,
           npc' \in {"seeReorged", "seeGood", "record"},
           npc' # "record" => npc \in {"seeReorged", "seeGood"} /\ Forgotten' \subseteq Forgotten,
           RaceCover', RaceMeta', RaceLoop', RaceLedger', OneStanding', StatesOK',
           \A h \in Forgotten' : h \in Forgotten \/ h.number <= lastRecorded - 2 * FilterRange
    PROVE  Safe' /\ Working'
<1>1. Handling /\ ~Computing /\ ~Polling /\ ~Polled /\ ~Answered
  BY HandlingOnly DEF Working, Answered
<1>2. Handling' /\ ~Computing' /\ ~Polling' /\ ~Polled' /\ ~Answered' /\ PhaseOK'
  BY <1>1 DEF Computing, Polling, Polled, Handling, Answered, HandleLeaves, PhaseOK
<1>3. UNCHANGED <<gateway, epc, status, call, ppc, args, pollResults, headers, tracker,
                  doReorg, policy, filter, lastRecorded, ret, chain, tallest>>
  BY DEF HandleLeaves
<1>4. HeadOK' /\ \A n : TrackedSound(n)' = TrackedSound(n)
  BY <1>3, HeadStays, SameChain DEF Safe, chainVars, HandleLeaves, TrackedSound
<1>5. Fields'
  BY <1>1, <1>3 DEF Safe, Fields, Handling, ArgsOK, FetchedOK, BlockMap, GatewayTypeOK
<1>6. /\ lastRecorded \in Nat /\ tallest \in Nat /\ lastRecorded <= tallest
      /\ FilterRange \in Nat /\ FilterRange >= 1 /\ DOMAIN tracker \subseteq Nat
  BY HeadNumbers, SettingFacts DEF Safe, Fields, BlockMap, Working, RaceRecord
<1>7. \A h \in Forgotten' : h.number \in Nat
  BY DEF RaceLedger, Forgotten, Blocks
<1>8. ASSUME NEW n \in Nat, n > lastRecorded - FilterRange, AboveForgotten(n)
      PROVE  AboveForgotten(n)'
  <2> SUFFICES ASSUME NEW h \in Forgotten'
               PROVE  h.number + FilterRange < n
    BY DEF AboveForgotten
  <2>1. CASE h \in Forgotten
    BY <1>8, <2>1 DEF AboveForgotten
  <2>2. CASE h.number <= lastRecorded - 2 * FilterRange
    BY <1>6, <1>7, <1>8, <2>2
  <2> QED
    BY <2>1, <2>2
<1>9. RaceTracker'
  BY <1>3, <1>4, <1>6, <1>8 DEF Working, RaceTracker, HashOf
<1>10. RaceRecord' /\ RaceRange' /\ RaceStatus' /\ RaceFetch' /\ RaceResult'
  <2>1. RaceRecord' /\ RaceRange' /\ RaceFetch'
    BY <1>1, <1>2, <1>3 DEF Working, RaceRecord, RaceRange, RaceFetch, Handling
  <2>2. RaceStatus'
    BY <1>1, <1>2, <1>3 DEF Working, RaceStatus
  <2>3. RaceResult'
    BY <1>1, <1>2, <1>3 DEF Working, RaceResult, HashOf
  <2> QED
    BY <2>1, <2>2, <2>3
<1>11. RaceGoBack'
  <2> SUFFICES ASSUME GoingBack
               PROVE  \A h \in Forgotten' : h.number < status.from - FilterRange
    BY <1>3, <1>4 DEF Working, RaceGoBack, GoingBack
  <2>1. /\ lastRecorded \in {status.from - 1, status.from}
        /\ \A h \in Forgotten : h.number < status.from - FilterRange
    BY DEF Working, RaceGoBack
  <2>2. status.from \in Nat
    BY DEF Safe, Fields
  <2>3. \A h \in Forgotten' : h.number <= lastRecorded - 2 * FilterRange =>
          h.number < status.from - FilterRange
    BY <1>6, <1>7, <2>1, <2>2
  <2> QED
    BY <2>1, <2>3
<1>12. RaceForgotten'
  <2> SUFFICES ASSUME NEW h \in Forgotten'
               PROVE  /\ h.number <= tallest - 2 * FilterRange
                      /\ h.number <= lastRecorded - FilterRange
                      /\ npc' \in {"seeReorged", "seeGood"} => h.number < args.from
    BY <1>1, <1>2, <1>3 DEF RaceForgotten, Handling
  <2>1. CASE h \in Forgotten
    BY <2>1 DEF Working, RaceForgotten
  <2>2. CASE h \notin Forgotten
    <3>1. npc' = "record" /\ h.number <= lastRecorded - 2 * FilterRange
      BY <2>2
    <3> QED
      BY <1>6, <1>7, <3>1
  <2> QED
    BY <2>1, <2>2
<1> QED
  BY <1>2, <1>4, <1>5, <1>9, <1>10, <1>11, <1>12 DEF Safe, Working

\* The result at hand is the one Poll returned.
LEMMA RaceResultBlocks ==
    ASSUME Setting, Safe, Working, npc \in {"seeReorged", "seeGood"}
    PROVE  /\ result = ret.result /\ Handling /\ result.lastGood = lastRecorded
           /\ \A n \in DOMAIN result.good :
                /\ n \in Nat /\ n >= args.from /\ n >= StartBlock
                /\ result.good[n] \in BlockInfo
                /\ HashOf(result.good[n].hash, n)
                /\ result.good[n].logs # {} =>
                     n \in DOMAIN tracker /\ tracker[n].hash = result.good[n].hash
           /\ \A n \in DOMAIN result.reorged : n \in Nat /\ HashOf(result.reorged[n].hash, n)
<1>1. Handling /\ ~Computing
  BY HandlingOnly DEF Working
<1>2. /\ args.from \in Nat /\ args.to \in Nat /\ StartBlock <= args.from /\ StartBlock \in Nat
  BY <1>1, SettingFacts DEF Safe, Fields, ArgsOK, Working, RaceRange
<1>3. result = ret.result /\ result.lastGood = lastRecorded
  BY <1>1 DEF Working, RaceResult, RaceRecord
<1>4. \A n \in args.from .. args.to : n \in Nat /\ n >= args.from /\ n >= StartBlock
  BY <1>2
<1> QED
  BY <1>1, <1>3, <1>4 DEF Working, RaceResult

\* The state machine has no other states.
LEMMA FireStates ==
    ASSUME NEW state, NEW event
    PROVE  Fire(state, event) \in BlockStates
BY DEF Fire, BlockStates

\* The next reorged block goes to the service if the service holds it.  The engine panics if
\* it does not know the block.
LEMMA RaceSeeReorged ==
    ASSUME Setting, Safe, Working, SeeReorgedBlock, HandleLeaves
    PROVE  Safe' /\ (Working' \/ Panicked')
<1> DEFINE n    == Min(todo)
           hash == result.reorged[n].hash
<1>1. /\ npc = "seeReorged" /\ todo # {} /\ todo \subseteq DOMAIN result.reorged
      /\ batch \subseteq DOMAIN result.reorged \ todo
  BY DEF SeeReorgedBlock, Working, RaceLoop
<1>2. /\ result = ret.result /\ Handling
      /\ \A k \in DOMAIN result.reorged : k \in Nat /\ HashOf(result.reorged[k].hash, k)
  BY <1>1, RaceResultBlocks
<1>3. n \in todo /\ n \in DOMAIN result.reorged /\ n \notin batch
  <2>1. todo \in SUBSET Nat
    BY <1>1, <1>2
  <2> QED
    BY <1>1, <2>1, MinOfNaturals
<1>4. CASE hash \notin DOMAIN meta
  <2>1. npc' = "panicked" /\ UNCHANGED <<todo, batch, meta, result, ledger>>
    BY <1>4 DEF SeeReorgedBlock
  <2>2. UNCHANGED <<gateway, epc, status, call, ppc, args, pollResults, headers, tracker,
                    doReorg, policy, filter, chain, tallest, reorgs, abandoned>>
    BY DEF HandleLeaves
  <2>3. Fields'
    BY <2>2 DEF Safe, Fields, ArgsOK, FetchedOK, BlockMap, GatewayTypeOK
  <2>4. HeadOK'
    BY <2>2, HeadStays DEF Safe, chainVars
  <2>5. Logged' = Logged /\ Given' = Given
    BY <2>1, SameGiven
  <2> QED
    BY <1>2, <2>1, <2>2, <2>3, <2>4, <2>5
       DEF Safe, Panicked, Handling, RaceLedger, OneStanding, StatesOK
<1>5. CASE hash \in DOMAIN meta
  <2> DEFINE new == Fire(meta[hash].state, "SeeReorg")
  <2>1. /\ meta' = [meta EXCEPT ![hash].state = new]
        /\ batch' = IF new = "Reorged" THEN batch \cup {n} ELSE batch
        /\ todo' = todo \ {n} /\ UNCHANGED <<npc, result, ledger>>
    BY <1>5 DEF SeeReorgedBlock, GetBlockMetadata
  <2>2. new \in BlockStates
    BY FireStates
  <2>3. HashOf(hash, n)
    BY <1>2, <1>3
  <2>4. \A k \in DOMAIN result.reorged :
          result.reorged[k].hash = hash /\ hash # ZeroHash => k = n
    BY <1>2, <2>3, HashOfOne
  <2>5. hash # ZeroHash =>
          /\ meta[hash].number = hash.number
          /\ \/ new = "Reorged" /\ hash \in Standing
             \/ new = "Invalid" /\ hash \in Given \ Standing
    <3> SUFFICES ASSUME hash # ZeroHash
                 PROVE  /\ meta[hash].number = hash.number
                        /\ \/ new = "Reorged" /\ hash \in Standing
                           \/ new = "Invalid" /\ hash \in Given \ Standing
      OBVIOUS
    <3>1. meta[hash].number = hash.number /\ RaceState(hash)
      BY <1>5 DEF Working, RaceMeta
    <3>2. \A k \in batch : result.reorged[k].hash # hash
      BY <1>1, <1>3, <2>4
    <3>3. \/ meta[hash].state = "Handled" /\ hash \in Standing
          \/ meta[hash].state \in {"HandledReorg", "Invalid"} /\ hash \in Given \ Standing
      BY <1>1, <3>1, <3>2 DEF RaceState
    <3> QED
      BY <3>1, <3>3 DEF Fire
  <2> HIDE DEF n, new
  <2>6. /\ DOMAIN meta' = DOMAIN meta
        /\ \A h \in DOMAIN meta \ {hash} : meta'[h] = meta[h]
        /\ meta'[hash] = [meta[hash] EXCEPT !.state = new]
    BY <1>5, <2>1
  <2>7. /\ Given' = Given /\ Standing' = Standing /\ Logged' = Logged
        /\ Forgotten' = Forgotten
    BY <2>1, <2>6 DEF Given, Standing, Logged, Forgotten
  <2>8. /\ meta'[hash] \in blockMetadata /\ meta'[hash].state = new
        /\ meta'[hash].number = meta[hash].number
    BY <1>5, <2>2, <2>6 DEF Safe, StatesOK, blockMetadata
  <2>9. StatesOK'
    BY <2>6, <2>8 DEF StatesOK, Safe
  <2>10. RaceMeta'
    <3> SUFFICES ASSUME NEW h \in DOMAIN meta \ {ZeroHash}
                 PROVE  meta'[h].number = h.number /\ RaceState(h)'
      BY <2>6 DEF RaceMeta
    <3>1. CASE h = hash
      BY <1>1, <1>3, <2>1, <2>5, <2>7, <2>8, <3>1 DEF RaceState
    <3>2. CASE h # hash
      <4>1. meta[h].number = h.number /\ RaceState(h)
        BY DEF Working, RaceMeta
      <4> QED
        BY <1>1, <2>1, <2>6, <2>7, <3>2, <4>1 DEF RaceState
    <3> QED
      BY <3>1, <3>2
  <2>11. RaceLoop'
    <3>1. /\ todo' \subseteq DOMAIN result.reorged
          /\ batch' \subseteq DOMAIN result.reorged \ todo'
      BY <1>1, <1>3, <2>1
    <3>2. ASSUME NEW k \in DOMAIN result.reorged \ todo', result.reorged[k].hash # ZeroHash
          PROVE  /\ result.reorged[k].hash \in DOMAIN meta'
                 /\ result.reorged[k].hash \in Standing => k \in batch'
                 /\ k \in batch' => meta'[result.reorged[k].hash].state = "Reorged"
      <4>1. CASE k = n
        BY <1>3, <1>5, <2>1, <2>5, <2>6, <2>8, <3>2, <4>1
      <4>2. CASE k # n
        <5>1. result.reorged[k].hash # hash /\ k \in DOMAIN result.reorged \ todo
          BY <2>1, <2>4, <3>2, <4>2
        <5>2. /\ result.reorged[k].hash \in DOMAIN meta
              /\ result.reorged[k].hash \in Standing => k \in batch
              /\ k \in batch => meta[result.reorged[k].hash].state = "Reorged"
          BY <1>1, <3>2, <5>1 DEF Working, RaceLoop
        <5> QED
          BY <2>1, <2>6, <4>2, <5>1, <5>2
      <4> QED
        BY <4>1, <4>2
    <3> QED
      BY <1>1, <2>1, <2>7, <3>1, <3>2 DEF RaceLoop
  <2>12. RaceCover' /\ RaceLedger' /\ OneStanding'
    <3>1. Reverting' = Reverting /\ \A k : Exists(k)' = Exists(k) /\ BlockAt(k)' = BlockAt(k)
      BY <2>1, SameChain DEF Reverting, HandleLeaves
    <3> QED
      BY <2>1, <2>7, <3>1
         DEF Working, Safe, RaceCover, RaceLedger, OneStanding, HandleLeaves
  <2> QED
    BY <1>1, <2>1, <2>7, <2>9, <2>10, <2>11, <2>12, RaceHandleFrame
<1> QED
  BY <1>4, <1>5

\* What HandleReorgedBlocks changes in the ledger: the service holds every block it is told
\* of, and all reorged blocks that it holds are among them.
LEMMA RaceReorgedHanded ==
    ASSUME Setting, Safe, Working, DoneReorged, NEW hashes,
           hashes = { result.reorged[n].hash : n \in batch }
    PROVE  /\ hashes \ {ZeroHash} \subseteq Standing
           /\ \A h \in hashes \ {ZeroHash} : h \in DOMAIN meta /\ meta[h].state = "Reorged"
           /\ Reverting \cap Standing \subseteq hashes
           /\ Given' = Given
           /\ \A h \in Given :
                /\ ledger'[h] \in [good : {1}, bad : {0, 1}, logs : SUBSET Addresses]
                /\ ledger'[h].bad = IF h \in hashes THEN 1 ELSE ledger[h].bad
                /\ ledger'[h].logs = ledger[h].logs
<1>1. /\ npc = "seeReorged" /\ todo = {}
      /\ IF batch = {} THEN UNCHANGED ledger ELSE HandleReorgedBlocks
  BY DEF DoneReorged
<1>2. result = ret.result /\ Handling
  BY <1>1, RaceResultBlocks
<1>3. /\ batch \subseteq DOMAIN result.reorged
      /\ \A n \in DOMAIN result.reorged :
           LET h == result.reorged[n].hash
           IN  h # ZeroHash =>
                 /\ h \in DOMAIN meta
                 /\ h \in Standing => n \in batch
                 /\ n \in batch => meta[h].state = "Reorged"
  BY <1>1 DEF Working, RaceLoop
<1>4. \A h \in hashes \ {ZeroHash} : h \in DOMAIN meta /\ meta[h].state = "Reorged"
  BY <1>3
<1>5. \A h \in hashes \ {ZeroHash} : h \in Standing
  BY <1>1, <1>4 DEF Working, RaceMeta, RaceState
<1>6. ZeroHash \notin Standing
  BY DEF Standing, Given
<1>7. Reverting \cap Standing \subseteq hashes
  BY <1>1, <1>2, <1>3, <1>6 DEF Reverting, HashesOf, Handling
<1>8. /\ DOMAIN ledger \subseteq DOMAIN ledger' /\ DOMAIN ledger' \subseteq DOMAIN ledger \cup hashes
      /\ \A h \in DOMAIN ledger :
           ledger'[h] = IF h \in hashes THEN [ledger[h] EXCEPT !.bad = @ + 1] ELSE ledger[h]
  <2>1. CASE batch = {}
    BY <1>1, <2>1
  <2>2. CASE batch # {}
    <3>1. ledger' = [h \in DOMAIN ledger \cup hashes |->
                      IF h \notin hashes THEN ledger[h]
                      ELSE IF h \in DOMAIN ledger THEN [ledger[h] EXCEPT !.bad = @ + 1]
                           ELSE [good |-> 0, bad |-> 1, logs |-> {}]]
      BY <1>1, <2>2 DEF HandleReorgedBlocks
    <3> QED
      BY <3>1
  <2> QED
    BY <2>1, <2>2
<1>9. Given' = Given
  BY <1>5, <1>8 DEF Given, Standing
<1>10. ASSUME NEW h \in Given
       PROVE  /\ ledger'[h] \in [good : {1}, bad : {0, 1}, logs : SUBSET Addresses]
              /\ ledger'[h].bad = IF h \in hashes THEN 1 ELSE ledger[h].bad
              /\ ledger'[h].logs = ledger[h].logs
  <2>1. h \in DOMAIN ledger /\ h # ZeroHash
    BY DEF Given
  <2>2. ledger[h] \in [good : {1}, bad : {0, 1}, logs : SUBSET Addresses]
    BY DEF Safe, RaceLedger
  <2>3. CASE h \in hashes
    <3>1. ledger[h].bad = 0
      BY <1>5, <2>1, <2>3 DEF Standing
    <3>2. ledger'[h] = [ledger[h] EXCEPT !.bad = ledger[h].bad + 1]
      BY <1>8, <2>1, <2>3
    <3>3. ledger'[h] = [ledger[h] EXCEPT !.bad = 1]
      BY <3>1, <3>2
    <3> QED
      BY <2>2, <2>3, <3>3
  <2>4. CASE h \notin hashes
    BY <1>8, <2>1, <2>2, <2>4
  <2> QED
    BY <2>3, <2>4
<1> QED
  BY <1>4, <1>5, <1>7, <1>9, <1>10

\* The reorged blocks that the service holds are reverted, and no block stays Reorged.
LEMMA RaceDoneReorged ==
    ASSUME Setting, Safe, Working, DoneReorged, HandleLeaves
    PROVE  Safe' /\ Working'
<1> DEFINE hashes == { result.reorged[n].hash : n \in batch }
<1>1. /\ npc = "seeReorged" /\ npc' = "seeGood" /\ todo = {}
      /\ todo' = DOMAIN result.good /\ batch' = {} /\ UNCHANGED result
      /\ meta' = FireAll(result.reorged, "HandleReorg")
  BY DEF DoneReorged
<1>2. /\ hashes \ {ZeroHash} \subseteq Standing
      /\ \A h \in hashes \ {ZeroHash} : h \in DOMAIN meta /\ meta[h].state = "Reorged"
      /\ Reverting \cap Standing \subseteq hashes
      /\ Given' = Given
  BY RaceReorgedHanded
<1>3. \A h \in Given :
        /\ ledger'[h] \in [good : {1}, bad : {0, 1}, logs : SUBSET Addresses]
        /\ ledger'[h].bad = IF h \in hashes THEN 1 ELSE ledger[h].bad
        /\ ledger'[h].logs = ledger[h].logs
  BY RaceReorgedHanded
<1>4. /\ DOMAIN meta' = DOMAIN meta
      /\ \A h \in DOMAIN meta :
           meta'[h] = IF h \in hashes THEN [meta[h] EXCEPT !.state = Fire(@, "HandleReorg")]
                      ELSE meta[h]
  BY <1>1 DEF FireAll
<1>5. \A n \in batch : result.reorged[n].hash \in hashes
  OBVIOUS
<1> HIDE DEF hashes
<1>6. Standing' = Standing \ hashes
  <2>1. \A h \in Given : ledger'[h].bad = 0 <=> ledger[h].bad = 0 /\ h \notin hashes
    BY <1>3
  <2> QED
    BY <1>2, <2>1 DEF Standing
<1>7. Logged' = Logged \ hashes
  <2>1. \A h \in Standing : ledger'[h].logs = ledger[h].logs
    BY <1>3 DEF Standing
  <2> QED
    BY <1>6, <2>1 DEF Logged
<1>8. Forgotten' = Forgotten
  BY <1>2, <1>4 DEF Forgotten
<1>9. /\ \A h \in DOMAIN meta : meta'[h] \in blockMetadata /\ meta'[h].number = meta[h].number
      /\ \A h \in hashes \ {ZeroHash} : meta'[h].state = "HandledReorg"
  <2> SUFFICES ASSUME NEW h \in DOMAIN meta
               PROVE  /\ meta'[h] \in blockMetadata /\ meta'[h].number = meta[h].number
                      /\ h \in hashes \ {ZeroHash} => meta'[h].state = "HandledReorg"
    BY <1>2
  <2>1. meta[h] \in blockMetadata
    BY DEF Safe, StatesOK
  <2>2. CASE h \notin hashes
    BY <1>4, <2>1, <2>2
  <2>3. CASE h \in hashes
    <3> DEFINE new == Fire(meta[h].state, "HandleReorg")
    <3>1. new \in BlockStates
      BY FireStates
    <3>2. h # ZeroHash => new = "HandledReorg"
      BY <1>2, <2>3 DEF Fire
    <3>3. meta'[h] = [meta[h] EXCEPT !.state = new]
      BY <1>4, <2>3
    <3> HIDE DEF new
    <3> QED
      BY <2>1, <2>3, <3>1, <3>2, <3>3 DEF blockMetadata
  <2> QED
    BY <2>2, <2>3
<1>10. StatesOK' /\ RaceLedger' /\ OneStanding'
  <2>1. StatesOK'
    BY <1>4, <1>9 DEF StatesOK
  <2>2. RaceLedger'
    BY <1>2, <1>3 DEF Safe, RaceLedger
  <2> QED
    BY <1>7, <2>1, <2>2 DEF Safe, OneStanding
<1>11. RaceMeta'
  <2> SUFFICES ASSUME NEW h \in DOMAIN meta \ {ZeroHash}
               PROVE  meta'[h].number = h.number /\ RaceState(h)'
    BY <1>4 DEF RaceMeta
  <2>1. meta[h].number = h.number /\ RaceState(h)
    BY DEF Working, RaceMeta
  <2>2. CASE h \in hashes
    <3>1. meta'[h].state = "HandledReorg"
      BY <1>9, <2>2
    <3>2. h \in Given' \ Standing'
      BY <1>2, <1>6, <2>2 DEF Standing
    <3> QED
      BY <1>9, <2>1, <3>1, <3>2 DEF RaceState
  <2>3. CASE h \notin hashes
    <3>1. \/ meta[h].state = "Handled" /\ h \in Standing
          \/ meta[h].state \in {"HandledReorg", "Invalid"} /\ h \in Given \ Standing
      BY <1>1, <1>5, <2>1, <2>3 DEF RaceState
    <3> QED
      BY <1>2, <1>4, <1>6, <2>1, <2>3, <3>1 DEF RaceState
  <2> QED
    BY <2>2, <2>3
<1>12. RaceLoop'
  BY <1>1 DEF RaceLoop
<1>13. RaceCover'
  <2>1. \A k : Exists(k)' = Exists(k) /\ BlockAt(k)' = BlockAt(k)
    BY SameChain DEF HandleLeaves
  <2>2. \A h \in Logged : h \in Standing
    BY DEF Logged
  <2> QED
    BY <1>2, <1>7, <2>1, <2>2 DEF Working, RaceCover, HandleLeaves
<1> QED
  BY <1>1, <1>8, <1>10, <1>11, <1>12, <1>13, RaceHandleFrame

\* The next good block is one the service was given, or a new one, which goes to the service.
LEMMA RaceSeeGood ==
    ASSUME Setting, Safe, Working, SeeGoodBlock, HandleLeaves
    PROVE  Safe' /\ Working'
<1> DEFINE n    == Min(todo)
           hash == result.good[n].hash
           old  == GetBlockMetadata(hash, n)
           new  == Fire(old.state, "SeeBlock")
<1>1. /\ npc = "seeGood" /\ todo # {} /\ todo \subseteq DOMAIN result.good
      /\ batch \subseteq DOMAIN result.good \ todo
      /\ \A k \in batch :
           LET h == result.good[k].hash
           IN  h # ZeroHash => h \in DOMAIN meta /\ meta[h].state = "Seen"
  BY DEF SeeGoodBlock, Working, RaceLoop
<1>2. \A k \in DOMAIN result.good :
        k \in Nat /\ k >= args.from /\ HashOf(result.good[k].hash, k)
  BY <1>1, RaceResultBlocks
<1>3. n \in todo /\ n \in DOMAIN result.good /\ n \notin batch /\ n \in Nat
  <2>1. todo \in SUBSET Nat
    BY <1>1, <1>2
  <2> QED
    BY <1>1, <2>1, MinOfNaturals
<1>4. /\ meta' = Put(meta, hash, [old EXCEPT !.state = new])
      /\ batch' = IF new = "Seen" THEN batch \cup {n} ELSE batch
      /\ todo' = todo \ {n} /\ UNCHANGED <<npc, result, ledger>>
  BY DEF SeeGoodBlock
<1>5. HashOf(hash, n)
  BY <1>2, <1>3
<1>6. \A k \in DOMAIN result.good : result.good[k].hash = hash /\ hash # ZeroHash => k = n
  BY <1>2, <1>5, HashOfOne
<1> HIDE DEF n
<1>7. old \in blockMetadata
  BY <1>3 DEF GetBlockMetadata, blockMetadata, BlockStates, Safe, StatesOK
<1>8. new \in BlockStates
  BY FireStates
<1>9. hash # ZeroHash =>
        /\ old.number = hash.number
        /\ \/ new = "Seen" /\ hash \notin DOMAIN ledger
           \/ new = "Handled" /\ hash \in Standing
           \/ new = "Invalid" /\ hash \in Given \ Standing
  <2> SUFFICES ASSUME hash # ZeroHash
               PROVE  /\ old.number = hash.number
                      /\ \/ new = "Seen" /\ hash \notin DOMAIN ledger
                         \/ new = "Handled" /\ hash \in Standing
                         \/ new = "Invalid" /\ hash \in Given \ Standing
    OBVIOUS
  <2>1. hash.number = n
    BY <1>5 DEF HashOf
  <2>2. CASE hash \notin DOMAIN meta
    <3>1. old = [state |-> "Null", number |-> n]
      BY <2>2 DEF GetBlockMetadata
    <3>2. new = "Seen" /\ old.number = n
      BY <3>1 DEF Fire
    <3>3. hash \notin DOMAIN ledger
      <4> SUFFICES ASSUME hash \in DOMAIN ledger
                   PROVE  FALSE
        OBVIOUS
      <4>1. hash \in Forgotten
        BY <2>2 DEF Forgotten, Given
      <4>2. hash.number < args.from
        BY <1>1, <4>1 DEF Working, RaceForgotten
      <4>3. n >= args.from /\ n \in Nat /\ args.from \in Nat
        BY <1>2, <1>3 DEF Safe, Fields, ArgsOK
      <4> QED
        BY <2>1, <4>2, <4>3
    <3> QED
      BY <2>1, <3>2, <3>3
  <2>3. CASE hash \in DOMAIN meta
    <3>1. old = meta[hash] /\ meta[hash].number = hash.number /\ RaceState(hash)
      BY <2>3 DEF GetBlockMetadata, Working, RaceMeta
    <3>2. \A k \in batch : result.good[k].hash # hash
      BY <1>1, <1>3, <1>6
    <3>3. \/ meta[hash].state = "Handled" /\ hash \in Standing
          \/ meta[hash].state \in {"HandledReorg", "Invalid"} /\ hash \in Given \ Standing
      BY <1>1, <3>1, <3>2 DEF RaceState
    <3> QED
      BY <3>1, <3>3 DEF Fire
  <2> QED
    BY <2>2, <2>3
<1> HIDE DEF old, new
<1>10. /\ DOMAIN meta' = DOMAIN meta \cup {hash}
       /\ \A h \in DOMAIN meta \ {hash} : meta'[h] = meta[h]
       /\ meta'[hash] = [old EXCEPT !.state = new]
  BY <1>4 DEF Put
<1>11. /\ meta'[hash] \in blockMetadata /\ meta'[hash].state = new
       /\ meta'[hash].number = old.number
  BY <1>7, <1>8, <1>10 DEF blockMetadata
<1>12. /\ Given' = Given /\ Standing' = Standing /\ Logged' = Logged
       /\ Forgotten' \subseteq Forgotten
  BY <1>4, <1>10 DEF Given, Standing, Logged, Forgotten
<1>13. StatesOK' /\ RaceLedger' /\ OneStanding'
  BY <1>4, <1>10, <1>11, <1>12 DEF Safe, StatesOK, RaceLedger, OneStanding
<1>14. RaceMeta'
  <2> SUFFICES ASSUME NEW h \in DOMAIN meta' \ {ZeroHash}
               PROVE  meta'[h].number = h.number /\ RaceState(h)'
    BY DEF RaceMeta
  <2>1. CASE h = hash
    BY <1>1, <1>4, <1>9, <1>11, <1>12, <2>1 DEF RaceState
  <2>2. CASE h # hash
    <3>1. h \in DOMAIN meta /\ meta'[h] = meta[h]
      BY <1>10, <2>2
    <3>2. meta[h].number = h.number /\ RaceState(h)
      BY <3>1 DEF Working, RaceMeta
    <3> QED
      BY <1>1, <1>4, <1>12, <3>1, <3>2 DEF RaceState
  <2> QED
    BY <2>1, <2>2
<1>15. RaceLoop'
  <2>1. todo' \subseteq DOMAIN result.good /\ batch' \subseteq DOMAIN result.good \ todo'
    BY <1>1, <1>3, <1>4
  <2>2. ASSUME NEW k \in batch', result.good[k].hash # ZeroHash
        PROVE  /\ result.good[k].hash \in DOMAIN meta'
               /\ meta'[result.good[k].hash].state = "Seen"
    <3>1. CASE k = n
      BY <1>3, <1>4, <1>10, <1>11, <2>2, <3>1
    <3>2. CASE k # n
      <4>1. k \in batch /\ k \in DOMAIN result.good
        BY <1>1, <1>4, <2>2, <3>2
      <4>2. result.good[k].hash # hash
        BY <1>6, <2>2, <3>2, <4>1
      <4> QED
        BY <1>1, <1>10, <2>2, <4>1, <4>2
    <3> QED
      BY <3>1, <3>2
  <2> QED
    BY <1>1, <1>4, <2>1, <2>2 DEF RaceLoop
<1>16. RaceCover'
  <2>1. Reverting' = Reverting /\ \A k : Exists(k)' = Exists(k) /\ BlockAt(k)' = BlockAt(k)
    BY <1>4, SameChain DEF Reverting, HandleLeaves
  <2> QED
    BY <1>4, <1>12, <2>1 DEF Working, RaceCover, HandleLeaves
<1> QED
  BY <1>1, <1>4, <1>12, <1>13, <1>14, <1>15, <1>16, RaceHandleFrame

\* What HandleGoodBlocks adds to the ledger: blocks the service did not have, which are
\* tracked if they have logs.
LEMMA RaceGoodHanded ==
    ASSUME Setting, Safe, Working, DoneGood, NEW hashes,
           hashes = { result.good[n].hash : n \in batch }
    PROVE  /\ \A h \in hashes \ {ZeroHash} :
                /\ h \notin DOMAIN ledger /\ h \in DOMAIN meta /\ meta[h].state = "Seen"
                /\ h \in Blocks /\ h.number >= StartBlock
                /\ ledger'[h] \in [good : {1}, bad : {0}, logs : SUBSET Addresses]
                /\ ledger'[h].logs # {} =>
                     h.number \in DOMAIN tracker /\ tracker[h.number].hash = h
           /\ Given' = Given \cup (hashes \ {ZeroHash})
           /\ \A h \in Given : ledger'[h] = ledger[h]
<1> DEFINE logsOf(h) == UNION { result.good[n].logs :
                                n \in { m \in batch : result.good[m].hash = h } }
<1>1. /\ npc = "seeGood" /\ todo = {}
      /\ IF batch = {} THEN UNCHANGED ledger ELSE HandleGoodBlocks
  BY DEF DoneGood
<1>2. \A n \in DOMAIN result.good :
        /\ n >= StartBlock
        /\ result.good[n] \in BlockInfo
        /\ HashOf(result.good[n].hash, n)
        /\ result.good[n].logs # {} =>
             n \in DOMAIN tracker /\ tracker[n].hash = result.good[n].hash
  BY <1>1, RaceResultBlocks
<1>3. /\ batch \subseteq DOMAIN result.good
      /\ \A n \in batch :
           LET h == result.good[n].hash
           IN  h # ZeroHash => h \in DOMAIN meta /\ meta[h].state = "Seen"
  BY <1>1 DEF Working, RaceLoop
<1>4. ASSUME NEW h \in hashes \ {ZeroHash}
      PROVE  /\ h \notin DOMAIN ledger /\ h \in DOMAIN meta /\ meta[h].state = "Seen"
             /\ h \in Blocks /\ h.number >= StartBlock
             /\ logsOf(h) \in SUBSET Addresses
             /\ logsOf(h) # {} => h.number \in DOMAIN tracker /\ tracker[h.number].hash = h
  <2>1. PICK n \in batch : result.good[n].hash = h
    OBVIOUS
  <2>2. h \in DOMAIN meta /\ meta[h].state = "Seen"
    BY <1>3, <2>1
  <2>3. h \notin DOMAIN ledger
    BY <2>2 DEF Working, RaceMeta, RaceState
  <2>4. \A m \in batch : result.good[m].hash = h => m = h.number /\ h \in Blocks
    BY <1>2, <1>3 DEF HashOf
  <2>5. h \in Blocks /\ h.number >= StartBlock
    BY <1>2, <1>3, <2>1, <2>4
  <2>6. \A m \in batch : result.good[m].logs \in SUBSET Addresses
    BY <1>2, <1>3 DEF BlockInfo
  <2>7. logsOf(h) \in SUBSET Addresses
    BY <2>6
  <2>8. ASSUME logsOf(h) # {}
        PROVE  h.number \in DOMAIN tracker /\ tracker[h.number].hash = h
    <3>1. PICK m \in batch : result.good[m].hash = h /\ result.good[m].logs # {}
      BY <2>8
    <3> QED
      BY <1>2, <1>3, <2>4, <3>1
  <2> QED
    BY <2>2, <2>3, <2>5, <2>7, <2>8
<1>5. /\ DOMAIN ledger' = DOMAIN ledger \cup hashes
      /\ \A h \in DOMAIN ledger \ hashes : ledger'[h] = ledger[h]
      /\ \A h \in hashes \ DOMAIN ledger :
           ledger'[h] = [good |-> 1, bad |-> 0, logs |-> logsOf(h)]
  <2>1. CASE batch = {}
    BY <1>1, <2>1
  <2>2. CASE batch # {}
    <3>1. ledger' = [h \in DOMAIN ledger \cup hashes |->
              IF h \notin hashes THEN ledger[h]
              ELSE IF h \in DOMAIN ledger
                   THEN [ledger[h] EXCEPT !.good = @ + 1, !.logs = @ \cup logsOf(h)]
                   ELSE [good |-> 1, bad |-> 0, logs |-> logsOf(h)]]
      BY <1>1, <2>2 DEF HandleGoodBlocks
    <3> HIDE DEF logsOf
    <3> QED
      BY <3>1
  <2> QED
    BY <2>1, <2>2
<1> HIDE DEF logsOf
<1>6. ASSUME NEW h \in hashes \ {ZeroHash}
      PROVE  /\ ledger'[h] \in [good : {1}, bad : {0}, logs : SUBSET Addresses]
             /\ ledger'[h].logs = logsOf(h)
  <2>1. ledger'[h] = [good |-> 1, bad |-> 0, logs |-> logsOf(h)]
    BY <1>4, <1>5
  <2> QED
    BY <1>4, <2>1
<1>7. Given' = Given \cup (hashes \ {ZeroHash})
  BY <1>5 DEF Given
<1>8. \A h \in Given : ledger'[h] = ledger[h]
  BY <1>4, <1>5 DEF Given
<1> QED
  BY <1>4, <1>6, <1>7, <1>8

\* The service is given the new blocks of the result, none of a height whose logs it holds;
\* the engine forgets old ones.
LEMMA RaceDoneGood ==
    ASSUME Setting, Safe, Working, DoneGood, HandleLeaves
    PROVE  Safe' /\ Working'
<1> DEFINE hashes == { result.good[n].hash : n \in batch }
           added  == hashes \ {ZeroHash}
           fired  == FireAll(result.good, "Handle")
<1>1. /\ npc = "seeGood" /\ npc' = "record" /\ todo = {} /\ batch' = {} /\ UNCHANGED result
      /\ meta' = ClearUntil(fired, Sub64(result.lastGood, LookBack))
  BY DEF DoneGood, LookBack
<1>2. Handling /\ result.lastGood = lastRecorded
  BY <1>1, RaceResultBlocks
<1>3. \A h \in added :
        /\ h \notin DOMAIN ledger /\ h \in DOMAIN meta /\ meta[h].state = "Seen"
        /\ h \in Blocks /\ h.number >= StartBlock
        /\ ledger'[h] \in [good : {1}, bad : {0}, logs : SUBSET Addresses]
        /\ ledger'[h].logs # {} =>
             h.number \in DOMAIN tracker /\ tracker[h.number].hash = h
  BY RaceGoodHanded
<1>4. Given' = Given \cup added /\ \A h \in Given : ledger'[h] = ledger[h]
  BY RaceGoodHanded
<1>5. /\ DOMAIN fired = DOMAIN meta
      /\ \A h \in DOMAIN meta :
           fired[h] = IF h \in hashes THEN [meta[h] EXCEPT !.state = Fire(@, "Handle")]
                      ELSE meta[h]
  BY DEF FireAll
<1>6. \A n \in batch : result.good[n].hash \in hashes
  OBVIOUS
<1> HIDE DEF fired, hashes
<1>7. /\ \A h \in DOMAIN meta : fired[h] \in blockMetadata /\ fired[h].number = meta[h].number
      /\ \A h \in added : fired[h].state = "Handled"
      /\ \A h \in DOMAIN meta \ hashes : fired[h] = meta[h]
  <2> SUFFICES ASSUME NEW h \in DOMAIN meta
               PROVE  /\ fired[h] \in blockMetadata /\ fired[h].number = meta[h].number
                      /\ h \in added => fired[h].state = "Handled"
                      /\ h \notin hashes => fired[h] = meta[h]
    BY <1>3
  <2>1. meta[h] \in blockMetadata
    BY DEF Safe, StatesOK
  <2>2. CASE h \notin hashes
    BY <1>5, <2>1, <2>2
  <2>3. CASE h \in hashes
    <3> DEFINE new == Fire(meta[h].state, "Handle")
    <3>1. new \in BlockStates
      BY FireStates
    <3>2. h # ZeroHash => new = "Handled"
      BY <1>3, <2>3 DEF Fire
    <3>3. fired[h] = [meta[h] EXCEPT !.state = new]
      BY <1>5, <2>3
    <3> HIDE DEF new
    <3> QED
      BY <2>1, <2>3, <3>1, <3>2, <3>3 DEF blockMetadata
  <2> QED
    BY <2>2, <2>3
<1>8. /\ DOMAIN meta' = { h \in DOMAIN meta : meta[h].number > lastRecorded - LookBack }
      /\ \A h \in DOMAIN meta' : meta'[h] = fired[h]
  <2>1. lastRecorded \in Nat /\ lastRecorded < Half
    BY HeadNumbers, SettingFacts DEF Safe, Working, RaceRecord
  <2>2. Score(Sub64(result.lastGood, LookBack)) = lastRecorded - LookBack
    BY <1>2, <2>1, LookBackFacts, ScoreOfSub64
  <2>3. meta' = [h \in { g \in DOMAIN fired : fired[g].number > lastRecorded - LookBack } |-> fired[h]]
    BY <1>1, <2>2 DEF ClearUntil
  <2> QED
    BY <1>5, <1>7, <2>3
<1>9. Standing' = Standing \cup added
  <2>1. \A h \in added : ledger'[h].bad = 0
    BY <1>3
  <2> HIDE DEF added
  <2> QED
    BY <1>4, <2>1 DEF Standing
<1>10. \A h \in Logged' : h \in Logged \/ (h \in added /\ ledger'[h].logs # {})
  <2> HIDE DEF added
  <2> QED
    BY <1>4, <1>9 DEF Logged, Standing
<1>11. RaceCover' /\ Reverting' = {}
  <2>1. Reverting = {} /\ Reverting' = {}
    BY <1>1, <1>2 DEF Reverting, Handling, HandleLeaves
  <2>2. \A k : Exists(k)' = Exists(k) /\ BlockAt(k)' = BlockAt(k)
    BY SameChain DEF HandleLeaves
  <2>3. UNCHANGED <<tracker, tallest>>
    BY DEF HandleLeaves
  <2> HIDE DEF added
  <2>4. \A h \in Logged :
          \/ h.number \in DOMAIN tracker /\ tracker[h.number].hash = h
          \/ /\ h.number \notin DOMAIN tracker /\ h.number <= tallest - FilterRange
             /\ Exists(h.number) /\ BlockAt(h.number) = h
    BY <2>1 DEF Working, RaceCover
  <2> QED
    BY <1>3, <1>10, <2>1, <2>2, <2>3, <2>4 DEF RaceCover
<1>12. OneStanding'
  BY <1>11 DEF OneStanding, RaceCover
<1>13. RaceLedger'
  <2> SUFFICES ASSUME NEW h \in Given'
               PROVE  /\ h \in Blocks /\ h.number >= StartBlock
                      /\ ledger'[h] \in [good : {1}, bad : {0, 1}, logs : SUBSET Addresses]
    BY DEF RaceLedger
  <2>1. CASE h \in Given
    BY <1>4, <2>1 DEF Safe, RaceLedger
  <2>2. CASE h \in added
    BY <1>3, <2>2
  <2> QED
    BY <1>4, <2>1, <2>2
<1>14. StatesOK'
  BY <1>7, <1>8 DEF StatesOK
<1>15. RaceMeta'
  <2> SUFFICES ASSUME NEW h \in DOMAIN meta' \ {ZeroHash}
               PROVE  meta'[h].number = h.number /\ RaceState(h)'
    BY DEF RaceMeta
  <2>1. h \in DOMAIN meta /\ meta'[h] = fired[h] /\ fired[h].number = meta[h].number
    BY <1>7, <1>8
  <2>2. meta[h].number = h.number /\ RaceState(h)
    BY <2>1 DEF Working, RaceMeta
  <2>3. CASE h \in hashes
    BY <1>7, <1>9, <2>1, <2>2, <2>3 DEF RaceState
  <2>4. CASE h \notin hashes
    <3>1. \/ meta[h].state = "Handled" /\ h \in Standing
          \/ meta[h].state \in {"HandledReorg", "Invalid"} /\ h \in Given \ Standing
      BY <1>1, <1>6, <2>2, <2>4 DEF RaceState
    <3> QED
      BY <1>4, <1>7, <1>9, <2>1, <2>2, <2>4, <3>1 DEF RaceState
  <2> QED
    BY <2>3, <2>4
<1>16. RaceLoop'
  BY <1>1 DEF RaceLoop
<1>17. \A h \in Forgotten' : h \in Forgotten \/ h.number <= lastRecorded - 2 * FilterRange
  <2> SUFFICES ASSUME NEW h \in Forgotten'
               PROVE  h \in Forgotten \/ h.number <= lastRecorded - 2 * FilterRange
    OBVIOUS
  <2>1. h \in Given' /\ h \notin DOMAIN meta' /\ h # ZeroHash
    BY DEF Forgotten, Given
  <2>2. CASE h \in DOMAIN meta
    <3>1. ~(h.number > lastRecorded - LookBack)
      BY <1>8, <2>1, <2>2 DEF Working, RaceMeta
    <3>2. h.number \in Nat
      BY <1>13, <2>1 DEF RaceLedger, Blocks
    <3>3. lastRecorded \in Nat
      BY DEF Working, RaceRecord
    <3> QED
      BY <3>1, <3>2, <3>3, LookBackFacts, SettingFacts
  <2>3. CASE h \notin DOMAIN meta
    <3>1. h \in Given
      BY <1>3, <1>4, <2>1, <2>3
    <3> QED
      BY <2>3, <3>1 DEF Forgotten
  <2> QED
    BY <2>2, <2>3
<1> QED
  BY <1>1, <1>11, <1>12, <1>13, <1>14, <1>15, <1>16, <1>17, RaceHandleFrame

\* handleResults
LEMMA RaceHandle ==
    ASSUME Setting, Safe, Working, Handle
    PROVE  Safe' /\ (Working' \/ Panicked')
<1>1. HandleLeaves
  BY DEF Handle, HandleLeaves, emitterVars, chainVars, pollerVars
<1> QED
  BY <1>1, RaceSeeReorged, RaceDoneReorged, RaceSeeGood, RaceDoneGood DEF Handle, EngineStep

-----------------------------------------------------------------------------
(* The block is recorded, and emitter and engine meet *)

\* The gateway has the block the poller chose.
LEMMA RaceRecords ==
    ASSUME Setting, Safe, Working, Record
    PROVE  Safe' /\ Working'
<1>1. /\ npc = "record" /\ npc' = "sync" /\ gateway' = result.lastGood
      /\ UNCHANGED <<result, todo, batch, meta, ledger>>
      /\ UNCHANGED <<epc, status, call, ppc, args, pollResults, headers, tracker,
                     doReorg, policy, filter, lastRecorded, ret>>
      /\ UNCHANGED <<chain, tallest, reorgs, abandoned>>
  BY DEF Record, RecordLastGood, SetLastRecordedBlock, emitterVars, chainVars, pollerVars
<1>2. Handling /\ ~Computing /\ ~Polling /\ ~Polled
  BY <1>1, HandlingOnly DEF Working
<1>3. Handling' /\ ~Computing' /\ ~Polling' /\ ~Polled' /\ ~Answered'
  BY <1>1, <1>2 DEF Computing, Polling, Polled, Handling, Answered
<1>4. /\ Given' = Given /\ Standing' = Standing /\ Logged' = Logged /\ Forgotten' = Forgotten
      /\ Reverting = {} /\ Reverting' = {}
  BY <1>1, <1>2, SameGiven DEF Reverting, Handling
<1>5. /\ \A n : Exists(n)' = Exists(n) /\ BlockAt(n)' = BlockAt(n)
      /\ \A n : TrackedSound(n)' = TrackedSound(n)
      /\ RaceTracker' /\ HeadOK'
  BY <1>1, <1>4, SameChain, TrackerStays, HeadStays DEF Safe, Working, chainVars
<1>6. gateway' = lastRecorded /\ lastRecorded \in Nat
  BY <1>1, <1>2 DEF Working, RaceResult, RaceRecord
<1>7. Fields'
  BY <1>1, <1>2, <1>6
     DEF Safe, Fields, Handling, ArgsOK, FetchedOK, BlockMap, GatewayTypeOK
<1>8. RaceRecord' /\ RaceRange' /\ RaceStatus' /\ RaceFetch' /\ PhaseOK'
  BY <1>1, <1>2, <1>3, <1>6
     DEF Working, RaceRecord, RaceRange, RaceStatus, RaceFetch, PhaseOK, Handling
<1>9. RaceResult'
  BY <1>1, <1>2, <1>3 DEF Working, RaceResult, HashOf
<1>10. RaceCover'
  BY <1>1, <1>4, <1>5 DEF Working, RaceCover
<1>11. RaceGoBack' /\ RaceForgotten'
  BY <1>1, <1>2, <1>3, <1>4, <1>5 DEF Working, RaceGoBack, GoingBack, RaceForgotten, Handling
<1>12. RaceMeta' /\ RaceLoop'
  BY <1>1, <1>4 DEF Working, RaceMeta, RaceState, RaceLoop
<1>13. Safe'
  BY <1>1, <1>4, <1>5, <1>7 DEF Safe, RaceLedger, OneStanding, StatesOK
<1> QED
  BY <1>5, <1>8, <1>9, <1>10, <1>11, <1>12, <1>13 DEF Working

\* The emitter goes on to the next range.
LEMMA RaceSync ==
    ASSUME Setting, Safe, Working, Sync
    PROVE  Safe' /\ Working'
<1>1. /\ npc = "sync" /\ npc' = "receive" /\ Synced
      /\ UNCHANGED <<todo, batch, meta, ledger>>
      /\ UNCHANGED <<gateway, ppc, args, pollResults, headers, tracker,
                     doReorg, policy, filter, lastRecorded, ret>>
      /\ UNCHANGED <<chain, tallest, reorgs, abandoned>>
  BY DEF Sync, SyncsEmitter, chainVars, pollerVars
<1>2. Handling /\ ~Computing /\ ~Polling /\ ~Polled
  BY <1>1, HandlingOnly DEF Working
<1>3. epc' = "compute" /\ UNCHANGED call
  BY <1>1 DEF Synced
<1>4. /\ call \in [from : Nat, to : Nat]
      /\ status \in [from : Nat, to : Nat, goBack : BOOLEAN, isReorging : BOOLEAN, retries : Nat]
      /\ status.goBack = FALSE
      /\ status.retries = IF status.isReorging THEN 1 ELSE 0
      /\ epc = "emitReorging" => status.isReorging
  BY <1>2 DEF Safe, Fields, Working, RaceStatus
<1>5. \/ /\ epc = "emit"
         /\ status' = [from |-> call.from, to |-> call.to, goBack |-> FALSE,
                       isReorging |-> FALSE, retries |-> 0]
      \/ epc = "emitReorging" /\ UNCHANGED status
  BY <1>1, <1>2 DEF Synced, updateStatus, Handling
<1>6. Computing' /\ ~Handling' /\ ~Polling' /\ ~Polled' /\ ~Answered'
  BY <1>1, <1>2, <1>3 DEF Computing, Polling, Polled, Handling, Answered
<1>7. /\ Given' = Given /\ Standing' = Standing /\ Logged' = Logged /\ Forgotten' = Forgotten
      /\ Reverting = {} /\ Reverting' = {}
  BY <1>1, <1>2, <1>3, SameGiven DEF Reverting, Handling
<1>8. /\ \A n : Exists(n)' = Exists(n) /\ BlockAt(n)' = BlockAt(n)
      /\ \A n : TrackedSound(n)' = TrackedSound(n)
      /\ RaceTracker' /\ HeadOK'
  BY <1>1, <1>7, SameChain, TrackerStays, HeadStays DEF Safe, Working, chainVars
<1>9. /\ status' \in [from : Nat, to : Nat, goBack : BOOLEAN, isReorging : BOOLEAN, retries : Nat]
      /\ status'.goBack = FALSE
      /\ status'.retries = IF status'.isReorging THEN 1 ELSE 0
  <2>1. CASE epc = "emitReorging" /\ UNCHANGED status
    BY <1>4, <2>1
  <2>2. CASE status' = [from |-> call.from, to |-> call.to, goBack |-> FALSE,
                        isReorging |-> FALSE, retries |-> 0]
    <3>1. call.from \in Nat /\ call.to \in Nat
      BY <1>4
    <3> QED
      BY <2>2, <3>1
  <2> QED
    BY <1>5, <2>1, <2>2
<1>10. Fields'
  BY <1>1, <1>2, <1>3, <1>4, <1>9
     DEF Safe, Fields, Handling, ArgsOK, FetchedOK, BlockMap, GatewayTypeOK
<1>11. gateway = lastRecorded /\ lastRecorded \in Nat /\ lastRecorded >= StartBlock
  BY <1>1, <1>2 DEF Working, RaceRecord
<1>12. RaceRecord'
  BY <1>1, <1>6, <1>11 DEF Working, RaceRecord
<1>13. ~Unpolled'
  <2>1. lastRecorded' = lastRecorded
    BY <1>1
  <2>2. lastRecorded # 0
    BY <1>11, SettingFacts
  <2> QED
    BY <2>1, <2>2 DEF Unpolled
<1>14. RaceRange' /\ RaceResult' /\ RaceStatus' /\ RaceFetch' /\ PhaseOK'
  BY <1>1, <1>2, <1>3, <1>6, <1>9, <1>13
     DEF RaceRange, RaceResult, RaceStatus, RaceFetch, PhaseOK, Handling
<1>15. RaceCover'
  BY <1>1, <1>7, <1>8 DEF Working, RaceCover
<1>16. RaceGoBack'
  <2>1. CASE epc = "emit"
    BY <1>5, <2>1 DEF RaceGoBack, GoingBack
  <2>2. CASE epc = "emitReorging" /\ UNCHANGED status
    BY <1>1, <1>4, <1>7, <1>8, <2>2 DEF Working, RaceGoBack, GoingBack
  <2> QED
    BY <1>5, <2>1, <2>2
<1>17. RaceForgotten'
  BY <1>1, <1>3, <1>6, <1>7 DEF Working, RaceForgotten
<1>18. RaceMeta' /\ RaceLoop'
  BY <1>1, <1>7 DEF Working, RaceMeta, RaceState, RaceLoop
<1>19. Safe'
  BY <1>1, <1>7, <1>8, <1>10 DEF Safe, RaceLedger, OneStanding, StatesOK
<1> QED
  BY <1>8, <1>12, <1>14, <1>15, <1>16, <1>17, <1>18, <1>19 DEF Working

-----------------------------------------------------------------------------
(* The invariant *)

\* Nothing happens.
LEMMA RaceStutter ==
    ASSUME Setting, RaceInv, UNCHANGED vars
    PROVE  RaceInv'
<1>1. /\ UNCHANGED <<gateway, epc, status, call, ppc, args, pollResults, headers, tracker,
                     doReorg, policy, filter, lastRecorded, ret>>
      /\ UNCHANGED <<npc, result, todo, batch, meta, ledger>>
      /\ UNCHANGED <<chain, tallest, reorgs, abandoned>>
  BY DEF vars
<1>2. /\ Given' = Given /\ Standing' = Standing /\ Logged' = Logged /\ Forgotten' = Forgotten
      /\ Reverting' = Reverting /\ Unpolled' = Unpolled
      /\ \A n : AboveForgotten(n)' = AboveForgotten(n)
  BY <1>1, SameGiven DEF Reverting, Unpolled, AboveForgotten
<1>3. HeadOK' /\ \A n : Exists(n)' = Exists(n) /\ BlockAt(n)' = BlockAt(n)
  BY <1>1, HeadStays, SameChain DEF RaceInv, Safe, chainVars
<1>4. /\ \A n : TrackedSound(n)' = TrackedSound(n)
      /\ \A n : Recent(n)' = Recent(n)
      /\ \A n : HeaderHash(n)' = HeaderHash(n) /\ LogsAt(n)' = LogsAt(n)
  BY <1>1, <1>2, <1>3 DEF TrackedSound, Recent, HeaderHash, LogsAt
<1>5. /\ Computing' = Computing /\ Polling' = Polling /\ Polled' = Polled
      /\ Handling' = Handling /\ Answered' = Answered /\ PhaseOK' = PhaseOK
  BY <1>1 DEF PhaseOK, Computing, Polling, Polled, Handling, Answered
<1>6. Safe'
  <2>1. Fields'
    BY <1>1 DEF RaceInv, Safe, Fields, FetchedOK, ArgsOK, BlockMap, GatewayTypeOK
  <2> QED
    BY <1>1, <1>2, <1>3, <2>1 DEF RaceInv, Safe, RaceLedger, OneStanding, StatesOK
<1>7. ASSUME Working
      PROVE  Working'
  <2>1. RaceFetch'
    BY <1>1, <1>4, <1>7 DEF Working, RaceFetch, Fetched, FetchedSound, HashOf
  <2>2. RaceTracker' /\ RaceCover'
    BY <1>1, <1>2, <1>3, <1>4, <1>7 DEF Working, RaceTracker, RaceCover, HashOf
  <2>3. RaceRecord' /\ RaceRange' /\ RaceResult'
    BY <1>1, <1>2, <1>5, <1>7 DEF Working, RaceRecord, RaceRange, RaceResult, HashOf
  <2>4. RaceStatus'
    <3>1. TrackedSound(args.from)' = TrackedSound(args.from)
      BY <1>1, SameChain DEF TrackedSound, Exists, BlockAt
    <3> QED
      BY <1>1, <1>2, <1>5, <1>7, <3>1 DEF Working, RaceStatus
  <2>5. RaceGoBack' /\ RaceForgotten'
    BY <1>1, <1>2, <1>4, <1>5, <1>7 DEF Working, RaceGoBack, GoingBack, RaceForgotten
  <2>6. RaceMeta' /\ RaceLoop'
    BY <1>1, <1>2, <1>7 DEF Working, RaceMeta, RaceState, RaceLoop
  <2> QED
    BY <1>5, <1>7, <2>1, <2>2, <2>3, <2>4, <2>5, <2>6 DEF Working
<1>8. Panicked => Panicked'
  BY <1>1 DEF Panicked
<1> QED
  BY <1>6, <1>7, <1>8 DEF RaceInv

\* In the setting no call fails, nobody dies and no error is emitted.  Once somebody has
\* panicked nothing happens any more.
LEMMA RaceSteps ==
    ASSUME Setting, RaceInv, Faultless, [Next]_vars
    PROVE  /\ Faultless'
           /\ \/ UNCHANGED vars
              \/ /\ Working
                 /\ \/ ChainMoves \/ Wait \/ CallPoll \/ StepPoll \/ EmitResult \/ EmitNil
                    \/ Handle \/ Record \/ Sync
<1>1. ~CallFails /\ ~Crash
  BY DEF CallFails, Crash, Faultless, Setting
<1>2. ASSUME Working
      PROVE  ~ReturnPollError /\ ~ServiceTakesError
  <2>1. PollReturned => ret.err \in {"none", "fromBlockReorged", "hashesDiffer"}
    BY <1>2, HandlingOnly DEF Working, RaceStatus, PollReturned
  <2>2. epc # "emitError"
    BY <1>2 DEF Working, PhaseOK, Computing, Polling, Polled, Handling
  <2> QED
    BY <2>1, <2>2 DEF ReturnPollError, ServiceTakesError, EmitError
<1>3. ASSUME Panicked, Next
      PROVE  FALSE
  <2>1. /\ epc \in {"panicked", "emit", "emitReorging"} /\ ppc = "idle"
        /\ npc \in {"receive", "panicked"}
    BY <1>3 DEF Panicked
  <2>2. ~ReadsChain /\ ~PollReturned
    BY <2>1 DEF ReadsChain, PollReturned
  <2>3. ~ChainMoves /\ ~EmitResult /\ ~EmitNil /\ ~ReturnPollError /\ ~StepPoll
    BY <2>1, <2>2 DEF ChainMoves, EmitResult, EmitNil, ReturnPollError, StepPoll
  <2>4. ~Wait /\ ~CallPoll /\ ~ServiceTakesError
    BY <2>1 DEF Wait, SkipNoNewBlock, GiveUpReorg, CallPoll, ComputeRange, ServiceTakesError,
                EmitError
  <2>5. ~Handle /\ ~Record /\ ~Sync
    BY <2>1 DEF Handle, EngineStep, SeeReorgedBlock, DoneReorged, SeeGoodBlock, DoneGood,
                Record, RecordLastGood, Sync, SyncsEmitter
  <2> QED
    BY <1>1, <1>3, <2>3, <2>4, <2>5 DEF Next
<1>4. \/ UNCHANGED vars
      \/ /\ Working
         /\ \/ ChainMoves \/ Wait \/ CallPoll \/ StepPoll \/ EmitResult \/ EmitNil
            \/ Handle \/ Record \/ Sync
  BY <1>1, <1>2, <1>3 DEF RaceInv, Next
<1> QED
  BY <1>4 DEF Faultless, ChainMoves, Wait, CallPoll, StepPoll, EmitResult, EmitNil, Handle,
              Record, Sync, vars

\* Every step of the pipeline preserves the invariant.
LEMMA RaceNext ==
    ASSUME Setting, RaceInv, Faultless, [Next]_vars
    PROVE  RaceInv' /\ Faultless'
<1>1. Faultless'
  BY RaceSteps
<1>2. CASE UNCHANGED vars
  BY <1>1, <1>2, RaceStutter
<1>3. ASSUME Working,
             \/ ChainMoves \/ Wait \/ CallPoll \/ StepPoll \/ EmitResult \/ EmitNil
             \/ Handle \/ Record \/ Sync
      PROVE  Safe' /\ (Working' \/ Panicked')
  <2>1. Safe
    BY DEF RaceInv
  <2> QED
    BY <1>3, <2>1, RaceChainMoves, RaceWait, RaceCallPoll, RaceStepPoll, RaceEmitResult,
       RaceEmitNil, RaceHandle, RaceRecords, RaceSync
<1> QED
  BY <1>1, <1>2, <1>3, RaceSteps DEF RaceInv

\* The conjunction of the parts above holds in every state of the pipeline, however the
\* chain changes while a Poll is under way, until somebody panics.
THEOREM RaceInvariance ==
    ASSUME Setting
    PROVE  Spec => [](RaceInv /\ Faultless)
<1>1. Init => RaceInv /\ Faultless
  BY RaceInit DEF Init, Faultless
<1>2. RaceInv /\ Faultless /\ [Next]_vars => (RaceInv /\ Faultless)'
  BY RaceNext
<1> QED
  BY <1>1, <1>2, PTL DEF Spec

-----------------------------------------------------------------------------
(* What holds however the chain changes *)

\* Each part stays in its own states.
THEOREM TypeCorrect ==
    ASSUME Setting
    PROVE  Spec => []TypeOK
<1>1. RaceInv => TypeOK
  <2> SUFFICES ASSUME RaceInv
               PROVE  TypeOK
    OBVIOUS
  <2>1. GatewayTypeOK
    BY DEF RaceInv, Safe, Fields
  <2>2. \A h \in DOMAIN meta : meta[h].state \in BlockStates
    BY DEF RaceInv, Safe, StatesOK, blockMetadata
  <2>3. /\ epc \in {"compute", "poll", "emit", "emitReorging", "emitError", "panicked"}
        /\ ppc \in {"idle", "fetch", "headers", "logs", "missing"}
        /\ npc \in {"receive", "seeReorged", "seeGood", "record", "sync", "panicked"}
    BY DEF RaceInv, Working, Panicked, PhaseOK, Computing, Polling, Polled, Handling
  <2> QED
    BY <2>1, <2>2, <2>3 DEF TypeOK
<1> QED
  BY <1>1, RaceInvariance, PTL

\* The service is told to undo before it is told to redo: it never holds the logs of two
\* blocks of one height.
THEOREM OneBlockPerHeight ==
    ASSUME Setting
    PROVE  Spec => []OneLivePerHeight
<1>1. RaceInv => OneLivePerHeight
  <2> SUFFICES ASSUME RaceInv, NEW n \in 0 .. MaxHeight, NEW g \in LiveAt(n), NEW h \in LiveAt(n),
                      ledger[g].logs # {}, ledger[h].logs # {}
               PROVE  g = h
    BY DEF OneLivePerHeight
  <2>1. RaceLedger /\ OneStanding
    BY DEF RaceInv, Safe
  <2>2. g.number = n /\ h.number = n
    BY DEF LiveAt
  <2>3. ASSUME NEW k \in LiveAt(n), k # ZeroHash, ledger[k].logs # {}
        PROVE  k \in Logged /\ n >= StartBlock
    <3>1. k \in Given /\ k.number = n /\ ledger[k].good > ledger[k].bad
      BY <2>3 DEF LiveAt, Given
    <3>2. ledger[k].good = 1 /\ ledger[k].bad \in {0, 1} /\ k.number >= StartBlock
      BY <2>1, <3>1 DEF RaceLedger
    <3>3. ledger[k].bad = 0
      BY <3>1, <3>2
    <3> QED
      BY <2>3, <3>1, <3>2, <3>3 DEF Logged, Standing
  <2>4. n >= StartBlock => g # ZeroHash /\ h # ZeroHash
    <3>1. ZeroHash.number = 0
      BY DEF ZeroHash
    <3> QED
      BY <2>2, <3>1, SettingFacts
  <2> QED
    BY <2>1, <2>2, <2>3, <2>4 DEF OneStanding
<1> QED
  BY <1>1, RaceInvariance, PTL

-----------------------------------------------------------------------------
(* The refinement *)

\* The hash of a header that does not exist is none of the chain's.
LEMMA AllBlocksReal == ZeroHash \notin AllBlocks
BY ChainAssumption DEF ZeroHash, AllBlocks

\* The life of a block
LEMMA LifeOfLedger ==
    ASSUME RaceLedger
    PROVE  \A h \in AllBlocks :
             lifeOf(h) = IF h \notin Given THEN "new"
                         ELSE IF ledger[h].bad = 0 THEN "applied" ELSE "reverted"
<1>1. \A h \in Given : ledger[h].good = 1 /\ ledger[h].bad \in {0, 1}
  BY DEF RaceLedger
<1>2. \A h \in AllBlocks : h \in Given <=> h \in DOMAIN ledger
  BY AllBlocksReal DEF Given
<1> QED
  BY <1>1, <1>2 DEF lifeOf

\* The same after a step
LEMMA LifeOfLedgerNext ==
    ASSUME RaceLedger'
    PROVE  \A h \in AllBlocks :
             lifeOf(h)' = IF h \notin Given' THEN "new"
                          ELSE IF ledger'[h].bad = 0 THEN "applied" ELSE "reverted"
<1>1. \A h \in Given' : ledger'[h].good = 1 /\ ledger'[h].bad \in {0, 1}
  BY DEF RaceLedger
<1>2. \A h \in AllBlocks : h \in Given' <=> h \in DOMAIN ledger'
  BY AllBlocksReal DEF Given
<1> QED
  BY <1>1, <1>2 DEF lifeOf

\* The service is handed good blocks it never had.
LEMMA ApplyPasses ==
    ASSUME Setting, Safe, Working, DoneGood, RaceLedger'
    PROVE  Contract!Apply
<1> DEFINE hashes == { result.good[n].hash : n \in batch } \ {ZeroHash}
<1>1. /\ \A h \in hashes : h \notin DOMAIN ledger /\ ledger'[h].bad = 0
      /\ Given' = Given \cup hashes
      /\ \A h \in Given : ledger'[h] = ledger[h]
  BY RaceGoodHanded
<1>2. \A h \in AllBlocks :
        lifeOf(h) = IF h \notin Given THEN "new"
                    ELSE IF ledger[h].bad = 0 THEN "applied" ELSE "reverted"
  BY LifeOfLedger DEF Safe
<1>3. \A h \in AllBlocks :
        lifeOf(h)' = IF h \notin Given' THEN "new"
                     ELSE IF ledger'[h].bad = 0 THEN "applied" ELSE "reverted"
  BY LifeOfLedgerNext
<1> HIDE DEF hashes
<1>4. \A h \in AllBlocks : lifeOf(h)' # lifeOf(h) => lifeOf(h) = "new" /\ lifeOf(h)' = "applied"
  BY <1>1, <1>2, <1>3
<1>5. \A h \in AllBlocks : lifeOf(h)' \in {"new", "applied", "reverted"}
  BY <1>3
<1> QED
  BY <1>4, <1>5 DEF Contract!Apply, Contract!Pass, Contract!Lives

\* It is told to revert blocks it has and did not revert.
LEMMA RevertPasses ==
    ASSUME Setting, Safe, Working, DoneReorged, RaceLedger'
    PROVE  Contract!Revert
<1> DEFINE hashes == { result.reorged[n].hash : n \in batch }
<1>1. /\ hashes \ {ZeroHash} \subseteq Standing
      /\ Given' = Given
      /\ \A h \in Given : ledger'[h].bad = IF h \in hashes THEN 1 ELSE ledger[h].bad
  <2>1. hashes \ {ZeroHash} \subseteq Standing /\ Given' = Given
    BY RaceReorgedHanded
  <2>2. \A h \in Given :
          /\ ledger'[h] \in [good : {1}, bad : {0, 1}, logs : SUBSET Addresses]
          /\ ledger'[h].bad = IF h \in hashes THEN 1 ELSE ledger[h].bad
          /\ ledger'[h].logs = ledger[h].logs
    BY RaceReorgedHanded
  <2> QED
    BY <2>1, <2>2
<1> HIDE DEF hashes
<1>2. \A h \in AllBlocks :
        lifeOf(h) = IF h \notin Given THEN "new"
                    ELSE IF ledger[h].bad = 0 THEN "applied" ELSE "reverted"
  BY LifeOfLedger DEF Safe
<1>3. \A h \in AllBlocks :
        lifeOf(h)' = IF h \notin Given' THEN "new"
                     ELSE IF ledger'[h].bad = 0 THEN "applied" ELSE "reverted"
  BY LifeOfLedgerNext
<1>4. \A h \in hashes \cap Given : ledger[h].bad = 0
  BY <1>1 DEF Standing, Given
<1>5. \A h \in AllBlocks :
        lifeOf(h)' # lifeOf(h) => lifeOf(h) = "applied" /\ lifeOf(h)' = "reverted"
  BY <1>1, <1>2, <1>3, <1>4
<1>6. \A h \in AllBlocks : lifeOf(h)' \in {"new", "applied", "reverted"}
  BY <1>3
<1> QED
  BY <1>5, <1>6 DEF Contract!Revert, Contract!Pass, Contract!Lives

\* Every step of the pipeline is a step of the contract or leaves all lives alone.
LEMMA StepsPass ==
    ASSUME Setting, RaceInv, Faultless, [Next]_vars
    PROVE  Contract!Next \/ UNCHANGED [h \in AllBlocks |-> lifeOf(h)]
<1>1. Safe /\ RaceLedger'
  <2>1. RaceInv'
    BY RaceNext
  <2> QED
    BY <2>1 DEF RaceInv, Safe
<1>2. CASE UNCHANGED ledger
  BY <1>2 DEF lifeOf
<1>3. CASE Working /\ DoneGood
  BY <1>1, <1>3, ApplyPasses DEF Contract!Next
<1>4. CASE Working /\ DoneReorged
  BY <1>1, <1>4, RevertPasses DEF Contract!Next
<1>5. UNCHANGED ledger \/ (Working /\ (DoneGood \/ DoneReorged))
  BY RaceSteps
     DEF ChainMoves, Wait, CallPoll, StepPoll, EmitResult, EmitNil, ReceiveResult, Handle,
         EngineStep, SeeReorgedBlock, SeeGoodBlock, Record, RecordLastGood, Sync, SyncsEmitter,
         engineVars, vars
<1> QED
  BY <1>2, <1>3, <1>4, <1>5

\* Emitter, poller and engine together keep the contract of ServiceEngine, also when the
\* chain changes in the middle of a poll: a block is applied at most once, and reverted at
\* most once and only after that.
THEOREM Refinement ==
    ASSUME Setting
    PROVE  Spec => ImplementsContract
<1>1. Init => Contract!Init
  BY DEF Init, EngineInit, Nothing, lifeOf, Contract!Init
<1>2. RaceInv /\ Faultless /\ [Next]_vars => [Contract!Next]_([h \in AllBlocks |-> lifeOf(h)])
  BY StepsPass
<1> QED
  BY <1>1, <1>2, RaceInvariance, PTL DEF Spec, ImplementsContract, Contract!Spec

=============================================================================
