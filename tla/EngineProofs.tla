---------------------------- MODULE EngineProofs ----------------------------
(***************************************************************************)
(* Proofs about EngineSystem, for every set of block hashes, every         *)
(* configuration and any number of results and failures: type correctness, *)
(* NoPanic, and the refinement of ServiceContract.                         *)
(***************************************************************************)
EXTENDS EngineSystem, NumberProofs

-----------------------------------------------------------------------------
(* The inductive invariant *)

\* A map of blocks, as a result holds them: each under its own height.
BlocksOK(blocks) ==
    /\ DOMAIN blocks \subseteq Nat
    /\ \A n \in DOMAIN blocks :
         /\ blocks[n].hash \in Hashes
         /\ NumberOf[blocks[n].hash] = n
         /\ blocks[n].logs = {}

\* The result and the histories; the block last good is a machine word that counts.
ResultOK ==
    /\ goods \subseteq Hashes
    /\ forgotten \in Int
    /\ result.lastGood \in Nat
    /\ result.lastGood < Half
    /\ BlocksOK(result.good)
    /\ BlocksOK(result.reorged)

\* The blocks of the result being handled are above what has been forgotten.
ResultRecent ==
    /\ npc \in {"seeReorged", "seeGood"} => \A n \in DOMAIN result.good : n > forgotten
    /\ npc = "seeReorged" => \A n \in DOMAIN result.reorged : n > forgotten

\* The service was given every block it knows once, and reverted it at most once.
LedgerOK ==
    \A h \in DOMAIN ledger : ledger[h] \in [good : {1}, bad : {0, 1}, logs : {{}}]

\* The height of a tracked block is that of its hash, and no tracked block is Null.
MetaOK ==
    \A h \in DOMAIN meta : meta[h].number = NumberOf[h] /\ meta[h].state # "Null"

\* The blocks of a loop: those still to be visited, and those let through to the
\* service, which are in the state that let them through.
LoopOK(blocks, state) ==
    /\ todo \subseteq DOMAIN blocks
    /\ batch \subseteq DOMAIN blocks \ todo
    /\ \A n \in batch :
         blocks[n].hash \in DOMAIN meta /\ meta[blocks[n].hash].state = state

BatchOK ==
    /\ npc = "seeReorged" => LoopOK(result.reorged, "Reorged")
    /\ npc = "seeGood" => LoopOK(result.good, "Seen")

\* Outside of the loop that put it there, no block is Seen or Reorged.
InBatch ==
    npc # "stopped" =>
        \A h \in DOMAIN meta :
            /\ meta[h].state = "Seen" =>
                 npc = "seeGood" /\ NumberOf[h] \in batch /\ result.good[NumberOf[h]].hash = h
            /\ meta[h].state = "Reorged" =>
                 npc = "seeReorged" /\ NumberOf[h] \in batch
                 /\ result.reorged[NumberOf[h]].hash = h

\* The state of a block tells what the service was told of it.
StateTellsLife ==
    npc # "stopped" =>
        \A h \in DOMAIN meta :
            /\ meta[h].state = "Seen" => lifeOf(h) = "new"
            /\ meta[h].state \in {"Handled", "Reorged"} => lifeOf(h) = "applied"

\* A block the service was told of is tracked until its height is forgotten.
ToldIsTracked ==
    npc # "stopped" =>
        \A h \in DOMAIN ledger : NumberOf[h] > forgotten => h \in DOMAIN meta

\* So is a block that was reported good, once its result has been handled, and so
\* are the reorged blocks of the result at hand: GetBlockMetadata finds them.
GoodIsTracked ==
    /\ npc \in {"receive", "record", "sync"} =>
         \A h \in goods : NumberOf[h] > forgotten => h \in DOMAIN meta
    /\ npc \in {"seeReorged", "seeGood"} =>
         \A h \in goods : NumberOf[h] > forgotten =>
            \/ h \in DOMAIN meta
            \/ /\ NumberOf[h] \in DOMAIN result.good
               /\ result.good[NumberOf[h]].hash = h
               /\ npc = "seeGood" => NumberOf[h] \in todo
    /\ npc = "seeReorged" =>
         \A n \in DOMAIN result.reorged : result.reorged[n].hash \in DOMAIN meta

IInv ==
    /\ TypeOK
    /\ NoPanic
    /\ ResultOK
    /\ ResultRecent
    /\ LedgerOK
    /\ MetaOK
    /\ BatchOK
    /\ InBatch
    /\ StateTellsLife
    /\ ToldIsTracked
    /\ GoodIsTracked

-----------------------------------------------------------------------------
(* Operators *)

\* The blocks of the current loop that are let through to the service.
BatchHashes(blocks) == { blocks[n].hash : n \in batch }

\* watcherEngineStateMachine yields block states, and these transitions.
LEMMA FireStates ==
    /\ \A state \in BlockStates : \A event : Fire(state, event) \in BlockStates \ {"Null"}
    /\ Fire("Null", "SeeBlock") = "Seen"
    /\ Fire("Seen", "Handle") = "Handled"
    /\ Fire("Reorged", "HandleReorg") = "HandledReorg"
    /\ \A state \in BlockStates :
         /\ Fire(state, "SeeBlock") # "Reorged"
         /\ Fire(state, "SeeBlock") = "Seen" => state = "Null"
         /\ Fire(state, "SeeBlock") = "Handled" => state = "Handled"
         /\ Fire(state, "SeeReorg") \notin {"Seen", "Handled"}
         /\ Fire(state, "SeeReorg") = "Reorged" => state = "Handled"
BY DEF Fire, BlockStates

\* The blocks of a set with one hash per height are found under their heights.
LEMMA ByNumberOK ==
    ASSUME NEW S \in SUBSET Hashes, Reportable(S)
    PROVE  /\ BlocksOK(ByNumber(S))
           /\ \A n \in DOMAIN ByNumber(S) : n > forgotten /\ ByNumber(S)[n].hash \in S
           /\ \A h \in S : /\ NumberOf[h] \in DOMAIN ByNumber(S)
                           /\ ByNumber(S)[NumberOf[h]].hash = h
<1> DEFINE B == ByNumber(S)
<1>1. DOMAIN B = { NumberOf[h] : h \in S }
  BY DEF ByNumber
<1>2. ASSUME NEW n \in DOMAIN B
      PROVE  /\ n \in Nat
             /\ n > forgotten
             /\ B[n].hash \in S
             /\ NumberOf[B[n].hash] = n
             /\ B[n].logs = {}
  <2>1. PICK h \in S : NumberOf[h] = n
    BY <1>1
  <2>2. B[n] = [hash |-> CHOOSE g \in S : NumberOf[g] = n, logs |-> {}]
    BY <1>1 DEF ByNumber
  <2> QED
    BY <2>1, <2>2, EngineSystemAssumption DEF Reportable
<1>3. ASSUME NEW h \in S
      PROVE  NumberOf[h] \in DOMAIN B /\ B[NumberOf[h]].hash = h
  <2>1. NumberOf[h] \in DOMAIN B
    BY <1>1
  <2> QED
    BY <2>1, <1>2 DEF Reportable
<1> QED
  BY <1>2, <1>3 DEF BlocksOK

\* An event is fired on the batch and on nothing else.
LEMMA FireAllOK ==
    ASSUME TypeOK, NEW blocks, NEW event
    PROVE  /\ DOMAIN FireAll(blocks, event) = DOMAIN meta
           /\ \A h \in DOMAIN meta :
                /\ FireAll(blocks, event)[h] \in blockMetadata
                /\ FireAll(blocks, event)[h].number = meta[h].number
                /\ FireAll(blocks, event)[h].state =
                     IF h \in BatchHashes(blocks) THEN Fire(meta[h].state, event)
                     ELSE meta[h].state
BY FireStates DEF FireAll, BatchHashes, TypeOK, blockMetadata

\* Of a service that was given blocks once, the ledger tells three lives apart.
LEMMA LifeOfLedger ==
    ASSUME LedgerOK, NEW h
    PROVE  /\ lifeOf(h) \in {"new", "applied", "reverted"}
           /\ lifeOf(h) = "new" <=> h \notin DOMAIN ledger
           /\ lifeOf(h) = "applied" <=> h \in DOMAIN ledger /\ ledger[h].bad = 0
BY DEF LedgerOK, lifeOf

-----------------------------------------------------------------------------
(* The service *)

\* HandleGoodBlocks is called with blocks the service has never been given.
LEMMA GoodHanded ==
    ASSUME IInv, npc = "seeGood", HandleGoodBlocks
    PROVE  /\ LedgerOK'
           /\ DOMAIN ledger' = DOMAIN ledger \cup BatchHashes(result.good)
           /\ \A h \in BatchHashes(result.good) : lifeOf(h) = "new" /\ lifeOf(h)' = "applied"
           /\ \A h : h \notin BatchHashes(result.good) => lifeOf(h)' = lifeOf(h)
<1> DEFINE hashes == BatchHashes(result.good)
           logsOf(h) == UNION { result.good[n].logs : n \in { m \in batch : result.good[m].hash = h } }
<1>1. \A h \in hashes : h \notin DOMAIN ledger
  <2> SUFFICES ASSUME NEW n \in batch
               PROVE  result.good[n].hash \notin DOMAIN ledger
    BY DEF BatchHashes
  <2>1. lifeOf(result.good[n].hash) = "new"
    BY DEF IInv, BatchOK, LoopOK, StateTellsLife
  <2> QED
    BY <2>1, LifeOfLedger DEF IInv
<1>2. \A h : logsOf(h) = {}
  <2>1. \A n \in batch : result.good[n].logs = {}
    BY DEF IInv, BatchOK, LoopOK, ResultOK, BlocksOK
  <2> QED
    BY <2>1
<1>3. /\ DOMAIN ledger' = DOMAIN ledger \cup hashes
      /\ \A h \in hashes : ledger'[h] = [good |-> 1, bad |-> 0, logs |-> logsOf(h)]
      /\ \A h \in DOMAIN ledger \ hashes : ledger'[h] = ledger[h]
  BY <1>1 DEF HandleGoodBlocks, BatchHashes
<1>4. LedgerOK'
  BY <1>2, <1>3 DEF IInv, LedgerOK
<1>5. \A h \in hashes : lifeOf(h) = "new" /\ lifeOf(h)' = "applied"
  BY <1>1, <1>3 DEF lifeOf
<1>6. \A h : h \notin hashes => lifeOf(h)' = lifeOf(h)
  BY <1>3 DEF lifeOf
<1> QED
  BY <1>3, <1>4, <1>5, <1>6

\* HandleReorgedBlocks is called with blocks that the service was given and has not
\* been told to revert.
LEMMA ReorgedHanded ==
    ASSUME IInv, npc = "seeReorged", HandleReorgedBlocks
    PROVE  /\ LedgerOK'
           /\ DOMAIN ledger' = DOMAIN ledger
           /\ \A h \in BatchHashes(result.reorged) :
                lifeOf(h) = "applied" /\ lifeOf(h)' = "reverted"
           /\ \A h : h \notin BatchHashes(result.reorged) => lifeOf(h)' = lifeOf(h)
<1> DEFINE hashes == BatchHashes(result.reorged)
<1>1. \A h \in hashes : lifeOf(h) = "applied"
  BY DEF IInv, BatchOK, LoopOK, StateTellsLife, BatchHashes
<1>2. \A h \in hashes : h \in DOMAIN ledger /\ ledger[h].bad = 0
  BY <1>1, LifeOfLedger DEF IInv
<1>3. /\ DOMAIN ledger' = DOMAIN ledger
      /\ \A h \in hashes : ledger'[h] = [ledger[h] EXCEPT !.bad = @ + 1]
      /\ \A h \in DOMAIN ledger \ hashes : ledger'[h] = ledger[h]
  BY <1>2 DEF HandleReorgedBlocks, BatchHashes
<1>4. \A h \in hashes : ledger'[h] = [good |-> 1, bad |-> 1, logs |-> {}]
  BY <1>2, <1>3 DEF IInv, LedgerOK
<1>5. LedgerOK'
  BY <1>3, <1>4 DEF IInv, LedgerOK
<1>6. \A h \in hashes : lifeOf(h)' = "reverted"
  BY <1>2, <1>3, <1>4 DEF lifeOf
<1>7. \A h : h \notin hashes => lifeOf(h)' = lifeOf(h)
  BY <1>3 DEF lifeOf
<1> QED
  BY <1>1, <1>3, <1>5, <1>6, <1>7

-----------------------------------------------------------------------------
(* Each action preserves the invariant. *)

\* At the start nothing was delivered, nothing told and nothing forgotten.
LEMMA InitIInv == Init => IInv
<1> SUFFICES ASSUME Init
             PROVE  IInv
  OBVIOUS
<1>1. /\ DOMAIN Nothing = {}
      /\ meta = Nothing /\ ledger = Nothing
      /\ result = [lastGood |-> 0, good |-> Nothing, reorged |-> Nothing]
      /\ npc = "receive" /\ goods = {} /\ forgotten = -1 /\ gateway = NoRecord
  BY DEF Init, EngineInit, GatewayInit, NoResult, Nothing, newMetadataTracker
<1>2. TypeOK /\ NoPanic
  BY <1>1 DEF TypeOK, NoPanic, GatewayTypeOK
<1>3. ResultOK
  BY <1>1, HalfAssumption DEF ResultOK, BlocksOK
<1> QED
  BY <1>1, <1>2, <1>3
  DEF IInv, ResultRecent, LedgerOK, MetaOK, BatchOK, InBatch, StateTellsLife,
      ToldIsTracked, GoodIsTracked

\* A result is received: its reorged blocks were good in an earlier one, which has
\* been handled, so that they are tracked.
LEMMA DeliverIInv == ASSUME IInv, Deliver PROVE IInv'
<1>1. PICK good \in SUBSET Hashes, reorged \in SUBSET goods, lastGood \in LastGoods :
        /\ Reportable(good)
        /\ Reportable(reorged)
        /\ ReceiveResult([lastGood |-> lastGood, good |-> ByNumber(good),
                          reorged |-> ByNumber(reorged)])
        /\ goods' = goods \cup good
  BY DEF Deliver
<1>2. /\ npc = "receive" /\ npc' = "seeReorged"
      /\ result' = [lastGood |-> lastGood, good |-> ByNumber(good),
                    reorged |-> ByNumber(reorged)]
      /\ todo' = DOMAIN ByNumber(reorged)
      /\ batch' = {}
      /\ UNCHANGED <<meta, ledger, gateway, forgotten>>
  BY <1>1 DEF Deliver, ReceiveResult
<1>3. reorged \in SUBSET Hashes
  BY DEF IInv, ResultOK
<1>4. TypeOK' /\ NoPanic'
  BY <1>2 DEF IInv, TypeOK, NoPanic, GatewayTypeOK
<1>5. ResultOK'
  BY <1>1, <1>2, <1>3, ByNumberOK, EngineSystemAssumption DEF IInv, ResultOK, BlocksOK
<1>6. ResultRecent'
  BY <1>1, <1>2, <1>3, ByNumberOK DEF ResultRecent
<1>7. LedgerOK' /\ MetaOK' /\ ToldIsTracked'
  BY <1>2 DEF IInv, LedgerOK, MetaOK, ToldIsTracked
<1>8. BatchOK'
  BY <1>2 DEF BatchOK, LoopOK
<1>9. InBatch' /\ StateTellsLife'
  BY <1>2 DEF IInv, InBatch, StateTellsLife, lifeOf
<1>10. GoodIsTracked'
  <2>1. \A n \in DOMAIN ByNumber(reorged) : ByNumber(reorged)[n].hash \in DOMAIN meta
    <3> SUFFICES ASSUME NEW n \in DOMAIN ByNumber(reorged)
                 PROVE  ByNumber(reorged)[n].hash \in DOMAIN meta
      OBVIOUS
    <3>1. /\ ByNumber(reorged)[n].hash \in reorged
          /\ n > forgotten
          /\ NumberOf[ByNumber(reorged)[n].hash] = n
      BY <1>1, <1>3, ByNumberOK DEF BlocksOK
    <3> QED
      BY <3>1, <1>2 DEF IInv, GoodIsTracked
  <2>2. \A h \in good : /\ NumberOf[h] \in DOMAIN ByNumber(good)
                        /\ ByNumber(good)[NumberOf[h]].hash = h
    BY <1>1, ByNumberOK
  <2> QED
    BY <1>1, <1>2, <2>1, <2>2 DEF IInv, GoodIsTracked
<1> QED
  BY <1>4, <1>5, <1>6, <1>7, <1>8, <1>9, <1>10 DEF IInv

\* A reorged block is tracked, under a height that no other block of the loop has,
\* and is let through only when the service was given it.
LEMMA SeeReorgedIInv ==
    ASSUME IInv, SeeReorgedBlock, UNCHANGED <<gateway, goods, forgotten>>
    PROVE  IInv'
<1> DEFINE n    == Min(todo)
           hash == result.reorged[n].hash
           new  == Fire(meta[hash].state, "SeeReorg")
<1>1. npc = "seeReorged" /\ todo # {} /\ todo \subseteq DOMAIN result.reorged
  BY DEF IInv, SeeReorgedBlock, BatchOK, LoopOK
<1>2. n \in todo
  BY <1>1, MinOfNaturals DEF IInv, ResultOK, BlocksOK
<1>3. hash \in Hashes /\ NumberOf[hash] = n /\ hash \in DOMAIN meta
  BY <1>1, <1>2 DEF IInv, ResultOK, BlocksOK, GoodIsTracked
<1>4. /\ meta' = [meta EXCEPT ![hash].state = new]
      /\ batch' = IF new = "Reorged" THEN batch \cup {n} ELSE batch
      /\ todo' = todo \ {n}
      /\ UNCHANGED <<npc, result, ledger>>
  BY <1>3 DEF SeeReorgedBlock, GetBlockMetadata
<1>5. meta[hash] \in blockMetadata /\ meta[hash].state \in BlockStates
  BY <1>3 DEF IInv, TypeOK, blockMetadata
<1>6. /\ DOMAIN meta' = DOMAIN meta
      /\ meta'[hash] \in blockMetadata
      /\ meta'[hash].state = new
      /\ meta'[hash].number = meta[hash].number
      /\ \A h \in DOMAIN meta \ {hash} : meta'[h] = meta[h]
  BY <1>3, <1>4, <1>5, FireStates DEF blockMetadata
<1>7. /\ new \notin {"Null", "Seen", "Handled"}
      /\ new = "Reorged" => meta[hash].state = "Handled"
  BY <1>5, FireStates
<1>8. TypeOK' /\ NoPanic'
  BY <1>4, <1>6 DEF IInv, TypeOK, NoPanic, GatewayTypeOK
<1>9. ResultOK' /\ ResultRecent' /\ LedgerOK'
  BY <1>4 DEF IInv, ResultOK, ResultRecent, LedgerOK, BlocksOK
<1>10. MetaOK'
  BY <1>3, <1>6, <1>7 DEF IInv, MetaOK
<1>11. BatchOK'
  <2>1. \A m \in batch : m \in Nat /\ m # n /\ result.reorged[m].hash # hash
    BY <1>1, <1>2, <1>3 DEF IInv, BatchOK, LoopOK, ResultOK, BlocksOK
  <2>2. \A m \in batch' : result.reorged[m].hash \in DOMAIN meta'
                          /\ meta'[result.reorged[m].hash].state = "Reorged"
    BY <1>1, <1>3, <1>4, <1>6, <2>1 DEF IInv, BatchOK, LoopOK
  <2> QED
    BY <1>1, <1>2, <1>4, <2>2 DEF IInv, BatchOK, LoopOK
<1>12. InBatch'
  BY <1>1, <1>3, <1>4, <1>6, <1>7 DEF IInv, InBatch
<1>13. StateTellsLife'
  <2>1. \A h : lifeOf(h)' = lifeOf(h)
    BY <1>4 DEF lifeOf
  <2> QED
    BY <1>1, <1>3, <1>4, <1>6, <1>7, <2>1 DEF IInv, StateTellsLife
<1>14. ToldIsTracked' /\ GoodIsTracked'
  BY <1>1, <1>4, <1>6 DEF IInv, ToldIsTracked, GoodIsTracked
<1> QED
  BY <1>8, <1>9, <1>10, <1>11, <1>12, <1>13, <1>14 DEF IInv

\* The service reverts the batch, and no block stays Reorged.
LEMMA DoneReorgedIInv ==
    ASSUME IInv, DoneReorged, UNCHANGED <<gateway, goods, forgotten>>
    PROVE  IInv'
<1> DEFINE hashes == BatchHashes(result.reorged)
<1>1. /\ npc = "seeReorged" /\ npc' = "seeGood"
      /\ meta' = FireAll(result.reorged, "HandleReorg")
      /\ todo' = DOMAIN result.good
      /\ batch' = {}
      /\ UNCHANGED result
  BY DEF DoneReorged
<1>2. /\ LedgerOK'
      /\ DOMAIN ledger' = DOMAIN ledger
      /\ \A h : h \notin hashes => lifeOf(h)' = lifeOf(h)
  <2>1. CASE batch = {}
    BY <2>1 DEF IInv, DoneReorged, LedgerOK, lifeOf
  <2>2. CASE batch # {}
    BY <1>1, <2>2, ReorgedHanded DEF DoneReorged
  <2> QED
    BY <2>1, <2>2
<1>3. \A h \in hashes : h \in DOMAIN meta /\ meta[h].state = "Reorged"
  BY <1>1 DEF IInv, BatchOK, LoopOK, BatchHashes
<1>4. /\ DOMAIN meta' = DOMAIN meta
      /\ \A h \in DOMAIN meta :
           /\ meta'[h] \in blockMetadata
           /\ meta'[h].number = meta[h].number
           /\ h \in hashes => meta'[h].state = "HandledReorg"
           /\ h \notin hashes => meta'[h].state = meta[h].state
  BY <1>1, <1>3, FireAllOK, FireStates DEF IInv
<1>5. TypeOK' /\ NoPanic'
  BY <1>1, <1>2, <1>4 DEF IInv, TypeOK, NoPanic, GatewayTypeOK
<1>6. ResultOK' /\ ResultRecent'
  BY <1>1 DEF IInv, ResultOK, ResultRecent, BlocksOK
<1>7. MetaOK'
  BY <1>3, <1>4 DEF IInv, MetaOK
<1>8. BatchOK'
  BY <1>1 DEF BatchOK, LoopOK
<1>9. \A h \in DOMAIN meta : meta'[h].state \notin {"Seen", "Reorged"}
  BY <1>1, <1>4 DEF IInv, InBatch, BatchHashes
<1>10. InBatch' /\ StateTellsLife'
  BY <1>1, <1>2, <1>4, <1>9 DEF IInv, InBatch, StateTellsLife
<1>11. ToldIsTracked' /\ GoodIsTracked'
  BY <1>1, <1>2, <1>4 DEF IInv, ToldIsTracked, GoodIsTracked, ResultOK
<1> QED
  BY <1>2, <1>5, <1>6, <1>7, <1>8, <1>10, <1>11 DEF IInv

\* A good block is tracked from now on.  One that was not tracked is new to the
\* service: its height has not been forgotten.
LEMMA SeeGoodIInv ==
    ASSUME IInv, SeeGoodBlock, UNCHANGED <<gateway, goods, forgotten>>
    PROVE  IInv'
<1> DEFINE n    == Min(todo)
           hash == result.good[n].hash
           old  == GetBlockMetadata(hash, n)
           new  == Fire(old.state, "SeeBlock")
<1>1. npc = "seeGood" /\ todo # {} /\ todo \subseteq DOMAIN result.good
  BY DEF IInv, SeeGoodBlock, BatchOK, LoopOK
<1>2. n \in todo
  BY <1>1, MinOfNaturals DEF IInv, ResultOK, BlocksOK
<1>3. n \in Nat /\ hash \in Hashes /\ NumberOf[hash] = n /\ n > forgotten
  BY <1>1, <1>2 DEF IInv, ResultOK, BlocksOK, ResultRecent
<1>4. /\ meta' = Put(meta, hash, [old EXCEPT !.state = new])
      /\ batch' = IF new = "Seen" THEN batch \cup {n} ELSE batch
      /\ todo' = todo \ {n}
      /\ UNCHANGED <<npc, result, ledger>>
  BY DEF SeeGoodBlock
<1>5. /\ old \in blockMetadata
      /\ old.state \in BlockStates
      /\ old.number = n
      /\ hash \in DOMAIN meta => old = meta[hash]
      /\ hash \notin DOMAIN meta => old.state = "Null"
  BY <1>3 DEF IInv, TypeOK, MetaOK, GetBlockMetadata, blockMetadata, BlockStates
<1>6. [old EXCEPT !.state = new] = [state |-> new, number |-> n]
  BY <1>5 DEF blockMetadata
<1>7. /\ DOMAIN meta' = DOMAIN meta \cup {hash}
      /\ meta'[hash] = [state |-> new, number |-> n]
      /\ \A h \in DOMAIN meta \ {hash} : meta'[h] = meta[h]
  BY <1>4, <1>6 DEF Put
<1>8. /\ new \in BlockStates \ {"Null", "Reorged"}
      /\ new = "Seen" => old.state = "Null"
      /\ new = "Handled" => old.state = "Handled"
  BY <1>5, FireStates
<1>9. new = "Seen" => hash \notin DOMAIN meta
  BY <1>5, <1>8 DEF IInv, MetaOK
<1>0. result.good[n].hash = hash
  OBVIOUS
<1> HIDE DEF n, hash, old, new
<1>10. TypeOK' /\ NoPanic'
  <2>1. meta'[hash] \in blockMetadata
    BY <1>3, <1>7, <1>8 DEF blockMetadata
  <2> QED
    BY <1>3, <1>4, <1>7, <2>1 DEF IInv, TypeOK, NoPanic, GatewayTypeOK
<1>11. ResultOK' /\ ResultRecent' /\ LedgerOK'
  BY <1>4 DEF IInv, ResultOK, ResultRecent, LedgerOK, BlocksOK
<1>12. MetaOK'
  BY <1>3, <1>7, <1>8 DEF IInv, MetaOK
<1>13. BatchOK'
  <2>1. \A m \in batch : m # n /\ result.good[m].hash # hash
    BY <1>1, <1>2, <1>3 DEF IInv, BatchOK, LoopOK, ResultOK, BlocksOK
  <2>2. \A m \in batch' : result.good[m].hash \in DOMAIN meta'
                          /\ meta'[result.good[m].hash].state = "Seen"
    <3> SUFFICES ASSUME NEW m \in batch'
                 PROVE  /\ result.good[m].hash \in DOMAIN meta'
                        /\ meta'[result.good[m].hash].state = "Seen"
      OBVIOUS
    <3>1. CASE m = n
      BY <1>0, <1>2, <1>4, <1>7, <2>1, <3>1
    <3>2. CASE m \in batch
      BY <1>1, <1>7, <2>1, <3>2 DEF IInv, BatchOK, LoopOK
    <3> QED
      BY <1>4, <3>1, <3>2
  <2> QED
    BY <1>1, <1>2, <1>4, <2>2 DEF IInv, BatchOK, LoopOK
<1>14. InBatch'
  <2> SUFFICES ASSUME NEW h \in DOMAIN meta'
               PROVE  /\ meta'[h].state # "Reorged"
                      /\ meta'[h].state = "Seen" =>
                           NumberOf[h] \in batch' /\ result.good[NumberOf[h]].hash = h
    BY <1>1, <1>4 DEF InBatch
  <2>1. CASE h = hash
    BY <1>0, <1>3, <1>4, <1>7, <1>8, <2>1
  <2>2. CASE h # hash
    BY <1>1, <1>4, <1>7, <2>2 DEF IInv, InBatch
  <2> QED
    BY <2>1, <2>2
<1>15. StateTellsLife'
  <2>1. \A h : lifeOf(h)' = lifeOf(h)
    BY <1>4 DEF lifeOf
  <2>2. new = "Seen" => lifeOf(hash) = "new"
    BY <1>1, <1>3, <1>9, LifeOfLedger DEF IInv, ToldIsTracked
  <2>3. new = "Handled" => lifeOf(hash) = "applied"
    BY <1>1, <1>5, <1>8 DEF IInv, StateTellsLife
  <2> QED
    BY <1>1, <1>4, <1>7, <1>8, <2>1, <2>2, <2>3 DEF IInv, StateTellsLife
<1>16. ToldIsTracked' /\ GoodIsTracked'
  <2>1. ToldIsTracked'
    BY <1>1, <1>4, <1>7 DEF IInv, ToldIsTracked
  <2>2. ASSUME NEW h \in goods, NumberOf[h] > forgotten, h \notin DOMAIN meta'
        PROVE  /\ NumberOf[h] \in DOMAIN result.good
               /\ result.good[NumberOf[h]].hash = h
               /\ NumberOf[h] \in todo'
    BY <1>0, <1>1, <1>4, <1>7, <2>2 DEF IInv, GoodIsTracked
  <2> QED
    BY <1>1, <1>4, <2>1, <2>2 DEF GoodIsTracked
<1> QED
  BY <1>10, <1>11, <1>12, <1>13, <1>14, <1>15, <1>16 DEF IInv

\* ClearUntil forgets what is at or below the score, also when the number it is
\* given has wrapped around.
LEMMA ClearUntilOK ==
    ASSUME IInv, NEW m
    PROVE  LET low == result.lastGood - FilterRange * MaxGoBackRetries
               new == ClearUntil(m, Sub64(result.lastGood, FilterRange * MaxGoBackRetries))
           IN  /\ low \in Int
               /\ DOMAIN new = { h \in DOMAIN m : m[h].number > low }
               /\ \A h \in DOMAIN new : new[h] = m[h]
<1>1. FilterRange * MaxGoBackRetries \in Nat
  BY ConfigAssumption
<1>2. Score(Sub64(result.lastGood, FilterRange * MaxGoBackRetries))
        = result.lastGood - FilterRange * MaxGoBackRetries
  BY <1>1, ScoreOfSub64, EngineSystemAssumption DEF IInv, ResultOK
<1> QED
  BY <1>1, <1>2 DEF ClearUntil, IInv, ResultOK

\* The service is given the batch; then the tracker forgets old heights, and only
\* those.
LEMMA DoneGoodIInv ==
    ASSUME IInv, DoneGood,
           forgotten' = Max({forgotten, result.lastGood - FilterRange * MaxGoBackRetries}),
           UNCHANGED <<gateway, goods>>
    PROVE  IInv'
<1> DEFINE hashes == BatchHashes(result.good)
           low    == result.lastGood - FilterRange * MaxGoBackRetries
           fired  == FireAll(result.good, "Handle")
<1>1. /\ npc = "seeGood" /\ npc' = "record"
      /\ todo = {}
      /\ meta' = ClearUntil(fired, Sub64(result.lastGood, FilterRange * MaxGoBackRetries))
      /\ batch' = {}
      /\ UNCHANGED result
  BY DEF DoneGood
<1>2. /\ LedgerOK'
      /\ DOMAIN ledger' = DOMAIN ledger \cup hashes
      /\ \A h \in hashes : lifeOf(h)' = "applied"
      /\ \A h : h \notin hashes => lifeOf(h)' = lifeOf(h)
  <2>1. CASE batch = {}
    BY <2>1 DEF IInv, DoneGood, LedgerOK, lifeOf, BatchHashes
  <2>2. CASE batch # {}
    BY <1>1, <2>2, GoodHanded DEF DoneGood
  <2> QED
    BY <2>1, <2>2
<1>3. \A h \in hashes : h \in DOMAIN meta /\ meta[h].state = "Seen"
  BY <1>1 DEF IInv, BatchOK, LoopOK, BatchHashes
<1>4. /\ DOMAIN fired = DOMAIN meta
      /\ \A h \in DOMAIN meta :
           /\ fired[h] \in blockMetadata
           /\ fired[h].number = NumberOf[h]
           /\ h \in hashes => fired[h].state = "Handled"
           /\ h \notin hashes => fired[h].state = meta[h].state
  BY <1>3, FireAllOK, FireStates DEF IInv, MetaOK
<1>5. /\ low \in Int
      /\ DOMAIN meta' = { h \in DOMAIN meta : NumberOf[h] > low }
      /\ \A h \in DOMAIN meta' : meta'[h] = fired[h]
  <2> HIDE DEF fired
  <2>1. /\ low \in Int
        /\ DOMAIN meta' = { h \in DOMAIN fired : fired[h].number > low }
        /\ \A h \in DOMAIN meta' : meta'[h] = fired[h]
    BY <1>1, ClearUntilOK
  <2>2. { h \in DOMAIN fired : fired[h].number > low }
          = { h \in DOMAIN meta : NumberOf[h] > low }
    BY <1>4
  <2> QED
    BY <2>1, <2>2
<1>6. forgotten' \in Int /\ forgotten <= forgotten' /\ low <= forgotten'
  BY <1>5, MaxOfTwo DEF IInv, ResultOK
<1>7. TypeOK' /\ NoPanic'
  <2>1. hashes \subseteq Hashes
    BY <1>3 DEF IInv, TypeOK
  <2> QED
    BY <1>1, <1>2, <1>4, <1>5, <2>1 DEF IInv, TypeOK, NoPanic, GatewayTypeOK
<1>8. ResultOK' /\ ResultRecent'
  BY <1>1, <1>6 DEF IInv, ResultOK, ResultRecent, BlocksOK
<1>9. MetaOK'
  BY <1>3, <1>4, <1>5 DEF IInv, MetaOK
<1>10. BatchOK'
  BY <1>1 DEF BatchOK
<1>11. \A h \in DOMAIN meta' : meta'[h].state \notin {"Seen", "Reorged"}
  BY <1>1, <1>4, <1>5 DEF IInv, InBatch, BatchHashes
<1>12. InBatch' /\ StateTellsLife'
  BY <1>1, <1>2, <1>4, <1>5, <1>11 DEF IInv, InBatch, StateTellsLife
<1>13. ToldIsTracked'
  <2> SUFFICES ASSUME NEW h \in DOMAIN ledger', NumberOf[h] > forgotten'
               PROVE  h \in DOMAIN meta'
    BY DEF ToldIsTracked
  <2>1. h \in Hashes /\ NumberOf[h] \in Nat
    BY <1>7, EngineSystemAssumption DEF TypeOK
  <2>2. NumberOf[h] > forgotten /\ NumberOf[h] > low
    BY <1>5, <1>6, <2>1 DEF IInv, ResultOK
  <2>3. h \in DOMAIN meta
    BY <1>1, <1>2, <1>3, <2>2 DEF IInv, ToldIsTracked
  <2> QED
    BY <1>5, <2>2, <2>3
<1>14. GoodIsTracked'
  <2> SUFFICES ASSUME NEW h \in goods, NumberOf[h] > forgotten'
               PROVE  h \in DOMAIN meta'
    BY <1>1 DEF GoodIsTracked
  <2>1. h \in Hashes /\ NumberOf[h] \in Nat
    BY EngineSystemAssumption DEF IInv, ResultOK
  <2>2. NumberOf[h] > forgotten /\ NumberOf[h] > low
    BY <1>5, <1>6, <2>1 DEF IInv, ResultOK
  <2>3. h \in DOMAIN meta
    BY <1>1, <2>2 DEF IInv, GoodIsTracked
  <2> QED
    BY <1>5, <2>2, <2>3
<1> QED
  BY <1>2, <1>7, <1>8, <1>9, <1>10, <1>12, <1>13, <1>14 DEF IInv

\* A handler fails: the engine is gone, and what the service has done fits its
\* contract.
LEMMA FailIInv == ASSUME IInv, Fail PROVE IInv'
<1>1. npc' = "stopped" /\ UNCHANGED <<gateway, result, todo, batch, meta, goods, forgotten>>
  BY DEF Fail, HandlerFails
<1>2. LedgerOK' /\ DOMAIN ledger' \subseteq Hashes
  <2>1. CASE UNCHANGED ledger
    BY <2>1 DEF IInv, LedgerOK, TypeOK
  <2>2. CASE npc = "seeReorged" /\ HandleReorgedBlocks
    BY <2>2, ReorgedHanded DEF IInv, TypeOK
  <2>3. CASE npc = "seeGood" /\ HandleGoodBlocks
    <3>1. BatchHashes(result.good) \subseteq Hashes
      BY <2>3 DEF IInv, BatchOK, LoopOK, BatchHashes, TypeOK
    <3> QED
      BY <2>3, <3>1, GoodHanded DEF IInv, TypeOK
  <2> QED
    BY <2>1, <2>2, <2>3 DEF Fail, HandlerFails
<1>3. TypeOK' /\ NoPanic'
  BY <1>1, <1>2 DEF IInv, TypeOK, NoPanic, GatewayTypeOK
<1>4. ResultOK'
  BY <1>1 DEF IInv, ResultOK, BlocksOK
<1> QED
  BY <1>1, <1>2, <1>3, <1>4
  DEF IInv, ResultRecent, MetaOK, BatchOK, InBatch, StateTellsLife, ToldIsTracked,
      GoodIsTracked

\* The last good block is recorded; the metadata are left alone.
LEMMA RecordIInv == ASSUME IInv, Record PROVE IInv'
<1>1. /\ npc = "record" /\ npc' = "sync" /\ gateway' = result.lastGood
      /\ UNCHANGED <<result, todo, batch, meta, ledger, goods, forgotten>>
  BY DEF Record, RecordLastGood, SetLastRecordedBlock
<1>2. TypeOK' /\ NoPanic'
  BY <1>1 DEF IInv, TypeOK, NoPanic, GatewayTypeOK, ResultOK
<1>3. ResultOK' /\ LedgerOK' /\ MetaOK'
  BY <1>1 DEF IInv, ResultOK, BlocksOK, LedgerOK, MetaOK
<1>4. InBatch' /\ StateTellsLife'
  BY <1>1 DEF IInv, InBatch, StateTellsLife, lifeOf
<1> QED
  BY <1>1, <1>2, <1>3, <1>4
  DEF IInv, ResultRecent, BatchOK, ToldIsTracked, GoodIsTracked

\* The emitter is told to go on, and the result is dropped.
LEMMA SyncIInv == ASSUME IInv, Sync PROVE IInv'
<1>1. /\ npc = "sync" /\ npc' = "receive" /\ DOMAIN Nothing = {}
      /\ result' = [lastGood |-> 0, good |-> Nothing, reorged |-> Nothing]
      /\ UNCHANGED <<gateway, todo, batch, meta, ledger, goods, forgotten>>
  BY DEF Sync, SyncsEmitter, NoResult, Nothing
<1>2. TypeOK' /\ NoPanic'
  BY <1>1 DEF IInv, TypeOK, NoPanic, GatewayTypeOK
<1>3. ResultOK' /\ LedgerOK' /\ MetaOK'
  BY <1>1, HalfAssumption DEF IInv, ResultOK, BlocksOK, LedgerOK, MetaOK
<1>4. InBatch' /\ StateTellsLife'
  BY <1>1 DEF IInv, InBatch, StateTellsLife, lifeOf
<1> QED
  BY <1>1, <1>2, <1>3, <1>4
  DEF IInv, ResultRecent, BatchOK, ToldIsTracked, GoodIsTracked

\* A step that changes nothing changes nothing.
LEMMA StutterIInv == ASSUME IInv, UNCHANGED vars PROVE IInv'
BY DEF vars, IInv, TypeOK, NoPanic, GatewayTypeOK, ResultOK, BlocksOK, ResultRecent,
       LedgerOK, MetaOK, BatchOK, LoopOK, InBatch, StateTellsLife, lifeOf,
       ToldIsTracked, GoodIsTracked

\* The tracker is cleared in the step that has handled the good blocks, and only there.
LEMMA HandleCases ==
    ASSUME Handle
    PROVE  \/ SeeReorgedBlock /\ UNCHANGED <<gateway, goods, forgotten>>
           \/ DoneReorged /\ UNCHANGED <<gateway, goods, forgotten>>
           \/ SeeGoodBlock /\ UNCHANGED <<gateway, goods, forgotten>>
           \/ /\ DoneGood
              /\ forgotten' = Max({forgotten,
                                   result.lastGood - FilterRange * MaxGoBackRetries})
              /\ UNCHANGED <<gateway, goods>>
<1>1. CASE SeeReorgedBlock
  BY <1>1 DEF Handle, SeeReorgedBlock
<1>2. CASE DoneReorged
  BY <1>2 DEF Handle, DoneReorged
<1>3. CASE SeeGoodBlock
  BY <1>3 DEF Handle, SeeGoodBlock
<1>4. CASE DoneGood
  BY <1>4 DEF Handle, DoneGood
<1> QED
  BY <1>1, <1>2, <1>3, <1>4 DEF Handle, EngineStep

-----------------------------------------------------------------------------
(* The theorems *)

\* The conjunction of the parts above is preserved by every step.
THEOREM Invariance == Spec => []IInv
<1>1. IInv /\ [Next]_vars => IInv'
  BY DeliverIInv, SeeReorgedIInv, DoneReorgedIInv, SeeGoodIInv, DoneGoodIInv, FailIInv,
     RecordIInv, SyncIInv, StutterIInv, HandleCases
  DEF Next
<1> QED
  BY <1>1, InitIInv, PTL DEF Spec

\* The metadata tracker only ever holds block states of known hashes.
THEOREM TypeCorrect == Spec => []TypeOK
<1>1. IInv => TypeOK
  BY DEF IInv
<1> QED
  BY <1>1, Invariance, PTL

\* GetBlockMetadata finds the metadata of every reorged block, in spite of ClearUntil
\* and of its wrapped-around argument.
THEOREM NeverPanics == Spec => []NoPanic
<1>1. IInv => NoPanic
  BY DEF IInv
<1> QED
  BY <1>1, Invariance, PTL

-----------------------------------------------------------------------------
(* The refinement *)

\* The blocks of the batch pass from one stage of their life to the next, together.
LEMMA BatchPasses ==
    ASSUME LedgerOK', NEW hashes, NEW from, NEW to,
           \A h \in hashes : lifeOf(h) = from /\ lifeOf(h)' = to,
           \A h : h \notin hashes => lifeOf(h)' = lifeOf(h)
    PROVE  Contract!Pass(from, to)
<1>1. \A h : lifeOf(h)' \in {"new", "applied", "reverted"}
  BY DEF LedgerOK, lifeOf
<1> QED
  BY <1>1 DEF Contract!Pass, Contract!Lives

\* The service is called with the batch, whether it then succeeds or fails.
LEMMA CallPasses ==
    ASSUME IInv
    PROVE  /\ npc = "seeGood" /\ HandleGoodBlocks => Contract!Apply
           /\ npc = "seeReorged" /\ HandleReorgedBlocks => Contract!Revert
<1>1. ASSUME npc = "seeGood", HandleGoodBlocks
      PROVE  Contract!Apply
  BY <1>1, GoodHanded, BatchPasses DEF Contract!Apply
<1>2. ASSUME npc = "seeReorged", HandleReorgedBlocks
      PROVE  Contract!Revert
  BY <1>2, ReorgedHanded, BatchPasses DEF Contract!Revert
<1> QED
  BY <1>1, <1>2

\* Every step of the engine is a step of the contract or leaves all lives alone.
LEMMA StepsPass ==
    ASSUME IInv, [Next]_vars
    PROVE  Contract!Next \/ UNCHANGED [h \in Hashes |-> lifeOf(h)]
<1>1. CASE UNCHANGED ledger
  BY <1>1 DEF lifeOf
<1>2. CASE npc = "seeGood" /\ HandleGoodBlocks
  BY <1>2, CallPasses DEF Contract!Next
<1>3. CASE npc = "seeReorged" /\ HandleReorgedBlocks
  BY <1>3, CallPasses DEF Contract!Next
<1> QED
  BY <1>1, <1>2, <1>3
  DEF Next, vars, Deliver, ReceiveResult, Handle, EngineStep, SeeReorgedBlock,
      DoneReorged, SeeGoodBlock, DoneGood, Fail, HandlerFails, Record, RecordLastGood,
      Sync, SyncsEmitter

\* The managed engine keeps the contract of ServiceEngine: each block hash is handed
\* to HandleGoodBlocks at most once, and to HandleReorgedBlocks at most once and only
\* after that, however often the overlapping ranges of the emitter repeat it.
THEOREM Refinement == Spec => ImplementsContract
<1>1. Init => Contract!Init
  BY DEF Init, EngineInit, Nothing, lifeOf, Contract!Init
<1>2. IInv /\ [Next]_vars => [Contract!Next]_([h \in Hashes |-> lifeOf(h)])
  BY StepsPass
<1> QED
  BY <1>1, <1>2, Invariance, PTL DEF Spec, ImplementsContract, Contract!Spec

=============================================================================
