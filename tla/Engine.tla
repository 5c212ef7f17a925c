------------------------------- MODULE Engine -------------------------------
(***************************************************************************)
(* The managed engine (internal/engine): handleResults passes the blocks   *)
(* of each PollerResult through a state machine per block hash, hands the  *)
(* ones it lets through to the service, and records the last good block.   *)
(*                                                                         *)
(* The service (ServiceEngine) is injected by the user.  Of it the model   *)
(* keeps what it was told: how often each hash was handed to               *)
(* HandleGoodBlocks and to HandleReorgedBlocks, and with which logs.       *)
(***************************************************************************)
EXTENDS Config, BlockNumbers, FiniteSetsExt

VARIABLES
    npc,        \* where handleResults is
    result,     \* the PollerResult being handled
    todo,       \* the blocks of the current loop still to be visited
    batch,      \* the blocks collected for the service
    meta,       \* metadataTracker: hash -> [state, number]
    ledger      \* the service: hash -> [good, bad, logs]

engineVars == <<npc, result, todo, batch, meta, ledger>>

Nothing == [h \in {} |-> 0]

newMetadataTracker == Nothing

EngineInit(noResult) ==
    /\ npc = "receive"
    /\ result = noResult
    /\ todo = {}
    /\ batch = {}
    /\ meta = newMetadataTracker
    /\ ledger = Nothing

-----------------------------------------------------------------------------
(* The state machine of a block *)

BlockStates == {"Null", "Seen", "Handled", "Reorged", "HandledReorg", "Invalid"}

\* The hash is the key it is tracked under; artifacts are left out.
blockMetadata == [state : BlockStates, number : Nat]

\* Mutants of Fire: a handled block is seen anew; its reorg is ignored.
FireSeesAgain(state, event) ==
    CASE state \in {"Null", "Handled"} /\ event = "SeeBlock" -> "Seen"
      [] state = "Seen" /\ event = "Handle" -> "Handled"
      [] OTHER -> "Invalid"

FireIgnoresReorg(state, event) ==
    CASE state = "Null" /\ event = "SeeBlock" -> "Seen"
      [] state = "Seen" /\ event = "Handle"   -> "Handled"
      [] state = "Handled" -> "Handled"
      [] OTHER -> "Invalid"

\* watcherEngineStateMachine: every other pair of state and event is Invalid.
Fire(state, event) ==
    CASE state = "Null"    /\ event = "SeeBlock"    -> "Seen"
      [] state = "Seen"    /\ event = "Handle"      -> "Handled"
      [] state = "Handled" /\ event = "SeeBlock"    -> "Handled"
      [] state = "Handled" /\ event = "SeeReorg"    -> "Reorged"
      [] state = "Reorged" /\ event = "HandleReorg" -> "HandledReorg"
      [] OTHER -> "Invalid"

-----------------------------------------------------------------------------
(* metadataTracker, a sorted set keyed by hash and scored by block number *)

\* GetBlockMetadata of a block that is not tracked: a fresh, unstored one
GetBlockMetadata(hash, number) ==
    IF hash \in DOMAIN meta THEN meta[hash] ELSE [state |-> "Null", number |-> number]

\* f with x mapped to y
Put(f, x, y) == [z \in DOMAIN f \cup {x} |-> IF z = x THEN y ELSE f[z]]

\* The metadata are pointers: firing an event changes what the tracker holds.
FireAll(blocks, event) ==
    LET hashes == { blocks[n].hash : n \in batch }
    IN  [h \in DOMAIN meta |->
            IF h \in hashes THEN [meta[h] EXCEPT !.state = Fire(@, event)] ELSE meta[h]]

\* Mutant of ClearUntil: the wrapped-around number is compared as it is.
ClearUnsigned(m, blockNumber) ==
    [h \in { g \in DOMAIN m : m[g].number > blockNumber } |-> m[h]]

ClearUntil(m, blockNumber) ==
    [h \in { g \in DOMAIN m : m[g].number > Score(blockNumber) } |-> m[h]]

-----------------------------------------------------------------------------
(* The service *)

\* HandleGoodBlocks succeeds
HandleGoodBlocks ==
    LET hashes == { result.good[n].hash : n \in batch }
        logsOf(h) == UNION { result.good[n].logs : n \in { m \in batch : result.good[m].hash = h } }
    IN  ledger' = [h \in DOMAIN ledger \cup hashes |->
            IF h \notin hashes THEN ledger[h]
            ELSE IF h \in DOMAIN ledger
                 THEN [ledger[h] EXCEPT !.good = @ + 1, !.logs = @ \cup logsOf(h)]
                 ELSE [good |-> 1, bad |-> 0, logs |-> logsOf(h)]]

\* HandleReorgedBlocks succeeds
HandleReorgedBlocks ==
    LET hashes == { result.reorged[n].hash : n \in batch }
    IN  ledger' = [h \in DOMAIN ledger \cup hashes |->
            IF h \notin hashes THEN ledger[h]
            ELSE IF h \in DOMAIN ledger THEN [ledger[h] EXCEPT !.bad = @ + 1]
                 ELSE [good |-> 0, bad |-> 1, logs |-> {}]]

\* What the service was told of a block, as the life of ServiceContract; a block
\* handed over twice, or reverted without having been handed over, is "broken".
lifeOf(h) ==
    IF h \notin DOMAIN ledger THEN "new"
    ELSE IF ledger[h].good = 1 /\ ledger[h].bad = 0 THEN "applied"
    ELSE IF ledger[h].good = 1 /\ ledger[h].bad = 1 THEN "reverted"
    ELSE "broken"

-----------------------------------------------------------------------------
(* handleResults *)

\* WatcherResult: the engine takes a result from the channel.
ReceiveResult(r) ==
    /\ npc = "receive"
    /\ npc' = "seeReorged"
    /\ result' = r
    /\ todo' = DOMAIN r.reorged
    /\ batch' = {}
    /\ UNCHANGED <<meta, ledger>>

\* The next reorged block.  Only one that was handled goes to the service; a
\* block without metadata is a panic.
SeeReorgedBlock ==
    /\ npc = "seeReorged"
    /\ todo # {}
    /\ LET n    == Min(todo)
           hash == result.reorged[n].hash
           new  == Fire(GetBlockMetadata(hash, n).state, "SeeReorg")
       IN  IF hash \notin DOMAIN meta
           THEN npc' = "panicked" /\ UNCHANGED <<todo, batch, meta>>
           ELSE /\ meta' = [meta EXCEPT ![hash].state = new]
                /\ batch' = IF new = "Reorged" THEN batch \cup {n} ELSE batch
                /\ todo' = todo \ {n}
                /\ UNCHANGED npc
    /\ UNCHANGED <<result, ledger>>

\* All are seen: call the service if there is something to revert, then update
\* the metadata and go on to the good blocks.
DoneReorged ==
    /\ npc = "seeReorged"
    /\ todo = {}
    /\ IF batch = {} THEN UNCHANGED ledger ELSE HandleReorgedBlocks
    /\ meta' = FireAll(result.reorged, "HandleReorg")
    /\ npc' = "seeGood"
    /\ todo' = DOMAIN result.good
    /\ batch' = {}
    /\ UNCHANGED result

\* The next good block.  Its new state is stored, and only a block that was
\* never seen goes to the service.
SeeGoodBlock ==
    /\ npc = "seeGood"
    /\ todo # {}
    /\ LET n    == Min(todo)
           hash == result.good[n].hash
           old  == GetBlockMetadata(hash, n)
           new  == Fire(old.state, "SeeBlock")
       IN  /\ meta' = Put(meta, hash, [old EXCEPT !.state = new])
           /\ batch' = IF new = "Seen" THEN batch \cup {n} ELSE batch
           /\ todo' = todo \ {n}
    /\ UNCHANGED <<npc, result, ledger>>

DoneGood ==
    /\ npc = "seeGood"
    /\ todo = {}
    /\ IF batch = {} THEN UNCHANGED ledger ELSE HandleGoodBlocks
    /\ meta' = ClearUntil(FireAll(result.good, "Handle"),
                          Sub64(result.lastGood, FilterRange * MaxGoBackRetries))
    /\ npc' = "record"
    /\ batch' = {}
    /\ UNCHANGED <<result, todo>>

\* Mutant of RecordLastGood: off by one.
RecordTooLow ==
    /\ npc = "record"
    /\ SetLastRecordedBlock(result.lastGood - 1)
    /\ npc' = "sync"
    /\ UNCHANGED <<result, todo, batch, meta, ledger>>

\* SetLastRecordedBlock succeeds; the engine is about to sync.
RecordLastGood ==
    /\ npc = "record"
    /\ SetLastRecordedBlock(result.lastGood)
    /\ npc' = "sync"
    /\ UNCHANGED <<result, todo, batch, meta, ledger>>

\* SyncsEmitter: the emitter takes the signal, and the engine the next result.
SyncsEmitter(noResult) ==
    /\ npc = "sync"
    /\ npc' = "receive"
    /\ result' = noResult
    /\ UNCHANGED <<todo, batch, meta, ledger>>

\* The service or the gateway returns an error: handleResults returns, and the
\* engine is gone.  A failing service call may have done its work or not.
HandlerFails ==
    /\ \/ npc = "seeReorged" /\ todo = {} /\ batch # {}
          /\ (HandleReorgedBlocks \/ UNCHANGED ledger)
       \/ npc = "seeGood" /\ todo = {} /\ batch # {}
          /\ (HandleGoodBlocks \/ UNCHANGED ledger)
       \/ npc = "record" /\ UNCHANGED ledger
    /\ npc' = "stopped"
    /\ UNCHANGED <<result, todo, batch, meta>>

\* The process dies: the metadata are lost, the service keeps what it did.
EngineRestart(noResult) ==
    /\ npc' = "receive"
    /\ result' = noResult
    /\ todo' = {}
    /\ batch' = {}
    /\ meta' = newMetadataTracker
    /\ UNCHANGED ledger

EngineStep ==
    \/ SeeReorgedBlock \/ DoneReorged \/ SeeGoodBlock \/ DoneGood

=============================================================================
