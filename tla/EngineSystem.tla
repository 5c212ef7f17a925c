---------------------------- MODULE EngineSystem ----------------------------
(***************************************************************************)
(* The engine closed with a source of results.  Of the results the engine  *)
(* relies on three things the poller and the emitter provide: a hash       *)
(* belongs to one height, a block reported as reorged was reported as good *)
(* before, and no block comes back from at or below the height up to which *)
(* the engine has already forgotten its metadata.                          *)
(***************************************************************************)
EXTENDS Engine

CONSTANTS
    Hashes,         \* the block hashes of all forks
    NumberOf,       \* hash -> height
    LastGoods,      \* the values LastGoodBlock may take
    MaxResults      \* bound: how many results are delivered

ASSUME EngineSystemAssumption ==
    /\ NumberOf \in [Hashes -> Nat]
    /\ \A h \in Hashes : NumberOf[h] < Half
    /\ LastGoods \subseteq Nat
    /\ \A n \in LastGoods : n < Half
    /\ FilterRange * MaxGoBackRetries < Half
    /\ MaxResults \in Nat

VARIABLES
    results,    \* results delivered so far
    goods,      \* history: the hashes reported good
    forgotten   \* history: metadata up to this height have been cleared

vars == <<gateway, npc, result, todo, batch, meta, ledger, results, goods, forgotten>>

NoResult == [lastGood |-> 0, good |-> Nothing, reorged |-> Nothing]

Init ==
    /\ GatewayInit
    /\ EngineInit(NoResult)
    /\ results = 0
    /\ goods = {}
    /\ forgotten = -1

-----------------------------------------------------------------------------

\* Sets of blocks of which a result may consist: one hash per height, and none
\* from the forgotten heights.
Reportable(S) ==
    /\ \A g, h \in S : NumberOf[g] = NumberOf[h] => g = h
    /\ \A h \in S : NumberOf[h] > forgotten

\* The blocks as a result holds them.
ByNumber(S) ==
    [n \in { NumberOf[h] : h \in S } |->
        [hash |-> CHOOSE h \in S : NumberOf[h] = n, logs |-> {}]]

\* The emitter emits a result.
Deliver ==
    /\ npc = "receive"
    /\ results < MaxResults
    /\ \E good \in { S \in SUBSET Hashes : Reportable(S) },
          reorged \in { S \in SUBSET goods : Reportable(S) },
          lastGood \in LastGoods :
         /\ ReceiveResult([lastGood |-> lastGood, good |-> ByNumber(good),
                           reorged |-> ByNumber(reorged)])
         /\ goods' = goods \cup good
    /\ results' = results + 1
    /\ UNCHANGED <<gateway, forgotten>>

Handle ==
    /\ EngineStep
    /\ IF npc = "seeGood" /\ npc' = "record"
       THEN forgotten' = Max({forgotten,
                              result.lastGood - FilterRange * MaxGoBackRetries})
       ELSE UNCHANGED forgotten
    /\ UNCHANGED <<gateway, results, goods>>

Fail ==
    /\ HandlerFails
    /\ UNCHANGED <<gateway, results, goods, forgotten>>

Record ==
    /\ RecordLastGood
    /\ UNCHANGED <<results, goods, forgotten>>

Sync ==
    /\ SyncsEmitter(NoResult)
    /\ UNCHANGED <<gateway, results, goods, forgotten>>

Next == Deliver \/ Handle \/ Fail \/ Record \/ Sync

Spec == Init /\ [][Next]_vars

-----------------------------------------------------------------------------
(* Properties *)

\* The metadata tracker maps hashes to a block state and the block's height.
TypeOK ==
    /\ npc \in {"receive", "seeReorged", "seeGood", "record", "sync", "stopped", "panicked"}
    /\ DOMAIN meta \subseteq Hashes
    /\ \A h \in DOMAIN meta : meta[h] \in blockMetadata
    /\ DOMAIN ledger \subseteq Hashes
    /\ GatewayTypeOK

\* GetBlockMetadata never panics: whatever is reported as reorged still has the
\* metadata of the time it was good, in spite of ClearUntil.
NoPanic == npc # "panicked"

Contract == INSTANCE ServiceContract WITH life <- [h \in Hashes |-> lifeOf(h)]

\* The service sees every block hash at most once, and is told to revert only
\* what it was given and only once, however often the overlapping ranges of the
\* emitter repeat the block (internal/engine/STATES.md).
ImplementsContract == Contract!Spec

=============================================================================
