------------------------------- MODULE Config -------------------------------
(***************************************************************************)
(* superwatcher.Config, as far as it steers behaviour, and the             *)
(* StateDataGateway that the emitter reads and the engine writes: one      *)
(* block number that outlives the process.                                 *)
(***************************************************************************)
EXTENDS Integers

CONSTANTS
    StartBlock,         \* the lowest height the emitter considers
    FilterRange,        \* how many new blocks one poll covers
    MaxGoBackRetries,   \* how often the emitter goes back during a reorg
    NoRecord            \* GetLastRecordedBlock answers ErrRecordNotFound

ASSUME ConfigAssumption ==
    /\ StartBlock \in Nat
    /\ FilterRange \in Nat \ {0}
    /\ MaxGoBackRetries \in Nat
    /\ NoRecord \notin Nat

VARIABLE gateway        \* lastRecordedBlock as persisted, or NoRecord

GatewayTypeOK == gateway \in Nat \cup {NoRecord}

GatewayInit == gateway = NoRecord

\* A mock gateway in memory, which has a block recorded if ok
NewDataGatewayMem(lastRecordedBlock, ok) ==
    gateway = IF ok THEN lastRecordedBlock ELSE NoRecord

GetLastRecordedBlock == gateway

SetLastRecordedBlock(n) == gateway' = n

=============================================================================
