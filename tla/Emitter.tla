------------------------------- MODULE Emitter -------------------------------
(***************************************************************************)
(* The emitter (internal/emitter): an endless loop that reads the block    *)
(* recorded in the StateDataGateway and the height of the chain, computes  *)
(* a range, calls Poller.Poll on it, emits the result to the engine and    *)
(* waits for the engine to finish with it.                                 *)
(*                                                                         *)
(* The actions take what the emitter learns from others as parameters: the *)
(* height of the chain, and which kind of answer Poll gave.  EmitterSystem *)
(* closes them with an arbitrary environment, SuperWatcher with the real   *)
(* chain, poller and engine.                                               *)
(***************************************************************************)
EXTENDS Config, BlockNumbers

VARIABLES
    epc,        \* where the emitter is in loopEmit
    status,     \* emitterStatus, without the fields that are only logged
    call        \* FromBlock and ToBlock of newStatus, the arguments of Poll

emitterVars == <<epc, status, call>>

\* What Loop hands to loopEmit: a status whose isReorging and retriesCount are
\* still zero, because loopEmit replaces its own pointer and never this one.
\* loopEmit sets GoBackFirstStart itself.
NewStatus == [from |-> 0, to |-> 0, goBack |-> TRUE,
              isReorging |-> FALSE, retries |-> 0]

EmitterInit ==
    /\ epc = "compute"
    /\ status = NewStatus
    /\ call = [from |-> 0, to |-> 0]

-----------------------------------------------------------------------------
(* computeFromBlockToBlock *)

lastRecordedBlock ==
    IF GetLastRecordedBlock = NoRecord THEN StartBlock ELSE GetLastRecordedBlock

\* A host that never ran has nothing to go back to.
goBackFirstStart == status.goBack /\ GetLastRecordedBlock # NoRecord

\* Mutant of maxRetriesReached: the check is forgotten.
RetriesUnlimited == FALSE

maxRetriesReached ==
    /\ ~goBackFirstStart
    /\ status.isReorging
    /\ status.retries > MaxGoBackRetries

computeFromBlockToBlock(currentBlock) ==
    IF goBackFirstStart
    THEN fromBlockToBlockGoBackFirstRun(StartBlock, lastRecordedBlock, FilterRange, status)
    ELSE IF status.isReorging
    THEN fromBlockToBlockIsReorging(StartBlock, currentBlock, FilterRange, status)
    ELSE fromBlockToBlockNormal(StartBlock, currentBlock, lastRecordedBlock, FilterRange)

\* Nothing new on the chain: loopEmit sleeps and tries again.
SkipNoNewBlock(currentBlock) ==
    /\ epc = "compute"
    /\ lastRecordedBlock = currentBlock
    /\ ~goBackFirstStart
    /\ status' = [status EXCEPT !.goBack = FALSE]
    /\ UNCHANGED <<epc, call>>

\* A range is computed, clipped to StartBlock, and handed to Poll.
ComputeRange(currentBlock) ==
    LET range == computeFromBlockToBlock(currentBlock)
    IN  /\ epc = "compute"
        /\ lastRecordedBlock # currentBlock \/ goBackFirstStart
        /\ ~maxRetriesReached
        /\ status' = [status EXCEPT !.goBack = FALSE,
                                    !.from = range.from, !.to = range.to]
        /\ call' = [from |-> IF range.from < StartBlock
                             THEN StartBlock ELSE range.from,
                    to   |-> range.to]
        /\ epc' = "poll"

\* ErrMaxRetriesReached: loopEmit returns it.
GiveUpReorg(currentBlock) ==
    /\ epc = "compute"
    /\ lastRecordedBlock # currentBlock
    /\ maxRetriesReached
    /\ epc' = "emitError"
    /\ UNCHANGED <<status, call>>

\* The gateway or the node fails: loopEmit returns the error.
ComputeFails ==
    /\ epc = "compute"
    /\ epc' = "emitError"
    /\ UNCHANGED <<status, call>>

-----------------------------------------------------------------------------
(* What loopEmit does with what Poll returned *)

updateStatus(isReorging) ==
    status' = [from |-> call.from, to |-> call.to, goBack |-> FALSE,
               isReorging |-> isReorging,
               retries |-> IF isReorging THEN status.retries + 1 ELSE 0]

\* No error: the status is updated after the engine has synced.
PollGood ==
    /\ epc = "poll"
    /\ epc' = "emit"
    /\ UNCHANGED <<status, call>>

\* ErrChainIsReorging with a result: the result is still emitted.
PollReorging(doReorg) ==
    /\ epc = "poll"
    /\ epc' = "emitReorging"
    /\ IF doReorg THEN updateStatus(TRUE) ELSE UNCHANGED status
    /\ UNCHANGED call

\* ErrChainIsReorging without a result: emitFilterResult(nil) panics.
PollNilResult ==
    /\ epc = "poll"
    /\ epc' = "panicked"
    /\ UNCHANGED <<status, call>>

\* Any other error: loopEmit returns it.
PollFails ==
    /\ epc = "poll"
    /\ epc' = "emitError"
    /\ UNCHANGED <<status, call>>

\* SyncsEngine returns.
Synced ==
    /\ epc \in {"emit", "emitReorging"}
    /\ IF epc = "emit" THEN updateStatus(FALSE) ELSE UNCHANGED status
    /\ epc' = "compute"
    /\ UNCHANGED call

\* The service has taken the error and wants to go on; Loop calls loopEmit again.
EmitError ==
    /\ epc = "emitError"
    /\ epc' = "compute"
    /\ status' = NewStatus
    /\ UNCHANGED call

\* The process dies, wherever it is, and is started again.
EmitterRestart ==
    /\ epc' = "compute"
    /\ status' = NewStatus
    /\ call' = [from |-> 0, to |-> 0]

=============================================================================
