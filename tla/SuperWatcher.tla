---------------------------- MODULE SuperWatcher ----------------------------
(***************************************************************************)
(* The whole pipeline: the emitter computes a range, its poller polls it   *)
(* from the chain, the engine handles the result and records the last good *)
(* block, and the two meet again at SyncsEngine.  The gateway and what the *)
(* service did survive a crash; the trackers and the emitter's status do   *)
(* not.                                                                    *)
(*                                                                         *)
(* Emitter and engine hand over on unbuffered channels, so at any time one *)
(* of them is waiting for the other.  The chain goes its own way.          *)
(***************************************************************************)
EXTENDS Emitter, Poller, Engine

CONSTANTS
    FirstRuns,      \* TRUE: nothing is recorded yet; FALSE: StartBlock is
    CalmPolls,      \* TRUE: the chain changes only between two polls
    MaxCrashes,     \* bound: how often the process dies
    MaxErrors       \* bound: how often a call to the node fails

ASSUME SuperWatcherAssumption ==
    /\ StartBlock # 0
    /\ FirstRuns \subseteq BOOLEAN
    /\ CalmPolls \in BOOLEAN
    /\ MaxCrashes \in Nat
    /\ MaxErrors \in Nat

VARIABLES
    crashes,    \* crashes so far
    errs,       \* failed calls so far
    calm        \* history: the chain has not changed since the last range was computed

vars == <<gateway, epc, status, call, chain, tallest, reorgs, abandoned,
          ppc, args, pollResults, headers, tracker, doReorg, policy, filter,
          lastRecorded, ret, npc, result, todo, batch, meta, ledger,
          crashes, errs, calm>>

\* The gateway the tests start with.  A new Redis is like that of a first run.
InitTestComponents(firstRun) == NewDataGatewayMem(StartBlock, ~firstRun)

Init ==
    /\ \E firstRun \in FirstRuns : InitTestComponents(firstRun)
    /\ EmitterInit
    /\ ChainInit
    /\ PollerInit(Addresses, {TRUE})
    /\ EngineInit(NoResult)
    /\ crashes = 0
    /\ errs = 0
    /\ calm = FALSE

-----------------------------------------------------------------------------

\* The next step of the emitter or of Poll asks the node.
ReadsChain == epc = "compute" \/ ppc \in {"fetch", "headers", "logs", "missing"}

\* A change of the chain between two steps that do not read it is the same as one
\* right before the next step that does.
ChainMoves ==
    /\ ReadsChain
    /\ CalmPolls => epc = "compute"
    /\ ChainStep
    /\ calm' = FALSE
    /\ UNCHANGED <<gateway, emitterVars, pollerVars, engineVars, crashes, errs>>

\* Nothing to poll: sleep, or give up on the reorg.
Wait ==
    /\ SkipNoNewBlock(BlockNumber) \/ GiveUpReorg(BlockNumber)
    /\ UNCHANGED <<gateway, chainVars, pollerVars, engineVars, crashes, errs, calm>>

\* computeFromBlockToBlock answers, and Poll is called.
CallPoll ==
    /\ ComputeRange(BlockNumber)
    /\ Poll(call'.from, call'.to)
    /\ calm' = TRUE
    /\ UNCHANGED <<gateway, chainVars, engineVars, crashes, errs>>

StepPoll ==
    /\ epc = "poll"
    /\ PollStep
    /\ UNCHANGED <<gateway, emitterVars, chainVars, engineVars, crashes, errs, calm>>

\* The gateway or the node fails while a range is computed, or the node in Poll.
CallFails ==
    /\ errs < MaxErrors
    /\ errs' = errs + 1
    /\ \/ ComputeFails /\ UNCHANGED pollerVars
       \/ FetchFails /\ UNCHANGED emitterVars
    /\ UNCHANGED <<gateway, chainVars, engineVars, crashes, calm>>

PollReturned == epc = "poll" /\ ppc = "idle"

\* emitFilterResult: the engine takes the result.
EmitResult ==
    /\ PollReturned
    /\ \/ ret.err = "none" /\ PollGood
       \/ ret.err = "fromBlockReorged" /\ PollReorging(doReorg)
    /\ ReceiveResult(ret.result)
    /\ UNCHANGED <<gateway, chainVars, pollerVars, crashes, errs, calm>>

\* errHashesDiffer is an ErrChainIsReorging without a result.
EmitNil ==
    /\ PollReturned
    /\ ret.err = "hashesDiffer"
    /\ PollNilResult
    /\ UNCHANGED <<gateway, chainVars, pollerVars, engineVars, crashes, errs, calm>>

\* ErrFetchError, ErrProcessReorg or a policy that is not implemented: loopEmit
\* returns.
ReturnPollError ==
    /\ PollReturned
    /\ ret.err \in {"fetchError", "bug", "notImplemented"}
    /\ PollFails
    /\ UNCHANGED <<gateway, chainVars, pollerVars, engineVars, crashes, errs, calm>>

\* The service's HandleEmitterError returns nil and the loop starts again.
ServiceTakesError ==
    /\ EmitError
    /\ UNCHANGED <<gateway, chainVars, pollerVars, engineVars, crashes, errs, calm>>

Handle ==
    /\ EngineStep
    /\ UNCHANGED <<gateway, emitterVars, chainVars, pollerVars, crashes, errs, calm>>

Record ==
    /\ RecordLastGood
    /\ UNCHANGED <<emitterVars, chainVars, pollerVars, crashes, errs, calm>>

\* SyncsEmitter and SyncsEngine meet.
Sync ==
    /\ SyncsEmitter(NoResult)
    /\ Synced
    /\ UNCHANGED <<gateway, chainVars, pollerVars, crashes, errs, calm>>

\* The process dies and is started again.
Crash ==
    /\ crashes < MaxCrashes
    /\ crashes' = crashes + 1
    /\ EmitterRestart
    /\ PollerRestart
    /\ EngineRestart(NoResult)
    /\ calm' = FALSE
    /\ UNCHANGED <<gateway, chainVars, errs>>

Next ==
    \/ ChainMoves \/ Wait \/ CallPoll \/ StepPoll \/ CallFails
    \/ EmitResult \/ EmitNil \/ ReturnPollError \/ ServiceTakesError
    \/ Handle \/ Record \/ Sync \/ Crash

Spec == Init /\ [][Next]_vars

\* Emitter, poller and engine are loops that never stop by themselves.
Fairness == WF_vars(Wait \/ CallPoll \/ StepPoll \/ EmitResult \/ ReturnPollError
                    \/ ServiceTakesError \/ Handle \/ Record \/ Sync)

FairSpec == Spec /\ Fairness

-----------------------------------------------------------------------------
(* Properties *)

\* Each part is in one of its own states.
TypeOK ==
    /\ GatewayTypeOK
    /\ epc \in {"compute", "poll", "emit", "emitReorging", "emitError", "panicked"}
    /\ ppc \in {"idle", "fetch", "headers", "logs", "missing"}
    /\ npc \in {"receive", "seeReorged", "seeGood", "record", "sync", "panicked"}
    /\ \A h \in DOMAIN meta : meta[h].state \in BlockStates

\* The blocks of height n that the service has applied and not reverted.
LiveAt(n) ==
    { h \in DOMAIN ledger : h.number = n /\ ledger[h].good > ledger[h].bad }

\* The service has applied the canonical block of height n, if it has logs, with
\* all of them, and the logs of no other block of that height.
MatchesAt(n) ==
    /\ \A h \in LiveAt(n) : h.logs # {} => Exists(n) /\ h = BlockAt(n)
    /\ Exists(n) /\ BlockAt(n).logs # {} =>
         BlockAt(n) \in LiveAt(n) /\ ledger[BlockAt(n)].logs = BlockAt(n).logs

\* The emitter is about to look for new blocks, and the chain is as it was when
\* it did so last.
AtRest == epc = "compute" /\ npc = "receive" /\ calm

\* What superwatcher is for: whenever emitter and engine are done with a result
\* and the chain has not moved on, the service's view up to the recorded block is
\* the canonical chain.
ServiceMatchesChain ==
    (AtRest /\ gateway # NoRecord) => \A n \in StartBlock .. gateway : MatchesAt(n)

\* The same of the blocks that no ordinary poll will look at again, once the recorded
\* block is not above the head.  A reorg "that might have happened while the service
\* was down" (internal/emitter/FILTERING.md) is caught, because the emitter goes back
\* when it starts.
SettledMatchesChain ==
    (AtRest /\ gateway # NoRecord /\ gateway <= BlockNumber) =>
        \A n \in StartBlock .. gateway - FilterRange : MatchesAt(n)

\* README.md: HandleReorgedBlocks is called before HandleGoodBlocks "so that the
\* service can undo": at no time does the service hold the logs of two blocks of
\* one height.  (PolicyFast forgets a block without logs at once, and does not
\* report its removal.)
OneLivePerHeight ==
    \A n \in 0 .. MaxHeight : \A g, h \in LiveAt(n) :
        ledger[g].logs # {} /\ ledger[h].logs # {} => g = h

\* README.md: "the ServiceEngine code only sees new, good blocks it never saw".
SeesBlockOnce == \A h \in DOMAIN ledger : ledger[h].good <= 1

\* No part panics: the emitter is never handed a nil result, the engine finds the
\* metadata of whatever was reorged.
NoPanic == epc # "panicked" /\ npc # "panicked" /\ ppc # "panicked"

AllBlocks == [number : 0 .. MaxHeight, fork : 0 .. MaxReorgs, logs : SUBSET Addresses]

Contract == INSTANCE ServiceContract WITH
    Hashes <- AllBlocks, life <- [h \in AllBlocks |-> lifeOf(h)]

\* Across emitter, poller and engine, a block is applied at most once, and reverted
\* at most once and only after that.
ImplementsContract == Contract!Spec

\* When the chain has come to rest, the recorded block reaches its head.
CatchesUp == <>[](lastRecordedBlock = BlockNumber)

=============================================================================
