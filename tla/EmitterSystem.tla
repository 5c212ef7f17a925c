---------------------------- MODULE EmitterSystem ----------------------------
(***************************************************************************)
(* The emitter closed with the weakest environment it relies on.  The      *)
(* height of the chain changes at any time and in any direction; Poll      *)
(* answers with any LastGoodBlock its contract allows (poll_result.go);    *)
(* the engine records that number and syncs; the process may die anywhere. *)
(***************************************************************************)
EXTENDS Emitter

CONSTANTS
    Heads,      \* the heights the chain may have
    MaxMoves,   \* bound: height changes and reorgs
    MaxRestarts \* bound: crashes and errors, after which loopEmit starts anew

ASSUME EmitterSystemAssumption ==
    /\ StartBlock # 0
    /\ Heads \subseteq Nat
    /\ MaxMoves \in Nat
    /\ MaxRestarts \in Nat

VARIABLES
    head,       \* the height of the chain
    lastGood,   \* PollerResult.LastGoodBlock of the result at hand
    moves,      \* height changes and reorgs so far
    restarts,   \* crashes and errors so far
    requested,  \* history: the heights some completed poll asked for
    repeated,   \* history: the heights two completed polls asked for
    reentered   \* history: loopEmit was entered again, after an error or a crash

vars == <<epc, status, call, gateway, head, lastGood,
          moves, restarts, requested, repeated, reentered>>

Init ==
    /\ EmitterInit
    /\ GatewayInit
    /\ head \in Heads
    /\ lastGood = 0
    /\ moves = 0
    /\ restarts = 0
    /\ requested = {}
    /\ repeated = {}
    /\ reentered = FALSE

-----------------------------------------------------------------------------

ChainMoves == moves < MaxMoves /\ moves' = moves + 1

Fault == restarts < MaxRestarts /\ restarts' = restarts + 1

HeadMoves ==
    /\ ChainMoves
    /\ head' \in Heads \ {head}
    /\ UNCHANGED <<epc, status, call, gateway, lastGood, restarts, requested, repeated, reentered>>

\* BlockNumber and GetLastRecordedBlock answer.
Compute ==
    /\ SkipNoNewBlock(head) \/ ComputeRange(head) \/ GiveUpReorg(head)
    /\ UNCHANGED <<gateway, head, lastGood, moves, restarts, requested, repeated, reentered>>

\* One of them fails.
ComputeError ==
    /\ ComputeFails
    /\ Fault
    /\ UNCHANGED <<gateway, head, lastGood, moves, requested, repeated, reentered>>

Polled ==
    /\ requested' = requested \cup (call.from .. call.to)
    /\ repeated' = repeated \cup (requested \cap (call.from .. call.to))

\* Poll found no reorg, or one above fromBlock.
PollReturnsGood ==
    /\ PollGood
    /\ lastGood' \in (call.from .. call.to) \cup {call.to}
    /\ IF lastGood' = call.to THEN UNCHANGED moves ELSE ChainMoves
    /\ Polled
    /\ UNCHANGED <<gateway, head, restarts, reentered>>

\* ErrFromBlockReorged: fromBlock is the first reorged block.
PollReturnsReorged ==
    /\ PollReorging(TRUE)
    /\ call.from <= call.to
    /\ lastGood' \in {call.from - 1, call.from}
    /\ ChainMoves
    /\ Polled
    /\ UNCHANGED <<gateway, head, restarts, reentered>>

PollReturnsError ==
    /\ PollFails
    /\ Fault
    /\ UNCHANGED <<gateway, head, lastGood, moves, requested, repeated, reentered>>

\* The engine has handled the result, records LastGoodBlock and syncs.
EngineSyncs ==
    /\ Synced
    /\ SetLastRecordedBlock(lastGood)
    /\ UNCHANGED <<head, lastGood, moves, restarts, requested, repeated, reentered>>

ServiceTakesError ==
    /\ EmitError
    /\ reentered' = TRUE
    /\ UNCHANGED <<gateway, head, lastGood, moves, restarts, requested, repeated>>

\* The process dies, possibly before the engine recorded the result.
Restart ==
    /\ EmitterRestart
    /\ Fault
    /\ reentered' = TRUE
    /\ UNCHANGED <<gateway, head, lastGood, moves, requested, repeated>>

Next ==
    \/ HeadMoves \/ Compute \/ ComputeError
    \/ PollReturnsGood \/ PollReturnsReorged \/ PollReturnsError
    \/ EngineSyncs \/ ServiceTakesError \/ Restart

Spec == Init /\ [][Next]_vars

\* The emitter's loop never stops by itself: its own steps are taken, Poll
\* returns, and the engine and the service answer.
Fairness ==
    /\ WF_vars(Compute)
    /\ WF_vars(PollReturnsGood \/ PollReturnsReorged \/ PollReturnsError)
    /\ WF_vars(EngineSyncs)
    /\ WF_vars(ServiceTakesError)

FairSpec == Spec /\ Fairness

-----------------------------------------------------------------------------
(* Properties *)

\* The fields of the emitter have the types of emitterStatus, the arguments of
\* Poll are block numbers, and the persisted number is one or is not found.
TypeOK ==
    /\ epc \in {"compute", "poll", "emit", "emitReorging", "emitError"}
    /\ status \in [from : Nat, to : Nat, goBack : BOOLEAN,
                   isReorging : BOOLEAN, retries : Nat]
    /\ call \in [from : Nat, to : Nat]
    /\ GatewayTypeOK
    /\ head \in Heads
    /\ lastGood \in Nat
    /\ moves \in Nat
    /\ restarts \in Nat
    /\ requested \subseteq Nat
    /\ repeated \subseteq Nat
    /\ reentered \in BOOLEAN

\* No height is passed over: whatever the sequence of normal polls, look-backs
\* during a reorg, shrinking chains, errors and restarts, every height from
\* StartBlock up to the recorded block was in the range of a completed poll.
NoGap ==
    gateway # NoRecord => StartBlock .. gateway \subseteq requested

\* One poll never asks the node for more than FilterRange * (MaxGoBackRetries + 2)
\* heights, however often a reorg makes the emitter go back, and never for one
\* below StartBlock (loop_emit.go, computeFromBlockToBlock).
RangeBounded ==
    epc = "poll" =>
        /\ StartBlock <= call.from
        /\ call.to < call.from + FilterRange * (MaxGoBackRetries + 2)

\* README.md: because consecutive ranges overlap, "the poller is always seeing
\* all blocks more than once", as long as loopEmit is not left: through any
\* reorgs, go-backs and shrinking heads.  The last FilterRange recorded heights may still
\* be waiting for their second look, and StartBlock itself is left out: the first
\* poll of a fresh host spans FilterRange + 1 heights, so it gets a single look.
SeenTwice ==
    ~reentered /\ gateway # NoRecord =>
        StartBlock + 1 .. gateway - FilterRange \subseteq repeated

\* Once the chain and the faults are quiet, the recorded block reaches the head
\* of the chain and stays there (loopEmit's errNoNewBlock).
CatchesUp == <>[](lastRecordedBlock = head)

=============================================================================
