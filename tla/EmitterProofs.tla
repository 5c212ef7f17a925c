---------------------------- MODULE EmitterProofs ----------------------------
(***************************************************************************)
(* Proofs about EmitterSystem, for every configuration, every set of       *)
(* heights and any number of height changes, reorgs, errors and crashes:   *)
(* type correctness, NoGap, RangeBounded and SeenTwice.                    *)
(***************************************************************************)
EXTENDS EmitterSystem, TLAPS

-----------------------------------------------------------------------------
(* The inductive invariant *)

\* Every height from StartBlock and below n was in the range of a completed poll.
RequestedBelow(n) == StartBlock .. n - 1 \subseteq requested

\* The range being polled starts no higher than the first height never asked for.
CallCovered == epc = "poll" => RequestedBelow(call.from)

\* So does the range from which the emitter goes back during a reorg.
GoBackCovered == status.isReorging => RequestedBelow(status.from)

\* What the engine is about to record leaves no height out.
ResultCovered ==
    epc \in {"emit", "emitReorging"} => StartBlock .. lastGood \subseteq requested

\* Retries are counted during a reorg only, and a loop starts without them.
RetriesCounted ==
    /\ status.goBack => ~status.isReorging
    /\ ~status.isReorging => status.retries = 0

\* The range of a poll is as wide as the retries have made it.
CallWidth ==
    epc = "poll" =>
        /\ StartBlock <= call.from
        /\ call.to < call.from + FilterRange * (status.retries + 2)
        /\ status.retries <= MaxGoBackRetries

\* The range to go back from is one FilterRange narrower than the next one may be.
RetryWidth ==
    epc \in {"compute", "emitReorging"} /\ status.isReorging =>
        status.to < status.from + FilterRange * (status.retries + 1)

IInv ==
    /\ TypeOK
    /\ NoGap
    /\ CallCovered
    /\ GoBackCovered
    /\ ResultCovered
    /\ RetriesCounted
    /\ CallWidth
    /\ RetryWidth

-----------------------------------------------------------------------------
(* Arithmetic *)

\* Products of FilterRange grow with the other factor, one FilterRange at a time.
LEMMA Products ==
    ASSUME NEW k \in Nat
    PROVE  /\ FilterRange * k \in Nat
           /\ FilterRange * (k + 1) = FilterRange * k + FilterRange
           /\ FilterRange * (k + 2) = FilterRange * k + 2 * FilterRange
           /\ \A m \in Nat : k <= m => FilterRange * (k + 2) <= FilterRange * (m + 2)
BY ConfigAssumption, SMT

-----------------------------------------------------------------------------
(* The range computed for the next poll *)

\* computeFromBlockToBlock yields block numbers, never starts above the first
\* height that was not asked for, and is no wider than the retries allow.
LEMMA ComputedRange ==
    ASSUME IInv,
           epc = "compute",
           ~maxRetriesReached,
           NEW cur \in Nat,
           NEW range, range = computeFromBlockToBlock(cur)
    PROVE  /\ range = [from |-> range.from, to |-> range.to]
           /\ range.from \in Nat
           /\ range.to \in Nat
           /\ \A n \in StartBlock .. range.from - 1 : n \in requested
           /\ range.to < range.from + FilterRange * (status.retries + 2)
           /\ status.retries <= MaxGoBackRetries
<1> USE ConfigAssumption
<1>1. /\ status.retries \in Nat
      /\ status.from \in Nat
      /\ status.to \in Nat
      /\ status.isReorging \in BOOLEAN
      /\ status.goBack \in BOOLEAN
      /\ gateway \in Nat \cup {NoRecord}
  BY DEF IInv, TypeOK, GatewayTypeOK
<1>2. lastRecordedBlock \in Nat
  BY <1>1 DEF lastRecordedBlock, GetLastRecordedBlock
<1>3. \A n \in StartBlock .. lastRecordedBlock - 1 : n \in requested
  BY <1>1 DEF IInv, NoGap, lastRecordedBlock, GetLastRecordedBlock
<1>4. CASE goBackFirstStart
  <2>1. /\ gateway \in Nat
        /\ lastRecordedBlock = gateway
        /\ status.retries = 0
    BY <1>1, <1>4 DEF IInv, RetriesCounted, goBackFirstStart, lastRecordedBlock,
                      GetLastRecordedBlock
  <2>2. range = [from |-> gateway + 1, to |-> gateway + FilterRange]
    BY <1>4, <2>1 DEF computeFromBlockToBlock, fromBlockToBlockGoBackFirstRun
  <2>3. \A n \in StartBlock .. gateway : n \in requested
    BY <2>1 DEF IInv, NoGap
  <2> QED
    BY <2>1, <2>2, <2>3
<1>5. CASE ~goBackFirstStart /\ status.isReorging
  <2>1. status.retries <= MaxGoBackRetries
    BY <1>1, <1>5 DEF maxRetriesReached
  <2> DEFINE f == range.from
             t == range.to
  <2>2. /\ range = [from |-> f, to |-> t]
        /\ f \in Nat
        /\ t \in Nat
        /\ f <= status.from \/ f = StartBlock
        /\ status.from <= f + FilterRange
        /\ t <= status.to
    <3>1. range = fromBlockToBlockIsReorging(StartBlock, cur, FilterRange, status)
      BY <1>5 DEF computeFromBlockToBlock
    <3> QED
      BY <1>1, <3>1 DEF fromBlockToBlockIsReorging, Min2
  <2> HIDE DEF f, t
  <2>3. status.to < status.from + FilterRange * (status.retries + 1)
    BY <1>5 DEF IInv, RetryWidth
  <2>4. t < f + FilterRange * (status.retries + 2)
    BY <1>1, <2>2, <2>3, Products
  <2>5. \A n \in StartBlock .. f - 1 : n \in requested
    BY <1>1, <1>5, <2>2 DEF IInv, GoBackCovered, RequestedBelow
  <2> QED
    BY <2>1, <2>2, <2>4, <2>5 DEF f, t
<1>6. CASE ~goBackFirstStart /\ ~status.isReorging
  <2>1. status.retries = 0
    BY <1>6 DEF IInv, RetriesCounted
  <2> DEFINE f == range.from
             t == range.to
  <2>2. /\ range = [from |-> f, to |-> t]
        /\ f \in Nat
        /\ t \in Nat
        /\ f <= lastRecordedBlock \/ f = StartBlock
        /\ t < f + 2 * FilterRange
    <3>1. range = fromBlockToBlockNormal(StartBlock, cur, lastRecordedBlock, FilterRange)
      BY <1>6 DEF computeFromBlockToBlock
    <3> QED
      BY <1>2, <3>1 DEF fromBlockToBlockNormal, Min2
  <2> HIDE DEF f, t
  <2>3. \A n \in StartBlock .. f - 1 : n \in requested
    BY <1>2, <1>3, <2>2
  <2> QED
    BY <2>1, <2>2, <2>3 DEF f, t
<1> QED
  BY <1>4, <1>5, <1>6

-----------------------------------------------------------------------------
(* Invariance *)

\* The emitter starts in a state of the invariant.
LEMMA InitInv == Init => IInv
<1> SUFFICES ASSUME Init PROVE IInv
  OBVIOUS
<1> USE ConfigAssumption, EmitterSystemAssumption
    DEF Init, EmitterInit, GatewayInit, NewStatus
<1>1. TypeOK
  BY DEF TypeOK, GatewayTypeOK
<1>2. NoGap /\ CallCovered /\ GoBackCovered /\ ResultCovered
  BY DEF NoGap, CallCovered, GoBackCovered, ResultCovered
<1>3. RetriesCounted /\ CallWidth /\ RetryWidth
  BY DEF RetriesCounted, CallWidth, RetryWidth
<1> QED
  BY <1>1, <1>2, <1>3 DEF IInv

\* A step of computeFromBlockToBlock preserves the invariant.
LEMMA ComputeInv == IInv /\ Compute => IInv'
<1> SUFFICES ASSUME IInv, Compute PROVE IInv'
  OBVIOUS
<1> USE ConfigAssumption, EmitterSystemAssumption
<1>0. /\ TypeOK
      /\ head \in Nat
      /\ UNCHANGED <<gateway, head, lastGood, moves, restarts, requested, repeated, reentered>>
  BY DEF Compute, IInv, TypeOK
<1>1. CASE SkipNoNewBlock(head)
  <2>1. /\ epc = "compute" /\ epc' = epc /\ call' = call
        /\ status' = [status EXCEPT !.goBack = FALSE]
    BY <1>1 DEF SkipNoNewBlock
  <2>2. TypeOK'
    BY <1>0, <2>1 DEF TypeOK, GatewayTypeOK
  <2>3. /\ status'.from = status.from /\ status'.to = status.to
        /\ status'.isReorging = status.isReorging
        /\ status'.retries = status.retries /\ status'.goBack = FALSE
    BY <1>0, <2>1 DEF TypeOK
  <2> QED
    BY <1>0, <2>1, <2>2, <2>3
    DEF IInv, NoGap, CallCovered, GoBackCovered, ResultCovered, RequestedBelow,
        RetriesCounted, CallWidth, RetryWidth
<1>2. CASE GiveUpReorg(head)
  <2>1. /\ epc = "compute" /\ epc' = "emitError"
        /\ UNCHANGED <<status, call>>
    BY <1>2 DEF GiveUpReorg
  <2> QED
    BY <1>0, <2>1
    DEF IInv, TypeOK, GatewayTypeOK, NoGap, CallCovered, GoBackCovered, ResultCovered,
        RequestedBelow, RetriesCounted, CallWidth, RetryWidth
<1>3. CASE ComputeRange(head)
  <2> DEFINE range == computeFromBlockToBlock(head)
  <2>1. /\ epc = "compute"
        /\ epc' = "poll"
        /\ ~maxRetriesReached
        /\ status' = [status EXCEPT !.goBack = FALSE, !.from = range.from, !.to = range.to]
        /\ call' = [from |-> IF range.from < StartBlock THEN StartBlock ELSE range.from,
                    to   |-> range.to]
    BY <1>3 DEF ComputeRange
  <2>2. /\ range.from \in Nat
        /\ range.to \in Nat
        /\ \A n \in StartBlock .. range.from - 1 : n \in requested
        /\ range.to < range.from + FilterRange * (status.retries + 2)
        /\ status.retries <= MaxGoBackRetries
    BY <1>0, <2>1, ComputedRange
  <2> HIDE DEF range
  <2>3. /\ status'.from = range.from /\ status'.to = range.to
        /\ status'.isReorging = status.isReorging
        /\ status'.retries = status.retries /\ status'.goBack = FALSE
        /\ status.retries \in Nat
    BY <1>0, <2>1 DEF TypeOK
  <2>4. TypeOK'
    BY <1>0, <2>1, <2>2 DEF TypeOK, GatewayTypeOK
  <2>5. /\ call'.to = range.to
        /\ call'.from = IF range.from < StartBlock THEN StartBlock ELSE range.from
    BY <2>1
  <2>6. NoGap' /\ ResultCovered' /\ RetryWidth'
    BY <1>0, <2>1 DEF IInv, NoGap, ResultCovered, RetryWidth
  <2>7. RetriesCounted'
    BY <2>3 DEF IInv, RetriesCounted
  <2>8. CallCovered' /\ GoBackCovered'
    BY <1>0, <2>2, <2>3, <2>5 DEF CallCovered, GoBackCovered, RequestedBelow
  <2>9. CallWidth'
    BY <2>2, <2>3, <2>5, Products DEF CallWidth
  <2> QED
    BY <2>4, <2>6, <2>7, <2>8, <2>9 DEF IInv
<1> QED
  BY <1>1, <1>2, <1>3 DEF Compute

\* A Poll that returns without ErrChainIsReorging preserves the invariant.
LEMMA PollGoodInv == IInv /\ PollReturnsGood => IInv'
<1> SUFFICES ASSUME IInv, PollReturnsGood PROVE IInv'
  OBVIOUS
<1> USE ConfigAssumption, EmitterSystemAssumption
<1>1. /\ epc = "poll" /\ epc' = "emit"
      /\ UNCHANGED <<status, call, gateway, head, restarts, reentered>>
      /\ lastGood' \in (call.from .. call.to) \cup {call.to}
      /\ requested' = requested \cup (call.from .. call.to)
      /\ repeated' = repeated \cup (requested \cap (call.from .. call.to))
  BY DEF PollReturnsGood, PollGood, Polled
<1>2. call.from \in Nat /\ call.to \in Nat
  BY DEF IInv, TypeOK
<1>3. lastGood' \in Nat /\ lastGood' <= call.to
  BY <1>1, <1>2
<1>4. moves' \in Nat
  BY DEF PollReturnsGood, ChainMoves, IInv, TypeOK
<1>5. TypeOK'
  <2>1. requested' \subseteq Nat /\ repeated' \subseteq Nat
    <3>1. \A n \in call.from .. call.to : n \in Nat
      BY <1>2
    <3>2. requested \subseteq Nat /\ repeated \subseteq Nat
      BY DEF IInv, TypeOK
    <3> QED
      BY <1>1, <3>1, <3>2, Zenon
  <2> QED
    BY <1>1, <1>3, <1>4, <2>1 DEF IInv, TypeOK, GatewayTypeOK
<1>6. ResultCovered'
  <2>1. \A n \in StartBlock .. call.from - 1 : n \in requested
    BY <1>1 DEF IInv, CallCovered, RequestedBelow
  <2>2. \A n \in StartBlock .. call.to : n \in requested'
    BY <1>1, <1>2, <2>1
  <2> QED
    BY <1>2, <1>3, <2>2 DEF ResultCovered
<1>7. NoGap' /\ GoBackCovered'
  BY <1>1 DEF IInv, NoGap, GoBackCovered, RequestedBelow
<1>8. CallCovered' /\ CallWidth' /\ RetriesCounted' /\ RetryWidth'
  BY <1>1 DEF IInv, CallCovered, CallWidth, RetriesCounted, RetryWidth
<1> QED
  BY <1>5, <1>6, <1>7, <1>8 DEF IInv

\* So does a Poll that returns ErrFromBlockReorged: the emitter will go back from
\* the range of this poll.
LEMMA PollReorgedInv == IInv /\ PollReturnsReorged => IInv'
<1> SUFFICES ASSUME IInv, PollReturnsReorged PROVE IInv'
  OBVIOUS
<1> USE ConfigAssumption, EmitterSystemAssumption
<1>1. /\ epc = "poll" /\ epc' = "emitReorging"
      /\ call.from <= call.to
      /\ UNCHANGED <<call, gateway, head, restarts, reentered>>
      /\ lastGood' \in {call.from - 1, call.from}
      /\ requested' = requested \cup (call.from .. call.to)
      /\ repeated' = repeated \cup (requested \cap (call.from .. call.to))
      /\ status' = [from |-> call.from, to |-> call.to, goBack |-> FALSE,
                    isReorging |-> TRUE, retries |-> status.retries + 1]
  BY DEF PollReturnsReorged, PollReorging, updateStatus, Polled
<1>2. call.from \in Nat /\ call.to \in Nat /\ status.retries \in Nat
  BY DEF IInv, TypeOK
<1>3. lastGood' \in Nat /\ lastGood' <= call.to
  BY <1>1, <1>2 DEF IInv, CallWidth
<1>4. moves' \in Nat
  BY DEF PollReturnsReorged, ChainMoves, IInv, TypeOK
<1>5. TypeOK'
  <2>1. requested' \subseteq Nat /\ repeated' \subseteq Nat
    <3>1. \A n \in call.from .. call.to : n \in Nat
      BY <1>2
    <3>2. requested \subseteq Nat /\ repeated \subseteq Nat
      BY DEF IInv, TypeOK
    <3> QED
      BY <1>1, <3>1, <3>2, Zenon
  <2>2. status' \in [from : Nat, to : Nat, goBack : BOOLEAN,
                     isReorging : BOOLEAN, retries : Nat]
    BY <1>1, <1>2
  <2> QED
    BY <1>1, <1>3, <1>4, <2>1, <2>2 DEF IInv, TypeOK, GatewayTypeOK
<1>6. \A n \in StartBlock .. call.from - 1 : n \in requested
  BY <1>1 DEF IInv, CallCovered, RequestedBelow
<1>7. ResultCovered'
  <2>1. \A n \in StartBlock .. call.to : n \in requested'
    BY <1>1, <1>2, <1>6
  <2> QED
    BY <1>2, <1>3, <2>1 DEF ResultCovered
<1>8. NoGap' /\ GoBackCovered'
  BY <1>1, <1>6 DEF IInv, NoGap, GoBackCovered, RequestedBelow
<1>9. RetryWidth'
  <2>1. call.to < call.from + FilterRange * (status.retries + 2)
    BY <1>1 DEF IInv, CallWidth
  <2>2. (status.retries + 1) + 1 = status.retries + 2
    BY <1>2
  <2> QED
    BY <1>1, <1>2, <2>1, <2>2 DEF RetryWidth
<1>10. CallCovered' /\ CallWidth' /\ RetriesCounted'
  BY <1>1 DEF CallCovered, CallWidth, RetriesCounted
<1> QED
  BY <1>5, <1>7, <1>8, <1>9, <1>10 DEF IInv

\* The engine's record and sync preserve it.
LEMMA EngineSyncsInv == IInv /\ EngineSyncs => IInv'
<1> SUFFICES ASSUME IInv, EngineSyncs PROVE IInv'
  OBVIOUS
<1> USE ConfigAssumption, EmitterSystemAssumption
<1>1. /\ epc \in {"emit", "emitReorging"} /\ epc' = "compute"
      /\ gateway' = lastGood
      /\ UNCHANGED <<call, head, lastGood, moves, restarts, requested, repeated, reentered>>
  BY DEF EngineSyncs, Synced, SetLastRecordedBlock
<1>2. NoGap'
  BY <1>1 DEF IInv, ResultCovered, NoGap
<1>3. CallCovered' /\ CallWidth' /\ ResultCovered'
  BY <1>1 DEF CallCovered, CallWidth, ResultCovered
<1>4. CASE epc = "emit"
  <2>1. status' = [from |-> call.from, to |-> call.to, goBack |-> FALSE,
                   isReorging |-> FALSE, retries |-> 0]
    BY <1>4 DEF EngineSyncs, Synced, updateStatus
  <2>2. TypeOK'
    BY <1>1, <2>1 DEF IInv, TypeOK, GatewayTypeOK
  <2>3. GoBackCovered' /\ RetriesCounted' /\ RetryWidth'
    BY <2>1 DEF GoBackCovered, RetriesCounted, RetryWidth
  <2> QED
    BY <1>2, <1>3, <2>2, <2>3 DEF IInv
<1>5. CASE epc = "emitReorging"
  <2>1. status' = status
    BY <1>5 DEF EngineSyncs, Synced
  <2>2. TypeOK'
    BY <1>1, <2>1 DEF IInv, TypeOK, GatewayTypeOK
  <2>3. GoBackCovered' /\ RetriesCounted' /\ RetryWidth'
    BY <1>1, <1>5, <2>1 DEF IInv, GoBackCovered, RequestedBelow, RetriesCounted, RetryWidth
  <2> QED
    BY <1>2, <1>3, <2>2, <2>3 DEF IInv
<1> QED
  BY <1>1, <1>4, <1>5

\* A loop that is entered again, after an error or a crash, starts without a
\* reorg to go back for.
LEMMA RestartInv == IInv /\ (ServiceTakesError \/ Restart) => IInv'
<1> SUFFICES ASSUME IInv, ServiceTakesError \/ Restart PROVE IInv'
  OBVIOUS
<1> USE ConfigAssumption, EmitterSystemAssumption
<1>1. /\ epc' = "compute"
      /\ status' = [from |-> 0, to |-> 0, goBack |-> TRUE,
                    isReorging |-> FALSE, retries |-> 0]
      /\ call' = call \/ call' = [from |-> 0, to |-> 0]
      /\ restarts' = restarts \/ restarts' = restarts + 1
      /\ reentered' = TRUE
      /\ UNCHANGED <<gateway, head, lastGood, moves, requested, repeated>>
  BY DEF ServiceTakesError, EmitError, Restart, EmitterRestart, Fault, NewStatus
<1>2. TypeOK'
  BY <1>1 DEF IInv, TypeOK, GatewayTypeOK
<1>3. NoGap'
  BY <1>1 DEF IInv, NoGap
<1>4. /\ CallCovered' /\ GoBackCovered' /\ ResultCovered'
      /\ RetriesCounted' /\ CallWidth' /\ RetryWidth'
  BY <1>1 DEF CallCovered, GoBackCovered, ResultCovered, RetriesCounted, CallWidth,
              RetryWidth
<1> QED
  BY <1>2, <1>3, <1>4 DEF IInv

\* Every step preserves the invariant.
LEMMA NextInv == IInv /\ [Next]_vars => IInv'
<1> SUFFICES ASSUME IInv, [Next]_vars PROVE IInv'
  OBVIOUS
<1> USE DEF IInv, TypeOK, GatewayTypeOK, NoGap, CallCovered, GoBackCovered, ResultCovered,
            RequestedBelow, RetriesCounted, CallWidth, RetryWidth
<1>1. CASE HeadMoves
  BY <1>1 DEF HeadMoves, ChainMoves
<1>2. CASE Compute
  BY <1>2, ComputeInv
<1>3. CASE ComputeError
  BY <1>3 DEF ComputeError, ComputeFails, Fault
<1>4. CASE PollReturnsGood
  BY <1>4, PollGoodInv
<1>5. CASE PollReturnsReorged
  BY <1>5, PollReorgedInv
<1>6. CASE PollReturnsError
  BY <1>6 DEF PollReturnsError, PollFails, Fault
<1>7. CASE EngineSyncs
  BY <1>7, EngineSyncsInv
<1>8. CASE ServiceTakesError \/ Restart
  BY <1>8, RestartInv
<1>9. CASE UNCHANGED vars
  BY <1>9 DEF vars
<1> QED
  BY <1>1, <1>2, <1>3, <1>4, <1>5, <1>6, <1>7, <1>8, <1>9 DEF Next

\* The invariant holds in every reachable state.
THEOREM Invariance == Spec => []IInv
BY InitInv, NextInv, PTL DEF Spec

-----------------------------------------------------------------------------
(* Theorems *)

\* The emitter's status, the arguments of Poll and the recorded block keep their
\* types: no range rule goes below zero, in any configuration (blocknum_utils.go).
THEOREM TypeCorrect == Spec => []TypeOK
<1>1. IInv => TypeOK
  BY DEF IInv
<1> QED
  BY <1>1, Invariance, PTL

\* For every StartBlock, FilterRange and MaxGoBackRetries, however the chain
\* shrinks, grows and reorgs, and whenever the process errs or dies, every height
\* up to the recorded block was in the range of a completed poll (loop_emit.go).
THEOREM NoHeightSkipped == Spec => []NoGap
<1>1. IInv => NoGap
  BY DEF IInv
<1> QED
  BY <1>1, Invariance, PTL

\* No poll is wider than FilterRange * (MaxGoBackRetries + 2) or starts below
\* StartBlock (fromBlockToBlockIsReorging, computeFromBlockToBlock).
THEOREM PollsBounded == Spec => []RangeBounded
<1>1. IInv => RangeBounded
  <2> SUFFICES ASSUME IInv, epc = "poll"
               PROVE  /\ StartBlock <= call.from
                      /\ call.to < call.from + FilterRange * (MaxGoBackRetries + 2)
    BY DEF RangeBounded
  <2>1. /\ StartBlock <= call.from
        /\ call.to < call.from + FilterRange * (status.retries + 2)
        /\ status.retries <= MaxGoBackRetries
    BY DEF IInv, CallWidth
  <2>2. /\ status.retries \in Nat /\ MaxGoBackRetries \in Nat
        /\ call.from \in Nat /\ call.to \in Nat
    BY ConfigAssumption DEF IInv, TypeOK
  <2>3. /\ FilterRange * (status.retries + 2) <= FilterRange * (MaxGoBackRetries + 2)
        /\ FilterRange * (status.retries + 2) \in Nat
        /\ FilterRange * (MaxGoBackRetries + 2) \in Nat
    BY <2>1, <2>2, Products, ConfigAssumption
  <2> QED
    BY <2>1, <2>2, <2>3
<1> QED
  BY <1>1, Invariance, PTL

-----------------------------------------------------------------------------
(* Every height is looked at twice *)

\* A loop that was never left goes back for a reorg only, not for its first start.
NoGoBack ==
    ~reentered /\ (gateway # NoRecord \/ epc \in {"poll", "emit", "emitReorging"}) =>
        ~status.goBack

\* The range to go back from was polled, and what was recorded of it is its start.
GoBackPolled ==
    epc \in {"compute", "emitReorging"} /\ status.isReorging =>
        /\ StartBlock <= status.from
        /\ status.from .. status.to \subseteq requested
        /\ epc = "compute" => gateway # NoRecord /\ status.from <= gateway + 1
        /\ epc = "emitReorging" => status.from <= lastGood + 1

\* With the poll at hand, all but the last FilterRange heights of its range, and all
\* below, have been looked at twice.
PollLooksTwice ==
    ~reentered /\ epc = "poll" =>
        StartBlock + 1 .. call.to - FilterRange
            \subseteq repeated \cup (requested \cap (call.from .. call.to))

\* So have those below the number that is about to be recorded.
ResultTwice ==
    ~reentered /\ epc \in {"emit", "emitReorging"} =>
        StartBlock + 1 .. lastGood - FilterRange \subseteq repeated

LooksInv ==
    /\ SeenTwice
    /\ NoGoBack
    /\ epc = "emitReorging" => status.isReorging
    /\ GoBackPolled
    /\ PollLooksTwice
    /\ ResultTwice

\* An interval grows with its end.
LEMMA ShorterInterval ==
    ASSUME NEW a \in Int, NEW b \in Int, NEW c \in Int, b <= c
    PROVE  a .. b \subseteq a .. c
OBVIOUS

\* The range of the next poll looks again at what has been looked at once.
LEMMA ComputedLooks ==
    ASSUME IInv, LooksInv, Compute
    PROVE  LooksInv'
<1> USE ConfigAssumption, EmitterSystemAssumption
<1>0. /\ head \in Nat /\ status.from \in Nat /\ status.to \in Nat
      /\ gateway \in Nat \cup {NoRecord}
      /\ status \in [from : Nat, to : Nat, goBack : BOOLEAN,
                     isReorging : BOOLEAN, retries : Nat]
      /\ epc = "compute"
      /\ UNCHANGED <<gateway, head, lastGood, moves, restarts, requested, repeated, reentered>>
  BY DEF IInv, TypeOK, GatewayTypeOK, Compute, SkipNoNewBlock, ComputeRange, GiveUpReorg
<1>1. SeenTwice' /\ ResultTwice' /\ epc' # "emitReorging"
  BY <1>0 DEF LooksInv, SeenTwice, ResultTwice, Compute, SkipNoNewBlock, ComputeRange,
              GiveUpReorg
<1>2. CASE SkipNoNewBlock(head)
  <2>1. /\ epc' = "compute" /\ call' = call
        /\ status' = [status EXCEPT !.goBack = FALSE]
    BY <1>0, <1>2 DEF SkipNoNewBlock
  <2>2. /\ status'.from = status.from /\ status'.to = status.to
        /\ status'.isReorging = status.isReorging /\ ~status'.goBack
    BY <1>0, <2>1
  <2> QED
    BY <1>0, <1>1, <2>1, <2>2 DEF LooksInv, NoGoBack, GoBackPolled, PollLooksTwice
<1>3. CASE GiveUpReorg(head)
  BY <1>0, <1>1, <1>3 DEF GiveUpReorg, LooksInv, NoGoBack, GoBackPolled, PollLooksTwice
<1>4. CASE ComputeRange(head)
  <2> DEFINE range == computeFromBlockToBlock(head)
             f     == call'.from
             t     == call'.to
  <2>1. /\ epc' = "poll"
        /\ ~maxRetriesReached
        /\ status' = [status EXCEPT !.goBack = FALSE, !.from = range.from, !.to = range.to]
        /\ f = IF range.from < StartBlock THEN StartBlock ELSE range.from
        /\ t = range.to
        /\ lastRecordedBlock # head \/ goBackFirstStart
    BY <1>4 DEF ComputeRange
  <2>2. ~status'.goBack
    BY <1>0, <2>1
  <2>3. PollLooksTwice'
    <3> SUFFICES ASSUME ~reentered, NEW n \in StartBlock + 1 .. t - FilterRange
                 PROVE  n \in repeated \/ (n \in requested /\ n \in f .. t)
      BY <1>0 DEF PollLooksTwice
    <3>1. range.from \in Nat /\ range.to \in Nat
      BY <1>0, <2>1, ComputedRange
    <3>2. ~goBackFirstStart
      BY <1>0 DEF LooksInv, NoGoBack, goBackFirstStart, GetLastRecordedBlock
    <3>3. gateway # NoRecord =>
            /\ \A m \in StartBlock .. gateway : m \in requested
            /\ \A m \in StartBlock + 1 .. gateway - FilterRange : m \in repeated
      BY DEF IInv, NoGap, LooksInv, SeenTwice
    <3>4. CASE status.isReorging
      <4>1. range = fromBlockToBlockIsReorging(StartBlock, head, FilterRange, status)
        BY <3>2, <3>4 DEF computeFromBlockToBlock
      <4>2. /\ range.from = StartBlock \/ range.from + FilterRange = status.from
            /\ range.to <= status.to
        BY <1>0, <4>1 DEF fromBlockToBlockIsReorging, Min2
      <4>3. /\ gateway \in Nat /\ status.from <= gateway + 1
            /\ \A m \in status.from .. status.to : m \in requested
        BY <1>0, <3>4 DEF LooksInv, GoBackPolled
      <4> HIDE DEF range, f, t
      <4>4. n \in requested
        BY <1>0, <2>1, <3>1, <3>3, <4>2, <4>3
      <4>5. n \in f .. t \/ n \in repeated
        BY <1>0, <2>1, <3>1, <3>3, <4>2, <4>3
      <4> QED
        BY <4>4, <4>5
    <3>5. CASE ~status.isReorging
      <4>1. range = fromBlockToBlockNormal(StartBlock, head, lastRecordedBlock, FilterRange)
        BY <3>2, <3>5 DEF computeFromBlockToBlock
      <4>2. lastRecordedBlock \in Nat
        BY <1>0 DEF lastRecordedBlock, GetLastRecordedBlock
      <4>3. /\ \/ range.from = StartBlock
               \/ range.from + FilterRange = lastRecordedBlock + 1
               \/ head < lastRecordedBlock /\ range.from + FilterRange = head
            /\ range.to <= head
            /\ range.to <= lastRecordedBlock + FilterRange
        BY <1>0, <2>1, <3>2, <4>1, <4>2 DEF fromBlockToBlockNormal, Min2
      <4> HIDE DEF range, f, t
      <4>4. CASE gateway = NoRecord
        BY <2>1, <3>1, <4>3, <4>4 DEF lastRecordedBlock, GetLastRecordedBlock
      <4>5. CASE gateway # NoRecord
        <5>1. lastRecordedBlock = gateway /\ gateway \in Nat
          BY <1>0, <4>5 DEF lastRecordedBlock, GetLastRecordedBlock
        <5>2. n \in requested
          BY <1>0, <2>1, <3>1, <3>3, <4>3, <4>5, <5>1
        <5>3. n \in f .. t \/ n \in repeated
          BY <1>0, <2>1, <3>1, <3>3, <4>3, <4>5, <5>1
        <5> QED
          BY <5>2, <5>3
      <4> QED
        BY <4>4, <4>5
    <3> QED
      BY <1>0, <3>4, <3>5
  <2> QED
    BY <1>1, <2>1, <2>2, <2>3 DEF LooksInv, NoGoBack, GoBackPolled
<1> QED
  BY <1>2, <1>3, <1>4 DEF Compute

\* Every other step, too, leaves all but the last heights looked at twice.
LEMMA NextLooks == IInv /\ LooksInv /\ [Next]_vars => LooksInv'
<1> SUFFICES ASSUME IInv, LooksInv, [Next]_vars
             PROVE  LooksInv'
  OBVIOUS
<1> USE ConfigAssumption, EmitterSystemAssumption
<1>0. /\ call.from \in Nat /\ call.to \in Nat /\ lastGood \in Nat
      /\ epc = "poll" => StartBlock <= call.from
  BY DEF IInv, TypeOK, CallWidth
<1>1. CASE HeadMoves \/ ComputeError \/ PollReturnsError \/ UNCHANGED vars
  <2>1. /\ UNCHANGED <<status, call, gateway, lastGood, requested, repeated, reentered>>
        /\ epc' = epc \/ epc' = "emitError"
    BY <1>1 DEF HeadMoves, ComputeError, ComputeFails, PollReturnsError, PollFails, vars
  <2> QED
    BY <2>1 DEF LooksInv, SeenTwice, NoGoBack, GoBackPolled, PollLooksTwice, ResultTwice
<1>2. CASE Compute
  BY <1>2, ComputedLooks
<1>3. CASE PollReturnsGood
  <2>1. /\ epc = "poll" /\ epc' = "emit"
        /\ UNCHANGED <<status, call, gateway, reentered>>
        /\ lastGood' \in (call.from .. call.to) \cup {call.to}
        /\ requested' = requested \cup (call.from .. call.to)
        /\ repeated' = repeated \cup (requested \cap (call.from .. call.to))
    BY <1>3 DEF PollReturnsGood, PollGood, Polled
  <2>2. lastGood' \in Nat /\ lastGood' <= call.to
    BY <1>0, <2>1
  <2>3. ResultTwice'
    <3>1. StartBlock + 1 .. lastGood' - FilterRange \subseteq StartBlock + 1 .. call.to - FilterRange
      <4>1. /\ lastGood' - FilterRange \in Int /\ call.to - FilterRange \in Int
            /\ lastGood' - FilterRange <= call.to - FilterRange
            /\ StartBlock + 1 \in Int
        BY <1>0, <2>2
      <4> QED
        BY <4>1, ShorterInterval
    <3>2. ~reentered => StartBlock + 1 .. call.to - FilterRange
                          \subseteq repeated \cup (requested \cap (call.from .. call.to))
      BY <2>1 DEF LooksInv, PollLooksTwice
    <3> QED
      BY <2>1, <3>1, <3>2, Zenon DEF ResultTwice
  <2>4. SeenTwice' /\ NoGoBack' /\ GoBackPolled' /\ PollLooksTwice'
    BY <2>1 DEF LooksInv, SeenTwice, NoGoBack, GoBackPolled, PollLooksTwice
  <2> QED
    BY <2>1, <2>3, <2>4 DEF LooksInv
<1>4. CASE PollReturnsReorged
  <2>1. /\ epc = "poll" /\ epc' = "emitReorging"
        /\ call.from <= call.to
        /\ UNCHANGED <<call, gateway, reentered>>
        /\ lastGood' \in {call.from - 1, call.from}
        /\ requested' = requested \cup (call.from .. call.to)
        /\ repeated' = repeated \cup (requested \cap (call.from .. call.to))
        /\ status' = [from |-> call.from, to |-> call.to, goBack |-> FALSE,
                      isReorging |-> TRUE, retries |-> status.retries + 1]
    BY <1>4 DEF PollReturnsReorged, PollReorging, updateStatus, Polled
  <2>2. lastGood' \in Int /\ lastGood' <= call.to /\ call.from <= lastGood' + 1
    BY <1>0, <2>1
  <2>3. ResultTwice'
    <3>1. StartBlock + 1 .. lastGood' - FilterRange \subseteq StartBlock + 1 .. call.to - FilterRange
      <4>1. /\ lastGood' - FilterRange \in Int /\ call.to - FilterRange \in Int
            /\ lastGood' - FilterRange <= call.to - FilterRange
            /\ StartBlock + 1 \in Int
        BY <1>0, <2>2
      <4> QED
        BY <4>1, ShorterInterval
    <3>2. ~reentered => StartBlock + 1 .. call.to - FilterRange
                          \subseteq repeated \cup (requested \cap (call.from .. call.to))
      BY <2>1 DEF LooksInv, PollLooksTwice
    <3> QED
      BY <2>1, <3>1, <3>2, Zenon DEF ResultTwice
  <2>4. GoBackPolled'
    BY <1>0, <2>1, <2>2 DEF GoBackPolled
  <2>5. SeenTwice' /\ NoGoBack' /\ PollLooksTwice'
    BY <2>1 DEF LooksInv, SeenTwice, NoGoBack, PollLooksTwice
  <2> QED
    BY <2>1, <2>3, <2>4, <2>5 DEF LooksInv
<1>5. CASE EngineSyncs
  <2>1. /\ epc \in {"emit", "emitReorging"} /\ epc' = "compute"
        /\ gateway' = lastGood
        /\ UNCHANGED <<lastGood, requested, repeated, reentered>>
        /\ epc = "emit" => ~status'.isReorging /\ ~status'.goBack
        /\ epc = "emitReorging" => status' = status
    BY <1>5 DEF EngineSyncs, Synced, SetLastRecordedBlock, updateStatus
  <2>2. SeenTwice' /\ PollLooksTwice' /\ ResultTwice'
    BY <2>1 DEF LooksInv, SeenTwice, PollLooksTwice, ResultTwice
  <2>3. NoGoBack' /\ GoBackPolled'
    BY <1>0, <2>1 DEF LooksInv, NoGoBack, GoBackPolled
  <2> QED
    BY <2>1, <2>2, <2>3 DEF LooksInv
<1>6. CASE ServiceTakesError \/ Restart
  <2>1. epc' = "compute" /\ reentered' /\ ~status'.isReorging
    BY <1>6 DEF ServiceTakesError, EmitError, Restart, EmitterRestart, NewStatus
  <2> QED
    BY <2>1 DEF LooksInv, SeenTwice, NoGoBack, GoBackPolled, PollLooksTwice, ResultTwice
<1> QED
  BY <1>1, <1>2, <1>3, <1>4, <1>5, <1>6 DEF Next

\* README.md, "the poller is always seeing all blocks more than once": for every
\* configuration and any heights and reorgs, every height from StartBlock + 1 up to
\* FilterRange below the recorded block was in two completed polls, unless loopEmit
\* was entered again.
THEOREM EveryHeightSeenTwice == Spec => []SeenTwice
<1>1. Init => LooksInv
  BY DEF Init, EmitterInit, GatewayInit, NewStatus, LooksInv, SeenTwice, NoGoBack,
         GoBackPolled, PollLooksTwice, ResultTwice
<1>2. LooksInv => SeenTwice
  BY DEF LooksInv
<1> QED
  BY <1>1, <1>2, Invariance, NextLooks, PTL DEF Spec

=============================================================================
