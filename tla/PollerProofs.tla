---------------------------- MODULE PollerProofs ----------------------------
(***************************************************************************)
(* Proofs about PollerSystem, for every chain, every policy, every range   *)
(* and any number of polls, reorgs, failing calls and calls of the         *)
(* setters: all of its invariants.  Three of them hold when the chain      *)
(* stands still during a poll (CalmPolls), one of these when no reorg      *)
(* restores an abandoned branch (FlipBacks).                               *)
(***************************************************************************)
EXTENDS PollerSystem, PollerLemmas

-----------------------------------------------------------------------------
(* The inductive invariant *)

\* The poller's fields; it has a tracker exactly when it handles reorgs.
PollerOK ==
    /\ ArgsOK
    /\ doReorg \in BOOLEAN
    /\ doReorg <=> tracker # NoTracker
    /\ goods \subseteq Blocks \cup {ZeroHash}
    /\ quiet \in BOOLEAN

\* The service was given every tracked block.
TrackedWereGood == \A n \in Tracked : tracker[n].hash \in goods

\* What was fetched is still so if the chain has stood still.
QuietFetch == quiet => StillFetch

\* With calm polls the chain stands still during a poll and has the whole range.
CalmFetch == CalmPolls /\ ppc # "idle" => quiet /\ Exists(args.to)

\* Tracked blocks then have all of their logs, until the filter changes.
TrackedComplete ==
    CalmPolls /\ ~refiltered =>
        \A n \in Tracked : tracker[n].logs = tracker[n].hash.logs \cap filter

\* A reorged block belongs to a fork of the past and is gone for good.
ReorgedAreGone ==
    CalmPolls /\ ~FlipBacks /\ ~refiltered =>
        /\ ~again
        /\ \A b \in reorgeds : b.fork < reorgs /\ \A i \in 1 .. Len(chain) : chain[i] # b
        /\ \A n \in Tracked :
             /\ tracker[n].hash \notin reorgeds
             /\ tracker[n].hash.number = n
             /\ HeaderHash(n) = tracker[n].hash \/ tracker[n].hash.fork < reorgs

\* The inductive invariant
IInv ==
    /\ ChainOK
    /\ TypeOK
    /\ PollerOK
    /\ FetchedOK
    /\ TrackedWereGood
    /\ ReorgedWereGood
    /\ NoProcessReorgError
    /\ PollPanicsOnlyWhenMisused
    /\ QuietFetch
    /\ TrackerMatchesChain
    /\ CalmFetch
    /\ CalmPolls => GoodBlocksComplete
    /\ TrackedComplete
    /\ CalmPolls => NoFalseReorg
    /\ ReorgedAreGone

-----------------------------------------------------------------------------
(* Initially, and between polls *)

\* A new poller has tracked and reported nothing.
LEMMA InitIInv == Init => IInv
<1> SUFFICES ASSUME Init
             PROVE  IInv
  OBVIOUS
<1> USE DEF Init
<1>1. ChainOK
  BY ChainInitOK
<1>2. /\ ppc = "idle" /\ pollResults = NoBlocks
      /\ args = [from |-> 0, to |-> 0]
      /\ lastRecorded = 0 /\ ret = [result |-> NoResult, err |-> "none"]
      /\ doReorg \in DoReorgs \cup {TRUE}
      /\ tracker = IF doReorg THEN newTracker ELSE NoTracker
  BY DEF PollerInit
<1>3. PollerOK
  BY <1>2, NoBlocksOK, PollerSystemAssumption DEF PollerOK, ArgsOK, newTracker
<1>4. TypeOK
  BY <1>2, NoBlocksOK DEF TypeOK, newTracker
<1>5. Tracked = {}
  BY <1>2, NoBlocksOK DEF Tracked, newTracker
<1>6. FetchedOK /\ QuietFetch /\ CalmFetch /\ PollPanicsOnlyWhenMisused /\ NoProcessReorgError
  BY <1>2, NoBlocksOK DEF FetchedOK, QuietFetch, StillFetch, CalmFetch, PollPanicsOnlyWhenMisused, NoProcessReorgError
<1>7. TrackedWereGood /\ TrackedComplete /\ ReorgedAreGone /\ ReorgedWereGood
  BY <1>5 DEF TrackedWereGood, TrackedComplete, ReorgedAreGone, ReorgedWereGood
<1>8. TrackerMatchesChain /\ GoodBlocksComplete /\ NoFalseReorg
  BY DEF TrackerMatchesChain, GoodBlocksComplete, NoFalseReorg
<1> QED
  BY <1>1, <1>3, <1>4, <1>6, <1>7, <1>8 DEF IInv

\* The tracker forgets blocks, or nothing.
TrackerShrinks == Tracked' \subseteq Tracked /\ \A n \in Tracked' : tracker'[n] = tracker[n]

\* What holds of all tracked blocks holds when the tracker has forgotten some.
LEMMA ShrinkOK ==
    ASSUME IInv, TrackerShrinks, UNCHANGED <<chain, reorgs, goods, reorgeds>>,
           ~again => ~again', refiltered => refiltered', ~refiltered' => UNCHANGED filter
    PROVE  TrackedWereGood' /\ ReorgedWereGood' /\ TrackedComplete' /\ ReorgedAreGone'
<1>1. TrackedWereGood'
  BY DEF IInv, TrackedWereGood, TrackerShrinks
<1>2. ReorgedWereGood'
  BY DEF IInv, ReorgedWereGood
<1>3. TrackedComplete'
  BY DEF IInv, TrackedComplete, TrackerShrinks
<1>4. ReorgedAreGone'
  <2>1. \A n : HeaderHash(n)' = HeaderHash(n)
    BY DEF HeaderHash, BlockAt, Exists, BlockNumber
  <2> QED
    BY <2>1 DEF IInv, ReorgedAreGone, TrackerShrinks
<1> QED
  BY <1>1, <1>2, <1>3, <1>4

\* The chain changes, between two polls or during one.
LEMMA ChainMovesOK ==
    ASSUME IInv, ChainMoves
    PROVE  IInv'
<1>0. ChainOK /\ PollerOK /\ TypeOK
  BY DEF IInv
<1>1. ChainOK' /\ ChainChange
  BY <1>0, ChainStepOK DEF ChainMoves
<1>2. /\ CalmPolls => ppc = "idle"
      /\ quiet' = FALSE
      /\ UNCHANGED <<ppc, args, pollResults, headers, tracker, doReorg, policy, filter,
                     lastRecorded, ret, polls, goods, reorgeds, again, short, refiltered>>
  BY DEF ChainMoves
<1>3. TypeOK' /\ PollerOK' /\ FetchedOK'
  BY <1>2 DEF IInv, TypeOK, PollerOK, ArgsOK, FetchedOK
<1>4. TrackedWereGood' /\ ReorgedWereGood' /\ TrackedComplete' /\ NoProcessReorgError'
  BY <1>2 DEF IInv, TrackedWereGood, ReorgedWereGood, TrackedComplete, NoProcessReorgError,
              Tracked
<1>5. PollPanicsOnlyWhenMisused' /\ (CalmPolls => GoodBlocksComplete)'
  BY <1>2 DEF IInv, PollPanicsOnlyWhenMisused, GoodBlocksComplete
<1>6. QuietFetch' /\ TrackerMatchesChain' /\ CalmFetch' /\ (CalmPolls => NoFalseReorg)'
  BY <1>2 DEF QuietFetch, StillFetch, TrackerMatchesChain, CalmFetch, NoFalseReorg
<1>7. ReorgedAreGone'
  <2> SUFFICES ASSUME CalmPolls, ~FlipBacks, ~refiltered'
               PROVE  ReorgedAreGone'
    BY DEF ReorgedAreGone
  <2>1. /\ ~again
        /\ \A b \in reorgeds : b.fork < reorgs /\ \A i \in 1 .. Len(chain) : chain[i] # b
        /\ \A n \in Tracked :
             /\ tracker[n].hash \notin reorgeds
             /\ tracker[n].hash.number = n
             /\ HeaderHash(n) = tracker[n].hash \/ tracker[n].hash.fork < reorgs
    BY <1>2 DEF IInv, ReorgedAreGone
  <2>2. reorgs \in Nat /\ reorgs' \in Nat /\ Len(chain) \in Nat /\ Len(chain') \in Nat
    BY <1>0, <1>1, ChainAssumption DEF ChainOK, BranchOK
  <2>3. /\ \A b \in reorgeds : b.fork \in Nat
        /\ \A n \in Tracked : tracker[n].hash.fork \in Nat
    <3>1. \A b \in Blocks \cup {ZeroHash} : b.fork \in Nat
      BY ChainAssumption DEF Blocks, ZeroHash
    <3>2. reorgeds \subseteq goods /\ \A n \in Tracked : tracker[n].hash \in goods
      BY DEF IInv, ReorgedWereGood, TrackedWereGood
    <3> QED
      BY <1>0, <3>1, <3>2 DEF PollerOK, ArgsOK
  <2>4. ASSUME NEW b \in reorgeds
        PROVE  b.fork < reorgs' /\ \A i \in 1 .. Len(chain') : chain'[i] # b
    <3>1. b.fork < reorgs /\ \A i \in 1 .. Len(chain) : chain[i] # b
      BY <2>1
    <3> QED
      BY <1>1, <2>2, <2>3, <3>1 DEF ChainChange
  <2>5. ASSUME NEW n \in Tracked
        PROVE  HeaderHash(n)' = tracker[n].hash \/ tracker[n].hash.fork < reorgs'
    <3>1. n \in Nat
      BY <1>0 DEF TypeOK, Tracked, BlockMap
    <3>2. CASE tracker[n].hash.fork < reorgs
      BY <1>1, <2>2, <2>3, <3>2 DEF ChainChange
    <3>3. CASE HeaderHash(n) = tracker[n].hash /\ ~Exists(n)
      <4>1. tracker[n].hash = ZeroHash /\ tracker[n].hash.number = n
        BY <2>1, <3>3 DEF HeaderHash
      <4>2. n = 0
        BY <4>1 DEF ZeroHash
      <4> QED
        BY <1>0, <2>2, <3>3, <4>2 DEF ChainOK, Exists, BlockNumber
    <3>4. CASE HeaderHash(n) = tracker[n].hash /\ Exists(n)
      <4>0. n + 1 \in 1 .. Len(chain)
        BY <2>2, <3>1, <3>4 DEF Exists, BlockNumber
      <4>1. n + 1 \in 1 .. Len(chain) /\ tracker[n].hash = chain[n + 1]
        BY <3>4, <4>0 DEF HeaderHash, BlockAt
      <4>2. chain[n + 1].fork \in Nat /\ chain[n + 1].fork <= reorgs
        BY <1>0, <2>2, <4>1, BranchBlocks DEF ChainOK
      <4>3. CASE n + 1 \in 1 .. Len(chain') /\ chain'[n + 1] = chain[n + 1]
        BY <2>2, <3>1, <4>1, <4>3 DEF HeaderHash, BlockAt, Exists, BlockNumber
      <4>4. CASE reorgs < reorgs'
        BY <2>2, <4>1, <4>2, <4>4
      <4> QED
        BY <1>1, <4>1, <4>3, <4>4 DEF ChainChange
    <3> QED
      BY <2>1, <3>2, <3>3, <3>4
  <2>6. Tracked' = Tracked
    BY <1>2 DEF Tracked
  <2> QED
    BY <1>2, <2>1, <2>4, <2>5, <2>6 DEF ReorgedAreGone
<1> QED
  BY <1>1, <1>3, <1>4, <1>5, <1>6, <1>7 DEF IInv

\* Poll is called: it clears the tracker up to its look-back.
LEMMA CallPollOK ==
    ASSUME IInv, CallPoll
    PROVE  IInv'
<1>0. ChainOK /\ PollerOK /\ TypeOK
  BY DEF IInv
<1>1. PICK from \in FromBlocks, to \in ToBlocks : (CalmPolls => Exists(to)) /\ Poll(from, to)
  BY DEF CallPoll
<1>2. /\ ppc' \in {"fetch", "panicked"}
      /\ args' = [from |-> from, to |-> to]
      /\ ret' = [result |-> NoResult, err |-> "none"]
      /\ ppc' = "panicked" => tracker = NoTracker \/ from > to + 1
      /\ UNCHANGED <<pollResults, headers, doReorg, policy, filter, lastRecorded>>
  BY <1>1 DEF Poll
<1>3. /\ quiet' = TRUE
      /\ UNCHANGED <<chain, tallest, reorgs, abandoned, goods, reorgeds, again, short,
                     refiltered>>
  BY DEF CallPoll
<1>4. from \in Nat /\ to \in Nat
  BY PollerSystemAssumption
<1>5. /\ tracker = NoTracker => tracker' = NoTracker
      /\ tracker # NoTracker => /\ BlockMap(tracker')
                                /\ DOMAIN tracker' \subseteq DOMAIN tracker
                                /\ \A n \in DOMAIN tracker' : tracker'[n] = tracker[n]
  <2>1. tracker' = IF tracker = NoTracker THEN NoTracker
                   ELSE clearUntil(tracker, Sub64(lastRecorded, PollerFilterRange))
    BY <1>1 DEF Poll
  <2> QED
    BY <1>0, <2>1 DEF clearUntil, TypeOK, BlockMap
<1>6. tracker # NoTracker => tracker' # NoTracker
  BY <1>5, MapIsTracker DEF BlockMap
<1>7. TrackerShrinks
  BY <1>5, <1>6 DEF TrackerShrinks, Tracked
<1>8. TrackedWereGood' /\ ReorgedWereGood' /\ TrackedComplete' /\ ReorgedAreGone'
  BY <1>2, <1>3, <1>7, ShrinkOK
<1>9. ChainOK'
  BY <1>0, <1>3, ChainStays
<1>10. PollerOK'
  BY <1>0, <1>2, <1>3, <1>4, <1>5, <1>6 DEF PollerOK, ArgsOK
<1>11. TypeOK'
  BY <1>0, <1>2, <1>5 DEF TypeOK
<1>12. FetchedOK' /\ QuietFetch' /\ TrackerMatchesChain' /\ NoFalseReorg'
  BY <1>0, <1>2 DEF TypeOK, FetchedOK, QuietFetch, StillFetch, TrackerMatchesChain, NoFalseReorg
<1>13. NoProcessReorgError' /\ (CalmPolls => GoodBlocksComplete)'
  BY <1>2, <1>3 DEF IInv, NoProcessReorgError, GoodBlocksComplete
<1>14. PollPanicsOnlyWhenMisused'
  BY <1>0, <1>2, <1>4 DEF PollPanicsOnlyWhenMisused, PollerOK, ArgsOK
<1>15. CalmFetch'
  BY <1>1, <1>2, <1>3 DEF CalmFetch, Exists, BlockNumber
<1> QED
  BY <1>8, <1>9, <1>10, <1>11, <1>12, <1>13, <1>14, <1>15 DEF IInv

\* A setter is called: the tracker is kept, dropped or made.
LEMMA ControlOK ==
    ASSUME IInv, Control
    PROVE  IInv'
<1>0. ChainOK /\ PollerOK /\ TypeOK
  BY DEF IInv
<1>1. /\ quiet' = FALSE
      /\ UNCHANGED <<chain, tallest, reorgs, abandoned, polls, goods, reorgeds, again, short>>
  BY DEF Control
<1>2. /\ ppc = "idle"
      /\ UNCHANGED <<ppc, args, pollResults, headers, policy, lastRecorded, ret>>
  BY DEF Control, SetDoReorg, SetFilter
<1> DEFINE SetterOK == /\ doReorg' \in BOOLEAN
                       /\ doReorg' <=> tracker' # NoTracker
                       /\ tracker' # NoTracker => BlockMap(tracker')
                       /\ TrackerShrinks
                       /\ refiltered => refiltered'
                       /\ ~refiltered' => UNCHANGED filter
<1>3. SetterOK
  <2>1. ASSUME NEW new \in DoReorgs \ {doReorg}, SetDoReorg(new), UNCHANGED refiltered
        PROVE  SetterOK
    <3>1. new \in BOOLEAN /\ doReorg \in BOOLEAN /\ doReorg' = new /\ new # doReorg
      BY <1>0, <2>1, PollerSystemAssumption DEF SetDoReorg, PollerOK, ArgsOK
    <3>2. new => tracker' = NoBlocks
      BY <1>0, <2>1, <3>1 DEF SetDoReorg, PollerOK, ArgsOK, newTracker
    <3>3. ~new => tracker' = NoTracker
      BY <1>0, <2>1, <3>1 DEF SetDoReorg, PollerOK, ArgsOK
    <3>4. Tracked' = {}
      BY <3>1, <3>2, <3>3, NoBlocksOK DEF Tracked
    <3>5. UNCHANGED filter
      BY <2>1 DEF SetDoReorg
    <3> QED
      BY <2>1, <3>1, <3>2, <3>3, <3>4, <3>5, NoBlocksOK DEF TrackerShrinks
  <2>2. ASSUME NEW new \in Filters \ {filter}, SetFilter(new), refiltered' = TRUE
        PROVE  SetterOK
    <3>1. UNCHANGED <<tracker, doReorg>>
      BY <2>2 DEF SetFilter
    <3>2. TrackerShrinks
      BY <3>1 DEF TrackerShrinks, Tracked
    <3> QED
      BY <1>0, <2>2, <3>1, <3>2 DEF PollerOK, ArgsOK, TypeOK
  <2> QED
    BY <2>1, <2>2 DEF Control
<1>4. TrackedWereGood' /\ ReorgedWereGood' /\ TrackedComplete' /\ ReorgedAreGone'
  BY <1>1, <1>3, ShrinkOK
<1>5. ChainOK'
  BY <1>0, <1>1, ChainStays
<1>6. PollerOK'
  BY <1>0, <1>1, <1>2, <1>3 DEF PollerOK, ArgsOK
<1>7. TypeOK'
  BY <1>0, <1>2, <1>3 DEF TypeOK
<1>8. FetchedOK' /\ QuietFetch' /\ TrackerMatchesChain' /\ NoFalseReorg' /\ CalmFetch'
  BY <1>0, <1>1, <1>2 DEF TypeOK, FetchedOK, QuietFetch, StillFetch, TrackerMatchesChain, NoFalseReorg, CalmFetch
<1>9. NoProcessReorgError' /\ (CalmPolls => GoodBlocksComplete)' /\ PollPanicsOnlyWhenMisused'
  BY <1>1, <1>2 DEF IInv, NoProcessReorgError, GoodBlocksComplete, PollPanicsOnlyWhenMisused
<1> QED
  BY <1>4, <1>5, <1>6, <1>7, <1>8, <1>9 DEF IInv

-----------------------------------------------------------------------------
(* The steps of Poll *)

\* A step that returns no result reports nothing.
LEMMA NothingReported ==
    ASSUME Report, ppc' # "idle" \/ ret'.result = NoResult
    PROVE  UNCHANGED <<goods, reorgeds>> /\ (~again => ~again') /\ (~short => ~short')
<1> DEFINE reported == IF ppc # "idle" /\ ppc' = "idle" THEN ret'.result ELSE NoResult
<1>1. HashesOf(reported.good) = {} /\ HashesOf(reported.reorged) = {} /\ DOMAIN reported.good = {}
  BY NoBlocksOK
<1>2. /\ goods' = goods \cup HashesOf(reported.good)
      /\ reorgeds' = reorgeds \cup HashesOf(reported.reorged)
      /\ again' = (again \/ HashesOf(reported.reorged) \cap reorgeds # {})
      /\ short' = (short \/ \E n \in DOMAIN reported.good :
             reported.good[n].logs # reported.good[n].hash.logs \cap filter)
  BY DEF Report
<1> HIDE DEF reported
<1> QED
  BY <1>1, <1>2

\* Poll returns an error.
Stops == \E err \in {"hashesDiffer", "fetchError", "notImplemented"} : ReturnError(err)

\* A step of Poll that does not finish: more was fetched, or it failed or hangs.
LEMMA StepOnOK ==
    ASSUME IInv, StepPoll, UNCHANGED <<args, doReorg, policy, filter>>, ppc # "idle",
           FilterLogs \/ FetchHeadersFirst \/ Stops \/ Hangs \/ GoesOn(quiet)
    PROVE  IInv'
<1>0. ChainOK /\ PollerOK /\ TypeOK
  BY DEF IInv
<1>1. /\ Report
      /\ UNCHANGED <<chain, tallest, reorgs, abandoned, polls, refiltered, quiet>>
  BY DEF StepPoll
<1>2. UNCHANGED <<tracker, lastRecorded>>
  BY DEF FilterLogs, FetchHeadersFirst, Stops, ReturnError, Hangs, GoesOn
<1>3. \/ ppc' \in {"headers", "logs", "missing", "hung"} /\ UNCHANGED ret
      \/ /\ ppc' = "idle"
         /\ ret'.result = NoResult
         /\ ret'.err \in {"hashesDiffer", "fetchError", "notImplemented"}
         /\ pollResults' = NoBlocks
  BY DEF FilterLogs, FetchHeadersFirst, Stops, ReturnError, Return, Hangs, GoesOn
<1>4. UNCHANGED <<goods, reorgeds>> /\ (~again => ~again') /\ (~short => ~short')
  BY <1>1, <1>3, NothingReported
<1>5. TrackerShrinks
  BY <1>2 DEF TrackerShrinks, Tracked
<1>6. TrackedWereGood' /\ ReorgedWereGood' /\ TrackedComplete' /\ ReorgedAreGone'
  BY <1>1, <1>4, <1>5, ShrinkOK
<1>7. ChainOK'
  BY <1>0, <1>1, ChainStays
<1>8. PollerOK'
  BY <1>0, <1>1, <1>2, <1>4 DEF PollerOK, ArgsOK
<1>9. BlockMap(pollResults') /\ FetchedOK' /\ QuietFetch'
  <2>1. CASE FilterLogs \/ FetchHeadersFirst \/ GoesOn(quiet)
    <3>1. FetchedOK' /\ (quiet => StillFetch')
      BY <1>0, <1>1, <2>1, FetchOn DEF IInv, PollerOK, ArgsOK
    <3> QED
      BY <1>1, <3>1 DEF QuietFetch, FetchedOK
  <2>2. CASE Stops
    <3>1. ppc' = "idle" /\ pollResults' = NoBlocks
      BY <2>2 DEF Stops, ReturnError, Return
    <3> QED
      BY <3>1, NoBlocksOK DEF FetchedOK, QuietFetch, StillFetch
  <2>3. CASE Hangs
    <3>1. ppc' = "hung" /\ UNCHANGED pollResults
      BY <2>3 DEF Hangs
    <3> QED
      BY <1>0, <3>1 DEF FetchedOK, QuietFetch, StillFetch, TypeOK
  <2> QED
    BY <2>1, <2>2, <2>3
<1>10. TypeOK'
  BY <1>0, <1>2, <1>3, <1>9 DEF TypeOK
<1>11. /\ TrackerMatchesChain' /\ NoProcessReorgError' /\ PollPanicsOnlyWhenMisused'
  BY <1>3 DEF IInv, TrackerMatchesChain, NoProcessReorgError, PollPanicsOnlyWhenMisused
<1>12. CalmFetch' /\ (CalmPolls => GoodBlocksComplete)'
  BY <1>1, <1>4 DEF IInv, CalmFetch, GoodBlocksComplete, Exists, BlockNumber
<1>13. NoFalseReorg'
  BY <1>3, NoBlocksOK DEF NoFalseReorg
<1> QED
  BY <1>6, <1>7, <1>8, <1>9, <1>10, <1>11, <1>12, <1>13 DEF IInv

-----------------------------------------------------------------------------
(* The end of Poll *)

\* With calm polls, the results are the chain's blocks with all of their logs.
LEMMA CalmResults ==
    ASSUME IInv, CalmPolls, ppc # "idle", NEW results, ResultsOK(results, quiet)
    PROVE  \A n \in DOMAIN results :
             /\ n \in Nat /\ Exists(n)
             /\ HeaderHash(n) = BlockAt(n)
             /\ BlockAt(n) \in Blocks /\ BlockAt(n).number = n
             /\ results[n].hash = BlockAt(n)
             /\ results[n].logs = results[n].hash.logs \cap filter
<1> SUFFICES ASSUME NEW n \in DOMAIN results
             PROVE  /\ n \in Nat /\ Exists(n)
                    /\ HeaderHash(n) = BlockAt(n)
                    /\ BlockAt(n) \in Blocks /\ BlockAt(n).number = n
                    /\ results[n].hash = BlockAt(n)
                    /\ results[n].logs = results[n].hash.logs \cap filter
  OBVIOUS
<1>0. ChainOK /\ PollerOK
  BY DEF IInv
<1>1. quiet /\ Exists(args.to)
  BY DEF IInv, CalmFetch
<1>2. n \in args.from .. args.to /\ args.from \in Nat /\ args.to \in Nat
  BY <1>0 DEF ResultsOK, PollerOK, ArgsOK
<1>3. Len(chain) \in Nat
  BY <1>0 DEF ChainOK, BranchOK
<1>4. n \in Nat /\ Exists(n)
  BY <1>1, <1>2, <1>3 DEF Exists, BlockNumber
<1>5. BlockAt(n) \in Blocks /\ BlockAt(n).number = n
  BY <1>0, <1>4, BlockAtOK
<1>6. results[n].hash = BlockAt(n) /\ results[n].logs = BlockAt(n).logs \cap filter
  BY <1>1, <1>4 DEF ResultsOK, Canonical, HeaderHash, LogsAt
<1> QED
  BY <1>4, <1>5, <1>6 DEF HeaderHash

\* With calm polls and the filter it started with, Poll finds a block forked only when
\* the chain has another one there.
LEMMA ForkedAreGone ==
    ASSUME IInv, CalmPolls, ~refiltered, ppc # "idle", NEW results, ResultsOK(results, quiet),
           NEW n \in forked(results)
    PROVE  tracker[n].hash # HeaderHash(n)
<1>1. n \in Tracked /\ n \in DOMAIN results
  BY DEF forked
<1>2. /\ results[n].hash = HeaderHash(n)
      /\ results[n].logs = results[n].hash.logs \cap filter
  BY <1>1, CalmResults
<1>3. tracker[n].logs = tracker[n].hash.logs \cap filter
  BY <1>1 DEF IInv, TrackedComplete
<1>4. tracker[n].hash = results[n].hash => tracker[n].logs = results[n].logs
  BY <1>2, <1>3
<1> QED
  BY <1>2, <1>4 DEF forked

\* What the histories record of a Poll that finishes
LEMMA FinishReports ==
    ASSUME ChainOK, PollerOK, TypeOK, NEW results, NEW missing, ResultsOK(results, quiet),
           blocksMissing(results) = {}, FinishPoll(results, missing), Report, ppc # "idle"
    PROVE  /\ goods' = goods \cup HashesOf(results)
           /\ reorgeds' = reorgeds \cup { tracker[n].hash : n \in forked(results) }
           /\ again' => again \/ \E n \in forked(results) : tracker[n].hash \in reorgeds
           /\ short' => short \/ \E n \in DOMAIN results :
                                   results[n].logs # results[n].hash.logs \cap filter
<1> DEFINE reported == ret'.result
<1>1. /\ ppc' = "idle"
      /\ reported.good = results
      /\ DOMAIN reported.reorged = forked(results)
      /\ \A n \in forked(results) : reported.reorged[n] = tracker[n]
  BY FinishReturns DEF PollerOK
<1>2. /\ goods' = goods \cup HashesOf(reported.good)
      /\ reorgeds' = reorgeds \cup HashesOf(reported.reorged)
      /\ again' = (again \/ HashesOf(reported.reorged) \cap reorgeds # {})
      /\ short' = (short \/ \E n \in DOMAIN reported.good :
             reported.good[n].logs # reported.good[n].hash.logs \cap filter)
  BY <1>1 DEF Report
<1> HIDE DEF reported
<1>3. HashesOf(reported.reorged) = { tracker[n].hash : n \in forked(results) }
  BY <1>1 DEF HashesOf
<1> QED
  BY <1>1, <1>2, <1>3

\* A reorged block is gone for good after a Poll that finishes, too.
LEMMA FinishReorged ==
    ASSUME IInv, CalmPolls, ~FlipBacks, ~refiltered, ppc # "idle",
           NEW results, NEW missing, ResultsOK(results, quiet), FastOK(results, missing),
           blocksMissing(results) = {}, FinishPoll(results, missing), Report,
           UNCHANGED <<chain, reorgs>>
    PROVE  ReorgedAreGone'
<1>0. ChainOK /\ PollerOK /\ TypeOK
  BY DEF IInv
<1>1. /\ ~again
      /\ \A b \in reorgeds : b.fork < reorgs /\ \A i \in 1 .. Len(chain) : chain[i] # b
      /\ \A n \in Tracked :
           /\ tracker[n].hash \notin reorgeds
           /\ tracker[n].hash.number = n
           /\ HeaderHash(n) = tracker[n].hash \/ tracker[n].hash.fork < reorgs
  BY DEF IInv, ReorgedAreGone
<1>2. /\ reorgeds' = reorgeds \cup { tracker[n].hash : n \in forked(results) }
      /\ again' => again \/ \E n \in forked(results) : tracker[n].hash \in reorgeds
  BY <1>0, FinishReports
<1>3. forked(results) \subseteq Tracked /\ forked(results) \subseteq DOMAIN results
  BY DEF forked
<1>4. ~again'
  BY <1>1, <1>2, <1>3
<1>5. Len(chain) \in Nat /\ \A i \in 1 .. Len(chain) : chain[i].number = i - 1
  BY <1>0 DEF ChainOK, BranchOK
<1>6. ASSUME NEW n \in forked(results)
      PROVE  /\ tracker[n].hash.fork < reorgs
             /\ \A i \in 1 .. Len(chain) : chain[i] # tracker[n].hash
  <2>1. tracker[n].hash # HeaderHash(n)
    BY ForkedAreGone
  <2>2. tracker[n].hash.number = n /\ tracker[n].hash.fork < reorgs
    BY <1>1, <1>3, <2>1
  <2>3. HeaderHash(n) = chain[n + 1] /\ n \in Nat
    BY <1>3, CalmResults DEF BlockAt
  <2>4. ASSUME NEW i \in 1 .. Len(chain), chain[i] = tracker[n].hash
        PROVE  FALSE
    <3>1. i = n + 1
      BY <1>5, <2>2, <2>3, <2>4
    <3> QED
      BY <2>1, <2>3, <2>4, <3>1
  <2> QED
    BY <2>2, <2>4
<1>7. \A b \in reorgeds' : b.fork < reorgs /\ \A i \in 1 .. Len(chain) : chain[i] # b
  BY <1>1, <1>2, <1>6
<1>8. ASSUME NEW n \in Tracked'
      PROVE  /\ tracker'[n].hash \notin reorgeds'
             /\ tracker'[n].hash.number = n
             /\ HeaderHash(n) = tracker'[n].hash \/ tracker'[n].hash.fork < reorgs
  <2>0. \/ n \in DOMAIN results /\ tracker'[n] = results[n]
        \/ n \in Tracked \ (args.from .. args.to) /\ tracker'[n] = tracker[n]
    BY <1>0, FinishTracks DEF PollerOK, TypeOK, TrackerOK
  <2>1. CASE n \in DOMAIN results /\ tracker'[n] = results[n]
    <3>1. /\ n \in Nat /\ Exists(n)
          /\ HeaderHash(n) = BlockAt(n) /\ BlockAt(n).number = n
          /\ tracker'[n].hash = BlockAt(n)
      BY <2>1, CalmResults
    <3>2. n + 1 \in 1 .. Len(chain) /\ BlockAt(n) = chain[n + 1]
      BY <1>5, <3>1 DEF Exists, BlockNumber, BlockAt
    <3>3. BlockAt(n) \notin reorgeds'
      BY <1>7, <3>2
    <3> QED
      BY <3>1, <3>3
  <2>2. CASE n \in Tracked \ (args.from .. args.to) /\ tracker'[n] = tracker[n]
    <3>1. \A m \in forked(results) : tracker[m].hash.number = m /\ m \in args.from .. args.to
      BY <1>1, <1>3 DEF ResultsOK
    <3>2. tracker[n].hash \notin { tracker[m].hash : m \in forked(results) }
      BY <1>1, <2>2, <3>1
    <3> QED
      BY <1>1, <1>2, <2>2, <3>2
  <2> QED
    BY <2>0, <2>1, <2>2
<1>9. reorgs' = reorgs /\ Len(chain') = Len(chain) /\ chain' = chain
      /\ \A n : HeaderHash(n)' = HeaderHash(n)
  BY DEF HeaderHash, Exists, BlockAt, BlockNumber
<1> QED
  BY <1>4, <1>7, <1>8, <1>9 DEF ReorgedAreGone

\* A Poll finishes with results.
LEMMA FinishOK ==
    ASSUME IInv, StepPoll, UNCHANGED <<args, doReorg, policy, filter>>, ppc # "idle",
           Finishes(quiet)
    PROVE  IInv'
<1>0. ChainOK /\ PollerOK /\ TypeOK
  BY DEF IInv
<1>1. /\ Report
      /\ UNCHANGED <<chain, tallest, reorgs, abandoned, polls, refiltered, quiet>>
  BY DEF StepPoll
<1>2. PICK results, missing :
        /\ ResultsOK(results, quiet) /\ FastOK(results, missing)
        /\ blocksMissing(results) = {}
        /\ FinishPoll(results, missing)
  BY DEF Finishes
<1>3. /\ ppc' = "idle" /\ pollResults' = NoBlocks
      /\ DOMAIN ret'.result.reorged = forked(results)
      /\ \A n \in forked(results) : ret'.result.reorged[n] = tracker[n]
      /\ ret'.err \in {"none", "fromBlockReorged"}
      /\ lastRecorded' \in Nat
  BY <1>0, <1>2, FinishReturns DEF PollerOK
<1>4. /\ tracker = NoTracker => tracker' = NoTracker
      /\ tracker # NoTracker =>
           /\ tracker' # NoTracker
           /\ BlockMap(tracker')
           /\ \A n \in DOMAIN results : results[n].logs # {} => n \in DOMAIN tracker'
      /\ \A n \in Tracked' :
           \/ n \in DOMAIN results /\ tracker'[n] = results[n]
           \/ n \in Tracked \ (args.from .. args.to) /\ tracker'[n] = tracker[n]
  BY <1>0, <1>2, FinishTracks DEF PollerOK, TypeOK, TrackerOK
<1>5. /\ goods' = goods \cup HashesOf(results)
      /\ reorgeds' = reorgeds \cup { tracker[n].hash : n \in forked(results) }
      /\ short' => short \/ \E n \in DOMAIN results :
                              results[n].logs # results[n].hash.logs \cap filter
  BY <1>0, <1>1, <1>2, FinishReports
<1>6. /\ \A n : HeaderHash(n)' = HeaderHash(n) /\ LogsAt(n)' = LogsAt(n)
      /\ \A n : Exists(n)' = Exists(n) /\ BlockAt(n)' = BlockAt(n)
      /\ BlocksWithLogs(args.from, args.to, filter)' = BlocksWithLogs(args.from, args.to, filter)
  BY <1>1 DEF HeaderHash, LogsAt, Exists, BlockAt, BlockNumber, BlocksWithLogs
<1>7. ChainOK'
  BY <1>0, <1>1, ChainStays
<1>8. TypeOK' /\ FetchedOK' /\ QuietFetch' /\ CalmFetch'
  <2>1. TypeOK'
    BY <1>3, <1>4, NoBlocksOK DEF TypeOK
  <2> QED
    BY <1>3, <2>1 DEF TypeOK, FetchedOK, QuietFetch, StillFetch, CalmFetch
<1>9. PollerOK'
  <2>1. HashesOf(results) \subseteq Blocks \cup {ZeroHash}
    BY <1>2 DEF HashesOf, ResultsOK, BlockMap, BlockInfo
  <2> QED
    BY <1>0, <1>1, <1>4, <1>5, <2>1 DEF PollerOK, ArgsOK
<1>10. TrackedWereGood'
  <2>1. \A n \in DOMAIN results : results[n].hash \in HashesOf(results)
    BY DEF HashesOf
  <2>2. \A n \in Tracked : tracker[n].hash \in goods
    BY DEF IInv, TrackedWereGood
  <2> QED
    BY <1>4, <1>5, <2>1, <2>2 DEF TrackedWereGood
<1>11. ReorgedWereGood'
  <2>1. forked(results) \subseteq Tracked
    BY DEF forked
  <2> QED
    BY <1>5, <2>1 DEF IInv, ReorgedWereGood, TrackedWereGood
<1>12. NoProcessReorgError' /\ PollPanicsOnlyWhenMisused'
  BY <1>3 DEF NoProcessReorgError, PollPanicsOnlyWhenMisused
<1>13. TrackerMatchesChain'
  <2> SUFFICES ASSUME quiet, doReorg, NEW n \in args.from .. args.to
               PROVE  /\ n \in BlocksWithLogs(args.from, args.to, filter) => n \in DOMAIN tracker'
                      /\ n \in DOMAIN tracker' =>
                           /\ tracker'[n].hash = HeaderHash(n)
                           /\ Exists(n) => tracker'[n].logs = BlockAt(n).logs \cap filter
    BY <1>1, <1>6 DEF TrackerMatchesChain
  <2>1. /\ Canonical(results)
        /\ BlocksWithLogs(args.from, args.to, filter) \subseteq DOMAIN results
    BY <1>2 DEF ResultsOK
  <2>2. tracker # NoTracker /\ Tracked' = DOMAIN tracker'
    BY <1>0, <1>4 DEF PollerOK, ArgsOK, Tracked
  <2>3. ASSUME n \in BlocksWithLogs(args.from, args.to, filter)
        PROVE  n \in DOMAIN tracker'
    <3>1. n \in DOMAIN results /\ results[n].logs # {}
      BY <2>1, <2>3 DEF Canonical, LogsAt, BlocksWithLogs
    <3> QED
      BY <1>4, <2>2, <3>1
  <2>4. ASSUME n \in DOMAIN tracker'
        PROVE  tracker'[n].hash = HeaderHash(n) /\ tracker'[n].logs = LogsAt(n)
    BY <1>4, <2>1, <2>2, <2>4 DEF Canonical
  <2> QED
    BY <2>3, <2>4 DEF LogsAt
<1>14. (CalmPolls => GoodBlocksComplete)'
  <2> SUFFICES ASSUME CalmPolls
               PROVE  ~short'
    BY DEF GoodBlocksComplete
  <2>1. \A n \in DOMAIN results : results[n].logs = results[n].hash.logs \cap filter
    BY <1>2, CalmResults
  <2> QED
    BY <1>5, <2>1 DEF IInv, GoodBlocksComplete
<1>15. TrackedComplete'
  <2> SUFFICES ASSUME CalmPolls, ~refiltered, NEW n \in Tracked'
               PROVE  tracker'[n].logs = tracker'[n].hash.logs \cap filter
    BY <1>1 DEF TrackedComplete
  <2>1. CASE n \in DOMAIN results /\ tracker'[n] = results[n]
    BY <1>2, <2>1, CalmResults
  <2>2. CASE n \in Tracked /\ tracker'[n] = tracker[n]
    BY <2>2 DEF IInv, TrackedComplete
  <2> QED
    BY <1>4, <2>1, <2>2
<1>16. (CalmPolls => NoFalseReorg)'
  <2> SUFFICES ASSUME CalmPolls, ~refiltered, NEW n \in forked(results)
               PROVE  tracker[n].hash # HeaderHash(n)
    BY <1>1, <1>3, <1>6 DEF NoFalseReorg
  <2> QED
    BY <1>2, ForkedAreGone
<1>17. ReorgedAreGone'
  <2>1. CASE CalmPolls /\ ~FlipBacks /\ ~refiltered
    BY <1>1, <1>2, <2>1, FinishReorged
  <2>2. CASE ~(CalmPolls /\ ~FlipBacks /\ ~refiltered)
    BY <1>1, <2>2 DEF ReorgedAreGone
  <2> QED
    BY <2>1, <2>2
<1> QED
  BY <1>7, <1>8, <1>9, <1>10, <1>11, <1>12, <1>13, <1>14, <1>15, <1>16, <1>17 DEF IInv

-----------------------------------------------------------------------------
(* The theorems *)

\* Nothing happens.
LEMMA StutterOK == IInv /\ UNCHANGED vars => IInv'
<1> SUFFICES ASSUME IInv, UNCHANGED vars
             PROVE  IInv'
  OBVIOUS
<1> USE DEF IInv, vars
<1>1. ChainOK'
  BY ChainStays
<1>2. TypeOK' /\ PollerOK' /\ FetchedOK'
  BY DEF TypeOK, PollerOK, ArgsOK, FetchedOK
<1>3. TrackedWereGood' /\ ReorgedWereGood' /\ NoProcessReorgError' /\ PollPanicsOnlyWhenMisused'
  BY DEF TrackedWereGood, ReorgedWereGood, NoProcessReorgError, PollPanicsOnlyWhenMisused,
         Tracked
<1>4. QuietFetch' /\ TrackerMatchesChain' /\ CalmFetch'
  <2>1. /\ \A n : HeaderHash(n)' = HeaderHash(n) /\ LogsAt(n)' = LogsAt(n)
        /\ \A n : Exists(n)' = Exists(n) /\ BlockAt(n)' = BlockAt(n)
        /\ BlocksWithLogs(args.from, args.to, filter)' = BlocksWithLogs(args.from, args.to, filter)
        /\ collectLogs' = collectLogs
        /\ getHeadersByNumbers(args.from .. args.to)' = getHeadersByNumbers(args.from .. args.to)
    BY DEF HeaderHash, LogsAt, Exists, BlockAt, BlockNumber, BlocksWithLogs, collectLogs,
           getHeadersByNumbers
  <2>2. QuietFetch'
    BY <2>1 DEF QuietFetch, StillFetch, Canonical
  <2>3. TrackerMatchesChain'
    BY <2>1 DEF TrackerMatchesChain
  <2>4. CalmFetch'
    BY DEF CalmFetch, Exists, BlockNumber
  <2> QED
    BY <2>2, <2>3, <2>4
<1>5. (CalmPolls => GoodBlocksComplete)' /\ TrackedComplete' /\ (CalmPolls => NoFalseReorg)'
  BY DEF GoodBlocksComplete, TrackedComplete, NoFalseReorg, Tracked, HeaderHash, Exists,
         BlockAt, BlockNumber
<1>6. ReorgedAreGone'
  BY DEF ReorgedAreGone, Tracked, HeaderHash, Exists, BlockAt, BlockNumber
<1> QED
  BY <1>1, <1>2, <1>3, <1>4, <1>5, <1>6

\* The inductive invariant holds in every reachable state: every step of the chain, of
\* Poll and of the setters preserves it.
THEOREM Invariance == Spec => []IInv
<1>1. IInv /\ [Next]_vars => IInv'
  <2> SUFFICES ASSUME IInv, [Next]_vars
               PROVE  IInv'
    OBVIOUS
  <2>1. CASE ChainMoves
    BY <2>1, ChainMovesOK
  <2>2. CASE CallPoll
    BY <2>2, CallPollOK
  <2>3. CASE StepPoll
    <3>1. /\ UNCHANGED <<args, doReorg, policy, filter>>
          /\ ppc # "idle"
          /\ \/ FilterLogs \/ FetchHeadersFirst \/ Stops \/ Hangs \/ GoesOn(quiet)
             \/ Finishes(quiet)
      <4>1. CASE FetchFails
        BY <4>1 DEF FetchFails, Stops
      <4>2. CASE PollStep
        <5>1. /\ UNCHANGED <<args, doReorg, policy, filter>>
              /\ ppc # "idle"
              /\ \/ FilterLogs \/ FetchHeadersFirst \/ Fails(quiet) \/ Hangs
                 \/ GoesOn(quiet) \/ Finishes(quiet)
          BY <4>2, StepCases DEF IInv, PollerOK, ArgsOK, QuietFetch
        <5>2. Fails(quiet) => Stops
          BY DEF Fails, Stops
        <5> QED
          BY <5>1, <5>2
      <4> QED
        BY <2>3, <4>1, <4>2 DEF StepPoll
    <3>2. CASE FilterLogs \/ FetchHeadersFirst \/ Stops \/ Hangs \/ GoesOn(quiet)
      BY <2>3, <3>1, <3>2, StepOnOK
    <3>3. CASE Finishes(quiet)
      BY <2>3, <3>1, <3>3, FinishOK
    <3> QED
      BY <3>1, <3>2, <3>3
  <2>4. CASE Control
    BY <2>4, ControlOK
  <2>5. CASE UNCHANGED vars
    BY <2>5, StutterOK
  <2> QED
    BY <2>1, <2>2, <2>3, <2>4, <2>5 DEF Next
<1> QED
  BY InitIInv, <1>1, PTL DEF Spec

\* The tracker and the fresh results always map block numbers to a hash and logs.
THEOREM TypeCorrect == Spec => []TypeOK
<1>1. IInv => TypeOK
  BY DEF IInv
<1> QED
  BY Invariance, <1>1, PTL

\* README.md, "any ReorgedBlocks was once a GoodBlocks": for every policy and every
\* interleaving of the node's answers with reorgs, processResult tells the service to
\* revert only blocks that an earlier Poll gave it.
THEOREM RevertsOnlyGiven == Spec => []ReorgedWereGood
<1>1. IInv => ReorgedWereGood
  BY DEF IInv
<1> QED
  BY Invariance, <1>1, PTL

\* After a Poll during which the chain stood still, the tracker knows its range: what
\* findReorg will compare with next time is what the chain had, neither more nor less.
THEOREM TracksTheChain == Spec => []TrackerMatchesChain
<1>1. IInv => TrackerMatchesChain
  BY DEF IInv
<1> QED
  BY Invariance, <1>1, PTL

\* findReorg never meets a tracked block of its range that the results lack, whatever
\* the chain does between the three calls of a Poll.
THEOREM NeverProcessReorgError == Spec => []NoProcessReorgError
<1>1. IInv => NoProcessReorgError
  BY DEF IInv
<1> QED
  BY Invariance, <1>1, PTL

\* Poll panics only without doReorg, or for a range that ends below its start, however
\* SetDoReorg is called between polls.
THEOREM NoPanicUnlessMisused == Spec => []PollPanicsOnlyWhenMisused
<1>1. IInv => PollPanicsOnlyWhenMisused
  BY DEF IInv
<1> QED
  BY Invariance, <1>1, PTL

\* When the chain moves only between polls, every good block is reported with all of
\* the logs the filter asks for.
THEOREM ReportsAllLogs ==
    ASSUME CalmPolls
    PROVE  Spec => []GoodBlocksComplete
<1>1. IInv => GoodBlocksComplete
  BY DEF IInv
<1> QED
  BY Invariance, <1>1, PTL

\* When the chain moves only between polls, a block reported as reorged is not the one
\* that the chain has at its height.
THEOREM ReportsOnlyReorgs ==
    ASSUME CalmPolls
    PROVE  Spec => []NoFalseReorg
<1>1. IInv => NoFalseReorg
  BY DEF IInv
<1> QED
  BY Invariance, <1>1, PTL

\* internal/engine/STATES.md, "the same block hash should NOT be tagged as reorged
\* twice": so it is when the chain moves only between polls and no reorg restores the
\* branch that an earlier one replaced.
THEOREM ReorgedOnlyOnce ==
    ASSUME CalmPolls, ~FlipBacks
    PROVE  Spec => []ReorgedOnce
<1>1. IInv => ReorgedOnce
  BY DEF IInv, ReorgedAreGone, ReorgedOnce
<1> QED
  BY Invariance, <1>1, PTL

=============================================================================

