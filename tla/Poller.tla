------------------------------- MODULE Poller -------------------------------
(***************************************************************************)
(* The poller (internal/poller): Poll fetches the logs and the headers of  *)
(* a range, compares their hashes with the blocks it tracks, and reports   *)
(* which blocks are good and which were reorged.                           *)
(*                                                                         *)
(* A Poll makes up to three calls to the node, and the chain may change    *)
(* between them; each call and the computation that follows it is one      *)
(* action.  Poll holds the poller's lock, so the setters run only between  *)
(* two polls.                                                              *)
(***************************************************************************)
EXTENDS Chain, BlockNumbers

CONSTANTS
    Policies,           \* the policies to start with
    PollerFilterRange   \* the poller's own filterRange

\* superwatcher.Policy.  Every policy above Expensive is not implemented.
PolicyLevels == {"Fast", "Normal", "Expensive", "ExpensiveBlock"}

ASSUME PollerAssumption ==
    /\ Policies \subseteq PolicyLevels
    /\ PollerFilterRange \in Nat

VARIABLES
    ppc,            \* where Poll is
    args,           \* its fromBlock and toBlock
    pollResults,    \* block number -> [hash, logs], fresh from the node
    headers,        \* block number -> hash: headers fetched before the logs
    tracker,        \* block number -> [hash, logs], or NoTracker
    doReorg,
    policy,
    filter,         \* addresses and topics: what logs the poller asks for
    lastRecorded,   \* lastRecordedBlock of the poller
    ret             \* what the last Poll returned: [result, err]

pollerVars == <<ppc, args, pollResults, headers, tracker, doReorg, policy,
                filter, lastRecorded, ret>>

\* What is kept of a block, and a map of blocks by their numbers
BlockInfo == [hash : Blocks \cup {ZeroHash}, logs : SUBSET Addresses]

BlockMap(f) == DOMAIN f \subseteq Nat /\ \A n \in DOMAIN f : f[n] \in BlockInfo

HashesOf(blocks) == { blocks[n].hash : n \in DOMAIN blocks }

NoBlocks == [n \in {} |-> ZeroHash]

NoResult == [from |-> 0, to |-> 0, lastGood |-> 0,
             good |-> NoBlocks, reorged |-> NoBlocks]

newTracker == NoBlocks

\* The nil *blockTracker, which its key tells from every map of block numbers
NoTracker == [n \in {-1} |-> ZeroHash]

\* New: with doReorg there is a tracker.
PollerInit(initFilter, initDoReorg) ==
    /\ ppc = "idle"
    /\ args = [from |-> 0, to |-> 0]
    /\ pollResults = NoBlocks
    /\ headers = NoBlocks
    /\ doReorg \in initDoReorg
    /\ policy \in Policies
    /\ tracker = IF doReorg THEN newTracker ELSE NoTracker
    /\ filter = initFilter
    /\ lastRecorded = 0
    /\ ret = [result |-> NoResult, err |-> "none"]

-----------------------------------------------------------------------------
(* The tracker, a sorted set scored by block number *)

clearUntil(t, blockNumber) ==
    [n \in { m \in DOMAIN t : m > Score(blockNumber) } |-> t[n]]

removeBlocks(t, numbers) == [n \in DOMAIN t \ numbers |-> t[n]]

Tracked == IF tracker = NoTracker THEN {} ELSE DOMAIN tracker

\* m, extended or overwritten by f
Overwrite(m, f) ==
    [n \in DOMAIN m \cup DOMAIN f |-> IF n \in DOMAIN f THEN f[n] ELSE m[n]]

-----------------------------------------------------------------------------
(* Collecting what the node answered *)

collectLogs ==
    [n \in BlocksWithLogs(args.from, args.to, filter) |->
        [hash |-> BlockAt(n), logs |-> BlockAt(n).logs \cap filter]]

getHeadersByNumbers(numbers) == [n \in numbers |-> HeaderHash(n)]

hashesDiffer(results, heads) ==
    \E n \in DOMAIN results \cap DOMAIN heads : results[n].hash # heads[n]

\* Mutants of collectHeaders: headers of new blocks are dropped; headers win over
\* the logs.
HeadersDropped(results, heads) == results

HeadersWin(results, heads) ==
    Overwrite(results, [n \in DOMAIN heads |-> [hash |-> heads[n], logs |-> {}]])

\* A header of a block without logs adds the block; of one with logs it is
\* compared, and dropped.
collectHeaders(results, heads) ==
    Overwrite([n \in DOMAIN heads |-> [hash |-> heads[n], logs |-> {}]], results)

blocksMissing(results) == (Tracked \cap (args.from .. args.to)) \ DOMAIN results

-----------------------------------------------------------------------------
(* findReorg, processResult and the end of Poll *)

\* Mutant of forked: an empty block is taken for one that lost its logs.
EmptyForked(results) ==
    { n \in Tracked \cap DOMAIN results :
        tracker[n].hash # results[n].hash \/ results[n].logs = {} }

\* Hash or number of logs differ from the tracked block.
forked(results) ==
    { n \in Tracked \cap DOMAIN results :
        \/ tracker[n].hash # results[n].hash
        \/ Cardinality(tracker[n].logs) # Cardinality(results[n].logs) }

\* Mutant of addTrackerBlockPolicy: a tracked block is not overwritten.
AddNewOnly(results) ==
    [n \in { m \in DOMAIN results : m \notin Tracked /\ results[m].logs # {} } |-> results[n]]

addTrackerBlockPolicy(results) ==
    [n \in { m \in DOMAIN results : policy # "Fast" \/ results[m].logs # {} } |-> results[n]]

\* Mutant of handleBlocksMissingPolicy: nothing is removed.
MissingKept(migrated) == tracker

\* PolicyFast drops a block that lost its logs; other policies keep tracking it,
\* with its new hash, which addTrackerBlockPolicy writes.
handleBlocksMissingPolicy(migrated) ==
    IF policy = "Fast" THEN removeBlocks(tracker, migrated) ELSE tracker

\* Mutant of LastGoodBlock: off by one.
LastGoodTooLow(result) ==
    IF DOMAIN result.reorged = {} THEN result.to ELSE Min(DOMAIN result.reorged) - 2

LastGoodBlock(result) ==
    IF DOMAIN result.reorged = {} THEN result.to
    ELSE IF DOMAIN result.good = {} THEN Sub64(result.from, 1)
    ELSE LET lastGood   == Max(DOMAIN result.good)
             firstReorg == Min(DOMAIN result.reorged)
         IN  IF lastGood > firstReorg THEN Sub64(firstReorg, 1) ELSE lastGood

\* Mutant of processResult: the fresh version of a reorged block is not published.
ReorgedOnly(results) ==
    LET bad    == forked(results)
        filled == [from |-> args.from, to |-> args.to, lastGood |-> 0,
                   good |-> [n \in DOMAIN results \ bad |-> results[n]],
                   reorged |-> [n \in bad |-> tracker[n]]]
    IN  [filled EXCEPT !.lastGood = LastGoodBlock(filled)]

\* Every result is a good block, a reorged one its tracked version too.  (LogsMigrated,
\* a flag that only services read, is left out.)
processResult(results) ==
    LET bad    == forked(results)
        filled == [from |-> args.from, to |-> args.to, lastGood |-> 0,
                   good |-> results,
                   reorged |-> [n \in bad |-> tracker[n]]]
    IN  [filled EXCEPT !.lastGood = LastGoodBlock(filled)]

Return(result, err) ==
    /\ ret' = [result |-> result, err |-> err]
    /\ ppc' = "idle"
    /\ pollResults' = NoBlocks
    /\ headers' = NoBlocks

ReturnError(err) ==
    /\ Return(NoResult, err)
    /\ UNCHANGED <<tracker, lastRecorded>>

\* A tracked block of the range is missing in the results: ErrProcessReorg.
FinishPoll(results, missing) ==
    LET result == processResult(results)
    IN  IF blocksMissing(results) # {} THEN ReturnError("bug")
        ELSE /\ tracker' = IF tracker = NoTracker THEN NoTracker
                           ELSE Overwrite(
                                  handleBlocksMissingPolicy(forked(results) \cap missing),
                                  addTrackerBlockPolicy(results))
             /\ lastRecorded' = result.lastGood
             /\ Return(result, IF doReorg /\ args.from \in forked(results)
                               THEN "fromBlockReorged" ELSE "none")

\* pollMissing: fetch the headers of tracked blocks the results lack, if any.
\* Its loop counts down to fromBlock and never ends when fromBlock is zero.
PollMissing(results) ==
    \/ /\ tracker # NoTracker
       /\ args.from = 0
       /\ ppc' = "hung"
       /\ UNCHANGED <<pollResults, headers, tracker, lastRecorded, ret>>
    \/ /\ tracker = NoTracker \/ args.from # 0
       /\ blocksMissing(results) = {}
       /\ FinishPoll(results, {})
    \/ /\ args.from # 0
       /\ blocksMissing(results) # {}
       /\ ppc' = "missing"
       /\ pollResults' = results
       /\ headers' = NoBlocks
       /\ UNCHANGED <<tracker, lastRecorded, ret>>

\* Logs and headers are there: errHashesDiffer, or on to the missing blocks.
Collect(results, heads) ==
    IF hashesDiffer(results, heads) THEN ReturnError("hashesDiffer")
    ELSE PollMissing(collectHeaders(results, heads))

-----------------------------------------------------------------------------
(* The steps of Poll *)

\* Lock, and clear the tracker below the last recorded block: there must be one
\* after the first result.  pollExpensive then makes room for the headers of
\* toBlock - fromBlock + 1 blocks, which wraps around below fromBlock - 1.
Poll(fromBlock, toBlock) ==
    /\ ppc = "idle"
    /\ args' = [from |-> fromBlock, to |-> toBlock]
    /\ LET clears == tracker # NoTracker \/ lastRecorded # 0
           panics == \/ clears /\ tracker = NoTracker
                     \/ policy = "Expensive" /\ fromBlock > toBlock + 1
       IN  /\ ppc' = IF panics THEN "panicked" ELSE "fetch"
           /\ tracker' = IF tracker = NoTracker THEN NoTracker
                         ELSE clearUntil(tracker, Sub64(lastRecorded, PollerFilterRange))
    /\ ret' = [result |-> NoResult, err |-> "none"]
    /\ UNCHANGED <<pollResults, headers, doReorg, policy, filter, lastRecorded>>

\* FilterLogs answers first: pollCheap, or the faster goroutine of pollExpensive.
FilterLogs ==
    /\ ppc = "fetch"
    /\ policy # "ExpensiveBlock"
    /\ pollResults' = collectLogs
    /\ ppc' = "headers"
    /\ UNCHANGED <<args, headers, tracker, doReorg, policy, filter, lastRecorded, ret>>

\* The headers: of the blocks with logs, or of the whole range.
FetchHeaders ==
    /\ ppc = "headers"
    /\ Collect(pollResults,
               getHeadersByNumbers(IF policy = "Expensive" THEN args.from .. args.to
                                   ELSE DOMAIN pollResults))
    /\ UNCHANGED <<args, doReorg, policy, filter>>

\* pollExpensive fetches both concurrently: the headers may be older than the logs.
FetchHeadersFirst ==
    /\ ppc = "fetch"
    /\ policy = "Expensive"
    /\ headers' = getHeadersByNumbers(args.from .. args.to)
    /\ ppc' = "logs"
    /\ UNCHANGED <<args, pollResults, tracker, doReorg, policy, filter, lastRecorded, ret>>

FilterLogsLast ==
    /\ ppc = "logs"
    /\ Collect(collectLogs, headers)
    /\ UNCHANGED <<args, doReorg, policy, filter>>

\* The headers of the tracked blocks that are not in the results.
FetchMissing ==
    LET missing == blocksMissing(pollResults)
    IN  /\ ppc = "missing"
        /\ FinishPoll(collectHeaders(pollResults, getHeadersByNumbers(missing)), missing)
        /\ UNCHANGED <<args, doReorg, policy, filter>>

\* A call to the node fails.  PolicyExpensiveBlock fails without a call.
FetchFails ==
    /\ ppc \in {"fetch", "headers", "logs", "missing"}
    /\ policy # "ExpensiveBlock"
    /\ ReturnError("fetchError")
    /\ UNCHANGED <<args, doReorg, policy, filter>>

NotImplemented ==
    /\ ppc = "fetch"
    /\ policy = "ExpensiveBlock"
    /\ ReturnError("notImplemented")
    /\ UNCHANGED <<args, doReorg, policy, filter>>

PollStep ==
    \/ FilterLogs \/ FetchHeaders \/ FetchHeadersFirst \/ FilterLogsLast \/ FetchMissing
    \/ NotImplemented

-----------------------------------------------------------------------------
(* The Controller *)

\* Mutant of SetDoReorg: no tracker is made when reorgs are to be handled again.
SetDoReorgNoTracker(new) ==
    /\ ppc = "idle"
    /\ doReorg' = new
    /\ tracker' = IF doReorg /\ ~new THEN NoTracker ELSE tracker
    /\ UNCHANGED <<ppc, args, pollResults, headers, policy, filter, lastRecorded, ret>>

SetDoReorg(new) ==
    /\ ppc = "idle"
    /\ doReorg' = new
    /\ tracker' = IF doReorg /\ ~new THEN NoTracker
                  ELSE IF ~doReorg /\ new /\ tracker = NoTracker THEN newTracker
                  ELSE tracker
    /\ UNCHANGED <<ppc, args, pollResults, headers, policy, filter, lastRecorded, ret>>

\* SetAddresses, SetTopics, AddAddresses, AddTopics
SetFilter(new) ==
    /\ ppc = "idle"
    /\ filter' = new
    /\ UNCHANGED <<ppc, args, pollResults, headers, tracker, doReorg, policy, lastRecorded, ret>>

\* The process dies and comes back with an empty tracker.
PollerRestart ==
    /\ ppc' = "idle"
    /\ args' = [from |-> 0, to |-> 0]
    /\ pollResults' = NoBlocks
    /\ headers' = NoBlocks
    /\ doReorg' = TRUE
    /\ tracker' = newTracker
    /\ lastRecorded' = 0
    /\ ret' = [result |-> NoResult, err |-> "none"]
    /\ UNCHANGED <<policy, filter>>

=============================================================================
