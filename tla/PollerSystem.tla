---------------------------- MODULE PollerSystem ----------------------------
(***************************************************************************)
(* The poller closed with the chain and with a caller that asks for any    *)
(* ranges.  The emitter's ranges are some of them.                         *)
(***************************************************************************)
EXTENDS Poller

CONSTANTS
    FromBlocks, ToBlocks,   \* the arguments of Poll
    Filters,                \* the filters a user may set
    DoReorgs,               \* the values SetDoReorg is called with
    MaxPolls,               \* bound: how often Poll is called
    CalmPolls               \* TRUE: the chain changes only between two polls, and
                            \* no poll reaches beyond its head

ASSUME PollerSystemAssumption ==
    /\ FromBlocks \subseteq Nat /\ ToBlocks \subseteq Nat
    /\ DoReorgs \subseteq BOOLEAN
    /\ MaxPolls \in Nat
    /\ CalmPolls \in BOOLEAN

VARIABLES
    polls,      \* calls so far
    goods,      \* history: the hashes reported in GoodBlocks
    reorgeds,   \* history: the hashes reported in ReorgedBlocks
    again,      \* history: a hash was reported in ReorgedBlocks twice
    short,      \* history: a good block was reported with some of its logs missing
    refiltered, \* history: the filter has been changed
    quiet       \* history: nothing has changed since Poll was called

vars == <<chain, tallest, reorgs, abandoned, ppc, args, pollResults, headers, tracker,
          doReorg, policy, filter, lastRecorded, ret, polls, goods, reorgeds,
          again, short, refiltered, quiet>>

Init ==
    /\ ChainInit
    /\ PollerInit(Addresses, DoReorgs \cup {TRUE})
    /\ polls = 0
    /\ goods = {}
    /\ reorgeds = {}
    /\ again = FALSE
    /\ short = FALSE
    /\ refiltered = FALSE
    /\ quiet = FALSE

-----------------------------------------------------------------------------

\* The histories after a step of Poll: a result counts when Poll returns it.
Report ==
    LET reported == IF ppc # "idle" /\ ppc' = "idle" THEN ret'.result ELSE NoResult
    IN  /\ goods' = goods \cup HashesOf(reported.good)
        /\ reorgeds' = reorgeds \cup HashesOf(reported.reorged)
        /\ again' = (again \/ HashesOf(reported.reorged) \cap reorgeds # {})
        /\ short' = (short \/ \E n \in DOMAIN reported.good :
               reported.good[n].logs # reported.good[n].hash.logs \cap filter)

ChainMoves ==
    /\ ChainStep
    /\ CalmPolls => ppc = "idle"
    /\ quiet' = FALSE
    /\ UNCHANGED <<ppc, args, pollResults, headers, tracker, doReorg, policy, filter,
                   lastRecorded, ret, polls, goods, reorgeds, again, short, refiltered>>

CallPoll ==
    /\ polls < MaxPolls
    /\ \E from \in FromBlocks, to \in ToBlocks :
         /\ CalmPolls => Exists(to)
         /\ Poll(from, to)
    /\ polls' = polls + 1
    /\ quiet' = TRUE
    /\ UNCHANGED <<chain, tallest, reorgs, abandoned, goods, reorgeds, again, short,
                   refiltered>>

StepPoll ==
    /\ PollStep \/ FetchFails
    /\ Report
    /\ UNCHANGED <<chain, tallest, reorgs, abandoned, polls, refiltered, quiet>>

Control ==
    /\ \/ \E new \in DoReorgs \ {doReorg} : SetDoReorg(new) /\ UNCHANGED refiltered
       \/ \E new \in Filters \ {filter} : SetFilter(new) /\ refiltered' = TRUE
    /\ quiet' = FALSE
    /\ UNCHANGED <<chain, tallest, reorgs, abandoned, polls, goods, reorgeds, again, short>>

Next == ChainMoves \/ CallPoll \/ StepPoll \/ Control

Spec == Init /\ [][Next]_vars

-----------------------------------------------------------------------------
(* Properties *)

\* The tracker and the fresh results map block numbers to a hash and the logs.
TypeOK ==
    /\ ppc \in {"idle", "fetch", "headers", "logs", "missing", "panicked", "hung"}
    /\ tracker # NoTracker => BlockMap(tracker)
    /\ BlockMap(pollResults)
    /\ lastRecorded \in Nat
    /\ ret.err \in {"none", "fromBlockReorged", "hashesDiffer", "fetchError", "bug",
                    "notImplemented"}

\* README.md: "any ReorgedBlocks was once a GoodBlocks".  The service is only
\* ever told to revert a block that it was given before.
ReorgedWereGood == reorgeds \subseteq goods

\* internal/engine/STATES.md: "the same block hash should NOT be tagged as
\* reorged twice".  The engine relies on it: it drops the second report.  (A new
\* filter makes the tracked blocks look reorged, without a reorg.)
ReorgedOnce == refiltered \/ ~again

\* When a Poll has returned a result and the chain has stood still meanwhile, the
\* tracker knows its range: a tracked block is the canonical one with the logs the
\* chain has, and every canonical block with logs is tracked.
TrackerMatchesChain ==
    (quiet /\ ppc = "idle" /\ doReorg /\ ret.err \in {"none", "fromBlockReorged"}) =>
        \A n \in args.from .. args.to :
            /\ n \in BlocksWithLogs(args.from, args.to, filter) => n \in DOMAIN tracker
            /\ n \in DOMAIN tracker =>
                 /\ tracker[n].hash = HeaderHash(n)
                 /\ Exists(n) => tracker[n].logs = BlockAt(n).logs \cap filter

\* A good block is reported with all of its logs (poll.go: a block is in the
\* results because it has logs, or because it "no longer has any").
GoodBlocksComplete == ~short

\* findReorg's ErrProcessReorg ("kinda sus", poll.go) never happens: every tracked
\* block of the range is in the results once the missing headers are fetched.
NoProcessReorgError == ret.err # "bug"

\* A block that a Poll reports as reorged is not the one the chain has at its height
\* when the Poll returns, if the chain stood still meanwhile.  (A new filter changes
\* the number of a block's logs and makes it look reorged.)
NoFalseReorg ==
    quiet /\ ppc = "idle" /\ ~refiltered =>
        \A n \in DOMAIN ret.result.reorged : ret.result.reorged[n].hash # HeaderHash(n)

\* Whatever the setters are called with between polls, a Poll that handles reorgs
\* has the tracker it uses: it panics only for a range that ends below its start.
\* (Without doReorg the second Poll panics: it clears a tracker that is not there.)
PollPanicsOnlyWhenMisused ==
    ppc = "panicked" => ~doReorg \/ args.from > args.to + 1

=============================================================================
