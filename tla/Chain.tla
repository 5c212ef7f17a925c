------------------------------- MODULE Chain -------------------------------
(***************************************************************************)
(* The blockchain as an EthClient shows it: one canonical chain that grows *)
(* and is reorganized.  The node is not part of the repository; the module *)
(* is written from how the poller and the emitter use it and from what     *)
(* pkg/reorgsim, the repository's simulated chain, does.                   *)
(*                                                                         *)
(* A block is its number, the fork that mined it and the addresses that    *)
(* logged in it.  The record stands for the block hash: equal hashes mean  *)
(* equal blocks, and a block mined again after a reorg has another hash.   *)
(***************************************************************************)
EXTENDS Integers, Sequences, FiniteSets, FiniteSetsExt

CONSTANTS
    Addresses,      \* the contracts that may log
    InitHeight,     \* the height at which the model starts
    MaxHeight,      \* bound: the chain grows up to here
    MaxReorgs,      \* bound: how many reorgs happen
    MaxReorgDepth,  \* blocks this far below the highest head seen are final
    FlipBacks       \* TRUE: a reorg may restore the branch it had replaced

ASSUME ChainAssumption ==
    /\ IsFiniteSet(Addresses)
    /\ "none" \notin Addresses
    /\ InitHeight \in Nat
    /\ MaxHeight \in Nat
    /\ MaxReorgs \in Nat
    /\ MaxReorgDepth \in Nat
    /\ FlipBacks \in BOOLEAN

VARIABLES
    chain,      \* chain[n + 1] is block number n
    tallest,    \* the highest head so far
    reorgs,     \* reorgs so far, and the fork that is mining
    abandoned   \* the branch the last reorg replaced

chainVars == <<chain, tallest, reorgs, abandoned>>

Blocks == [number : Nat, fork : 0 .. MaxReorgs, logs : SUBSET Addresses]

\* EthClient.BlockNumber
BlockNumber == Len(chain) - 1

BlockAt(n) == chain[n + 1]

Exists(n) == n \in 0 .. BlockNumber

\* Blocks from .. to of one fork, with any logs.
Branches(fork, from, to) ==
    { [i \in 1 .. to - from + 1 |->
          [number |-> from + i - 1, fork |-> fork, logs |-> logs[from + i - 1]]] :
      logs \in [from .. to -> SUBSET Addresses] }

ChainInit ==
    /\ chain \in Branches(0, 0, InitHeight)
    /\ BlockAt(0).logs = {}
    /\ tallest = InitHeight
    /\ reorgs = 0
    /\ abandoned = <<>>

\* The fork of the tip mines one more block.
Mine ==
    /\ BlockNumber < MaxHeight
    /\ LET next == BlockNumber + 1
       IN  \E block \in Branches(BlockAt(BlockNumber).fork, next, next) :
              chain' = chain \o block
    /\ tallest' = Max({tallest, BlockNumber + 1})
    /\ UNCHANGED <<reorgs, abandoned>>

\* A new fork replaces the blocks from cut on.  Its head may be lower than the
\* old one, or one block higher.
Reorg ==
    /\ reorgs < MaxReorgs
    /\ \E cut \in 1 .. BlockNumber :
         /\ cut > tallest - MaxReorgDepth
         /\ \E to \in cut .. BlockNumber + 1 :
              /\ to <= MaxHeight
              /\ \E branch \in Branches(reorgs + 1, cut, to) :
                    chain' = SubSeq(chain, 1, cut) \o branch
              /\ tallest' = Max({tallest, to})
    /\ reorgs' = reorgs + 1
    /\ abandoned' = IF FlipBacks THEN chain ELSE <<>>

\* The branch the last reorg replaced becomes canonical again.
FlipBack ==
    /\ FlipBacks
    /\ abandoned # <<>>
    /\ reorgs < MaxReorgs
    /\ chain' = abandoned
    /\ abandoned' = chain
    /\ reorgs' = reorgs + 1
    /\ UNCHANGED tallest

ChainStep == Mine \/ Reorg \/ FlipBack

-----------------------------------------------------------------------------
(* The EthClient calls.  Each answers from one state of the chain. *)

\* eth_getBlockByNumber of a block the chain does not have: the batch call
\* reports the error per element, nobody reads it, and what is left is the
\* hash of an empty header, the same for every number.
ZeroHash == [number |-> 0, fork |-> 0, logs |-> {"none"}]

HeaderHash(n) == IF Exists(n) THEN BlockAt(n) ELSE ZeroHash

\* eth_getLogs: the blocks of the range in which an address of the filter logged.
BlocksWithLogs(from, to, filter) ==
    { n \in from .. to : Exists(n) /\ BlockAt(n).logs \cap filter # {} }

=============================================================================
