---------------------------- MODULE PollerLemmas ----------------------------
(***************************************************************************)
(* Lemmas about the chain and about one Poll that do not depend on who     *)
(* calls it: what the node answers, how a step of Poll ends, what Poll     *)
(* returns and tracks when it finishes.  still tells whether the chain has *)
(* stood still since Poll was called.                                      *)
(***************************************************************************)
EXTENDS Poller, NumberProofs, FiniteSetTheorems, SequenceTheorems

-----------------------------------------------------------------------------
(* What is known of the chain and of a Poll *)

\* A block stands at its own number, and its fork has started.
BranchOK(branch) ==
    /\ branch \in Seq(Blocks)
    /\ \A i \in 1 .. Len(branch) : branch[i].number = i - 1 /\ branch[i].fork <= reorgs

\* Unless an abandoned branch comes back, the newest fork has the tip.
ChainOK ==
    /\ BranchOK(chain)
    /\ Len(chain) > 0
    /\ abandoned # <<>> => BranchOK(abandoned)
    /\ reorgs \in 0 .. MaxReorgs
    /\ ~FlipBacks => chain[Len(chain)].fork = reorgs

\* The arguments of Poll are block numbers.
ArgsOK == args \in [from : Nat, to : Nat]

\* A tracker maps block numbers to a hash and logs.
TrackerOK == tracker # NoTracker => BlockMap(tracker)

\* What a Poll has fetched is within its range, and a block found by its logs has some.
FetchedOK ==
    /\ BlockMap(pollResults)
    /\ ppc \in {"headers", "missing"} => DOMAIN pollResults \subseteq args.from .. args.to
    /\ ppc = "headers" => \A n \in DOMAIN pollResults : pollResults[n].logs # {}
    /\ ppc = "missing" /\ policy = "Fast" =>
         \A n \in DOMAIN pollResults : pollResults[n].logs # {}
    /\ ppc = "logs" => /\ policy = "Expensive"
                       /\ headers \in [args.from .. args.to -> Blocks \cup {ZeroHash}]

\* The logs the chain has for the filter at a height
LogsAt(n) == IF Exists(n) THEN BlockAt(n).logs \cap filter ELSE {}

\* The blocks are those of the chain, with the logs it has.
Canonical(blocks) ==
    \A n \in DOMAIN blocks : blocks[n].hash = HeaderHash(n) /\ blocks[n].logs = LogsAt(n)

\* What was fetched is what the chain has.
StillFetch ==
    /\ ppc = "headers" => pollResults = collectLogs
    /\ ppc = "logs" => headers = getHeadersByNumbers(args.from .. args.to)
    /\ ppc = "missing" => /\ Canonical(pollResults)
                          /\ BlocksWithLogs(args.from, args.to, filter)
                               \subseteq DOMAIN pollResults

-----------------------------------------------------------------------------
(* The chain *)

\* A branch is a sequence of blocks of one fork with consecutive numbers.
LEMMA BranchesOK ==
    ASSUME NEW fork \in 0 .. MaxReorgs, NEW from \in Nat, NEW to \in Nat, from <= to + 1,
           NEW branch \in Branches(fork, from, to)
    PROVE  /\ branch \in Seq(Blocks)
           /\ Len(branch) = to - from + 1
           /\ \A i \in 1 .. Len(branch) :
                branch[i].number = from + i - 1 /\ branch[i].fork = fork
<1>1. PICK logs \in [from .. to -> SUBSET Addresses] :
        branch = [i \in 1 .. to - from + 1 |->
                    [number |-> from + i - 1, fork |-> fork, logs |-> logs[from + i - 1]]]
  BY DEF Branches
<1>2. \A i \in 1 .. to - from + 1 :
        /\ branch[i] \in Blocks
        /\ branch[i].number = from + i - 1
        /\ branch[i].fork = fork
  BY <1>1 DEF Blocks
<1>3. to - from + 1 \in Nat /\ branch \in [1 .. to - from + 1 -> Blocks]
  <2> DEFINE len == to - from + 1
  <2>1. DOMAIN branch = 1 .. len /\ branch = [i \in 1 .. len |-> branch[i]]
    BY <1>1
  <2> HIDE DEF len
  <2>2. branch \in [1 .. len -> Blocks]
    BY <1>2, <2>1, Zenon DEF len
  <2> QED
    BY <2>2 DEF len
<1>4. branch \in Seq(Blocks) /\ Len(branch) = to - from + 1
  BY <1>3
<1> QED
  BY <1>2, <1>4

\* What is known of a single block of a branch
LEMMA BranchBlocks ==
    ASSUME NEW branch, BranchOK(branch), NEW i \in 1 .. Len(branch), reorgs \in Nat
    PROVE  /\ branch[i] \in Blocks
           /\ branch[i].number = i - 1
           /\ branch[i].fork \in Nat
           /\ branch[i].fork <= reorgs
<1>1. branch[i] \in Blocks
  BY ElementOfSeq DEF BranchOK
<1>2. branch[i].fork \in Nat
  BY <1>1, ChainAssumption DEF Blocks
<1> QED
  BY <1>1, <1>2 DEF BranchOK

\* The first chain has the blocks of fork 0.
LEMMA ChainInitOK == ChainInit => ChainOK
<1> SUFFICES ASSUME ChainInit
             PROVE  ChainOK
  OBVIOUS
<1>1. chain \in Branches(0, 0, InitHeight) /\ reorgs = 0 /\ abandoned = <<>>
  BY DEF ChainInit
<1>2. /\ chain \in Seq(Blocks)
      /\ Len(chain) = InitHeight + 1
      /\ \A i \in 1 .. Len(chain) : chain[i].number = i - 1 /\ chain[i].fork = 0
  BY <1>1, BranchesOK, ChainAssumption
<1> QED
  BY <1>1, <1>2, ChainAssumption DEF ChainOK, BranchOK

\* The first blocks of the chain, and a branch on top of them
Extended(cut, branch) == SubSeq(chain, 1, cut) \o branch

\* A branch put on a part of the chain makes a chain.
LEMMA ExtendedOK ==
    ASSUME ChainOK, NEW cut \in 1 .. Len(chain), NEW to \in Nat, cut <= to,
           NEW fork \in 0 .. MaxReorgs, NEW branch \in Branches(fork, cut, to)
    PROVE  /\ Extended(cut, branch) \in Seq(Blocks)
           /\ Len(Extended(cut, branch)) = to + 1
           /\ \A i \in 1 .. cut : Extended(cut, branch)[i] = chain[i]
           /\ \A i \in cut + 1 .. to + 1 :
                /\ Extended(cut, branch)[i].number = i - 1
                /\ Extended(cut, branch)[i].fork = fork
<1> DEFINE c == Extended(cut, branch)
<1>1. chain \in Seq(Blocks) /\ Len(chain) \in Nat
  BY DEF ChainOK, BranchOK
<1>2. /\ SubSeq(chain, 1, cut) \in Seq(Blocks)
      /\ Len(SubSeq(chain, 1, cut)) = cut
      /\ \A i \in 1 .. cut : SubSeq(chain, 1, cut)[i] = chain[i]
  BY <1>1, SubSeqProperties, ElementOfSeq
<1>3. /\ branch \in Seq(Blocks)
      /\ Len(branch) = to - cut + 1
      /\ \A i \in 1 .. Len(branch) : branch[i].number = cut + i - 1 /\ branch[i].fork = fork
  <2>1. cut \in Nat /\ cut <= to + 1
    BY <1>1
  <2> QED
    BY <2>1, BranchesOK, ZenonT(60)
<1>4. /\ c \in Seq(Blocks)
      /\ Len(c) = to + 1
      /\ \A i \in 1 .. to + 1 : c[i] = IF i <= cut THEN chain[i] ELSE branch[i - cut]
  <2>1. /\ SubSeq(chain, 1, cut) \o branch \in Seq(Blocks)
        /\ Len(SubSeq(chain, 1, cut) \o branch) = Len(SubSeq(chain, 1, cut)) + Len(branch)
        /\ \A i \in 1 .. Len(SubSeq(chain, 1, cut)) + Len(branch) :
             (SubSeq(chain, 1, cut) \o branch)[i]
               = IF i <= Len(SubSeq(chain, 1, cut)) THEN SubSeq(chain, 1, cut)[i]
                 ELSE branch[i - Len(SubSeq(chain, 1, cut))]
    BY <1>2, <1>3, ConcatProperties
  <2> QED
    BY <1>2, <1>3, <2>1 DEF Extended
<1>5. \A i \in cut + 1 .. to + 1 : c[i].number = i - 1 /\ c[i].fork = fork
  <2> SUFFICES ASSUME NEW i \in cut + 1 .. to + 1
               PROVE  c[i].number = i - 1 /\ c[i].fork = fork
    OBVIOUS
  <2>1. i - cut \in 1 .. Len(branch) /\ c[i] = branch[i - cut]
    BY <1>3, <1>4, SMTT(30)
  <2> QED
    BY <1>3, <2>1
<1> QED
  BY <1>4, <1>5

\* Mining is putting a branch of one block on the whole chain.
LEMMA MineExtends ==
    ASSUME ChainOK, NEW next, next = BlockNumber + 1,
           NEW block \in Branches(BlockAt(BlockNumber).fork, next, next)
    PROVE  /\ next \in 1 .. Len(chain) /\ next = Len(chain)
           /\ BlockAt(BlockNumber).fork = chain[Len(chain)].fork
           /\ BlockAt(BlockNumber).fork \in 0 .. MaxReorgs
           /\ chain \o block = Extended(next, block)
<1>1. chain \in Seq(Blocks) /\ Len(chain) \in Nat /\ Len(chain) > 0
  BY DEF ChainOK, BranchOK
<1>2. next = Len(chain) /\ BlockAt(BlockNumber) = chain[Len(chain)]
  BY <1>1 DEF BlockNumber, BlockAt
<1>3. chain[Len(chain)] \in Blocks
  BY <1>1, ElementOfSeq
<1>4. chain[Len(chain)].fork \in 0 .. MaxReorgs
  BY <1>3 DEF Blocks
<1>5. SubSeq(chain, 1, Len(chain)) = chain
  BY <1>1, SubSeqFull
<1>6. SubSeq(chain, 1, next) = chain
  BY <1>2, <1>5
<1>7. next \in 1 .. Len(chain)
  BY <1>1, <1>2
<1> QED
  BY <1>2, <1>4, <1>6, <1>7 DEF Extended

\* The chain changes as chains do: a block that is not where it was has been
\* replaced by a reorg, and a block that was not there belongs to the newest fork,
\* unless an abandoned branch comes back.
ChainChange ==
    /\ reorgs <= reorgs'
    /\ \A i \in 1 .. Len(chain) :
         (i \in 1 .. Len(chain') /\ chain'[i] = chain[i]) \/ reorgs < reorgs'
    /\ ~FlipBacks => \A i \in 1 .. Len(chain') :
         (i \in 1 .. Len(chain) /\ chain'[i] = chain[i]) \/ chain'[i].fork = reorgs'

\* Every step of the chain is such a change, and leaves a chain.
LEMMA ChainStepOK ==
    ASSUME ChainOK, ChainStep
    PROVE  ChainOK' /\ ChainChange
<1>0. /\ chain \in Seq(Blocks) /\ Len(chain) \in Nat /\ Len(chain) > 0
      /\ \A i \in 1 .. Len(chain) : chain[i].number = i - 1 /\ chain[i].fork <= reorgs
      /\ \A i \in 1 .. Len(chain) : chain[i].fork \in Nat
      /\ reorgs \in Nat /\ reorgs <= MaxReorgs /\ MaxReorgs \in Nat
  BY ChainAssumption, BranchBlocks DEF ChainOK, BranchOK
<1>1. CASE Mine
  <2> DEFINE fork == BlockAt(BlockNumber).fork
             next == BlockNumber + 1
  <2>1. PICK block \in Branches(fork, next, next) : chain' = chain \o block
    BY <1>1 DEF Mine
  <2>2. /\ next \in 1 .. Len(chain) /\ next = Len(chain)
        /\ fork = chain[Len(chain)].fork
        /\ fork \in 0 .. MaxReorgs
        /\ chain' = Extended(next, block)
    BY <2>1, MineExtends
  <2>3. UNCHANGED <<reorgs, abandoned>>
    BY <1>1 DEF Mine
  <2> HIDE DEF fork, next
  <2>4. /\ chain' \in Seq(Blocks)
        /\ Len(chain') = Len(chain) + 1
        /\ \A i \in 1 .. Len(chain) : chain'[i] = chain[i]
        /\ \A i \in Len(chain) + 1 .. Len(chain') :
             chain'[i].number = i - 1 /\ chain'[i].fork = fork
    BY <1>0, <2>1, <2>2, ExtendedOK
  <2>5. fork <= reorgs /\ (~FlipBacks => fork = reorgs)
    BY <1>0, <2>2 DEF ChainOK
  <2>6. \A i \in 1 .. Len(chain') :
          /\ chain'[i].number = i - 1
          /\ chain'[i].fork <= reorgs
          /\ \/ i \in 1 .. Len(chain) /\ chain'[i] = chain[i]
             \/ i = Len(chain') /\ chain'[i].fork = fork
    BY <1>0, <2>2, <2>4, <2>5
  <2>7. ChainOK'
    BY <1>0, <2>3, <2>4, <2>5, <2>6 DEF ChainOK, BranchOK
  <2> QED
    BY <1>0, <2>3, <2>4, <2>5, <2>6, <2>7 DEF ChainChange
<1>2. CASE Reorg
  <2>0. PICK cut \in 1 .. BlockNumber : \E to \in cut .. BlockNumber + 1 :
          \E branch \in Branches(reorgs + 1, cut, to) : chain' = Extended(cut, branch)
    BY <1>2 DEF Reorg, Extended
  <2>1. PICK to \in cut .. BlockNumber + 1 :
          \E branch \in Branches(reorgs + 1, cut, to) : chain' = Extended(cut, branch)
    BY <2>0
  <2>2. /\ reorgs < MaxReorgs /\ reorgs' = reorgs + 1
        /\ abandoned' = IF FlipBacks THEN chain ELSE <<>>
    BY <1>2 DEF Reorg
  <2>3. cut \in 1 .. Len(chain) /\ to \in Nat /\ cut <= to /\ reorgs + 1 \in 0 .. MaxReorgs
    BY <1>0, <2>1, <2>2 DEF BlockNumber
  <2>4. /\ chain' \in Seq(Blocks)
        /\ Len(chain') = to + 1
        /\ \A i \in 1 .. cut : chain'[i] = chain[i]
        /\ \A i \in cut + 1 .. Len(chain') :
             chain'[i].number = i - 1 /\ chain'[i].fork = reorgs + 1
    <3>1. PICK branch \in Branches(reorgs + 1, cut, to) : chain' = Extended(cut, branch)
      BY <2>1
    <3> DEFINE new == Extended(cut, branch)
               fork == reorgs + 1
    <3>2. /\ ChainOK /\ cut \in 1 .. Len(chain) /\ to \in Nat /\ cut <= to
          /\ fork \in 0 .. MaxReorgs /\ branch \in Branches(fork, cut, to)
      BY <2>3, <3>1
    <3> HIDE DEF fork
    <3>3. /\ new \in Seq(Blocks)
          /\ Len(new) = to + 1
          /\ \A i \in 1 .. cut : new[i] = chain[i]
          /\ \A i \in cut + 1 .. to + 1 : /\ new[i].number = i - 1
                                        /\ new[i].fork = fork
      BY <3>2, ExtendedOK, Zenon
    <3> HIDE DEF new
    <3>4. chain' = new
      BY <3>1 DEF new
    <3> QED
      BY <3>3, <3>4 DEF fork
  <2>5. \A i \in 1 .. Len(chain') :
          /\ chain'[i].number = i - 1
          /\ chain'[i].fork <= reorgs'
          /\ (i \in 1 .. Len(chain) /\ chain'[i] = chain[i]) \/ chain'[i].fork = reorgs'
    <3> SUFFICES ASSUME NEW i \in 1 .. Len(chain')
                 PROVE  /\ chain'[i].number = i - 1
                        /\ chain'[i].fork <= reorgs'
                        /\ \/ i \in 1 .. Len(chain) /\ chain'[i] = chain[i]
                           \/ chain'[i].fork = reorgs'
      OBVIOUS
    <3>1. CASE i <= cut
      <4>1. i \in 1 .. cut /\ i \in 1 .. Len(chain)
        BY <2>3, <2>4, <3>1
      <4>2. chain'[i] = chain[i]
        BY <2>4, <4>1
      <4> QED
        BY <1>0, <2>2, <4>1, <4>2
    <3>2. CASE i > cut
      <4>1. i \in cut + 1 .. Len(chain')
        BY <2>3, <2>4, <3>2
      <4> QED
        BY <1>0, <2>2, <2>4, <4>1
    <3> QED
      BY <2>3, <2>4, <3>1, <3>2
  <2>6. chain'[Len(chain')].fork = reorgs'
    BY <1>0, <2>2, <2>3, <2>4
  <2>7. \A i \in 1 .. Len(chain) : chain[i].fork <= reorgs'
    BY <1>0, <2>2
  <2>8. ChainOK'
    BY <1>0, <2>2, <2>3, <2>4, <2>5, <2>6, <2>7 DEF ChainOK, BranchOK
  <2> QED
    BY <1>0, <2>2, <2>5, <2>8 DEF ChainChange
<1>3. CASE FlipBack
  <2>1. /\ FlipBacks /\ abandoned # <<>> /\ reorgs < MaxReorgs
        /\ chain' = abandoned /\ abandoned' = chain /\ reorgs' = reorgs + 1
    BY <1>3 DEF FlipBack
  <2>2. /\ abandoned \in Seq(Blocks)
        /\ \A i \in 1 .. Len(abandoned) :
             abandoned[i].number = i - 1 /\ abandoned[i].fork <= reorgs
        /\ \A i \in 1 .. Len(abandoned) : abandoned[i].fork \in Nat
    BY <1>0, <2>1, BranchBlocks DEF ChainOK, BranchOK
  <2>3. Len(abandoned) > 0
    BY <2>1, <2>2, EmptySeq
  <2>4. /\ \A i \in 1 .. Len(abandoned) : abandoned[i].fork <= reorgs + 1
        /\ \A i \in 1 .. Len(chain) : chain[i].fork <= reorgs + 1
    BY <1>0, <2>2
  <2>5. ChainOK'
    BY <1>0, <2>1, <2>2, <2>3, <2>4 DEF ChainOK, BranchOK
  <2> QED
    BY <1>0, <2>1, <2>5 DEF ChainChange
<1> QED
  BY <1>1, <1>2, <1>3 DEF ChainStep

\* The chain is as good as it was.
LEMMA ChainStays ==
    ASSUME ChainOK, UNCHANGED <<chain, reorgs, abandoned>>
    PROVE  ChainOK'
BY DEF ChainOK, BranchOK

-----------------------------------------------------------------------------
(* What the node answers, and what Poll makes of it *)

\* The block at a height that exists, and the header the node answers
LEMMA BlockAtOK ==
    ASSUME ChainOK, NEW n \in Nat
    PROVE  /\ Exists(n) => BlockAt(n) \in Blocks /\ BlockAt(n).number = n
           /\ HeaderHash(n) \in Blocks \cup {ZeroHash}
<1>1. Len(chain) \in Nat /\ BranchOK(chain) /\ reorgs \in Nat
  BY ChainAssumption DEF ChainOK, BranchOK
<1>2. ASSUME Exists(n)
      PROVE  BlockAt(n) \in Blocks /\ BlockAt(n).number = n
  <2>1. n + 1 \in 1 .. Len(chain)
    BY <1>1, <1>2 DEF Exists, BlockNumber
  <2> QED
    BY <1>1, <2>1, BranchBlocks DEF BlockAt
<1> QED
  BY <1>2 DEF HeaderHash

\* FilterLogs answers with the blocks of the range that have logs, and all of them.
LEMMA CollectLogsOK ==
    ASSUME ChainOK, ArgsOK
    PROVE  /\ DOMAIN collectLogs = BlocksWithLogs(args.from, args.to, filter)
           /\ DOMAIN collectLogs \subseteq args.from .. args.to
           /\ BlockMap(collectLogs)
           /\ Canonical(collectLogs)
           /\ \A n \in DOMAIN collectLogs : collectLogs[n].logs # {}
<1>1. args.from \in Nat /\ args.to \in Nat
  BY DEF ArgsOK
<1>2. DOMAIN collectLogs = BlocksWithLogs(args.from, args.to, filter)
  BY DEF collectLogs
<1>3. ASSUME NEW n \in DOMAIN collectLogs
      PROVE  /\ n \in args.from .. args.to
             /\ n \in Nat
             /\ Exists(n)
             /\ BlockAt(n) \in Blocks
             /\ collectLogs[n] = [hash |-> BlockAt(n), logs |-> BlockAt(n).logs \cap filter]
             /\ BlockAt(n).logs \cap filter # {}
  <2>1. n \in args.from .. args.to /\ Exists(n) /\ BlockAt(n).logs \cap filter # {}
    BY <1>2 DEF BlocksWithLogs
  <2>2. n \in Nat
    BY <1>1, <2>1
  <2>3. BlockAt(n) \in Blocks
    BY <2>1, <2>2, BlockAtOK
  <2> QED
    BY <1>2, <2>1, <2>2, <2>3 DEF collectLogs
<1>4. BlockMap(collectLogs)
  <2>1. \A n \in DOMAIN collectLogs : BlockAt(n).logs \subseteq Addresses
    BY <1>3 DEF Blocks
  <2> QED
    BY <1>3, <2>1 DEF BlockMap, BlockInfo
<1>5. Canonical(collectLogs)
  BY <1>3 DEF Canonical, HeaderHash, LogsAt
<1> QED
  BY <1>2, <1>3, <1>4, <1>5

\* Headers are answered for the numbers asked for.
LEMMA HeadersOK ==
    ASSUME ChainOK, ArgsOK, NEW numbers \in SUBSET (args.from .. args.to)
    PROVE  /\ DOMAIN getHeadersByNumbers(numbers) = numbers
           /\ getHeadersByNumbers(numbers) \in [numbers -> Blocks \cup {ZeroHash}]
           /\ \A n \in numbers : getHeadersByNumbers(numbers)[n] = HeaderHash(n)
<1>1. numbers \subseteq Nat
  BY DEF ArgsOK
<1>2. \A n \in numbers : HeaderHash(n) \in Blocks \cup {ZeroHash}
  BY <1>1, BlockAtOK
<1> QED
  BY <1>2 DEF getHeadersByNumbers

\* Headers add the blocks that the results lack, without logs.
LEMMA CollectHeadersOK ==
    ASSUME NEW results, NEW heads
    PROVE  /\ DOMAIN collectHeaders(results, heads) = DOMAIN results \cup DOMAIN heads
           /\ \A n \in DOMAIN results : collectHeaders(results, heads)[n] = results[n]
           /\ \A n \in DOMAIN heads \ DOMAIN results :
                collectHeaders(results, heads)[n] = [hash |-> heads[n], logs |-> {}]
BY DEF collectHeaders, Overwrite

\* The results that Poll works on: blocks of its range, and while the chain stands
\* still its canonical blocks, among them all that have logs.
ResultsOK(results, still) ==
    /\ BlockMap(results)
    /\ DOMAIN results \subseteq args.from .. args.to
    /\ still => Canonical(results)
    /\ still => BlocksWithLogs(args.from, args.to, filter) \subseteq DOMAIN results

\* Adding headers keeps the results so.
LEMMA MergedOK ==
    ASSUME NEW still \in BOOLEAN, ChainOK, ArgsOK, NEW results, ResultsOK(results, still),
           NEW heads,
           DOMAIN heads \subseteq args.from .. args.to,
           \A n \in DOMAIN heads : heads[n] \in Blocks \cup {ZeroHash},
           still => \A n \in DOMAIN heads : heads[n] = HeaderHash(n)
    PROVE  ResultsOK(collectHeaders(results, heads), still)
<1> DEFINE merged == collectHeaders(results, heads)
<1>1. /\ DOMAIN merged = DOMAIN results \cup DOMAIN heads
      /\ \A n \in DOMAIN results : merged[n] = results[n]
      /\ \A n \in DOMAIN heads \ DOMAIN results : merged[n] = [hash |-> heads[n], logs |-> {}]
  BY CollectHeadersOK, ZenonT(60)
<1> HIDE DEF merged
<1>2. BlockMap(merged)
  <2>1. DOMAIN merged \subseteq Nat
    BY <1>1 DEF ArgsOK, ResultsOK
  <2>2. \A n \in DOMAIN merged : merged[n] \in BlockInfo
    BY <1>1 DEF ResultsOK, BlockMap, BlockInfo
  <2> QED
    BY <2>1, <2>2 DEF BlockMap
<1>3. ASSUME still
      PROVE  Canonical(merged)
  <2>1. \A n \in DOMAIN heads \ DOMAIN results : LogsAt(n) = {}
    BY <1>3 DEF ResultsOK, BlocksWithLogs, LogsAt
  <2> SUFFICES ASSUME NEW n \in DOMAIN merged
               PROVE  merged[n].hash = HeaderHash(n) /\ merged[n].logs = LogsAt(n)
    BY DEF Canonical
  <2>2. CASE n \in DOMAIN results
    BY <1>1, <1>3, <2>2 DEF Canonical, ResultsOK
  <2>3. CASE n \in DOMAIN heads \ DOMAIN results
    BY <1>1, <1>3, <2>1, <2>3
  <2> QED
    BY <1>1, <2>2, <2>3
<1>4. ResultsOK(merged, still)
  BY <1>1, <1>2, <1>3 DEF ResultsOK
<1> QED
  BY <1>4 DEF merged

\* LastGoodBlock is a block number: it never takes the least or the greatest of nothing.
LEMMA LastGoodOK ==
    ASSUME NEW r, r.from \in Nat, r.to \in Nat,
           DOMAIN r.good \subseteq r.from .. r.to, DOMAIN r.reorged \subseteq DOMAIN r.good
    PROVE  LastGoodBlock(r) \in Nat
<1>1. \A m \in Nat : Sub64(m, 1) \in Nat
  BY HalfAssumption DEF Sub64
<1>2. DOMAIN r.good \in SUBSET (0 .. r.to) /\ DOMAIN r.reorged \in SUBSET Nat
  OBVIOUS
<1>3. DOMAIN r.good # {} => Max(DOMAIN r.good) \in Nat
  <2>1. ASSUME DOMAIN r.good # {}
        PROVE  Max(DOMAIN r.good) \in DOMAIN r.good
    BY <1>2, <2>1, MaxOfBounded
  <2>2. DOMAIN r.good \subseteq Nat
    BY <1>2
  <2> QED
    BY <2>1, <2>2
<1>4. DOMAIN r.reorged # {} => Min(DOMAIN r.reorged) \in Nat
  BY <1>2, MinOfNaturals
<1> QED
  BY <1>1, <1>3, <1>4 DEF LastGoodBlock

-----------------------------------------------------------------------------
(* How a step of Poll ends *)

\* PolicyFast only has blocks without logs where headers of missing blocks were fetched.
FastOK(results, missing) ==
    policy = "Fast" => \A n \in DOMAIN results \ missing : results[n].logs # {}

\* Hashes differ only when the chain has changed meanwhile.
Fails(still) ==
    \/ ~still /\ ReturnError("hashesDiffer")
    \/ policy = "ExpensiveBlock" /\ ReturnError("notImplemented")

\* From block 0 the loop that looks for missing blocks never ends.
Hangs ==
    /\ args.from = 0
    /\ ppc' = "hung"
    /\ UNCHANGED <<pollResults, headers, tracker, lastRecorded, ret>>

\* Missing blocks remain to be fetched.
GoesOn(still) ==
    \E results :
        /\ ResultsOK(results, still) /\ FastOK(results, {})
        /\ ppc' = "missing"
        /\ pollResults' = results
        /\ UNCHANGED <<tracker, lastRecorded, ret>>

\* Nothing is missing, and the tracker is brought up to date.
Finishes(still) ==
    \E results, missing :
        /\ ResultsOK(results, still) /\ FastOK(results, missing)
        /\ blocksMissing(results) = {}
        /\ FinishPoll(results, missing)

\* What Poll does when logs and headers are there: it fails, hangs, goes on to the
\* missing blocks or finishes.
LEMMA CollectCases ==
    ASSUME NEW still \in BOOLEAN, NEW results, NEW heads, Collect(results, heads),
           still => ~hashesDiffer(results, heads),
           ResultsOK(collectHeaders(results, heads), still),
           FastOK(collectHeaders(results, heads), {})
    PROVE  Fails(still) \/ Hangs \/ GoesOn(still) \/ Finishes(still)
<1> DEFINE merged == collectHeaders(results, heads)
<1> HIDE DEF merged
<1>1. CASE hashesDiffer(results, heads)
  BY <1>1 DEF Collect, Fails
<1>2. CASE ~hashesDiffer(results, heads)
  <2>1. PollMissing(merged)
    BY <1>2 DEF Collect, merged
  <2>2. CASE blocksMissing(merged) = {} /\ FinishPoll(merged, {})
    BY <2>2 DEF Finishes, merged
  <2>3. CASE /\ args.from = 0
             /\ ppc' = "hung"
             /\ UNCHANGED <<pollResults, headers, tracker, lastRecorded, ret>>
    BY <2>3 DEF Hangs
  <2>4. CASE /\ ppc' = "missing"
             /\ pollResults' = merged
             /\ UNCHANGED <<tracker, lastRecorded, ret>>
    BY <2>4 DEF GoesOn, merged
  <2> QED
    BY <2>1, <2>2, <2>3, <2>4 DEF PollMissing
<1> QED
  BY <1>1, <1>2

\* Every step of Poll fetches something more, fails, hangs or finishes with results.
LEMMA StepCases ==
    ASSUME NEW still \in BOOLEAN, ChainOK, ArgsOK, FetchedOK, still => StillFetch,
           PollStep
    PROVE  /\ UNCHANGED <<args, doReorg, policy, filter>>
           /\ ppc # "idle"
           /\ FilterLogs \/ FetchHeadersFirst \/ Fails(still) \/ Hangs \/ GoesOn(still) \/ Finishes(still)
<1>1. CASE FilterLogs \/ FetchHeadersFirst
  BY <1>1 DEF FilterLogs, FetchHeadersFirst
<1>2. CASE NotImplemented
  BY <1>2 DEF NotImplemented, Fails
<1>3. CASE FetchHeaders
  <2> DEFINE numbers == IF policy = "Expensive" THEN args.from .. args.to
                        ELSE DOMAIN pollResults
             heads   == getHeadersByNumbers(numbers)
             merged  == collectHeaders(pollResults, heads)
  <2>1. ppc = "headers" /\ Collect(pollResults, heads) /\ UNCHANGED <<args, doReorg, policy, filter>>
    BY <1>3 DEF FetchHeaders
  <2>2. numbers \in SUBSET (args.from .. args.to)
    BY <2>1 DEF FetchedOK
  <2>3. /\ DOMAIN heads = numbers
        /\ \A n \in numbers : heads[n] \in Blocks \cup {ZeroHash} /\ heads[n] = HeaderHash(n)
    BY <2>2, HeadersOK
  <2>4. ResultsOK(pollResults, still)
    BY <2>1, CollectLogsOK DEF ResultsOK, FetchedOK, StillFetch
  <2> HIDE DEF heads
  <2>5. ResultsOK(merged, still)
    BY <2>2, <2>3, <2>4, MergedOK
  <2>6. FastOK(merged, {})
    <3> SUFFICES ASSUME policy = "Fast", NEW n \in DOMAIN merged
                 PROVE  merged[n].logs # {}
      BY DEF FastOK
    <3>1. numbers = DOMAIN pollResults
      OBVIOUS
    <3>2. DOMAIN heads = DOMAIN pollResults
      BY <2>3, <3>1
    <3>3. /\ DOMAIN merged = DOMAIN pollResults \cup DOMAIN heads
          /\ \A m \in DOMAIN pollResults : merged[m] = pollResults[m]
      BY CollectHeadersOK
    <3> HIDE DEF merged
    <3>4. n \in DOMAIN pollResults /\ merged[n] = pollResults[n]
      BY <3>2, <3>3
    <3> QED
      BY <2>1, <3>4 DEF FetchedOK
  <2>7. still => ~hashesDiffer(pollResults, heads)
    BY <2>3, <2>4 DEF hashesDiffer, ResultsOK, Canonical
  <2> QED
    BY <2>1, <2>5, <2>6, <2>7, CollectCases
<1>4. CASE FilterLogsLast
  <2> DEFINE merged == collectHeaders(collectLogs, headers)
  <2>1. ppc = "logs" /\ Collect(collectLogs, headers) /\ UNCHANGED <<args, doReorg, policy, filter>>
    BY <1>4 DEF FilterLogsLast
  <2>2. policy = "Expensive" /\ headers \in [args.from .. args.to -> Blocks \cup {ZeroHash}]
    BY <2>1 DEF FetchedOK
  <2>3. still => \A n \in DOMAIN headers : headers[n] = HeaderHash(n)
    BY <2>1, <2>2 DEF StillFetch, getHeadersByNumbers
  <2>4. ResultsOK(collectLogs, still)
    BY CollectLogsOK DEF ResultsOK
  <2>5. ResultsOK(merged, still)
    BY <2>2, <2>3, <2>4, MergedOK
  <2>6. FastOK(merged, {})
    BY <2>2 DEF FastOK
  <2>7. still => ~hashesDiffer(collectLogs, headers)
    BY <2>3, <2>4 DEF hashesDiffer, ResultsOK, Canonical
  <2> QED
    BY <2>1, <2>5, <2>6, <2>7, CollectCases
<1>5. CASE FetchMissing
  <2> DEFINE missing == blocksMissing(pollResults)
             heads   == getHeadersByNumbers(missing)
             merged  == collectHeaders(pollResults, heads)
  <2>1. /\ ppc = "missing" /\ FinishPoll(merged, missing)
        /\ UNCHANGED <<args, doReorg, policy, filter>>
    BY <1>5 DEF FetchMissing
  <2>2. missing \in SUBSET (args.from .. args.to)
    BY DEF blocksMissing
  <2>3. /\ DOMAIN heads = missing
        /\ \A n \in missing : heads[n] \in Blocks \cup {ZeroHash} /\ heads[n] = HeaderHash(n)
    BY <2>2, HeadersOK
  <2>4. ResultsOK(pollResults, still)
    BY <2>1 DEF ResultsOK, FetchedOK, StillFetch
  <2> HIDE DEF heads
  <2>5. ResultsOK(merged, still)
    BY <2>2, <2>3, <2>4, MergedOK
  <2>6. /\ DOMAIN merged = DOMAIN pollResults \cup missing
        /\ \A n \in DOMAIN pollResults : merged[n] = pollResults[n]
    BY <2>3, CollectHeadersOK
  <2>7. FastOK(merged, missing)
    BY <2>1, <2>6 DEF FastOK, FetchedOK
  <2>8. blocksMissing(merged) = {}
    BY <2>6 DEF blocksMissing
  <2> HIDE DEF merged, missing
  <2>9. Finishes(still)
    BY <2>1, <2>5, <2>7, <2>8 DEF Finishes
  <2> QED
    BY <2>1, <2>9
<1> QED
  BY <1>1, <1>2, <1>3, <1>4, <1>5 DEF PollStep

\* What a step of Poll that goes on has fetched is as it should be.
LEMMA FetchOn ==
    ASSUME NEW still \in BOOLEAN, ChainOK, ArgsOK, FetchedOK,
           UNCHANGED <<chain, args, policy, filter>>,
           FilterLogs \/ FetchHeadersFirst \/ GoesOn(still)
    PROVE  FetchedOK' /\ (still => StillFetch')
<1>0. /\ \A n : HeaderHash(n)' = HeaderHash(n) /\ LogsAt(n)' = LogsAt(n)
      /\ BlocksWithLogs(args.from, args.to, filter)' = BlocksWithLogs(args.from, args.to, filter)
      /\ collectLogs' = collectLogs
      /\ getHeadersByNumbers(args.from .. args.to)' = getHeadersByNumbers(args.from .. args.to)
  BY DEF HeaderHash, LogsAt, Exists, BlockAt, BlockNumber, BlocksWithLogs, collectLogs,
         getHeadersByNumbers
<1>1. CASE FilterLogs
  <2>1. ppc' = "headers" /\ pollResults' = collectLogs
    BY <1>1 DEF FilterLogs
  <2>2. /\ DOMAIN collectLogs \subseteq args.from .. args.to
        /\ BlockMap(collectLogs)
        /\ \A n \in DOMAIN collectLogs : collectLogs[n].logs # {}
    BY CollectLogsOK
  <2> QED
    BY <1>0, <2>1, <2>2 DEF FetchedOK, StillFetch
<1>2. CASE FetchHeadersFirst
  <2>1. /\ ppc' = "logs" /\ policy = "Expensive" /\ UNCHANGED pollResults
        /\ headers' = getHeadersByNumbers(args.from .. args.to)
    BY <1>2 DEF FetchHeadersFirst
  <2>2. getHeadersByNumbers(args.from .. args.to)
          \in [args.from .. args.to -> Blocks \cup {ZeroHash}]
    BY HeadersOK
  <2> QED
    BY <1>0, <2>1, <2>2 DEF FetchedOK, StillFetch
<1>3. CASE GoesOn(still)
  <2>1. /\ ResultsOK(pollResults', still) /\ FastOK(pollResults', {})
        /\ ppc' = "missing"
    BY <1>3 DEF GoesOn
  <2>2. /\ BlockMap(pollResults')
        /\ DOMAIN pollResults' \subseteq args.from .. args.to
        /\ still => Canonical(pollResults')
        /\ still => BlocksWithLogs(args.from, args.to, filter) \subseteq DOMAIN pollResults'
    BY <2>1 DEF ResultsOK
  <2>3. FetchedOK'
    BY <2>1, <2>2 DEF FetchedOK, FastOK
  <2>4. still => StillFetch'
    BY <1>0, <2>1, <2>2 DEF StillFetch, Canonical
  <2> QED
    BY <2>3, <2>4
<1> QED
  BY <1>1, <1>2, <1>3

-----------------------------------------------------------------------------
(* The end of Poll *)

\* A map of block numbers is not nil.
LEMMA MapIsTracker ==
    ASSUME NEW t, DOMAIN t \subseteq Nat
    PROVE  t # NoTracker
<1>1. -1 \in DOMAIN NoTracker /\ -1 \notin Nat
  BY DEF NoTracker
<1> QED
  BY <1>1

\* The map without blocks is a tracker, and a result without blocks has no hashes.
LEMMA NoBlocksOK ==
    /\ DOMAIN NoBlocks = {} /\ BlockMap(NoBlocks) /\ NoBlocks # NoTracker
    /\ NoResult.good = NoBlocks /\ NoResult.reorged = NoBlocks
    /\ HashesOf(NoBlocks) = {}
<1>1. DOMAIN NoBlocks = {}
  BY DEF NoBlocks
<1>2. NoBlocks # NoTracker
  BY <1>1, MapIsTracker
<1> QED
  BY <1>1, <1>2 DEF BlockMap, NoResult, HashesOf

\* A Poll that has all results returns them, with the tracked version of the forked
\* blocks.
LEMMA FinishReturns ==
    ASSUME NEW still \in BOOLEAN, ArgsOK, NEW results, NEW missing, ResultsOK(results, still),
           blocksMissing(results) = {}, FinishPoll(results, missing)
    PROVE  /\ ppc' = "idle" /\ pollResults' = NoBlocks
           /\ ret'.result.good = results
           /\ DOMAIN ret'.result.reorged = forked(results)
           /\ \A n \in forked(results) : ret'.result.reorged[n] = tracker[n]
           /\ ret'.err = IF doReorg /\ args.from \in forked(results)
                         THEN "fromBlockReorged" ELSE "none"
           /\ lastRecorded' \in Nat
           /\ lastRecorded' = ret'.result.lastGood
           /\ forked(results) = {} => lastRecorded' = args.to
           /\ forked(results) # {} /\ args.from # 0 =>
                \E m \in forked(results) :
                    /\ \A n \in forked(results) : m <= n
                    /\ lastRecorded' \in {m - 1, m}
<1> DEFINE filled == [from |-> args.from, to |-> args.to, lastGood |-> 0,
                      good |-> results, reorged |-> [n \in forked(results) |-> tracker[n]]]
           result == [filled EXCEPT !.lastGood = LastGoodBlock(filled)]
<1>1. processResult(results) = result
  BY DEF processResult
<1>2. /\ ppc' = "idle" /\ pollResults' = NoBlocks
      /\ ret'.result = result
      /\ ret'.err = IF doReorg /\ args.from \in forked(results)
                    THEN "fromBlockReorged" ELSE "none"
      /\ lastRecorded' = result.lastGood
  BY <1>1 DEF FinishPoll, Return
<1>3. result.lastGood = LastGoodBlock(filled)
  OBVIOUS
<1>4. /\ filled.from \in Nat /\ filled.to \in Nat
      /\ DOMAIN filled.good \subseteq filled.from .. filled.to
      /\ DOMAIN filled.reorged \subseteq DOMAIN filled.good
  BY DEF ArgsOK, ResultsOK, forked
<1>5. LastGoodBlock(filled) \in Nat
  <2> HIDE DEF filled
  <2> QED
    BY <1>4, LastGoodOK
<1>6. /\ result.good = results
      /\ result.reorged = [n \in forked(results) |-> tracker[n]]
  OBVIOUS
<1>7. ASSUME forked(results) = {}
      PROVE  LastGoodBlock(filled) = args.to
  BY <1>7 DEF LastGoodBlock
<1>8. ASSUME forked(results) # {}, args.from # 0
      PROVE  \E m \in forked(results) :
                /\ \A n \in forked(results) : m <= n
                /\ LastGoodBlock(filled) \in {m - 1, m}
  <2> DEFINE first == Min(forked(results))
             last  == Max(DOMAIN results)
  <2>1. /\ forked(results) \in SUBSET Nat
        /\ forked(results) \subseteq DOMAIN results
        /\ DOMAIN results \in SUBSET (0 .. args.to)
        /\ \A n \in DOMAIN results : n >= 1
    BY <1>8 DEF ArgsOK, ResultsOK, forked
  <2>2. first \in forked(results) /\ \A n \in forked(results) : first <= n
    BY <1>8, <2>1, MinOfNaturals
  <2>3. last \in DOMAIN results /\ \A n \in DOMAIN results : n <= last
    BY <1>8, <2>1, MaxOfBounded DEF ArgsOK
  <2>4. LastGoodBlock(filled) = IF last > first THEN Sub64(first, 1) ELSE last
    BY <1>8, <2>1 DEF LastGoodBlock
  <2> HIDE DEF first, last
  <2>5. first \in Nat /\ first >= 1 /\ first <= last /\ last \in Nat
    BY <2>1, <2>2, <2>3
  <2>6. LastGoodBlock(filled) \in {first - 1, first}
    BY <2>4, <2>5 DEF Sub64
  <2> QED
    BY <2>2, <2>6
<1> QED
  BY <1>2, <1>3, <1>5, <1>6, <1>7, <1>8

\* A set without elements is the only one that has as many as the empty set.
LEMMA AsManyAsNone ==
    ASSUME NEW S \in SUBSET Addresses, Cardinality(S) = Cardinality({})
    PROVE  S = {}
<1>1. IsFiniteSet(S)
  BY ChainAssumption, FS_Subset
<1> QED
  BY <1>1, FS_EmptySet

\* The tracker then has, of the range, the results and nothing else, among them all
\* that have logs and all that it had and that are not forked; of other blocks it has
\* what it had.
LEMMA FinishTracks ==
    ASSUME NEW still \in BOOLEAN, TrackerOK, NEW results, NEW missing, ResultsOK(results, still),
           FastOK(results, missing), blocksMissing(results) = {}, FinishPoll(results, missing)
    PROVE  /\ tracker = NoTracker => tracker' = NoTracker
           /\ tracker # NoTracker =>
                /\ tracker' # NoTracker
                /\ BlockMap(tracker')
                /\ \A n \in DOMAIN results : results[n].logs # {} => n \in DOMAIN tracker'
                /\ \A n \in DOMAIN tracker : n \notin args.from .. args.to => n \in DOMAIN tracker'
                /\ \A n \in DOMAIN tracker : n \notin forked(results) => n \in DOMAIN tracker'
           /\ \A n \in Tracked' :
                \/ n \in DOMAIN results /\ tracker'[n] = results[n]
                \/ n \in Tracked \ (args.from .. args.to) /\ tracker'[n] = tracker[n]
<1>1. tracker' = IF tracker = NoTracker THEN NoTracker
                 ELSE Overwrite(handleBlocksMissingPolicy(forked(results) \cap missing),
                                addTrackerBlockPolicy(results))
  BY DEF FinishPoll
<1>2. CASE tracker = NoTracker
  BY <1>1, <1>2 DEF Tracked
<1>3. CASE tracker # NoTracker
  <2> DEFINE kept  == handleBlocksMissingPolicy(forked(results) \cap missing)
             added == addTrackerBlockPolicy(results)
  <2>1. tracker' = Overwrite(kept, added)
    BY <1>1, <1>3
  <2>2. /\ DOMAIN kept \subseteq DOMAIN tracker
        /\ \A n \in DOMAIN kept : kept[n] = tracker[n]
        /\ policy = "Fast" => DOMAIN kept \cap (forked(results) \cap missing) = {}
        /\ DOMAIN tracker \ forked(results) \subseteq DOMAIN kept
    BY DEF handleBlocksMissingPolicy, removeBlocks
  <2>3. /\ DOMAIN added = { m \in DOMAIN results : policy # "Fast" \/ results[m].logs # {} }
        /\ \A n \in DOMAIN added : added[n] = results[n]
    BY DEF addTrackerBlockPolicy
  <2> HIDE DEF kept, added
  <2>4. /\ DOMAIN tracker' = DOMAIN kept \cup DOMAIN added
        /\ \A n \in DOMAIN added : tracker'[n] = added[n]
        /\ \A n \in DOMAIN kept \ DOMAIN added : tracker'[n] = kept[n]
    BY <2>1 DEF Overwrite
  <2>5. Tracked = DOMAIN tracker /\ BlockMap(tracker) /\ BlockMap(results)
    BY <1>3 DEF Tracked, TrackerOK, ResultsOK
  <2>6. ASSUME NEW n \in DOMAIN tracker'
        PROVE  \/ n \in DOMAIN results /\ tracker'[n] = results[n]
               \/ n \in DOMAIN tracker \ (args.from .. args.to) /\ tracker'[n] = tracker[n]
    <3>1. CASE n \in DOMAIN added
      BY <2>3, <2>4, <3>1
    <3>2. CASE n \notin DOMAIN added /\ n \notin DOMAIN results
      <4>1. n \in DOMAIN tracker /\ tracker'[n] = tracker[n]
        BY <2>2, <2>4, <3>2
      <4> QED
        BY <2>5, <3>2, <4>1 DEF blocksMissing
    <3>3. CASE n \notin DOMAIN added /\ n \in DOMAIN results
      <4>1. n \in DOMAIN kept /\ n \in DOMAIN tracker /\ tracker'[n] = tracker[n]
        BY <2>2, <2>4, <3>3
      <4>2. policy = "Fast" /\ results[n].logs = {}
        BY <2>3, <3>3
      <4>3. n \in missing
        BY <3>3, <4>2 DEF FastOK
      <4>4. n \notin forked(results)
        BY <2>2, <4>1, <4>2, <4>3
      <4>5. /\ tracker[n].hash = results[n].hash
            /\ Cardinality(tracker[n].logs) = Cardinality({})
        BY <2>5, <3>3, <4>1, <4>2, <4>4 DEF forked
      <4>6. tracker[n] \in BlockInfo /\ results[n] \in BlockInfo
        BY <2>5, <3>3, <4>1 DEF BlockMap
      <4>7. tracker[n].logs = {}
        BY <4>5, <4>6, AsManyAsNone DEF BlockInfo
      <4>8. tracker[n] = results[n]
        BY <4>2, <4>5, <4>6, <4>7 DEF BlockInfo
      <4> QED
        BY <3>3, <4>1, <4>8
    <3> QED
      BY <3>1, <3>2, <3>3
  <2>7. BlockMap(tracker')
    <3>1. DOMAIN tracker' \subseteq Nat
      BY <2>2, <2>3, <2>4, <2>5 DEF BlockMap
    <3>2. \A n \in DOMAIN tracker' : tracker'[n] \in BlockInfo
      BY <2>5, <2>6 DEF BlockMap
    <3> QED
      BY <3>1, <3>2 DEF BlockMap
  <2>8. tracker' # NoTracker
    BY <2>7, MapIsTracker DEF BlockMap
  <2>9. Tracked' = DOMAIN tracker'
    BY <2>8 DEF Tracked
  <2>10. \A n \in DOMAIN results : results[n].logs # {} => n \in DOMAIN tracker'
    BY <2>3, <2>4
  <2>11. \A n \in DOMAIN tracker : n \notin forked(results) => n \in DOMAIN tracker'
    BY <2>2, <2>4
  <2>12. \A n \in DOMAIN tracker : n \notin args.from .. args.to => n \in DOMAIN tracker'
    BY <2>11 DEF forked, ResultsOK
  <2> QED
    BY <1>3, <2>5, <2>6, <2>7, <2>8, <2>9, <2>10, <2>11, <2>12
<1> QED
  BY <1>2, <1>3

=============================================================================
