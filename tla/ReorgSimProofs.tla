--------------------------- MODULE ReorgSimProofs ---------------------------
(***************************************************************************)
(* Proofs about ReorgSim, for every script of events, every set of logs    *)
(* and any number of calls: type correctness, the two action properties    *)
(* about forks, and that every chain has every log once.                   *)
(***************************************************************************)
EXTENDS ReorgSim, FiniteSetTheorems, SequenceTheorems, TLAPS

-----------------------------------------------------------------------------
(* The inductive invariant *)

\* The numbers that have a block, in every chain
Heights == DOMAIN newBlockChain

\* An event replaces the blocks from its own on by objects of its own.
ChainsOK ==
    /\ chains \in Seq([Heights -> Nat])
    /\ Len(chains) \in 1 .. Len(events) + 1
    /\ \A i \in 1 .. Len(chains), n \in Heights : chains[i][n] < i
    /\ \A i \in 1 .. Len(chains) - 1, n \in Heights :
         chains[i + 1][n] = IF n >= events[i].block THEN i ELSE chains[i][n]

\* The blocks of all chains are stored, each with logs that carry its hash.
StoreOK ==
    /\ DOMAIN store \subseteq Nat \X (0 .. Len(chains) - 1)
    /\ \A i \in 1 .. Len(chains), n \in Heights : Block(chains[i], n) \in DOMAIN store
    /\ \A b \in DOMAIN store : store[b] \subseteq [tx : Txs, block : {b}]

\* The moves still to be made are moves of the event whose chain is built.
MovingOK ==
    /\ moving = [from |-> moving.from, rest |-> moving.rest]
    /\ pc = "fork" => moving.rest = <<>>
    /\ pc = "move" =>
         /\ Len(chains) > 1
         /\ pending \subseteq DOMAIN events[Len(chains) - 1].moves
         /\ moving.rest \in Seq([to : Nat, txs : SUBSET Txs])
         /\ moving.rest # <<>> =>
              /\ moving.from \in Heights
              /\ moving.from \in DOMAIN events[Len(chains) - 1].moves
              /\ \A k \in 1 .. Len(moving.rest) :
                   \E j \in DOMAIN events[Len(chains) - 1].moves[moving.from] :
                     moving.rest[k] = events[Len(chains) - 1].moves[moving.from][j]

\* The event to come is marked once its trigger was asked for, and forked after that.
CountersOK ==
    /\ forked \in Int /\ -1 <= forked /\ forked < Len(events)
    /\ currentReorgEvent = forked + 1
    /\ triggered \in {forked, forked + 1}
    /\ triggered # forked => asked
    /\ currentBlock \in Nat

\* A running simulation has all its chains.
RunOK ==
    pc = "run" =>
        /\ Len(chains) = Len(events) + 1
        /\ \A i \in DOMAIN events : events[i].trigger = 0 => events[i].block = 0

\* Among the logs s, the block n of a chain holds the log of the transaction.
Holds(s, chain, n, tx) == [tx |-> tx, block |-> Block(chain, n)] \in s[Block(chain, n)]

\* Every chain has every log, in one of its blocks.
OnePlace ==
    MovesUp => \A i \in 1 .. Len(chains), tx \in Txs :
        \E n \in Heights : \A m \in Heights : Holds(store, chains[i], m, tx) <=> m = n

IInv ==
    /\ pc \in {"fork", "move", "run", "rejected", "panicked"}
    /\ ReorgEvents(events)
    /\ ChainsOK
    /\ StoreOK
    /\ MovingOK
    /\ CountersOK
    /\ RunOK
    /\ OnePlace

-----------------------------------------------------------------------------
(* The parts of the state *)

\* Block numbers are natural numbers, and the original chain is made of its own blocks.
LEMMA HeightsOK ==
    /\ Heights \subseteq Nat
    /\ newBlockChain = [n \in Heights |-> 0]
    /\ \A tx \in Txs : Home[tx] \in Heights
<1>1. Heights = { Home[tx] : tx \in Txs }
  BY ReorgSimAssumption DEF Heights, newBlockChain, MapLogsToNumber, Range
<1>2. newBlockChain = [n \in Heights |-> 0]
  BY DEF Heights, newBlockChain
<1> QED
  BY <1>1, <1>2, ReorgSimAssumption

\* What is known of a list of events
LEMMA EventsFacts ==
    ASSUME NEW list, ReorgEvents(list)
    PROVE  /\ Len(list) \in Nat /\ DOMAIN list = 1 .. Len(list)
           /\ \A i \in DOMAIN list :
                /\ list[i] = [trigger |-> list[i].trigger, block |-> list[i].block,
                              moves |-> list[i].moves]
                /\ list[i].trigger \in Nat /\ list[i].block \in Nat
                /\ DOMAIN list[i].moves \subseteq Nat
                /\ \A from \in DOMAIN list[i].moves :
                     list[i].moves[from] \in Seq([to : Nat, txs : SUBSET Txs])
<1> DEFINE S == [trigger : Nat, block : Nat, moves : { list[i].moves : i \in DOMAIN list }]
<1>1. list \in Seq(S)
  BY DEF ReorgEvents
<1>2. Len(list) \in Nat /\ DOMAIN list = 1 .. Len(list) /\ \A i \in 1 .. Len(list) : list[i] \in S
  <2> HIDE DEF S
  <2> QED
    BY <1>1, ElementOfSeq
<1>3. \A i \in DOMAIN list :
        /\ list[i] = [trigger |-> list[i].trigger, block |-> list[i].block,
                      moves |-> list[i].moves]
        /\ list[i].trigger \in Nat /\ list[i].block \in Nat
  BY <1>2
<1> QED
  BY <1>2, <1>3 DEF ReorgEvents

\* A chain has a block at every height, and a block is its number and its maker.
LEMMA ChainFacts ==
    ASSUME ChainsOK, NEW i \in 1 .. Len(chains), NEW n \in Heights
    PROVE  /\ DOMAIN chains[i] = Heights
           /\ chains[i][n] \in Nat
           /\ n \in Nat
           /\ Block(chains[i], n) = <<n, chains[i][n]>>
<1>1. chains[i] \in [Heights -> Nat]
  BY ElementOfSeq DEF ChainsOK
<1> QED
  BY <1>1, HeightsOK DEF Block

\* The chain being built is the last one.
LEMMA LastFacts ==
    ASSUME ChainsOK, ReorgEvents(events)
    PROVE  /\ Len(chains) \in Nat \ {0} /\ Len(chains) \in 1 .. Len(chains)
           /\ LastChain = chains[Len(chains)]
           /\ DOMAIN LastChain = Heights
           /\ LastChain \in [Heights -> Nat]
           /\ Len(chains) > 1 => Len(chains) - 1 \in DOMAIN events
<1>1. Len(chains) \in Nat \ {0} /\ Len(chains) \in 1 .. Len(chains)
  BY EventsFacts DEF ChainsOK
<1>2. chains[Len(chains)] \in [Heights -> Nat]
  BY <1>1, ElementOfSeq DEF ChainsOK
<1>3. Len(chains) > 1 => Len(chains) - 1 \in DOMAIN events
  BY <1>1, EventsFacts DEF ChainsOK
<1> QED
  BY <1>1, <1>2, <1>3 DEF LastChain

-----------------------------------------------------------------------------
(* Building the chains *)

\* Before any event there is the original chain, with each log where it is at home.
LEMMA InitIInv == Init => IInv
<1> SUFFICES ASSUME Init
             PROVE  IInv
  OBVIOUS
<1>1. /\ pc = "fork" /\ events \in EventLists /\ chains = <<newBlockChain>>
      /\ moving = NotMoving /\ currentReorgEvent = 0 /\ triggered = -1 /\ forked = -1
      /\ currentBlock = 0
  BY DEF Init
<1>2. ReorgEvents(events)
  BY <1>1, ReorgSimAssumption
<1>3. Len(chains) = 1 /\ chains[1] = newBlockChain
  BY <1>1
<1>0. \A i \in 1 .. Len(chains) : chains[i] = newBlockChain
  BY <1>3
<1>4. newBlockChain \in [Heights -> Nat] /\ \A n \in Heights : newBlockChain[n] = 0
  BY HeightsOK
<1>5. ChainsOK
  <2>1. chains \in Seq([Heights -> Nat])
    BY <1>1, <1>4
  <2> QED
    BY <1>2, <1>3, <1>4, <2>1, EventsFacts DEF ChainsOK
<1>6. /\ DOMAIN store = { Block(newBlockChain, n) : n \in Heights }
      /\ \A b \in DOMAIN store : store[b] = { [tx |-> tx, block |-> b] : tx \in MapLogsToNumber[b[1]] }
  BY DEF Init, Heights
<1>7. \A n \in Heights :
        /\ Block(newBlockChain, n) = <<n, 0>>
        /\ <<n, 0>> \in DOMAIN store
        /\ store[<<n, 0>>] = { [tx |-> tx, block |-> <<n, 0>>] : tx \in MapLogsToNumber[n] }
        /\ MapLogsToNumber[n] = { tx \in Txs : Home[tx] = n }
  <2>1. \A n \in Heights : MapLogsToNumber[n] = { tx \in Txs : Home[tx] = n }
    BY DEF MapLogsToNumber, Heights, newBlockChain
  <2>2. \A n \in Heights : Block(newBlockChain, n) = <<n, 0>>
    BY <1>4 DEF Block
  <2>3. \A n \in Heights : <<n, 0>> \in DOMAIN store
    BY <1>6, <2>2
  <2>4. \A n \in Heights :
          store[<<n, 0>>] = { [tx |-> tx, block |-> <<n, 0>>] : tx \in MapLogsToNumber[<<n, 0>>[1]] }
    BY <1>6, <2>3
  <2> QED
    BY <2>1, <2>2, <2>3, <2>4
<1>8. StoreOK
  <2>1. \A b \in DOMAIN store : \E n \in Heights : b = <<n, 0>>
    BY <1>6, <1>7
  <2>2. DOMAIN store \subseteq Nat \X (0 .. Len(chains) - 1)
    BY <1>3, <2>1, HeightsOK
  <2>3. \A b \in DOMAIN store : store[b] \subseteq [tx : Txs, block : {b}]
    <3> SUFFICES ASSUME NEW n \in Heights
                 PROVE  store[<<n, 0>>] \subseteq [tx : Txs, block : {<<n, 0>>}]
      BY <2>1
    <3> QED
      BY <1>7
  <2>4. \A i \in 1 .. Len(chains), n \in Heights : Block(chains[i], n) \in DOMAIN store
    BY <1>0, <1>7
  <2> QED
    BY <2>2, <2>3, <2>4 DEF StoreOK
<1>9. OnePlace
  <2> SUFFICES ASSUME NEW tx \in Txs
               PROVE  \A m \in Heights : Holds(store, newBlockChain, m, tx) <=> m = Home[tx]
    BY <1>0, HeightsOK DEF OnePlace
  <2> SUFFICES ASSUME NEW m \in Heights
               PROVE  [tx |-> tx, block |-> <<m, 0>>] \in store[<<m, 0>>] <=> m = Home[tx]
    BY <1>7 DEF Holds
  <2>1. store[<<m, 0>>] = { [tx |-> t, block |-> <<m, 0>>] : t \in { t \in Txs : Home[t] = m } }
    BY <1>7
  <2> QED
    BY <2>1
<1>10. MovingOK /\ CountersOK /\ RunOK
  BY <1>1, <1>2, EventsFacts DEF MovingOK, CountersOK, RunOK, NotMoving
<1> QED
  BY <1>1, <1>2, <1>5, <1>8, <1>9, <1>10 DEF IInv

\* The chain of the next event: new objects from its block on, with the same logs.
LEMMA ForkOK ==
    ASSUME IInv, ForkEvent
    PROVE  IInv'
<1> DEFINE k        == Len(chains)
           replaced == { n \in DOMAIN LastChain : n >= events[k].block }
           new      == [n \in DOMAIN LastChain |-> IF n \in replaced THEN k ELSE LastChain[n]]
<1>0. ReorgEvents(events) /\ ChainsOK /\ StoreOK /\ MovingOK /\ CountersOK /\ RunOK /\ OnePlace
  BY DEF IInv
<1>1. /\ k \in Nat \ {0} /\ k \in 1 .. k
      /\ LastChain = chains[k] /\ DOMAIN LastChain = Heights /\ LastChain \in [Heights -> Nat]
  BY <1>0, LastFacts
<1>2. k - 1 < Len(events) /\ Len(events) \in Nat /\ k \in DOMAIN events
  BY <1>0, <1>1, EventsFacts DEF ForkEvent
<1>3. k - 1 + 1 = k
  BY <1>1
<1>4. /\ pc = "fork" /\ pc' = "move"
      /\ pending' = DOMAIN events[k - 1 + 1].moves
      /\ UNCHANGED <<events, moving, simVars>>
      /\ Reorg(k - 1, events[k - 1 + 1].block)
  BY DEF ForkEvent
<1>5. /\ chains' = Append(chains, new)
      /\ pending' = DOMAIN events[k].moves
      /\ store' = [b \in DOMAIN store \cup { ReorgHash(n, k - 1) : n \in replaced } |->
             IF b \in DOMAIN store THEN store[b] ELSE ReorgLogs(Block(LastChain, b[1]), b)]
  BY <1>3, <1>4 DEF Reorg
<1>6. \A n : ReorgHash(n, k - 1) = <<n, k>>
  BY <1>3 DEF ReorgHash
<1>7. new \in [Heights -> Nat]
  BY <1>1
<1>8. /\ chains' \in Seq([Heights -> Nat])
      /\ Len(chains') = k + 1
      /\ \A j \in 1 .. k : chains'[j] = chains[j]
      /\ chains'[k + 1] = new
  BY <1>0, <1>1, <1>5, <1>7, AppendProperties DEF ChainsOK
<1>9. \A n \in Heights : new[n] = IF n >= events[k].block THEN k ELSE chains[k][n]
  BY <1>1
<1> HIDE DEF k, new
<1>10. ChainsOK'
  <2>1. \A i \in 1 .. k, n \in Heights : chains[i][n] < i /\ chains[i][n] \in Nat
    BY <1>0, ChainFacts DEF ChainsOK, k
  <2>2. \A i \in 1 .. k + 1, n \in Heights : chains'[i][n] < i
    <3> SUFFICES ASSUME NEW i \in 1 .. k + 1, NEW n \in Heights
                 PROVE  chains'[i][n] < i
      OBVIOUS
    <3>1. CASE i \in 1 .. k
      BY <1>8, <2>1, <3>1
    <3>2. CASE i = k + 1
      BY <1>1, <1>8, <1>9, <2>1, <3>2
    <3> QED
      BY <1>1, <3>1, <3>2
  <2>3. \A i \in 1 .. k, n \in Heights :
          chains'[i + 1][n] = IF n >= events[i].block THEN i ELSE chains'[i][n]
    <3> SUFFICES ASSUME NEW i \in 1 .. k, NEW n \in Heights
                 PROVE  chains'[i + 1][n] = IF n >= events[i].block THEN i ELSE chains'[i][n]
      OBVIOUS
    <3>1. CASE i \in 1 .. k - 1
      <4>1. i + 1 \in 1 .. k /\ i \in 1 .. k
        BY <1>1, <3>1
      <4> QED
        BY <1>0, <1>8, <3>1, <4>1 DEF ChainsOK, k
    <3>2. CASE i = k
      BY <1>1, <1>8, <1>9, <3>2
    <3> QED
      BY <1>1, <3>1, <3>2
  <2>4. Len(chains') \in 1 .. Len(events) + 1
    BY <1>1, <1>2, <1>8
  <2>5. Len(chains') - 1 = k
    BY <1>1, <1>8
  <2> QED
    BY <1>4, <1>8, <2>2, <2>3, <2>4, <2>5 DEF ChainsOK
<1>11. \A n : <<n, k>> \notin DOMAIN store
  <2>1. DOMAIN store \subseteq Nat \X (0 .. k - 1)
    BY <1>0 DEF StoreOK, k
  <2>2. \A n : <<n, k>> \in Nat \X (0 .. k - 1) => k \in 0 .. k - 1
    OBVIOUS
  <2> QED
    BY <1>1, <2>1, <2>2
<1>12. /\ DOMAIN store' = DOMAIN store \cup { <<n, k>> : n \in replaced }
       /\ \A b \in DOMAIN store : store'[b] = store[b]
       /\ \A n \in replaced : store'[<<n, k>>]
            = { [tx |-> l.tx, block |-> <<n, k>>] : l \in store[Block(LastChain, n)] }
  <2>1. store' = [b \in DOMAIN store \cup { <<n, k>> : n \in replaced } |->
               IF b \in DOMAIN store THEN store[b] ELSE ReorgLogs(Block(LastChain, b[1]), b)]
    BY <1>5, <1>6
  <2> HIDE DEF replaced
  <2>2. \A n \in replaced : store'[<<n, k>>] = ReorgLogs(Block(LastChain, <<n, k>>[1]), <<n, k>>)
    BY <1>11, <2>1
  <2>3. \A n \in replaced : <<n, k>>[1] = n
    OBVIOUS
  <2> QED
    BY <2>1, <2>2, <2>3 DEF ReorgLogs
<1>13. \A n \in Heights : Block(LastChain, n) \in DOMAIN store
  BY <1>0, <1>1 DEF StoreOK, k
<1>14. \A n \in Heights :
         /\ n \in replaced => Block(new, n) = <<n, k>>
         /\ n \notin replaced => Block(new, n) = Block(LastChain, n)
  BY <1>1, <1>9 DEF Block
<1>15. StoreOK'
  <2>1. DOMAIN store' \subseteq Nat \X (0 .. Len(chains') - 1)
    <3>1. DOMAIN store \subseteq Nat \X (0 .. k)
      BY <1>0, <1>1 DEF StoreOK, k
    <3>2. replaced \subseteq Nat
      BY <1>1, HeightsOK
    <3> HIDE DEF replaced
    <3>3. { <<n, k>> : n \in replaced } \subseteq Nat \X (0 .. k)
      <4>1. k \in 0 .. k
        BY <1>1
      <4> DEFINE forks == 0 .. k
      <4> HIDE DEF forks
      <4>2. k \in forks
        BY <4>1 DEF forks
      <4>3. { <<n, k>> : n \in replaced } \subseteq Nat \X forks
        BY <3>2, <4>2
      <4> QED
        BY <4>3 DEF forks
    <3>4. Len(chains') - 1 = k
      BY <1>1, <1>8
    <3> QED
      BY <1>12, <3>1, <3>3, <3>4
  <2>2. \A i \in 1 .. k, n \in Heights : Block(chains'[i], n) \in DOMAIN store'
    BY <1>0, <1>8, <1>12 DEF StoreOK, k
  <2>3. \A n \in Heights : Block(new, n) \in DOMAIN store'
    BY <1>12, <1>13, <1>14
  <2>4. \A i \in 1 .. Len(chains'), n \in Heights : Block(chains'[i], n) \in DOMAIN store'
    <3>1. \A i \in 1 .. Len(chains') : i \in 1 .. k \/ i = k + 1
      BY <1>1, <1>8
    <3> QED
      BY <1>8, <2>2, <2>3, <3>1
  <2>5. \A b \in DOMAIN store' : store'[b] \subseteq [tx : Txs, block : {b}]
    <3>1. \A b \in DOMAIN store : store[b] \subseteq [tx : Txs, block : {b}]
      BY <1>0 DEF StoreOK
    <3>2. \A n \in replaced : \A l \in store[Block(LastChain, n)] : l.tx \in Txs
      BY <1>1, <1>13, <3>1
    <3> HIDE DEF replaced
    <3>3. \A n \in replaced : store'[<<n, k>>] \subseteq [tx : Txs, block : {<<n, k>>}]
      BY <1>12, <3>2
    <3> QED
      BY <1>12, <3>1, <3>3
  <2> QED
    BY <2>1, <2>4, <2>5 DEF StoreOK
<1>16. OnePlace'
  <2> SUFFICES ASSUME MovesUp, NEW i \in 1 .. Len(chains'), NEW tx \in Txs
               PROVE  \E n \in Heights : \A m \in Heights :
                        Holds(store', chains'[i], m, tx) <=> m = n
    <3>1. MovesUp' <=> MovesUp
      BY <1>4 DEF MovesUp, MovesOf
    <3> QED
      BY <3>1 DEF OnePlace
  <2>1. \A j \in 1 .. k :
          \E n \in Heights : \A m \in Heights : Holds(store, chains[j], m, tx) <=> m = n
    BY <1>0 DEF OnePlace, k
  <2>2. CASE i \in 1 .. k
    <3>1. \A m \in Heights : Holds(store', chains'[i], m, tx) <=> Holds(store, chains[i], m, tx)
      BY <1>0, <1>8, <1>12, <2>2 DEF Holds, StoreOK, Block, k
    <3> QED
      BY <2>1, <2>2, <3>1
  <2>3. CASE i = k + 1
    <3>1. ASSUME NEW m \in Heights
          PROVE  Holds(store', new, m, tx) <=> Holds(store, LastChain, m, tx)
      <4>1. CASE m \notin replaced
        <5>1. Block(new, m) = Block(LastChain, m) /\ store'[Block(LastChain, m)] = store[Block(LastChain, m)]
          BY <1>12, <1>13, <1>14, <4>1
        <5> QED
          BY <5>1 DEF Holds
      <4>2. CASE m \in replaced
        <5> DEFINE old == Block(LastChain, m)
        <5>1. store'[<<m, k>>] = { [tx |-> l.tx, block |-> <<m, k>>] : l \in store[old] }
          BY <1>12, <4>2
        <5>2. store[old] \subseteq [tx : Txs, block : {old}]
          BY <1>0, <1>13 DEF StoreOK
        <5>3. Block(new, m) = <<m, k>>
          BY <1>14, <4>2
        <5> HIDE DEF old
        <5>4. [tx |-> tx, block |-> <<m, k>>] \in store'[<<m, k>>]
                <=> \E l \in store[old] : l.tx = tx
          BY <5>1
        <5>5. (\E l \in store[old] : l.tx = tx) <=> [tx |-> tx, block |-> old] \in store[old]
          BY <5>2
        <5> QED
          BY <5>3, <5>4, <5>5 DEF Holds, old
      <4> QED
        BY <4>1, <4>2
    <3>2. chains'[i] = new /\ LastChain = chains[k] /\ k \in 1 .. k
      BY <1>1, <1>8, <2>3
    <3> QED
      BY <2>1, <3>1, <3>2
  <2> QED
    BY <1>1, <1>8, <2>2, <2>3
<1>17. MovingOK'
  <2>1. Len(chains') - 1 = k /\ Len(chains') > 1
    BY <1>1, <1>8
  <2>2. moving'.rest = <<>>
    BY <1>0, <1>4 DEF MovingOK
  <2>3. moving' = [from |-> moving'.from, rest |-> moving'.rest]
    BY <1>0, <1>4 DEF MovingOK
  <2> QED
    BY <1>4, <1>5, <2>1, <2>2, <2>3 DEF MovingOK
<1>18. CountersOK' /\ RunOK' /\ ReorgEvents(events')
  BY <1>0, <1>4 DEF CountersOK, RunOK, simVars, reorgState
<1> QED
  BY <1>4, <1>10, <1>15, <1>16, <1>17, <1>18 DEF IInv

\* What a step that leaves the chains alone keeps.
LEMMA SameChains ==
    ASSUME ReorgEvents(events), ChainsOK, StoreOK, OnePlace, UNCHANGED <<events, chains, store>>
    PROVE  ReorgEvents(events') /\ ChainsOK' /\ StoreOK' /\ OnePlace'
<1>1. events' = events /\ chains' = chains /\ store' = store
  OBVIOUS
<1>2. MovesUp' <=> MovesUp
  BY <1>1 DEF MovesUp, MovesOf
<1>3. ChainsOK' /\ StoreOK' /\ ReorgEvents(events')
  BY <1>1 DEF ChainsOK, StoreOK
<1>4. OnePlace'
  BY <1>1, <1>2 DEF OnePlace
<1> QED
  BY <1>3, <1>4

\* A panic ends the simulation and changes nothing else.
LEMMA PanicOK ==
    ASSUME IInv, Panic
    PROVE  IInv'
<1>1. pc' = "panicked" /\ UNCHANGED <<events, chains, store, moving, pending, simVars>>
  BY DEF Panic, buildVars
<1>2. ReorgEvents(events') /\ ChainsOK' /\ StoreOK' /\ OnePlace'
  BY <1>1, SameChains DEF IInv
<1>3. MovingOK' /\ CountersOK' /\ RunOK'
  BY <1>1 DEF IInv, MovingOK, CountersOK, RunOK, simVars, reorgState
<1> QED
  BY <1>1, <1>2, <1>3 DEF IInv

\* The next block whose logs are moved is one that the event names.
LEMMA MoveNextBlockOK ==
    ASSUME IInv, MoveNextBlock
    PROVE  IInv'
<1>0. ReorgEvents(events) /\ ChainsOK /\ StoreOK /\ MovingOK /\ CountersOK /\ RunOK /\ OnePlace
  BY DEF IInv
<1>1. PICK from \in pending :
        IF from \notin DOMAIN LastChain THEN Panic
        ELSE /\ pending' = pending \ {from}
             /\ moving' = [from |-> from, rest |-> events[Len(chains) - 1].moves[from]]
             /\ UNCHANGED <<pc, events, chains, store, simVars>>
  BY DEF MoveNextBlock
<1>2. CASE from \notin DOMAIN LastChain
  BY <1>1, <1>2, PanicOK
<1>3. CASE from \in DOMAIN LastChain
  <2> DEFINE e    == events[Len(chains) - 1]
             rest == e.moves[from]
  <2>1. /\ pc = "move" /\ pc' = "move"
        /\ pending' = pending \ {from}
        /\ moving'.from = from /\ moving'.rest = rest
        /\ UNCHANGED <<events, chains, store, simVars>>
    BY <1>1, <1>3 DEF MoveNextBlock
  <2>2. ReorgEvents(events') /\ ChainsOK' /\ StoreOK' /\ OnePlace'
    BY <1>0, <2>1, SameChains
  <2>3. Len(chains) > 1 /\ pending \subseteq DOMAIN e.moves
    BY <1>0, <2>1 DEF MovingOK
  <2>4. from \in DOMAIN e.moves /\ from \in Heights /\ Len(chains) - 1 \in DOMAIN events
    BY <1>0, <1>3, <2>3, LastFacts
  <2>5. rest \in Seq([to : Nat, txs : SUBSET Txs])
    BY <1>0, <2>4, EventsFacts
  <2>6. \A j \in 1 .. Len(rest) : \E i \in DOMAIN rest : rest[j] = rest[i]
    BY <2>5
  <2> HIDE DEF rest
  <2>7. MovingOK'
    <3>1. Len(chains') > 1 /\ pending' \subseteq DOMAIN events'[Len(chains') - 1].moves
      BY <2>1, <2>3
    <3>2. moving'.rest \in Seq([to : Nat, txs : SUBSET Txs])
      BY <2>1, <2>5
    <3>3. moving'.from \in Heights /\ moving'.from \in DOMAIN events'[Len(chains') - 1].moves
      BY <2>1, <2>4
    <3>4. events'[Len(chains') - 1].moves[moving'.from] = rest
      BY <2>1 DEF rest
    <3>5. moving' = [from |-> moving'.from, rest |-> moving'.rest]
      BY <1>1, <1>3
    <3> QED
      BY <2>1, <2>6, <3>1, <3>2, <3>3, <3>4, <3>5 DEF MovingOK
  <2>8. CountersOK' /\ RunOK'
    BY <1>0, <2>1 DEF CountersOK, RunOK, simVars, reorgState
  <2> QED
    BY <2>1, <2>2, <2>7, <2>8 DEF IInv
<1> QED
  BY <1>2, <1>3

\* The event's chain is complete.
LEMMA EventBuiltOK ==
    ASSUME IInv, EventBuilt
    PROVE  IInv'
<1>1. /\ pc' = "fork" /\ moving' = NotMoving
      /\ UNCHANGED <<events, chains, store, simVars>>
  BY DEF EventBuilt
<1>2. ReorgEvents(events') /\ ChainsOK' /\ StoreOK' /\ OnePlace'
  BY <1>1, SameChains DEF IInv
<1>3. MovingOK' /\ CountersOK' /\ RunOK'
  BY <1>1 DEF IInv, MovingOK, CountersOK, RunOK, NotMoving, simVars, reorgState
<1> QED
  BY <1>1, <1>2, <1>3 DEF IInv

\* The log l is one that a move takes from the block from, as it is in the block to.
MovedIn(from, to, txs, l) ==
    \E t \in txs : /\ [tx |-> t, block |-> from] \in store[from]
                   /\ l = [tx |-> t, block |-> to]

\* What a move makes of a block's logs, also when a block's logs are moved to itself.
LEMMA MoveFacts ==
    ASSUME NEW from \in DOMAIN store, NEW to \in DOMAIN store, NEW txs,
           Move(from, to, txs), store[from] \subseteq [tx : Txs, block : {from}]
    PROVE  /\ DOMAIN store' = DOMAIN store
           /\ \A b \in DOMAIN store : \A l :
                l \in store'[b] <=>
                  \/ l \in store[b] /\ ~ (b = from /\ l.tx \in txs)
                  \/ b = to /\ MovedIn(from, to, txs, l)
<1> DEFINE moved == { l \in store[from] : l.tx \in txs }
           added == { [tx |-> l.tx, block |-> to] : l \in moved }
<1>1. store' = [store EXCEPT ![from] = @ \ moved, ![to] = @ \cup added]
  BY DEF Move
<1>2. \A b \in DOMAIN store : \A l :
        l \in moved /\ b = from <=> l \in store[b] /\ b = from /\ l.tx \in txs
  OBVIOUS
<1>3. \A l : l \in added <=> \E t \in txs : /\ [tx |-> t, block |-> from] \in store[from]
                                            /\ l = [tx |-> t, block |-> to]
  <2>1. \A l \in store[from] : l = [tx |-> l.tx, block |-> from]
    OBVIOUS
  <2>2. ASSUME NEW l, l \in added
        PROVE  \E t \in txs : [tx |-> t, block |-> from] \in store[from] /\ l = [tx |-> t, block |-> to]
    <3>1. PICK o \in store[from] : o.tx \in txs /\ l = [tx |-> o.tx, block |-> to]
      BY <2>2
    <3> QED
      BY <2>1, <3>1
  <2>3. ASSUME NEW t \in txs, [tx |-> t, block |-> from] \in store[from]
        PROVE  [tx |-> t, block |-> to] \in added
    <3>1. [tx |-> t, block |-> from] \in moved /\ [tx |-> t, block |-> from].tx = t
      BY <2>3
    <3> QED
      BY <3>1
  <2> QED
    BY <2>2, <2>3
<1> HIDE DEF moved, added
<1>4. /\ DOMAIN store' = DOMAIN store
      /\ \A b \in DOMAIN store :
           store'[b] = (IF b = from THEN store[b] \ moved ELSE store[b])
                         \cup (IF b = to THEN added ELSE {})
  BY <1>1
<1>5. ASSUME NEW b \in DOMAIN store, NEW l
      PROVE  l \in store'[b] <=> \/ l \in store[b] /\ ~ (b = from /\ l.tx \in txs)
                                 \/ b = to /\ l \in added
  BY <1>2, <1>4
<1> QED
  BY <1>3, <1>4, <1>5 DEF MovedIn

\* Where a move moves logs, it is between blocks that its event made.
LEMMA MovesOwnBlocks ==
    ASSUME IInv, MovesUp, pc = "move", moving.rest # <<>>,
           Head(moving.rest).to \in Heights,
           NEW t \in Txs, t \in Head(moving.rest).txs
    PROVE  /\ LastChain[moving.from] = Len(chains) - 1
           /\ LastChain[Head(moving.rest).to] = Len(chains) - 1
<1> DEFINE k  == Len(chains) - 1
           mv == Head(moving.rest)
           f  == moving.from
<1>0. ReorgEvents(events) /\ ChainsOK /\ MovingOK
  BY DEF IInv
<1>1. /\ Len(chains) > 1 /\ f \in Heights /\ f \in DOMAIN events[k].moves
      /\ moving.rest \in Seq([to : Nat, txs : SUBSET Txs])
      /\ \A i \in 1 .. Len(moving.rest) :
           \E j \in DOMAIN events[k].moves[f] : moving.rest[i] = events[k].moves[f][j]
  BY <1>0 DEF MovingOK
<1>2. mv = moving.rest[1] /\ 1 \in 1 .. Len(moving.rest)
  BY <1>1
<1>3. PICK j \in DOMAIN events[k].moves[f] : mv = events[k].moves[f][j]
  BY <1>1, <1>2
<1>4. k \in DOMAIN events /\ k \in Nat \ {0} /\ k \in 1 .. k /\ k + 1 = Len(chains)
  BY <1>0, <1>1, LastFacts
<1>5. [from |-> f, to |-> mv.to] \in MovesOf(k, t)
  <2>1. [from |-> f, to |-> events[k].moves[f][j].to]
          \in { [from |-> f, to |-> events[k].moves[f][i].to] :
                  i \in { i \in DOMAIN events[k].moves[f] : t \in events[k].moves[f][i].txs } }
    BY <1>3
  <2>2. f \in DOMAIN events[k].moves
    BY <1>1
  <2> QED
    BY <1>3, <2>1, <2>2 DEF MovesOf
<1>6. f >= events[k].block /\ mv.to >= events[k].block
  <2>1. /\ [from |-> f, to |-> mv.to].from >= events[k].block
        /\ [from |-> f, to |-> mv.to].to >= events[k].block
    BY <1>4, <1>5 DEF MovesUp
  <2> QED
    BY <2>1
<1>7. \A n \in Heights : n >= events[k].block => chains[k + 1][n] = k
  BY <1>0, <1>4 DEF ChainsOK
<1> QED
  BY <1>0, <1>1, <1>4, <1>6, <1>7, LastFacts

\* A move takes logs from a block of the chain being built to another one.  Earlier
\* chains, which share its other blocks, do not see it.
LEMMA MoveLogsOK ==
    ASSUME IInv, MoveLogs
    PROVE  IInv'
<1> DEFINE mv   == Head(moving.rest)
           f    == moving.from
           from == Block(LastChain, f)
           to   == Block(LastChain, mv.to)
<1>0. ReorgEvents(events) /\ ChainsOK /\ StoreOK /\ MovingOK /\ CountersOK /\ RunOK /\ OnePlace
  BY DEF IInv
<1>1. pc = "move" /\ moving.rest # <<>>
  BY DEF MoveLogs
<1>2. CASE mv.to \notin DOMAIN LastChain \/ store[from] = {}
  <2>1. Panic
    BY <1>2 DEF MoveLogs
  <2> QED
    BY <2>1, PanicOK
<1>3. CASE ~ (mv.to \notin DOMAIN LastChain \/ store[from] = {})
  <2>1. /\ mv.to \in DOMAIN LastChain
        /\ Move(from, to, mv.txs)
        /\ moving' = [moving EXCEPT !.rest = Tail(@)]
        /\ UNCHANGED <<pc, events, chains, pending, simVars>>
    BY <1>3 DEF MoveLogs
  <2>0. moving = [from |-> moving.from, rest |-> moving.rest]
    BY <1>0 DEF MovingOK
  <2>2. /\ Len(chains) > 1 /\ f \in Heights /\ f \in DOMAIN events[Len(chains) - 1].moves
        /\ pending \subseteq DOMAIN events[Len(chains) - 1].moves
        /\ moving.rest \in Seq([to : Nat, txs : SUBSET Txs])
        /\ \A i \in 1 .. Len(moving.rest) :
             \E j \in DOMAIN events[Len(chains) - 1].moves[f] :
               moving.rest[i] = events[Len(chains) - 1].moves[f][j]
    BY <1>0, <1>1 DEF MovingOK
  <2>3. /\ Len(chains) \in Nat \ {0} /\ Len(chains) \in 1 .. Len(chains)
        /\ LastChain = chains[Len(chains)] /\ DOMAIN LastChain = Heights
    BY <1>0, LastFacts
  <2>4. mv.to \in Heights
    BY <2>1, <2>3
  <2>5. from \in DOMAIN store /\ to \in DOMAIN store
    BY <1>0, <2>2, <2>3, <2>4 DEF StoreOK
  <2>6. \A b \in DOMAIN store : store[b] \subseteq [tx : Txs, block : {b}]
    BY <1>0 DEF StoreOK
  <2>7. /\ DOMAIN store' = DOMAIN store
        /\ \A b \in DOMAIN store : \A l :
             l \in store'[b] <=>
               \/ l \in store[b] /\ ~ (b = from /\ l.tx \in mv.txs)
               \/ /\ b = to
                  /\ \E t \in mv.txs : /\ [tx |-> t, block |-> from] \in store[from]
                                       /\ l = [tx |-> t, block |-> to]
    <3> DEFINE txs == mv.txs
    <3>1. Move(from, to, txs) /\ store[from] \subseteq [tx : Txs, block : {from}]
      BY <2>1, <2>5, <2>6
    <3> HIDE DEF from, to, txs
    <3>2. DOMAIN store' = DOMAIN store
      BY <2>5, <3>1, MoveFacts
    <3>3. ASSUME NEW b \in DOMAIN store, NEW l
          PROVE  l \in store'[b] <=>
                   \/ l \in store[b] /\ ~ (b = from /\ l.tx \in txs)
                   \/ b = to /\ MovedIn(from, to, txs, l)
      BY <2>5, <3>1, MoveFacts
    <3> QED
      BY <3>2, <3>3 DEF txs, MovedIn
  <2>8. ReorgEvents(events') /\ ChainsOK'
    BY <1>0, <2>1 DEF ChainsOK
  <2>9. StoreOK'
    <3>1. \A b \in DOMAIN store : store'[b] \subseteq [tx : Txs, block : {b}]
      <4> SUFFICES ASSUME NEW b \in DOMAIN store, NEW l \in store'[b]
                   PROVE  l \in [tx : Txs, block : {b}]
        OBVIOUS
      <4>1. CASE l \in store[b]
        BY <2>6, <4>1
      <4>2. CASE b = to /\ \E t \in mv.txs : /\ [tx |-> t, block |-> from] \in store[from]
                                             /\ l = [tx |-> t, block |-> to]
        <5>1. PICK t \in mv.txs : /\ [tx |-> t, block |-> from] \in store[from]
                                  /\ l = [tx |-> t, block |-> to]
          BY <4>2
        <5>2. [tx |-> t, block |-> from] \in [tx : Txs, block : {from}]
          BY <2>5, <2>6, <5>1
        <5>3. t \in Txs
          BY <5>2
        <5> QED
          BY <4>2, <5>1, <5>3
      <4> QED
        BY <2>7, <4>1, <4>2
    <3> QED
      BY <1>0, <2>1, <2>7, <3>1 DEF StoreOK
  <2>10. OnePlace'
    <3> SUFFICES ASSUME MovesUp, NEW i \in 1 .. Len(chains), NEW tx \in Txs
                 PROVE  \E n \in Heights : \A m \in Heights :
                          Holds(store', chains[i], m, tx) <=> m = n
      <4>1. MovesUp' <=> MovesUp
        BY <2>1 DEF MovesUp, MovesOf
      <4> QED
        BY <2>1, <4>1 DEF OnePlace
    <3>1. PICK n \in Heights : \A m \in Heights : Holds(store, chains[i], m, tx) <=> m = n
      BY <1>0 DEF OnePlace
    <3>2. \A m \in Heights : Block(chains[i], m) = <<m, chains[i][m]>> /\ Block(chains[i], m) \in DOMAIN store
      BY <1>0, ChainFacts DEF StoreOK
    <3>3. CASE \A t \in mv.txs : [tx |-> t, block |-> from] \notin store[from]
      <4>1. \A m \in Heights : Holds(store', chains[i], m, tx) <=> Holds(store, chains[i], m, tx)
        <5> SUFFICES ASSUME NEW m \in Heights
                     PROVE  LET b == Block(chains[i], m)
                            IN  [tx |-> tx, block |-> b] \in store'[b]
                                  <=> [tx |-> tx, block |-> b] \in store[b]
          BY DEF Holds
        <5> DEFINE b == Block(chains[i], m)
        <5>1. b \in DOMAIN store
          BY <3>2
        <5> HIDE DEF b, from, to, mv
        <5>2. [tx |-> tx, block |-> b] \in store'[b] <=>
                [tx |-> tx, block |-> b] \in store[b] /\ ~ (b = from /\ tx \in mv.txs)
          BY <2>7, <3>3, <5>1
        <5>3. b = from /\ tx \in mv.txs => [tx |-> tx, block |-> b] \notin store[b]
          BY <3>3
        <5> QED
          BY <5>2, <5>3 DEF b
      <4> QED
        BY <3>1, <4>1
    <3>4. CASE \E t \in mv.txs : [tx |-> t, block |-> from] \in store[from]
      <4>0. PICK t \in mv.txs : [tx |-> t, block |-> from] \in store[from]
        BY <3>4
      <4>1. t \in Txs
        <5>1. [tx |-> t, block |-> from] \in [tx : Txs, block : {from}]
          BY <2>5, <2>6, <4>0
        <5> QED
          BY <5>1
      <4>2. LastChain[f] = Len(chains) - 1 /\ LastChain[mv.to] = Len(chains) - 1
        BY <1>1, <2>4, <4>0, <4>1, MovesOwnBlocks
      <4>3. from = <<f, Len(chains) - 1>> /\ to = <<mv.to, Len(chains) - 1>>
        BY <4>2 DEF Block
      <4>4. CASE i # Len(chains)
        <5>1. \A m \in Heights : chains[i][m] # Len(chains) - 1
          <6>1. \A m \in Heights : chains[i][m] < i /\ chains[i][m] \in Nat
            BY <1>0, ChainFacts DEF ChainsOK
          <6> QED
            BY <2>3, <4>4, <6>1
        <5>2. \A m \in Heights : Block(chains[i], m) # from /\ Block(chains[i], m) # to
          BY <3>2, <4>3, <5>1
        <5> HIDE DEF from, to, mv
        <5>3. \A m \in Heights : Holds(store', chains[i], m, tx) <=> Holds(store, chains[i], m, tx)
          BY <2>7, <3>2, <5>2 DEF Holds
        <5> QED
          BY <3>1, <5>3
      <4>5. CASE i = Len(chains)
        <5>1. chains[i] = LastChain
          BY <2>3, <4>5
        <5>2. \A m \in Heights : /\ Block(LastChain, m) = from <=> m = f
                                 /\ Block(LastChain, m) = to <=> m = mv.to
          BY DEF Block
        <5>3. Holds(store, LastChain, f, tx) <=> [tx |-> tx, block |-> from] \in store[from]
          BY DEF Holds
        <5> HIDE DEF from, to
        <5>4. ASSUME NEW m \in Heights
              PROVE  Holds(store', LastChain, m, tx) <=>
                       \/ Holds(store, LastChain, m, tx) /\ ~ (m = f /\ tx \in mv.txs)
                       \/ m = mv.to /\ Holds(store, LastChain, f, tx) /\ tx \in mv.txs
          <6> DEFINE b == Block(LastChain, m)
          <6>1. b \in DOMAIN store
            BY <3>2, <5>1
          <6>2. b = from <=> m = f
            BY <5>2
          <6>3. b = to <=> m = mv.to
            BY <5>2
          <6>4. Holds(store', LastChain, m, tx) <=> [tx |-> tx, block |-> b] \in store'[b]
            BY DEF Holds
          <6>5. Holds(store, LastChain, m, tx) <=> [tx |-> tx, block |-> b] \in store[b]
            BY DEF Holds
          <6> HIDE DEF b, mv
          <6>6. [tx |-> tx, block |-> b].tx = tx /\ [tx |-> tx, block |-> b].block = b
            OBVIOUS
          <6>7. ASSUME b = to
                PROVE  (\E u \in mv.txs : /\ [tx |-> u, block |-> from] \in store[from]
                                          /\ [tx |-> tx, block |-> b] = [tx |-> u, block |-> to])
                         <=> tx \in mv.txs /\ [tx |-> tx, block |-> from] \in store[from]
            <7>1. \A u : [tx |-> tx, block |-> b] = [tx |-> u, block |-> to] <=> u = tx
              BY <6>7
            <7> QED
              BY <7>1
          <6>8. [tx |-> tx, block |-> b] \in store'[b] <=>
                  \/ [tx |-> tx, block |-> b] \in store[b] /\ ~ (b = from /\ tx \in mv.txs)
                  \/ /\ b = to
                     /\ \E u \in mv.txs : /\ [tx |-> u, block |-> from] \in store[from]
                                          /\ [tx |-> tx, block |-> b] = [tx |-> u, block |-> to]
            BY <2>7, <6>1, <6>6
          <6> QED
            BY <5>3, <6>2, <6>3, <6>4, <6>5, <6>7, <6>8
        <5> HIDE DEF mv, f
        <5>5. CASE tx \in mv.txs /\ Holds(store, LastChain, f, tx)
          <6>1. n = f
            BY <2>2, <3>1, <5>1, <5>5
          <6>2. \A m \in Heights : Holds(store', LastChain, m, tx) <=> m = mv.to
            BY <3>1, <5>1, <5>4, <5>5, <6>1
          <6> QED
            BY <2>4, <5>1, <6>2
        <5>6. CASE ~ (tx \in mv.txs /\ Holds(store, LastChain, f, tx))
          <6>1. \A m \in Heights : Holds(store', LastChain, m, tx) <=> m = n
            BY <3>1, <5>1, <5>4, <5>6
          <6> QED
            BY <5>1, <6>1
        <5> QED
          BY <5>5, <5>6
      <4> QED
        BY <4>4, <4>5
    <3> QED
      BY <3>3, <3>4
  <2>11. MovingOK'
    <3> DEFINE rest == moving.rest
    <3>1. /\ Len(rest) \in Nat /\ Len(Tail(rest)) = Len(rest) - 1
          /\ \A i \in 1 .. Len(Tail(rest)) : Tail(rest)[i] = rest[i + 1] /\ i + 1 \in 1 .. Len(rest)
          /\ Tail(rest) \in Seq([to : Nat, txs : SUBSET Txs])
      BY <1>1, <2>2, HeadTailProperties
    <3>2. moving'.from = f
      BY <2>0, <2>1
    <3>3. moving'.rest = Tail(rest)
      BY <2>0, <2>1
    <3>4. moving' = [from |-> moving'.from, rest |-> moving'.rest]
      BY <2>0, <2>1
    <3> QED
      BY <1>1, <2>1, <2>2, <3>1, <3>2, <3>3, <3>4, SMTT(30) DEF MovingOK
  <2>12. CountersOK' /\ RunOK'
    BY <1>0, <1>1, <2>1 DEF CountersOK, RunOK, simVars, reorgState
  <2> QED
    BY <1>1, <2>1, <2>8, <2>9, <2>10, <2>11, <2>12 DEF IInv
<1> QED
  BY <1>2, <1>3

-----------------------------------------------------------------------------
(* The running simulation *)

\* NewReorgSim fills in triggers; the events keep their blocks and their moves.
LEMMA NewReorgSimOK ==
    ASSUME IInv, NewReorgSim
    PROVE  IInv'
<1>0. ReorgEvents(events) /\ ChainsOK /\ StoreOK /\ MovingOK /\ CountersOK /\ OnePlace
  BY DEF IInv
<1>1. /\ pc = "fork" /\ Len(chains) = Len(events) + 1
      /\ chains' = chains /\ store' = store /\ moving' = moving
      /\ UNCHANGED simVars
  BY DEF NewReorgSim, buildVars
<1>2. CASE pc' = "rejected" /\ UNCHANGED events
  <2>1. ReorgEvents(events') /\ ChainsOK' /\ StoreOK' /\ OnePlace'
    BY <1>0, <1>1, <1>2, SameChains
  <2>2. MovingOK' /\ CountersOK' /\ RunOK'
    BY <1>0, <1>1, <1>2 DEF MovingOK, CountersOK, RunOK, simVars, reorgState
  <2> QED
    BY <1>2, <2>1, <2>2 DEF IInv
<1>3. CASE pc' = "run" /\ events' = validateReorgEvent
  <2>1. /\ Len(events) \in Nat /\ DOMAIN events = 1 .. Len(events)
        /\ \A i \in DOMAIN events :
             /\ events[i] = [trigger |-> events[i].trigger, block |-> events[i].block,
                             moves |-> events[i].moves]
             /\ events[i].trigger \in Nat /\ events[i].block \in Nat
             /\ DOMAIN events[i].moves \subseteq Nat
             /\ \A from \in DOMAIN events[i].moves :
                  events[i].moves[from] \in Seq([to : Nat, txs : SUBSET Txs])
    BY <1>0, EventsFacts
  <2>2. events' = [i \in 1 .. Len(events) |->
                     IF events[i].trigger = 0 THEN [events[i] EXCEPT !.trigger = events[i].block]
                     ELSE events[i]]
    BY <1>3, <2>1 DEF validateReorgEvent
  <2>3. \A i \in 1 .. Len(events) :
          /\ events'[i] = [trigger |-> events'[i].trigger, block |-> events[i].block,
                           moves |-> events[i].moves]
          /\ events'[i].trigger \in Nat
          /\ events'[i].trigger = 0 => events[i].block = 0
    <3> SUFFICES ASSUME NEW i \in 1 .. Len(events)
                 PROVE  /\ events'[i] = [trigger |-> events'[i].trigger, block |-> events[i].block,
                                         moves |-> events[i].moves]
                        /\ events'[i].trigger \in Nat
                        /\ events'[i].trigger = 0 => events[i].block = 0
      OBVIOUS
    <3> DEFINE e == events[i]
    <3>1. /\ e = [trigger |-> e.trigger, block |-> e.block, moves |-> e.moves]
          /\ e.trigger \in Nat /\ e.block \in Nat
      BY <2>1
    <3>2. events'[i] = IF e.trigger = 0 THEN [e EXCEPT !.trigger = e.block] ELSE e
      BY <2>2
    <3> HIDE DEF e
    <3>3. CASE e.trigger = 0
      BY <3>1, <3>2, <3>3 DEF e
    <3>4. CASE e.trigger # 0
      BY <3>1, <3>2, <3>4 DEF e
    <3> QED
      BY <3>3, <3>4
  <2>4. /\ DOMAIN events' = 1 .. Len(events) /\ Len(events') = Len(events)
        /\ \A i \in 1 .. Len(events) :
             events'[i].block = events[i].block /\ events'[i].moves = events[i].moves
    BY <2>1, <2>2, <2>3
  <2> DEFINE S == [trigger : Nat, block : Nat, moves : { events'[i].moves : i \in DOMAIN events' }]
  <2>5. \A i \in 1 .. Len(events) : events'[i] \in S
    <3> SUFFICES ASSUME NEW i \in 1 .. Len(events)
                 PROVE  events'[i] \in S
      OBVIOUS
    <3>1. events'[i].moves \in { events'[j].moves : j \in DOMAIN events' }
      BY <2>4
    <3>2. events'[i].trigger \in Nat /\ events'[i].block \in Nat
      BY <2>1, <2>3, <2>4
    <3> QED
      BY <2>3, <2>4, <3>1, <3>2
  <2>6. ReorgEvents(events')
    <3>1. events' \in Seq(S)
      <4> HIDE DEF S
      <4>1. events' = [i \in 1 .. Len(events) |-> events'[i]]
        BY <2>2
      <4> QED
        BY <2>1, <2>5, <4>1
    <3> QED
      BY <2>1, <2>4, <3>1 DEF ReorgEvents
  <2>7. ChainsOK'
    <3>1. Len(chains') \in 1 .. Len(events') + 1
      BY <1>0, <1>1, <2>4 DEF ChainsOK
    <3>2. \A i \in 1 .. Len(chains) - 1 : events'[i].block = events[i].block
      BY <1>1, <2>1, <2>4
    <3> QED
      BY <1>0, <1>1, <3>1, <3>2 DEF ChainsOK
  <2>8. StoreOK'
    BY <1>0, <1>1 DEF StoreOK
  <2>9. OnePlace'
    <3>1. \A i \in 1 .. Len(events), tx \in Txs : MovesOf(i, tx)' = MovesOf(i, tx)
      BY <2>4 DEF MovesOf
    <3>2. MovesUp' <=> MovesUp
      BY <2>1, <2>4, <3>1 DEF MovesUp
    <3> QED
      BY <1>0, <1>1, <3>2 DEF OnePlace
  <2>10. MovingOK'
    BY <1>0, <1>1, <1>3 DEF MovingOK
  <2>11. CountersOK'
    BY <1>0, <1>1, <2>4 DEF CountersOK, simVars, reorgState
  <2>12. RunOK'
    BY <1>1, <2>3, <2>4 DEF RunOK
  <2> QED
    BY <1>3, <2>6, <2>7, <2>8, <2>9, <2>10, <2>11, <2>12 DEF IInv
<1> QED
  BY <1>2, <1>3 DEF NewReorgSim

\* A fork leaves the event behind, and only after it was marked.
LEMMA FilterLogsOK ==
    ASSUME IInv, NEW from \in Numbers, NEW to \in Numbers, FilterLogs(from, to)
    PROVE  IInv'
<1>1. /\ pc = "run" /\ pc' = pc /\ UNCHANGED <<events, chains, store, moving, pending>>
  BY DEF FilterLogs, buildVars
<1>2. ReorgEvents(events') /\ ChainsOK' /\ StoreOK' /\ OnePlace'
  BY <1>1, SameChains DEF IInv
<1>3. MovingOK' /\ RunOK'
  BY <1>1 DEF IInv, MovingOK, RunOK
<1>4. CountersOK'
  <2>1. PICK end : /\ triggerForkChain(from, end)
                   /\ asked' = IF forked' # forked THEN FALSE ELSE asked \/ TriggerIn(from, end)
    BY DEF FilterLogs
  <2>2. /\ forked \in Int /\ -1 <= forked /\ forked < Len(events)
        /\ currentReorgEvent = forked + 1
        /\ triggered \in {forked, forked + 1}
        /\ triggered # forked => asked
        /\ currentBlock \in Nat
        /\ events' = events
    BY <1>1 DEF IInv, CountersOK
  <2>3. CASE UNCHANGED reorgState
    BY <2>1, <2>2, <2>3 DEF CountersOK, reorgState
  <2>4. CASE TriggerIn(from, end) /\ triggered < currentReorgEvent
    <3>1. /\ triggered' = currentReorgEvent
          /\ UNCHANGED <<currentReorgEvent, forked, currentBlock>>
      BY <2>1, <2>4 DEF triggerForkChain
    <3>2. asked'
      BY <2>1, <2>4, <3>1
    <3> QED
      BY <2>2, <3>1, <3>2 DEF CountersOK
  <2>5. CASE TriggerIn(from, end) /\ triggered > forked /\ forkChain
    <3>1. /\ currentBlock' = events[currentReorgEvent + 1].block
          /\ forked' = triggered /\ triggered' = triggered
          /\ currentReorgEvent' = currentReorgEvent + 1
      BY <2>5 DEF forkChain
    <3>2. currentReorgEvent < Len(events)
      BY <2>5 DEF TriggerIn
    <3>3. Len(events) \in Nat /\ currentReorgEvent + 1 \in DOMAIN events
      BY <2>2, <3>2, EventsFacts DEF IInv
    <3>4. currentBlock' \in Nat
      BY <3>1, <3>3, EventsFacts DEF IInv
    <3> QED
      BY <2>2, <2>5, <3>1, <3>2, <3>3, <3>4 DEF CountersOK
  <2> QED
    BY <2>1, <2>3, <2>4, <2>5 DEF triggerForkChain
<1> QED
  BY <1>1, <1>2, <1>3, <1>4 DEF IInv

\* BlockNumber moves the height alone.
LEMMA BlockNumberOK ==
    ASSUME IInv, BlockNumber
    PROVE  IInv'
<1>1. /\ pc' = pc /\ UNCHANGED <<events, chains, store, moving, pending>>
      /\ UNCHANGED <<currentReorgEvent, triggered, forked, asked>>
  BY DEF BlockNumber, buildVars
<1>2. ReorgEvents(events') /\ ChainsOK' /\ StoreOK' /\ OnePlace'
  BY <1>1, SameChains DEF IInv
<1>3. MovingOK' /\ RunOK'
  BY <1>1 DEF IInv, MovingOK, RunOK
<1>4. currentBlock' \in Nat
  BY ReorgSimAssumption DEF BlockNumber, IInv, CountersOK
<1>5. CountersOK'
  BY <1>1, <1>4 DEF IInv, CountersOK
<1> QED
  BY <1>1, <1>2, <1>3, <1>5 DEF IInv

\* Every step keeps the invariant.
LEMMA NextIInv ==
    ASSUME IInv, [Next]_vars
    PROVE  IInv'
<1>1. CASE ForkEvent
  BY <1>1, ForkOK
<1>2. CASE MoveNextBlock
  BY <1>2, MoveNextBlockOK
<1>3. CASE MoveLogs
  BY <1>3, MoveLogsOK
<1>4. CASE EventBuilt
  BY <1>4, EventBuiltOK
<1>5. CASE NewReorgSim
  BY <1>5, NewReorgSimOK
<1>6. CASE \E from, to \in Numbers : FilterLogs(from, to)
  BY <1>6, FilterLogsOK
<1>7. CASE BlockNumber
  BY <1>7, BlockNumberOK
<1>8. CASE HeaderByNumber \/ BatchCallContext
  BY <1>8, PanicOK DEF HeaderByNumber, BatchCallContext
<1>9. CASE UNCHANGED vars
  <2>1. UNCHANGED <<pc, events, chains, store, moving, pending, simVars>>
    BY <1>9 DEF vars, buildVars
  <2>2. ReorgEvents(events') /\ ChainsOK' /\ StoreOK' /\ OnePlace'
    BY <2>1, SameChains DEF IInv
  <2>3. MovingOK' /\ CountersOK' /\ RunOK'
    BY <2>1 DEF IInv, MovingOK, CountersOK, RunOK, simVars, reorgState
  <2> QED
    BY <2>1, <2>2, <2>3 DEF IInv
<1> QED
  BY <1>1, <1>2, <1>3, <1>4, <1>5, <1>6, <1>7, <1>8, <1>9 DEF Next

\* The invariant holds of every state of the simulation.
THEOREM Invariance == Spec => []IInv
<1> QED
  BY InitIInv, NextIInv, PTL DEF Spec

\* TypeOK holds of every state: chains only have blocks that are stored, and the
\* counters of triggerForkChain and forkChain stay one behind the other.
THEOREM TypeCorrect == Spec => []TypeOK
<1>1. IInv => TypeOK
  <2> SUFFICES ASSUME IInv
               PROVE  TypeOK
    OBVIOUS
  <2>1. Len(chains) <= Len(events) + 1 /\ DOMAIN chains = 1 .. Len(chains)
    BY EventsFacts, LastFacts, LenProperties DEF IInv, ChainsOK
  <2>2. \A i \in DOMAIN chains : \A n \in DOMAIN chains[i] : Block(chains[i], n) \in DOMAIN store
    <3>1. \A i \in 1 .. Len(chains) : DOMAIN chains[i] = Heights
      BY ElementOfSeq DEF IInv, ChainsOK
    <3> QED
      BY <2>1, <3>1 DEF IInv, StoreOK
  <2> QED
    BY <2>1, <2>2 DEF IInv, TypeOK, CountersOK, RunOK
<1> QED
  BY <1>1, Invariance, PTL

\* ForkTakesTwoCalls holds of every step: triggerForkChain has marked the event before
\* it forks, so an earlier FilterLogs had the trigger block in its range.
THEOREM ForksTakeTwoCalls == Spec => ForkTakesTwoCalls
<1>1. IInv /\ [Next]_vars => [forked' # forked => asked]_vars
  <2> SUFFICES ASSUME IInv, Next, forked' # forked
               PROVE  asked
    BY DEF vars, simVars, reorgState
  <2>1. PICK from \in Numbers, to \in Numbers : FilterLogs(from, to)
    BY DEF Next, ForkEvent, MoveNextBlock, MoveLogs, EventBuilt, NewReorgSim, BlockNumber,
           HeaderByNumber, BatchCallContext, Panic, simVars, reorgState
  <2>2. triggered > forked
    BY <2>1 DEF FilterLogs, triggerForkChain, forkChain, reorgState
  <2> QED
    BY <2>2 DEF IInv, CountersOK
<1> QED
  BY <1>1, Invariance, PTL DEF Spec, ForkTakesTwoCalls

\* The hash of a block in chain i of a running simulation
HashIn(i, n) ==
    IF n \in Heights THEN <<n, chains[i][n]>>
    ELSE IF n >= events[IF i > Len(events) THEN Len(events) ELSE i].block THEN <<n, i>>
    ELSE <<n, -1>>

\* BatchHash answers with that hash.
LEMMA HashFacts ==
    ASSUME ChainsOK, ReorgEvents(events), Len(chains) = Len(events) + 1,
           NEW f \in Int, -1 <= f, f < Len(events), NEW n
    PROVE  BatchHash(chains[f + 2], f + 1, n) = HashIn(f + 2, n)
<1>1. f + 2 \in 1 .. Len(chains) /\ Len(events) \in Nat
  BY EventsFacts
<1>2. DOMAIN chains[f + 2] = Heights
  BY <1>1, ElementOfSeq DEF ChainsOK
<1>3. f + 1 + 1 = f + 2 /\ Len(events) - 1 + 1 = Len(events) /\ (f + 2 > Len(events) <=> f + 1 >= Len(events))
  BY <1>1
<1> QED
  BY <1>1, <1>2, <1>3 DEF HashIn, BatchHash, Block, ReorgHash

\* HashChangesWithFork holds of every step: the chain of an event has new objects
\* from its block on, and the objects of the chain before it below.
THEOREM ForksChangeHashes == Spec => HashChangesWithFork
<1> DEFINE A == (pc = "run" /\ pc' = "run" /\ events # <<>>) =>
                  \A n \in Numbers :
                      n \in DOMAIN newBlockChain \/ Rising =>
                          (HashOf(n)' # HashOf(n) <=>
                              forked' # forked /\ n >= events[forked' + 1].block)
<1>1. IInv /\ IInv' /\ [Next]_vars => [A]_vars
  <2> SUFFICES ASSUME IInv, IInv', Next, pc = "run", pc' = "run", events # <<>>,
                      NEW n \in Numbers, n \in Heights \/ Rising
               PROVE  HashOf(n)' # HashOf(n) <=>
                        forked' # forked /\ n >= events[forked' + 1].block
    BY DEF Heights
  <2>0. CountersOK /\ ChainsOK /\ ReorgEvents(events) /\ Len(chains) = Len(events) + 1
    BY DEF IInv, RunOK
  <2>1. events' = events /\ chains' = chains /\ (forked' = forked \/ forked' = forked + 1)
    <3>1. CASE BlockNumber
      BY <3>1 DEF BlockNumber, buildVars
    <3>2. ASSUME NEW from \in Numbers, NEW to \in Numbers, FilterLogs(from, to)
          PROVE  events' = events /\ chains' = chains /\ (forked' = forked \/ forked' = forked + 1)
      BY <2>0, <3>2 DEF FilterLogs, buildVars, triggerForkChain, forkChain, reorgState, CountersOK
    <3> QED
      BY <3>1, <3>2 DEF Next, ForkEvent, MoveNextBlock, MoveLogs, EventBuilt, NewReorgSim,
           HeaderByNumber, BatchCallContext, Panic
  <2> DEFINE i    == forked + 2
             L    == Len(events)
  <2>2. /\ L \in Nat /\ i \in Int /\ 1 <= i /\ i <= L + 1
        /\ forked \in Int /\ forked' \in Int /\ forked' < L
        /\ \A j \in 1 .. L : events[j].block \in Nat
    <3>1. forked' \in Int /\ forked' < Len(events)
      BY <2>1 DEF IInv, CountersOK
    <3> QED
      BY <2>0, <3>1, EventsFacts DEF CountersOK
  <2>3. HashOf(n) = HashIn(i, n)
    BY <2>0, HashFacts DEF HashOf, CountersOK
  <2>4. HashOf(n)' = HashIn(forked' + 2, n)
    <3>1. HashOf(n)' = BatchHash(chains[forked' + 2], forked' + 1, n)
      <4>1. currentReorgEvent' = forked' + 1
        BY DEF IInv, CountersOK
      <4> QED
        BY <2>1, <4>1 DEF HashOf, BatchHash
    <3>2. -1 <= forked'
      BY DEF IInv, CountersOK
    <3> QED
      BY <2>0, <2>2, <3>1, <3>2, HashFacts
  <2>5. CASE forked' = forked
    BY <2>3, <2>4, <2>5
  <2>6. CASE forked' = forked + 1
    <3>1. forked' + 2 = i + 1 /\ forked' + 1 = i /\ i \in 1 .. L /\ forked' # forked
      BY <2>2, <2>6
    <3>0. n \in Nat
      BY ReorgSimAssumption
    <3>2. CASE n \in Heights
      <4>1. /\ chains[i + 1][n] = IF n >= events[i].block THEN i ELSE chains[i][n]
            /\ chains[i][n] < i /\ chains[i][n] \in Nat
        BY <2>0, <2>2, <3>1, <3>2, ChainFacts DEF ChainsOK
      <4>2. chains[i + 1][n] # chains[i][n] <=> n >= events[i].block
        BY <3>1, <4>1
      <4> QED
        BY <2>3, <2>4, <3>1, <3>2, <4>2 DEF HashIn
    <3>3. CASE n \notin Heights
      <4>0. Rising
        BY <3>3
      <4>1. HashIn(i, n) = IF n >= events[i].block THEN <<n, i>> ELSE <<n, -1>>
        BY <2>2, <3>1, <3>3 DEF HashIn
      <4>2. CASE i = L
        <5>1. HashIn(i + 1, n) = IF n >= events[i].block THEN <<n, i + 1>> ELSE <<n, -1>>
          BY <2>2, <3>3, <4>2 DEF HashIn
        <5> HIDE DEF i
        <5>2. <<n, i>> # <<n, i + 1>>
          BY <2>2
        <5> QED
          BY <2>3, <2>4, <3>1, <4>1, <5>1, <5>2
      <4>3. CASE i < L
        <5>1. HashIn(i + 1, n) = IF n >= events[i + 1].block THEN <<n, i + 1>> ELSE <<n, -1>>
          BY <2>2, <3>3, <4>3 DEF HashIn
        <5>2. i + 1 \in 1 .. L /\ i <= i + 1 /\ DOMAIN events = 1 .. L
          BY <2>0, <2>2, <3>1, <4>3, EventsFacts
        <5>3. events[i].block <= events[i + 1].block
          BY <3>1, <4>0, <5>2 DEF Rising
        <5>4. events[i].block \in Nat /\ events[i + 1].block \in Nat
          BY <2>2, <3>1, <5>2
        <5> HIDE DEF i
        <5>5. CASE n >= events[i].block
          <6>1. HashOf(n) = <<n, i>> /\ (HashOf(n)' = <<n, i + 1>> \/ HashOf(n)' = <<n, -1>>)
            BY <2>3, <2>4, <3>1, <4>1, <5>1, <5>5
          <6>2. <<n, i>> # <<n, i + 1>> /\ <<n, i>> # <<n, -1>>
            BY <2>2
          <6> QED
            BY <3>1, <5>5, <6>1, <6>2
        <5>6. CASE ~ (n >= events[i].block)
          <6>1. ~ (n >= events[i + 1].block)
            BY <3>0, <5>3, <5>4, <5>6
          <6>2. HashOf(n) = <<n, -1>> /\ HashOf(n)' = <<n, -1>>
            BY <2>3, <2>4, <3>1, <4>1, <5>1, <5>6, <6>1
          <6> QED
            BY <3>1, <5>6, <6>2
        <5> QED
          BY <5>5, <5>6
      <4> QED
        BY <2>2, <3>1, <4>2, <4>3
    <3> QED
      BY <3>2, <3>3
  <2> QED
    BY <2>1, <2>5, <2>6
<1> QED
  BY <1>1, Invariance, PTL DEF Spec, HashChangesWithFork

-----------------------------------------------------------------------------
(* Every chain has every log once *)

\* A log with one of a query's topics has one of its addresses, and the other way
\* round.  appendFilterLogs takes a log that matches either, eth_getLogs asks for both.
TopicsTellAddresses ==
    \A q \in Queries, tx \in Txs : q.topics # Nil =>
        (Topic[tx] \in q.topics <=> Address[tx] \in q.addresses)

\* appendFilterLogs, by the transaction of the log
Passes(tx, q) ==
    \/ q.addresses = Nil /\ q.topics = Nil
    \/ q.addresses # Nil /\ q.topics # Nil /\ Topic[tx] \in q.topics
    \/ q.addresses # Nil /\ Address[tx] \in q.addresses

\* What FilterLogs answers for one block of a chain.
LEMMA AnswerFacts ==
    ASSUME IInv, NEW i \in DOMAIN chains, NEW n \in DOMAIN chains[i], NEW q
    PROVE  /\ i \in 1 .. Len(chains) /\ DOMAIN chains[i] = Heights
           /\ Block(chains[i], n) \in DOMAIN store
           /\ Answer(chains[i], n, n, q) = { l \in store[Block(chains[i], n)] : Passes(l.tx, q) }
<1>1. ChainsOK /\ StoreOK
  BY DEF IInv
<1>2. i \in 1 .. Len(chains) /\ DOMAIN chains[i] = Heights
  BY <1>1, ElementOfSeq, LenProperties DEF ChainsOK
<1>3. n \in Nat /\ (n .. n) \cap DOMAIN chains[i] = {n}
  BY <1>2, HeightsOK
<1>4. Block(chains[i], n) \in DOMAIN store
  BY <1>1, <1>2 DEF StoreOK
<1>5. Answer(chains[i], n, n, q) = appendFilterLogs(store[Block(chains[i], n)], q)
  BY <1>3 DEF Answer
<1> QED
  BY <1>2, <1>4, <1>5 DEF appendFilterLogs, Passes

\* A query shows a log in the one block that holds it, if the log passes the query.
LEMMA ShownOnce ==
    ASSUME IInv, MovesUp, NEW i \in DOMAIN chains, NEW tx \in Txs, NEW q
    PROVE  Cardinality(ShownIn(i, tx, q)) = IF Passes(tx, q) THEN 1 ELSE 0
<1>0. i \in 1 .. Len(chains) /\ DOMAIN chains[i] = Heights
  BY ElementOfSeq, LenProperties DEF IInv, ChainsOK
<1>1. PICK n \in Heights : \A m \in Heights : Holds(store, chains[i], m, tx) <=> m = n
  BY <1>0 DEF IInv, OnePlace
<1>2. ASSUME NEW m \in Heights
      PROVE  m \in ShownIn(i, tx, q) <=> Passes(tx, q) /\ m = n
  <2> DEFINE b == Block(chains[i], m)
  <2>1. b \in DOMAIN store /\ Answer(chains[i], m, m, q) = { l \in store[b] : Passes(l.tx, q) }
    BY <1>0, AnswerFacts
  <2>2. store[b] \subseteq [tx : Txs, block : {b}]
    BY <2>1 DEF IInv, StoreOK
  <2>3. Holds(store, chains[i], m, tx) <=> [tx |-> tx, block |-> b] \in store[b]
    BY DEF Holds
  <2> HIDE DEF b
  <2>4. (\E l \in store[b] : l.tx = tx) <=> [tx |-> tx, block |-> b] \in store[b]
    BY <2>2
  <2>5. m \in ShownIn(i, tx, q) <=> \E l \in store[b] : Passes(l.tx, q) /\ l.tx = tx
    BY <1>0, <2>1 DEF ShownIn
  <2>6. (\E l \in store[b] : Passes(l.tx, q) /\ l.tx = tx)
          <=> Passes(tx, q) /\ \E l \in store[b] : l.tx = tx
    OBVIOUS
  <2> QED
    BY <1>1, <2>3, <2>4, <2>5, <2>6
<1>3. ShownIn(i, tx, q) \subseteq Heights
  BY <1>0 DEF ShownIn
<1>4. CASE Passes(tx, q)
  <2>1. ShownIn(i, tx, q) = {n}
    BY <1>2, <1>3, <1>4
  <2> QED
    BY <1>4, <2>1, FS_Singleton
<1>5. CASE ~ Passes(tx, q)
  <2>1. ShownIn(i, tx, q) = {}
    BY <1>2, <1>3, <1>5
  <2> QED
    BY <1>5, <2>1, FS_EmptySet
<1> QED
  BY <1>4, <1>5

\* LogsInOneBlock holds of every state, if topics tell addresses: while NewBlockChain
\* builds chain after chain on blocks they share, forking copies a block's logs with
\* it and moveLogs moves them in the chain of its own event only.
THEOREM EveryLogOnce ==
    ASSUME TopicsTellAddresses
    PROVE  Spec => []LogsInOneBlock
<1>1. IInv => LogsInOneBlock
  <2> SUFFICES ASSUME IInv, MovesUp, NEW i \in DOMAIN chains
               PROVE  /\ \A tx \in Txs, q \in Queries :
                           Cardinality(ShownIn(i, tx, q)) = IF Matches(tx, q) THEN 1 ELSE 0
                      /\ \A n \in DOMAIN chains[i] : \A l \in Answer(chains[i], n, n, AnyLog) :
                           l.block = Block(chains[i], n)
    BY DEF LogsInOneBlock
  <2>1. ASSUME NEW tx \in Txs, NEW q \in Queries
        PROVE  Matches(tx, q) <=> Passes(tx, q)
    BY ReorgSimAssumption DEF TopicsTellAddresses, Matches, Passes
  <2>2. ASSUME NEW n \in DOMAIN chains[i], NEW l \in Answer(chains[i], n, n, AnyLog)
        PROVE  l.block = Block(chains[i], n)
    <3> DEFINE b == Block(chains[i], n)
    <3>1. b \in DOMAIN store /\ l \in store[b]
      BY <2>2, AnswerFacts
    <3> HIDE DEF b
    <3>2. store[b] \subseteq [tx : Txs, block : {b}]
      BY <3>1 DEF IInv, StoreOK
    <3> QED
      BY <3>1, <3>2 DEF b
  <2> QED
    BY <2>1, <2>2, ShownOnce
<1> QED
  BY <1>1, Invariance, PTL

=============================================================================
