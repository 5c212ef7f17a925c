----------------------------- MODULE MCReorgSim -----------------------------
(* Instances of ReorgSim for TLC: logs in blocks 2, 3 and 4, none in 1 and 5;  *)
(* up to two events with moves up, down, out of and into missing blocks, out   *)
(* of an emptied block, along a chain of blocks, and of logs that are not there.*)
EXTENDS ReorgSim
CONSTANTS t1, t2, t3
MCTxs == {t1, t2, t3}
MCHome == [tx \in MCTxs |-> CASE tx = t1 -> 2 [] tx = t2 -> 3 [] tx = t3 -> 4]
\* t1 and t2 are logged by one contract; a query has no topics, or all topics that
\* its addresses log.
MCAddress == [tx \in MCTxs |-> IF tx = t3 THEN "b" ELSE "a"]
MCTopic == [tx \in MCTxs |-> IF tx = t2 THEN "y" ELSE IF tx = t1 THEN "x" ELSE "z"]
MCQueries == {[addresses |-> Nil, topics |-> Nil], [addresses |-> {"a"}, topics |-> Nil],
              [addresses |-> {"a"}, topics |-> {"x", "y"}]}
MCNumbers == 1 .. 5
Out(from, moves) == [n \in {from} |-> moves]
To(to, txs) == [to |-> to, txs |-> txs]
MCMoves ==
    {[n \in {} |-> <<>>],
     Out(2, <<To(3, {t1})>>), Out(3, <<To(4, {t2})>>), Out(3, <<To(2, {t2})>>),
     Out(4, <<To(3, {t3})>>), Out(3, <<To(4, {t1, t2})>>), Out(3, <<To(4, {t1})>>),
     Out(3, <<To(4, {t2}), To(2, {t2})>>),
     Out(2, <<To(5, {t1})>>), Out(5, <<To(4, {t3})>>),
     [n \in {2, 3} |-> IF n = 2 THEN <<To(3, {t1})>> ELSE <<To(4, {t1})>>],
     [n \in {3, 4} |-> IF n = 3 THEN <<To(4, {t2})>> ELSE <<To(3, {t3})>>]}
MCEvents == [trigger : {0, 4}, block : 2 .. 4, moves : MCMoves]
MCEventLists == UNION { [1 .. k -> MCEvents] : k \in 0 .. 2 }
=============================================================================
