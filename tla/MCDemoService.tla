---------------------------- MODULE MCDemoService ----------------------------
(* Two names and two pools, which are all alike, on a chain that holds two *)
(* of them at a time.                                                      *)
EXTENDS DemoService

CONSTANTS n1, n2, p1, p2

\* Each name has a transaction of its own.
MCTxOf == [n \in Names |-> n]

Permuted == Permutations({n1, n2}) \cup Permutations({p1, p2})
=============================================================================
