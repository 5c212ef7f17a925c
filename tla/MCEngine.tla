------------------------------ MODULE MCEngine ------------------------------
(* Instances of EngineSystem for TLC: two forks of heights 1 and 2, and 3. *)
EXTENDS EngineSystem
CONSTANTS a1, b1, a2, b2, a3
MCHashes == {a1, b1, a2, b2, a3}
MCNumberOf == [h \in MCHashes |-> CASE h \in {a1, b1} -> 1
                                    [] h \in {a2, b2} -> 2
                                    [] h = a3 -> 3]
MCLastGoods == {0, 2}
=============================================================================
