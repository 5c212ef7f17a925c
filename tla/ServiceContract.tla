--------------------------- MODULE ServiceContract ---------------------------
(***************************************************************************)
(* What the managed engine promises a ServiceEngine, as one life per block *)
(* hash: a block is handed to HandleGoodBlocks at most once, and to        *)
(* HandleReorgedBlocks at most once and only after that (README.md,        *)
(* "Understanding PollerResult"; internal/engine/STATES.md).               *)
(***************************************************************************)
CONSTANT Hashes

VARIABLE life   \* hash -> "new", "applied" or "reverted"

Lives == {"new", "applied", "reverted"}

Init == life = [h \in Hashes |-> "new"]

\* Some hashes pass from one stage of their life to the next.
Pass(from, to) ==
    /\ life' \in [Hashes -> Lives]
    /\ \A h \in Hashes : life'[h] # life[h] => life[h] = from /\ life'[h] = to

Apply == Pass("new", "applied")

Revert == Pass("applied", "reverted")

Next == Apply \/ Revert

Spec == Init /\ [][Next]_life
=============================================================================
