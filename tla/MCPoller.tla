------------------------------ MODULE MCPoller ------------------------------
(* Instances of PollerSystem for TLC. *)
EXTENDS PollerSystem
MCFrom == 1 .. 2
MCTo == {3}
CalmTo == 2 .. 3
AllPolicies == {"Fast", "Normal", "Expensive", "ExpensiveBlock"}
MCFilters == SUBSET Addresses
=============================================================================
