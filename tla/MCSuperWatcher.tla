--------------------------- MODULE MCSuperWatcher ---------------------------
(* Instances of SuperWatcher for TLC. *)
EXTENDS SuperWatcher
AllPolicies == {"Fast", "Normal", "Expensive"}
=============================================================================
