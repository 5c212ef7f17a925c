----------------------------- MODULE MCEmitter -----------------------------
(* Instances of EmitterSystem for TLC. *)
EXTENDS EmitterSystem
MCHeads == 1 .. 8
=============================================================================
