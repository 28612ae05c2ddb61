--------------------------- MODULE MCDidLifecycle ---------------------------
(* DidLifecycle for TLC. *)
EXTENDS DidLifecycle, TLC
=============================================================================
