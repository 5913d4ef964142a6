-------------------------- MODULE MCBackgroundSync --------------------------
(* An instance of BackgroundSync for TLC. *)
EXTENDS BackgroundSync
=============================================================================
