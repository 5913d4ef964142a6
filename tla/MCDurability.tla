---------------------------- MODULE MCDurability ----------------------------
(* Instances of Durability for TLC. *)
EXTENDS Durability

KeySymmetry == Permutations(Keys)
=============================================================================
