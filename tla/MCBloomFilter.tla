--------------------------- MODULE MCBloomFilter ---------------------------
(* Instances of BloomFilter for TLC. *)
EXTENDS BloomFilter

ThreeKeys == {1, 2, 3}

\* Words of 16 bits: a hash with all bits, one that wraps soon, one without any.
Hashes == [key \in ThreeKeys |-> CASE key = 1 -> 65535 [] key = 2 -> 40001 [] key = 3 -> 0]
=============================================================================
