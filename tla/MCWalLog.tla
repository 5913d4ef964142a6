------------------------------ MODULE MCWalLog ------------------------------
(* Instances of WalLog for TLC. *)
EXTENDS WalLog

\* A key of one byte and values of no, two and four bytes. With a radix of 2
\* the last two lengths take two and three bytes; the reader gives up the last.
SmallRecords ==
  {[type |-> 1, key |-> <<1>>, value |-> v] : v \in {<<>>, <<0, 3>>, <<0, 1, 2, 3>>}}
=============================================================================
