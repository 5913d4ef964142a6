---------------------------- MODULE MCTableReader ----------------------------
(* Small instances of TableReader for TLC. *)
EXTENDS TableReader, TLC

\* Values that, as handles, name too few bytes, a place beyond the end, and a block
\* in a file of this instance that Open is misled about.
ValuesAsHandles == {<<0, 1>>, <<100, 9>>, <<5, 12>>}

ReaderSymmetry == Permutations(Readers)
=============================================================================
