--------------------------- MODULE MCKeyVersions ---------------------------
(* Instances of KeyVersions for TLC. *)
EXTENDS KeyVersions

\* Three keys, one a prefix of another, none with a byte 0 or 1 after a prefix
\* that is a key too.
PlainKeys == {<<2>>, <<3>>, <<3, 3>>}

\* Fewer keys, more writes of each.
TwoKeys == {<<2>>, <<3>>}
=============================================================================
