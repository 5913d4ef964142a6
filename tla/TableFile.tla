------------------------------ MODULE TableFile ------------------------------
(***************************************************************************)
(* The file of a table: how SSTableBuilder (src/sstable_builder.cc) writes *)
(* it when writes fail or stop half-way, and what SSTable::Open            *)
(* (src/sstable.cc) makes of it. The builder never asks where in the file  *)
(* it is: it keeps the offset it expects in file_size_.                    *)
(*                                                                         *)
(* A file is a sequence of cells <<kind, content>>, and sizes are counted  *)
(* in cells: a record has one for its key and one for its value, a restart *)
(* offset, a count, a checksum, an index entry, the filter and the footer  *)
(* have one each. A write that stops leaves its first cells. A checksum is *)
(* ideal: its content is what it was computed from. The callers add keys   *)
(* in ascending order; here they are numbers, each added once, and the     *)
(* value of a key is named by the key.                                     *)
(***************************************************************************)
EXTENDS Naturals, FiniteSets, Sequences, SequencesExt

CONSTANTS
  Keys,             \* user keys
  BlockRecords,     \* how many records may fill a data block, they differ in size
  RestartInterval,  \* kRestartInterval
  Handles,          \* what a value is, read as a block handle: <<offset, size>>
  MaxFailures       \* bound: writes that fail

ASSUME FileAssumption ==
  /\ Keys \subseteq Nat \ {0}
  /\ BlockRecords \subseteq Nat \ {0} /\ RestartInterval \in Nat \ {0}
  /\ Handles \subseteq Nat \X Nat
  /\ MaxFailures \in Nat

VARIABLES
  builder,  \* the builder's members, the file, and how many writes have failed
  added,    \* keys_: what was added, in order
  status    \* "building", then what Finish returned, "gone" after Abandon

fileVars == <<builder, added, status>>

-----------------------------------------------------------------------------
(* The parts of a file *)

Data(ks) == [c \in 1..2 * Len(ks) |-> IF c % 2 = 1 THEN <<"key", ks[(c + 1) \div 2]>>
                                       ELSE <<"value", ks[c \div 2]>>]

CeilDiv(n, d) == (n + d - 1) \div d
Restarts(ks) == CeilDiv(Len(ks), RestartInterval)
Checksum(cells) == <<"crc", cells>>

\* What follows a block's records: restart offsets, their number, the checksum.
Trailer(ks) ==
  LET restarts == [i \in 1..Restarts(ks) |-> <<"restart", 2 * RestartInterval * (i - 1)>>]
      counted == Append(restarts, <<"count", Restarts(ks)>>)
  IN  Append(counted, Checksum(Data(ks) \o counted))

IndexEntry(lastKey, offset, size) ==
  <<"entry", [last |-> lastKey, offset |-> offset, size |-> size]>>
Index(infos) ==
  LET counted == IF infos = <<>> THEN <<<<"count", 0>>>>
                 ELSE infos \o <<<<"restart", 0>>, <<"count", 1>>>>
  IN  Append(counted, Checksum(counted))

\* The filter stands for the keys it was made of: module BloomFilter.
Filter(ks) == LET bits == <<<<"filter", ToSet(ks)>>>> IN Append(bits, Checksum(bits))

FooterSize == 1
Footer(indexOffset, indexSize, bloomSize) ==
  <<"footer", [index |-> indexOffset, indexSize |-> indexSize,
               bloom |-> indexOffset + indexSize, bloomSize |-> bloomSize]>>

-----------------------------------------------------------------------------
(* The builder *)

NewBuilder == [file |-> <<>>, size |-> 0, block |-> <<>>, infos |-> <<>>, failed |-> 0]

FileInit ==
  /\ builder = NewBuilder
  /\ added = <<>>
  /\ status = "building"

\* FlushBlock: if the records are not written, it returns, and the block stays.
BlockNotWritten(b) ==
  {[b EXCEPT !.file = @ \o SubSeq(Data(b.block), 1, n), !.failed = @ + 1] :
     n \in 0..Len(Data(b.block)) - 1}

\* Of what follows, any part may fail to be written: that is not tested.
Increasing(n, m) == {p \in [1..n -> 1..m] : \A i, j \in 1..n : i < j => p[i] < p[j]}
Remains(s) ==
  UNION {{[i \in 1..n |-> s[p[i]]] : p \in Increasing(n, Len(s))} : n \in 0..Len(s)}
BlockSizeNoCrc(ks) == Len(Data(ks)) + Len(Trailer(ks)) - 1
BlockSize(ks) == Len(Data(ks)) + Len(Trailer(ks))
BlockWritten(b) ==
  {[file |-> b.file \o Data(b.block) \o written,
    size |-> b.size + BlockSize(b.block),
    block |-> <<>>,
    infos |-> Append(b.infos, IndexEntry(Last(b.block), b.size, BlockSize(b.block))),
    failed |-> b.failed + Len(Trailer(b.block)) - Len(written)] :
     written \in Remains(Trailer(b.block))}

FlushBlock(b) ==
  {f \in BlockNotWritten(b) \cup BlockWritten(b) : f.failed <= MaxFailures}

\* A full block is flushed first, and may still be there afterwards. It is full by
\* its bytes, whatever its number of records.
Add(k) ==
  /\ status = "building" /\ \A i \in DOMAIN added : added[i] < k
  /\ \E full \in BlockRecords :
     \E b \in IF Len(builder.block) >= full THEN FlushBlock(builder) ELSE {builder} :
       builder' = [b EXCEPT !.block = Append(@, k)]
  /\ added' = Append(added, k)
  /\ UNCHANGED status

LastFlushed == IF builder.block # <<>> THEN FlushBlock(builder) ELSE {builder}

\* Index, filter and footer go where the builder expects to be.
Finish ==
  /\ status = "building"
  /\ \E b \in LastFlushed :
       builder' = [b EXCEPT !.file = @ \o Index(b.infos) \o Filter(added)
                      \o <<Footer(b.size, Len(Index(b.infos)), Len(Filter(added)))>>]
  /\ status' = "finished"
  /\ UNCHANGED added

\* The write of the index, the filter or the footer is tested.
FinishFails ==
  /\ status = "building"
  /\ \E b \in LastFlushed :
       /\ b.failed < MaxFailures
       /\ builder' = [b EXCEPT !.failed = @ + 1]
  /\ status' = "failed"
  /\ UNCHANGED added

\* Abandon, and the destructor of a builder that was not finished.
Abandon ==
  /\ status \in {"building", "failed"}
  /\ builder' = [builder EXCEPT !.file = <<>>]
  /\ status' = "gone"
  /\ UNCHANGED added

Build == (\E k \in Keys : Add(k)) \/ Finish \/ FinishFails \/ Abandon

-----------------------------------------------------------------------------
(* SSTable::Open *)

Inside(f, offset, n) == offset + n <= Len(f)
ReadAt(f, offset, n) == SubSeq(f, offset + 1, offset + n)
CrcMatches(cells) == Last(cells) = Checksum(Front(cells))

\* What is before the restarts, their number and the checksum.
Entries(cells) == SubSeq(cells, 1, Len(cells) - 2 - cells[Len(cells) - 1][2])

\* A table that Finish was content with opens if there is something whole where
\* the footer says that the index is.
FooterOf(f) == Last(f)[2]
IndexBlock(f) == ReadAt(f, FooterOf(f).index, FooterOf(f).indexSize)
Opens(f) ==
  /\ Len(f) >= FooterSize
  /\ Inside(f, FooterOf(f).index, FooterOf(f).indexSize)
  /\ CrcMatches(IndexBlock(f))

\* A data block of the size of the index can be there: it is taken for the index.
Garbled(f) == \E i \in DOMAIN Entries(IndexBlock(f)) : Entries(IndexBlock(f))[i][1] # "entry"

KeysOf(cells) == LET es == Entries(cells)
                 IN  [i \in 1..Len(es) \div 2 |-> es[2 * i - 1][2]]

IndexOf(f) == LET es == Entries(IndexBlock(f)) IN [i \in DOMAIN es |-> es[i][2]]

\* Of a data block every record gives an entry: its value, which the callers choose,
\* is decoded as the handle.
Misread(f) ==
  LET keys == KeysOf(IndexBlock(f))
  IN  {[i \in DOMAIN keys |-> [last |-> keys[i], offset |-> h[i][1], size |-> h[i][2]]] :
         h \in [DOMAIN keys -> Handles]}

\* first_key_: the first record of the first block, as far as that can be read. Its
\* checksum is not tested. NoKey stands for the empty key and for what is not one.
NoKey == 0
FirstKeyOf(f, ix) ==
  IF ix = <<>> \/ ~Inside(f, ix[1].offset, ix[1].size) \/ ix[1].size < 2 THEN NoKey
  ELSE LET cell == f[ix[1].offset + 1] IN IF cell[1] = "key" THEN cell[2] ELSE NoKey
LastKeyOf(ix) == IF ix = <<>> THEN NoKey ELSE Last(ix).last

\* The filter is used if it can be read: the keys it was made of, in a set.
FilterOf(f) ==
  LET cells == ReadAt(f, FooterOf(f).bloom, FooterOf(f).bloomSize)
  IN  IF Inside(f, FooterOf(f).bloom, FooterOf(f).bloomSize) /\ CrcMatches(cells)
        THEN {cells[1][2]} ELSE {}

-----------------------------------------------------------------------------
(* Properties *)

\* What the builder holds was not written when Finish returned.
Stored == SubSeq(added, 1, Len(added) - Len(builder.block))

BlockIn(f, e) == ReadAt(f, e.offset, e.size)

\* The blocks that the index names are undamaged and hold all that is stored.
Complete(f) ==
  LET index == IndexOf(f)
  IN  /\ \A i \in DOMAIN index : /\ Inside(f, index[i].offset, index[i].size)
                                 /\ CrcMatches(BlockIn(f, index[i]))
      /\ FlattenSeq([i \in DOMAIN index |-> Entries(BlockIn(f, index[i]))]) = Data(Stored)

\* The place that the footer says the index has ends before the index, which is in
\* front of the filter and the footer.
EndsBeforeIndex(f) ==
  LET at == FooterOf(f)
  IN  at.index + at.indexSize + at.indexSize + at.bloomSize + FooterSize <= Len(f)

\* If no write fails the table opens and has everything that was added. If one
\* fails (FdWriteFull, "可靠的 full write", sstable_builder.cc:96) the table does not
\* open, or lacks only the records of the last block, if that was the one: any other
\* failure moves the index from where the footer says it is. But for one case: what
\* was left of a block that was written again is at least as long as the index, and
\* a data block is in its place, which Open takes for it.
OneFailureIsNoticed ==
  status = "finished" =>
    LET f == builder.file
    IN  /\ builder.failed = 0 => Opens(f) /\ ~Garbled(f) /\ Stored = added
        /\ builder.failed <= 1 /\ Opens(f) =>
             \/ ~Garbled(f) /\ Complete(f)
             \/ Garbled(f) /\ EndsBeforeIndex(f)
=============================================================================
