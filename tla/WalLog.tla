------------------------------- MODULE WalLog -------------------------------
(***************************************************************************)
(* One log file (src/wal.cc): what WALWriter appends to it and what        *)
(* WALReader::Recover makes of it, after whole writes, writes cut short by *)
(* an error or by the end of the process, reopening for appending, and     *)
(* power failures that keep only what was synced.                          *)
(*                                                                         *)
(* A file is a sequence of tokens. A token is a byte or the checksum of    *)
(* the tokens of a record; the checksum is ideal, it matches only what it  *)
(* was computed from. Bytes and lengths are scaled down by Radix, which is *)
(* 128 in the code, and MaxVarintBytes, which is 5.                        *)
(***************************************************************************)
EXTENDS Naturals, FiniteSets, Sequences, SequencesExt

CONSTANTS
  Records,         \* records that may be added: [type, key, value]
  Radix,           \* values of a varint's byte, without its continuation bit
  MaxVarintBytes,  \* bytes after which decoding a length gives up
  MaxRecords,      \* bound: whole records written
  MaxCuts          \* bound: writes cut short, and power failures

Byte == 0..2 * Radix - 1

ASSUME RecordsAssumption ==
  /\ Radix \in Nat \ {0, 1} /\ MaxVarintBytes \in Nat \ {0}
  /\ MaxRecords \in Nat /\ MaxCuts \in Nat
  /\ Records \subseteq [type : Byte, key : Seq(Byte), value : Seq(Byte)]

VARIABLES
  file,    \* the tokens in the log
  synced,  \* how many of them are known to be on the disk
  isOpen,  \* a WALWriter has the file open
  written, \* history: the whole records in the file and where each ends
  intact,  \* history: the length of the part before the first damage
  closed,  \* history: what the reader found when the log was last closed and synced
  cuts     \* writes cut short and power failures so far

vars == <<file, synced, isOpen, written, intact, closed, cuts>>

-----------------------------------------------------------------------------
(* Writing *)

Token(b) == [crc |-> FALSE, of |-> <<b>>]
Crc(raw) == [crc |-> TRUE, of |-> raw]

\* Seven bits at a time, lowest first; all bytes but the last have the
\* continuation bit.
Varint32Encode(n) ==
  LET encode[m \in 0..n] ==
        IF m < Radix THEN <<m>>
        ELSE <<Radix + (m % Radix)>> \o encode[m \div Radix]
  IN  encode[n]

Raw(r) ==
  LET bytes == <<r.type>> \o Varint32Encode(Len(r.key)) \o r.key
                 \o Varint32Encode(Len(r.value)) \o r.value
  IN  [i \in DOMAIN bytes |-> Token(bytes[i])]

Frame(r) == Append(Raw(r), Crc(Raw(r)))

-----------------------------------------------------------------------------
(* Reading *)

Corrupt == [ok |-> FALSE]

\* Low digits first, the continuation bit dropped.
Value(bytes) ==
  LET from[i \in 1..Len(bytes) + 1] ==
        IF i > Len(bytes) THEN 0
        ELSE (bytes[i].of[1] % Radix) + Radix * from[i + 1]
  IN  from[1]

\* The position of the last byte of the varint at i, if there is one. The test
\* for too many bytes comes before that for the continuation bit, so that a
\* varint of MaxVarintBytes is given up too.
VarintEnds(f, i) ==
  {j \in i..i + MaxVarintBytes - 2 :
     /\ j \in DOMAIN f
     /\ \A m \in i..j : ~f[m].crc
     /\ f[j].of[1] < Radix}

\* A length and as many bytes.
ReadSlice(f, i) ==
  IF i \notin DOMAIN f \/ VarintEnds(f, i) = {} THEN Corrupt
  ELSE LET last == Min(VarintEnds(f, i))
           n == Value(SubSeq(f, i, last))
       IN  IF last + n > Len(f) THEN Corrupt
           ELSE [ok |-> TRUE, next |-> last + n + 1,
                 data |-> SubSeq(f, last + 1, last + n)]

\* The checksum is not compared.
AnyCrc(token, raw) == token.crc
CrcMatches(token, raw) == token = Crc(raw)

Bytes(tokens) == [i \in DOMAIN tokens |-> tokens[i].of[1]]

\* The record at position i. No value is put on its type.
ReadRecord(f, i) ==
  LET key == ReadSlice(f, i + 1)
      value == IF key.ok THEN ReadSlice(f, key.next) ELSE Corrupt
  IN  IF /\ value.ok /\ value.next \in DOMAIN f
         /\ CrcMatches(f[value.next], SubSeq(f, i, value.next - 1))
        THEN [ok |-> TRUE, next |-> value.next + 1,
              record |-> [type |-> f[i].of[1], key |-> Bytes(key.data),
                          value |-> Bytes(value.data)]]
        ELSE Corrupt

\* WALReader::Recover: the records handed on, up to the end or the first damage.
Recover(f) ==
  LET from[i \in 1..Len(f) + 1] ==
        IF i > Len(f) THEN <<>>
        ELSE LET r == ReadRecord(f, i)
             IN  IF r.ok THEN <<r.record>> \o from[r.next] ELSE <<>>
  IN  from[1]

-----------------------------------------------------------------------------
Init ==
  /\ file = <<>> /\ synced = 0 /\ isOpen = FALSE
  /\ written = <<>> /\ intact = 0 /\ closed = <<>> /\ cuts = 0

\* For appending: what the file holds stays.
Open ==
  /\ ~isOpen
  /\ isOpen' = TRUE
  /\ UNCHANGED <<file, synced, written, intact, closed, cuts>>

\* All of the record is in the file.
WriteWhole(r) ==
  /\ Len(written) < MaxRecords
  /\ file' = file \o Frame(r)
  /\ written' = Append(written, [record |-> r, end |-> Len(file')])
  /\ intact' = IF intact = Len(file) THEN Len(file') ELSE intact

\* Only the first n tokens of it are.
WritePart(r, n) ==
  /\ cuts < MaxCuts /\ cuts' = cuts + 1
  /\ file' = file \o SubSeq(Frame(r), 1, n)
  /\ UNCHANGED <<written, intact>>

AddRecord(r) ==
  /\ isOpen
  /\ WriteWhole(r)
  /\ UNCHANGED <<synced, isOpen, closed, cuts>>

\* WriteFull fails, AddRecord returns the error and nothing is undone.
AddRecordFails(r, n) ==
  /\ isOpen
  /\ WritePart(r, n)
  /\ UNCHANGED <<synced, isOpen, closed>>

\* The process ends while it adds a record, or outside AddRecord.
Crash ==
  /\ isOpen
  /\ isOpen' = FALSE
  /\ \/ UNCHANGED <<file, written, intact, cuts>>
     \/ \E r \in Records : WriteWhole(r) /\ UNCHANGED cuts
     \/ \E r \in Records : \E n \in 1..Len(Raw(r)) : WritePart(r, n)
  /\ UNCHANGED <<synced, closed>>

CloseWithoutSync ==
  /\ isOpen
  /\ isOpen' = FALSE
  /\ closed' = Recover(file)
  /\ UNCHANGED <<file, synced, written, intact, cuts>>

\* Sync, then close. SyncFile does not say whether fsync failed.
Close ==
  /\ isOpen
  /\ isOpen' = FALSE
  /\ \/ synced' = Len(file) /\ closed' = Recover(file)
     \/ UNCHANGED <<synced, closed>>
  /\ UNCHANGED <<file, written, intact, cuts>>

\* The records of s whose last token is among the first n.
Until(s, n) == [i \in {j \in DOMAIN s : s[j].end <= n} |-> s[i]]

\* Of the tokens that were not synced only the first few are left.
PowerFailure ==
  /\ cuts < MaxCuts /\ cuts' = cuts + 1
  /\ \E n \in synced..Len(file) :
       /\ file' = SubSeq(file, 1, n)
       /\ written' = Until(written, n)
       /\ intact' = Max({e \in {0} \cup {w.end : w \in ToSet(written)} : e <= n /\ e <= intact})
  /\ isOpen' = FALSE
  /\ UNCHANGED <<synced, closed>>

Next ==
  \/ Open \/ Close \/ Crash \/ PowerFailure
  \/ \E r \in Records : AddRecord(r)
  \/ \E r \in Records : \E n \in 0..Len(Raw(r)) : AddRecordFails(r, n)

Spec == Init /\ [][Next]_vars

-----------------------------------------------------------------------------
(* Properties *)

\* A length takes fewer bytes than make the reader give up.
Readable(r) == /\ Len(Varint32Encode(Len(r.key))) < MaxVarintBytes
               /\ Len(Varint32Encode(Len(r.value))) < MaxVarintBytes

Intact ==
  LET whole == Until(written, intact)
      read == {i \in DOMAIN whole : \A j \in 1..i : Readable(whole[j].record)}
  IN  [i \in read |-> whole[i].record]

\* Recover hands on exactly the whole records before the first damage, and before
\* the first whose length takes too many bytes (wal.cc:116), in the order they were
\* written: never one put together from the remains of a write cut short and what
\* was appended after it.
RecoversIntactRecords == Recover(file) = Intact

\* Once Close has synced the log, what could be read then can always be read, also
\* after a power failure and after whatever is appended later. When fsync fails
\* Close promises the same (wal.cc:72 returns OK) and nothing holds.
ClosedIsDurable == IsPrefix(closed, Recover(file))
=============================================================================
