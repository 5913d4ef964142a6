----------------------------- MODULE KeyVersions -----------------------------
(***************************************************************************)
(* What happens to the versions of a key: the order of InternalKeys, the   *)
(* lookups in memtables, tables and levels, the flush and the merge of a   *)
(* compaction. Locks and I/O are in the other modules: here an operation   *)
(* of class DB (src/db.cc) is one step.                                    *)
(*                                                                         *)
(* Keys are sequences of bytes, as in the code, over bytes 0..Base-1 (256  *)
(* there) and with SeqDigits sequence digits in an InternalKey (7 there).  *)
(* The n-th write writes the value n; the empty value, a tombstone, is 0.  *)
(***************************************************************************)
EXTENDS Naturals, FiniteSets, Sequences, SequencesExt

CONSTANTS
  UserKeys,         \* keys of the callers, sequences of bytes
  Base,             \* values of a byte
  SeqDigits,        \* bytes of the sequence number in an InternalKey
  WriteBufferSize,  \* records that fill a memtable
  BlockEntries,     \* records that fill a data block
  TableCapacity,    \* records after which a compaction starts its next table
  L0Trigger,        \* options_.l0_compaction_trigger
  MaxWrites         \* bound: calls of Put and Delete

ASSUME VersionsAssumption ==
  /\ Base \in Nat \ {0, 1} /\ SeqDigits \in Nat \ {0}
  /\ \A k \in UserKeys : k \in Seq(0..Base - 1)
  /\ WriteBufferSize \in Nat \ {0} /\ BlockEntries \in Nat \ {0}
  /\ TableCapacity \in Nat \ {0} /\ L0Trigger \in Nat \ {0}

VARIABLES
  mem,     \* mem_: its records in a set, and last_seq_
  imm,     \* imm_: whether it is set, and its records
  level0,  \* levels_[0]: tables, oldest first; a table is a sequence of records
  level1,  \* levels_[1]: tables by first key
  writes,  \* calls of Put and Delete so far
  latest,  \* history: latest[k], the last value written of k
  exposed  \* history: keys whose versions a known hazard has mixed up

vars == <<mem, imm, level0, level1, writes, latest, exposed>>

Tombstone == 0
NoMem == [set |-> FALSE, data |-> {}]

-----------------------------------------------------------------------------
(* InternalKeys *)

Power[n \in 0..SeqDigits] == IF n = 0 THEN 1 ELSE Base * Power[n - 1]

MaxSequence == Power[SeqDigits] - 1

ASSUME BoundAssumption == MaxWrites \in 0..MaxSequence

\* Fixed64 is stored least significant byte first: the type, which is the low
\* byte, comes before the sequence number, and of that the low digit comes first.
Trailer(seq, value) ==
  <<IF value = Tombstone THEN 0 ELSE 1>>
    \o [d \in 1..SeqDigits |-> ((MaxSequence - seq) \div Power[d - 1]) % Base]

MakeInternalKey(k, seq, value) == k \o Trailer(seq, value)

\* The newest sequence number and the smaller type.
MakeLookupKey(k) == MakeInternalKey(k, MaxSequence, Tombstone)

ExtractUserKey(ik) == SubSeq(ik, 1, Len(ik) - SeqDigits - 1)

\* Slice::compare: memcmp, then the shorter first.
Less(a, b) ==
  \/ Len(a) < Len(b) /\ \A i \in DOMAIN a : a[i] = b[i]
  \/ \E i \in DOMAIN a \cap DOMAIN b :
        a[i] < b[i] /\ \A j \in 1..i - 1 : a[j] = b[j]
AtMost(a, b) == a = b \/ Less(a, b)

Record(k, seq, value) == [key |-> MakeInternalKey(k, seq, value), value |-> value]
UserKey(r) == ExtractUserKey(r.key)

-----------------------------------------------------------------------------
(* Lookups. A result is the set of the value found, empty for NotFound *)

\* The first record not below the lookup key, if it is one of k.
MemTableGet(data, k) ==
  LET above == {r \in data : AtMost(MakeLookupKey(k), r.key)}
      first == {r \in above : \A s \in above : AtMost(r.key, s.key)}
  IN  {r.value : r \in {x \in first : UserKey(x) = k}}

CeilDiv(n, d) == (n + d - 1) \div d
Pieces(s, n) ==
  [p \in 1..CeilDiv(Len(s), n) |->
     SubSeq(s, n * (p - 1) + 1, IF n * p < Len(s) THEN n * p ELSE Len(s))]

Blocks(table) == Pieces(table, BlockEntries)

\* The first block whose last key is not below the lookup key, by bisection of
\* the index; the last block if there is none.
IndexSearch(blocks, lookup) ==
  LET search[range \in (1..Len(blocks)) \X (1..Len(blocks))] ==
        LET left == range[1]
            right == range[2]
            mid == (left + right) \div 2
        IN  IF left >= right THEN left
            ELSE IF Less(Last(blocks[mid]).key, lookup) THEN search[<<mid + 1, right>>]
            ELSE search[<<left, mid>>]
  IN  search[<<1, Len(blocks)>>]

\* The scan of a block stops at the first record that is not below the lookup
\* key and not of a smaller user key.
BlockSearch(block, k) ==
  LET stops == {i \in DOMAIN block : /\ AtMost(MakeLookupKey(k), block[i].key)
                                     /\ AtMost(k, UserKey(block[i]))}
  IN  {block[i].value : i \in {Min(stops \cup {Len(block)})}
                                \cap {j \in stops : UserKey(block[j]) = k}}

\* The Bloom filter has no false negatives and never decides.
TableGet(table, k) ==
  IF table = <<>> THEN {}
  ELSE BlockSearch(Blocks(table)[IndexSearch(Blocks(table), MakeLookupKey(k))], k)

FirstKey(table) == IF table = <<>> THEN <<>> ELSE table[1].key
LastKey(table) == IF table = <<>> THEN <<>> ELSE Last(table).key

\* Get's bisection of a level, which looks into one table only.
LevelGet(level, k) ==
  LET search[range \in (1..Len(level) + 1) \X (0..Len(level))] ==
        LET left == range[1]
            right == range[2]
            mid == (left + right) \div 2
        IN  IF left > right THEN {}
            ELSE IF Less(k, ExtractUserKey(FirstKey(level[mid])))
              THEN search[<<left, mid - 1>>]
            ELSE IF Less(ExtractUserKey(LastKey(level[mid])), k)
              THEN search[<<mid + 1, right>>]
            ELSE TableGet(level[mid], k)
  IN  search[<<1, Len(level)>>]

OldestFirst(tables) == tables
NewestFirst(tables) == Reverse(tables)

\* The value of the first source that has the key; an empty one is NotFound.
Get(k) ==
  LET l0 == NewestFirst(level0)
      sources == <<MemTableGet(mem.data, k), MemTableGet(imm.data, k)>>
                   \o [i \in DOMAIN l0 |-> TableGet(l0[i], k)]
                   \o <<LevelGet(level1, k)>>
      hits == {i \in DOMAIN sources : sources[i] # {}}
  IN  IF hits = {} THEN Tombstone ELSE CHOOSE v \in sources[Min(hits)] : TRUE

-----------------------------------------------------------------------------
(* Iterators *)

\* MemTableIterator: the order of the skip list.
InOrder(data) ==
  CHOOSE s \in [1..Cardinality(data) -> data] :
    /\ \A r \in data : \E i \in 1..Cardinality(data) : s[i] = r
    /\ \A i, j \in 1..Cardinality(data) : i < j => AtMost(s[i].key, s[j].key)

\* Which of two children the heap of MergeIterator has on top. Among equal keys
\* it is the one that was pushed first.
LargerFirst(its, pos, i, j) ==
  \/ Less(its[j][pos[j]].key, its[i][pos[i]].key)
  \/ its[i][pos[i]].key = its[j][pos[j]].key /\ i <= j
OnTop(its, pos, i, j) ==
  \/ Less(its[i][pos[i]].key, its[j][pos[j]].key)
  \/ its[i][pos[i]].key = its[j][pos[j]].key /\ i <= j

\* Advance of MergeIterator yields the top and its iterator moves on. It clears
\* current_ before it tests it: no older version is ever skipped.
Advance(its, acc) ==
  LET live == {i \in DOMAIN its : acc.pos[i] <= Len(its[i])}
      top == CHOOSE i \in live : \A j \in live \ {i} : OnTop(its, acc.pos, i, j)
  IN  IF live = {} THEN acc
      ELSE [pos |-> [acc.pos EXCEPT ![top] = @ + 1],
            out |-> Append(acc.out, its[top][acc.pos[top]])]

\* What n calls of Next yield, from the children's positions pos.
Yield(its, pos, n) ==
  LET acc[i \in 0..n] == IF i = 0 THEN [pos |-> pos, out |-> <<>>]
                         ELSE Advance(its, acc[i - 1])
  IN  acc[n]

\* The place of a record: its child or table, and its place there.
Places(its) == UNION {{c} \X DOMAIN its[c] : c \in DOMAIN its}
RecordAt(its, place) == its[place[1]][place[2]]

Records(its) == Cardinality(Places(its))
FromFirst(its) == [i \in DOMAIN its |-> 1]
Merge(its) == Yield(its, FromFirst(its), Records(its)).out

\* DB::NewIterator: the memtables' children come first.
MemChildren == <<InOrder(mem.data), InOrder(imm.data)>>
Children == MemChildren \o level0 \o level1
Iterator == Merge(Children)

\* MemTableIterator::Seek compares with the user key and only goes forward.
MemTableSeekPast(records, pos, k) ==
  Min({i \in pos..Len(records) : Less(k, UserKey(records[i]))} \cup {Len(records) + 1})
MemTableSeek(records, pos, k) ==
  Min({i \in pos..Len(records) : ~Less(records[i].key, k)} \cup {Len(records) + 1})

\* SSTableIterator::Seek: the block, in it the first record from the lookup key
\* upwards, and if there is none the first record of the next block.
TableSeek(table, k) ==
  LET block == IndexSearch(Blocks(table), MakeLookupKey(k))
      from == BlockEntries * (block - 1) + 1
  IN  IF table = <<>> THEN 1
      ELSE Min({i \in from..Len(table) : \/ i >= from + BlockEntries
                                         \/ AtMost(MakeLookupKey(k), table[i].key)}
                 \cup {Len(table) + 1})

\* MergeIterator::Seek: from pos, the places of its children, to their new ones.
Seek(its, pos, k) ==
  [i \in DOMAIN its |-> IF i \in DOMAIN MemChildren THEN MemTableSeek(its[i], pos[i], k)
                        ELSE TableSeek(its[i], k)]

-----------------------------------------------------------------------------
Init ==
  /\ mem = [seq |-> 0, data |-> {}] /\ imm = NoMem
  /\ level0 = <<>> /\ level1 = <<>>
  /\ writes = 0
  /\ latest = [k \in UserKeys |-> Tombstone]
  /\ exposed = {}

\* MemTable::Add numbers the records of a memtable itself.
Add(m, k, value) ==
  [seq |-> m.seq + 1, data |-> m.data \cup {Record(k, m.seq + 1, value)}]

HasTombstone(data, k) == \E r \in data : UserKey(r) = k /\ r.value = Tombstone

\* Can the record of k that m was given last lie behind an older one? A tombstone
\* is before every value, and among sequence numbers from Base upwards the larger
\* may have the larger low digit.
VersionsMixed(m, k, value) ==
  \/ value # Tombstone /\ HasTombstone(m.data, k)
  \/ m.seq >= Base /\ \E r, s \in m.data : r # s /\ UserKey(r) = k /\ UserKey(s) = k

\* Put, or Delete with the empty value: MakeRoomForWrite may replace mem_ first.
Write(k, value) ==
  /\ writes < MaxWrites /\ writes' = writes + 1
  /\ \/ /\ Cardinality(mem.data) < WriteBufferSize
        /\ mem' = Add(mem, k, value) /\ UNCHANGED imm
     \/ /\ Cardinality(mem.data) >= WriteBufferSize /\ ~imm.set
        /\ imm' = [set |-> TRUE, data |-> mem.data]
        /\ mem' = Add([seq |-> 0, data |-> {}], k, value)
  /\ latest' = [latest EXCEPT ![k] = value]
  /\ exposed' = IF VersionsMixed(mem', k, value) THEN exposed \cup {k} ELSE exposed \ {k}
  /\ UNCHANGED <<level0, level1>>

Put(k) == Write(k, writes + 1)
Delete(k) == Write(k, Tombstone)

\* SSTableBuilder::Add numbers the records of a table itself, by their place.
BuildTable(records) ==
  [i \in DOMAIN records |-> Record(UserKey(records[i]), i, records[i].value)]

Flush ==
  /\ imm.set
  /\ level0' = Append(level0, BuildTable(InOrder(imm.data)))
  /\ imm' = NoMem
  /\ UNCHANGED <<mem, level1, writes, latest, exposed>>

\* The smallest and the largest InternalKey of levels_[0].
MinKey == CHOOSE x \in {FirstKey(t) : t \in ToSet(level0)} :
            \A t \in ToSet(level0) : AtMost(x, FirstKey(t))
MaxKey == CHOOSE x \in {LastKey(t) : t \in ToSet(level0)} :
            \A t \in ToSet(level0) : AtMost(LastKey(t), x)

\* Does a table of levels_[1] overlap that range?
Overlaps(t) == ~Less(MaxKey, FirstKey(t)) /\ ~Less(LastKey(t), MinKey)

\* Where the tables hold versions of k.
Versions(tables, k) == {p \in Places(tables) : UserKey(RecordAt(tables, p)) = k}
Several(versions) == \E p, q \in versions : p # q

\* The elements of s whose places are in chosen, in the order of s.
Chosen(s, chosen) ==
  LET upTo[n \in 0..Len(s)] ==
        IF n = 0 THEN <<>>
        ELSE IF n \in chosen THEN Append(upTo[n - 1], s[n])
        ELSE upTo[n - 1]
  IN  upTo[Len(s)]

\* std::sort, which may leave tables with the same first key in any order.
SortedByFirstKey(tables) ==
  LET n == Len(tables)
  IN  {[i \in 1..n |-> tables[p[i]]] :
         p \in {q \in [1..n -> 1..n] :
                  /\ \A i, j \in 1..n : i # j => q[i] # q[j]
                  /\ \A i, j \in 1..n :
                       i < j => ~Less(FirstKey(tables[q[j]]), FirstKey(tables[q[i]]))}}

\* BackgroundCompaction: all of levels_[0], oldest first, and the tables of
\* levels_[1] it overlaps are merged without the tombstones, and cut into tables
\* that replace them.
Compact ==
  /\ Len(level0) >= L0Trigger
  /\ LET overlapping == {i \in DOMAIN level1 : Overlaps(level1[i])}
         merged == Merge(level0 \o Chosen(level1, overlapping))
         kept == Chosen(merged, {i \in DOMAIN merged : merged[i].value # Tombstone})
         pieces == Pieces(kept, TableCapacity)
         out == [p \in DOMAIN pieces |-> BuildTable(pieces[p])]
         rest == Chosen(level1, DOMAIN level1 \ overlapping)
     IN  level1' \in SortedByFirstKey(rest \o out)
  /\ level0' = <<>>
  /\ exposed' = exposed \cup {k \in UserKeys : /\ Versions(level0, k) # {}
                                              /\ Several(Versions(level0 \o level1, k))}
  /\ UNCHANGED <<mem, imm, writes, latest>>

Next ==
  \/ \E k \in UserKeys : Put(k) \/ Delete(k)
  \/ Flush
  \/ Compact

Spec == Init /\ [][Next]_vars

-----------------------------------------------------------------------------
(* Properties *)

\* Get returns the last value written of every key, except of keys that were put
\* after a Delete into the same memtable, or that share it with an older version
\* after Base writes, and of keys of which a compaction met two versions: what is
\* done to the other keys does not matter. (Level 1 is
\* searched by bisection and its ranges "do not overlap", README.md:13.)
UnexposedReadLatest == \A k \in UserKeys \ exposed : Get(k) = latest[k]

\* No key inside the range of a table of levels_[1] is in the range of another;
\* at most the end of one is the start of the next. A memtable with two versions
\* of a key makes a table whose records, and with them the ranges the overlap
\* test compares, are out of order, and this can be lost.
Level1RangesTouchAtMost ==
  \A i \in 1..Len(level1) - 1 :
    AtMost(ExtractUserKey(LastKey(level1[i])), ExtractUserKey(FirstKey(level1[i + 1])))

\* As long as the bisection can rely on levels_[1], the mix-up of one key's
\* versions never reaches another key, in any memtable, block, index or merge.
GetsLatestUnlessExposed == Level1RangesTouchAtMost => UnexposedReadLatest

\* An iterator yields only what is in a memtable or a table, in the order of the
\* user keys, and misses no user key: a compaction, whose merge is the same, loses
\* none. How often it yields one is the subject of the next property.
IteratorMissesNoKey ==
  LET all == Iterator
      stored == mem.data \cup imm.data
                  \cup UNION {ToSet(t) : t \in ToSet(level0 \o level1)}
  IN  /\ \A i \in 1..Len(all) - 1 : AtMost(UserKey(all[i]), UserKey(all[i + 1]))
      /\ ToSet(all) \subseteq stored
      /\ {UserKey(r) : r \in stored} \subseteq {UserKey(r) : r \in ToSet(all)}

\* An iterator yields no user key twice: it ought to "skip the entry with the same
\* user_key as the last one returned" (iterator.cc:226, README.md:28).
IteratorYieldsKeysOnce ==
  LET all == Iterator
  IN  \A i \in 1..Len(all) - 1 : UserKey(all[i]) # UserKey(all[i + 1])

\* Seek leads where as many calls of Next lead as there are records below the key,
\* from the first record and from there, by the different ways in which memtables
\* and tables look for it. Only forward: a memtable's iterator that is past the key
\* does not go back to it (memtable.cc:26), a table's does.
SeekSkipsWhatIsBelow ==
  LET its == Children
      all == Iterator
  IN  \A k \in UserKeys :
        LET below == Cardinality({i \in DOMAIN all : Less(UserKey(all[i]), k)})
            there == Yield(its, FromFirst(its), below).pos
        IN  Seek(its, FromFirst(its), k) = there /\ Seek(its, there, k) = there
=============================================================================
