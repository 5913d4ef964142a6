----------------------------- MODULE TableReader -----------------------------
(***************************************************************************)
(* Threads that read one table (src/sstable.cc and SSTableIterator in      *)
(* src/iterator.cc), after it was built as in TableFile. The index and the *)
(* filter are in memory; blocks are read through one FILE, whose position  *)
(* all threads share, with fseek and fread under read_mutex_.              *)
(***************************************************************************)
EXTENDS TableFile

CONSTANT Readers  \* threads with a reference to the table

VARIABLES
  open,     \* what Open returned; "garbled" if it was misled, and returned OK
  index,    \* index_
  ends,     \* first_key_ and last_key_, which class DB searches a level by
  filter,   \* bloom_filter_: the keys it was made of, in a set; {} without one
  lock,     \* read_mutex_: its owner, in a set
  filePos,  \* the position of file_
  pc,       \* where a thread is: idle, in ReadBlock, back from Get, or with an iterator
  reader    \* reader[r]: what a call of Get, or an iterator, keeps

tableVars == <<open, index, ends, filter>>
readVars == <<lock, filePos, pc, reader>>
vars == <<fileVars, tableVars, readVars>>

\* op: what is done with the block that is read. For an iterator, records are
\* the block's and at is the place in them, 0 for an invalid one; want is,
\* counted from the start of the table, the record it ought to be at.
NoReader == [op |-> "none", target |-> 0, block |-> 0, records |-> <<>>,
             at |-> 0, want |-> 0, answer |-> "none"]

Init ==
  /\ FileInit
  /\ open = "no" /\ index = <<>> /\ ends = <<NoKey, NoKey>> /\ filter = {}
  /\ lock = {} /\ filePos = 0
  /\ pc = [r \in Readers |-> "idle"]
  /\ reader = [r \in Readers |-> NoReader]

\* Nothing tells Open that what it takes for the index is none.
Open ==
  /\ status = "finished" /\ open = "no"
  /\ LET f == builder.file
     IN  \/ ~Opens(f) /\ open' = "refused" /\ UNCHANGED <<index, ends, filter>>
         \/ /\ Opens(f)
            /\ \/ ~Garbled(f) /\ open' = "yes" /\ index' = IndexOf(f)
               \/ Garbled(f) /\ open' = "garbled" /\ index' \in Misread(f)
            /\ ends' = <<FirstKeyOf(f, index'), LastKeyOf(index')>>
            /\ filter' = FilterOf(f)
  /\ UNCHANGED <<fileVars, readVars>>

IsOpen == open \in {"yes", "garbled"}

-----------------------------------------------------------------------------
(* ReadBlock *)

Go(r, to) == pc' = [pc EXCEPT ![r] = to]
Become(r, state) == reader' = [reader EXCEPT ![r] = state]

LockAlways(r) == TRUE
LockFree(r) == lock = {}
LockRead(r) ==
  /\ pc[r] = "lock" /\ LockFree(r)
  /\ lock' = lock \cup {r} /\ Go(r, "seek")
  /\ UNCHANGED <<fileVars, tableVars, filePos, reader>>
SeekFile(r) ==
  /\ pc[r] = "seek"
  /\ filePos' = index[reader[r].block].offset /\ Go(r, "read")
  /\ UNCHANGED <<fileVars, tableVars, lock, reader>>

-----------------------------------------------------------------------------
(* Get and SSTableIterator *)

\* A call that goes on at to with state, without reading or to read a block.
Call(r, to, state) ==
  /\ Go(r, to) /\ Become(r, state)
  /\ UNCHANGED <<fileVars, tableVars, lock, filePos>>

\* The first block whose last key is not below k, or the last one.
BeforeOrAt(i, k) == index[i].last <= k
Before(i, k) == index[i].last < k
Bisect(k) ==
  LET search[range \in (1..Len(index)) \X (1..Len(index))] ==
        LET left == range[1]
            right == range[2]
            mid == (left + right) \div 2
        IN  IF left >= right THEN left
            ELSE IF Before(mid, k) THEN search[<<mid + 1, right>>]
            ELSE search[<<left, mid>>]
  IN  search[<<1, Len(index)>>]

\* The filter may deny a key that it was not made of, or not (BloomFilter).
MayDeny(k) == \E ks \in filter : k \notin ks
Get(r, k) ==
  /\ IsOpen /\ pc[r] = "idle"
  /\ LET call == [NoReader EXCEPT !.op = "get", !.target = k]
     IN  \/ /\ MayDeny(k) \/ index = <<>>
            /\ Call(r, "answered", [call EXCEPT !.answer = "notFound"])
         \/ index # <<>> /\ Call(r, "lock", [call EXCEPT !.block = Bisect(k)])

\* The number, in the whole table, of the first record from k upwards.
Wanted(k) == Cardinality({i \in DOMAIN Stored : Stored[i] < k}) + 1

NewIterator(r) ==
  /\ IsOpen /\ pc[r] = "idle"
  /\ LET it == [NoReader EXCEPT !.op = "first", !.block = 1, !.want = 1]
     IN  \/ index = <<>> /\ Call(r, "on", it)
         \/ index # <<>> /\ Call(r, "lock", it)
\* SeekToFirst is what the constructor does.
SeekToFirst(r) ==
  /\ pc[r] = "on" /\ index # <<>>
  /\ Call(r, "lock", [reader[r] EXCEPT !.op = "first", !.block = 1, !.want = 1])
\* Of an empty index there is no block to read: index()[0] is undefined.
Seek(r, k) ==
  /\ pc[r] = "on"
  /\ LET it == [reader[r] EXCEPT !.op = "seek", !.target = k, !.want = Wanted(k)]
     IN  \/ index = <<>> /\ Call(r, "wild", it)
         \/ index # <<>> /\ Call(r, "lock", [it EXCEPT !.block = Bisect(k)])

\* Past the end of a block an iterator loads the next one, if there is one.
MoreBlocks(it) == it.block < Len(index)
NextBlock(it) == [it EXCEPT !.op = "first", !.block = @ + 1]
AtEnd(it) == [it EXCEPT !.block = Len(index) + 1, !.at = 0]

NextRecord(r) ==
  /\ pc[r] = "on" /\ reader[r].at # 0
  /\ LET it == [reader[r] EXCEPT !.want = @ + 1]
         last == it.at = Len(it.records)
     IN  \/ ~last /\ Call(r, "on", [it EXCEPT !.at = @ + 1])
         \/ last /\ MoreBlocks(it) /\ Call(r, "lock", NextBlock(it))
         \/ last /\ ~MoreBlocks(it) /\ Call(r, "on", AtEnd(it))

EndRead(r) ==
  /\ pc[r] \in {"answered", "on", "wild"}
  /\ Call(r, "idle", NoReader)

\* The number of restarts and the checksum, without which there are no records.
SmallestTrailer == 2

\* Is there a block's form? What is not read, or does not happen to have it, is
\* undefined when it is gone through.
HasForm(n) ==
  LET cells == ReadAt(builder.file, filePos, n)
  IN  n >= SmallestTrailer =>
        /\ Inside(builder.file, filePos, n)
        /\ cells[n - 1][1] = "count" /\ cells[n - 1][2] <= n - SmallestTrailer
        /\ \A i \in DOMAIN Entries(cells) :
             Entries(cells)[i][1] = IF i % 2 = 1 THEN "key" ELSE "value"
KeysRead(n) == IF n < SmallestTrailer THEN <<>> ELSE KeysOf(ReadAt(builder.file, filePos, n))

\* What Get makes of a block: its checksum is tested before it is scanned. A filter
\* or an index has a good one, too.
Lookup(n, k) ==
  IF ~Inside(builder.file, filePos, n) THEN "ioError"
  ELSE IF n < SmallestTrailer THEN "notFound"
  ELSE IF ~CrcMatches(ReadAt(builder.file, filePos, n)) THEN "corruption"
  ELSE IF ~HasForm(n) THEN "undefined"
  ELSE IF k \in ToSet(KeysRead(n)) THEN "value"
  ELSE "notFound"

\* An iterator tests no checksum, nor whether the block could be read. Where
\* SeekToFirst, Seek and Next stop in it; only Seek goes on past an empty end.
ReachesAfter(it, ks) == {i \in DOMAIN ks : it.op = "first" \/ ks[i] > it.target}
Reaches(it, ks) == {i \in DOMAIN ks : it.op = "first" \/ ks[i] >= it.target}
Scan(r, it, ks) ==
  LET found == Reaches(it, ks)
      loaded == [it EXCEPT !.records = ks]
  IN  \/ found # {} /\ Go(r, "on") /\ Become(r, [loaded EXCEPT !.at = Min(found)])
      \/ /\ found = {} /\ it.op = "seek" /\ MoreBlocks(it)
         /\ Go(r, "lock") /\ Become(r, NextBlock(loaded))
      \/ /\ found = {} /\ (it.op = "seek" => ~MoreBlocks(it))
         /\ Go(r, "on") /\ Become(r, AtEnd(loaded))

\* fread stops at the end of the file.
CellsRead(n) ==
  Cardinality({i \in DOMAIN builder.file : filePos < i /\ i <= filePos + n})

ReadFile(r) ==
  /\ pc[r] = "read"
  /\ LET it == reader[r]
         n == index[it.block].size
     IN  /\ filePos' = filePos + CellsRead(n)
         /\ \/ /\ it.op = "get" /\ Go(r, "answered")
               /\ Become(r, [it EXCEPT !.answer = Lookup(n, it.target)])
            \/ it.op # "get" /\ HasForm(n) /\ Scan(r, it, KeysRead(n))
            \/ it.op # "get" /\ ~HasForm(n) /\ Go(r, "wild") /\ Become(r, it)
  /\ lock' = lock \ {r}
  /\ UNCHANGED <<fileVars, tableVars>>

Read(r) ==
  \/ LockRead(r) \/ SeekFile(r) \/ ReadFile(r)
  \/ \E k \in Keys : Get(r, k) \/ Seek(r, k)
  \/ NewIterator(r) \/ SeekToFirst(r) \/ NextRecord(r)
  \/ EndRead(r)

Next ==
  \/ Build /\ UNCHANGED <<tableVars, readVars>>
  \/ Open
  \/ \E r \in Readers : Read(r)

Spec == Init /\ [][Next]_vars

-----------------------------------------------------------------------------
(* Properties *)

\* Between its fseek and its fread nobody moves the position that a thread is
\* about to read from (sstable.cc:206, "多线程可能并发读同一 SSTable").
ReadsOwnBlock ==
  \A r \in Readers : pc[r] = "read" => filePos = index[reader[r].block].offset

\* Key, value, a restart offset, their number and the checksum.
SmallestBlock == 5

\* Get returns the value of a key that the table holds, and of no other, whatever
\* other threads read. With its own index it reports damage only if at least two
\* writes failed, and misses what is held only if a block is where another one
\* should be and the index still is in its place, which takes more failures than a
\* block has cells. With a data block for an index it may miss anything, report
\* damage, or read what is not a block.
GetNeverLies ==
  \A r \in Readers : pc[r] = "answered" =>
    LET held == reader[r].target \in ToSet(Stored)
    IN  /\ reader[r].answer = "value" => held
        /\ open = "yes" =>
             /\ reader[r].answer = "notFound" /\ builder.failed <= SmallestBlock => ~held
             /\ reader[r].answer \in {"corruption", "ioError"} => builder.failed > 1
             /\ reader[r].answer # "undefined"

\* In a table with its own index, while at most one write failed: an iterator
\* stands on the record that its calls amount to, through all blocks, and nowhere
\* once they lead past the last; first_key_ and last_key_ are the keys of the first
\* and the last record.
IteratorFollows ==
  open = "yes" /\ builder.failed <= 1 =>
    /\ \A r \in Readers : pc[r] = "on" =>
         LET it == reader[r]
         IN  IF it.want <= Len(Stored) THEN it.at # 0 /\ it.records[it.at] = Stored[it.want]
             ELSE it.at = 0
    /\ ends = IF Stored = <<>> THEN <<NoKey, NoKey>> ELSE <<Stored[1], Last(Stored)>>
=============================================================================
