# miniLSM: verification in TLA+

This directory models miniLSM (`src/src`, `src/include/minilsm`), an LSM-tree
key-value store in C++17 with one background thread, in TLA+. TLC checks the
models on small instances; TLAPS proves theorems about the thread protocol, the
reference counts, what reads find, what crashes cannot take away, what a log gives back, the
skip list, its memory, the reading of tables and the Bloom filter, for every value of the constants.

## 1. The system

| Part | State | Operations | Correct when |
|---|---|---|---|
| `DB`, threads (`db.cc`) | `mutex_`, `bg_cv_`, `imm_flushing_`, `background_work_pending_`, `shutting_down_` | `Put`/`Delete` with `MakeRoomForWrite`, `BackgroundWork`, `BackgroundFlush`, `BackgroundCompaction`, `CompactRange`, `~DB` | no wake-up is lost, flushes exclude each other, stalled writers and `~DB` return |
| `DB`, versions | `mem_`, `imm_`, `levels_`, `ref_count_` of memtables and tables, `next_file_number_` | the same, `Get`, `NewIterator` | reads see a snapshot that loses nothing; reference counts are exact; a file number names one table |
| `DB`, persistence | MANIFEST, logs, table files, `wal_number_` | `WriteManifest`, `ReadManifest`, `Recover`, `Open` | what a crash or a close leaves can be recovered |
| WAL (`wal.cc`) | a log file, its descriptor | `Open`, `AddRecord`, `Sync`, `Close`, `Recover` | recovery yields the intact records, only them, in order |
| InternalKey, `Slice` | none | packing, comparison | the newest version of a key sorts first |
| MemTable (`memtable.cc`) | skip list, `last_seq_` | `Add`, `Get`, iterator | `Get` finds the newest version |
| SSTable, SSTableBuilder | blocks, index, Bloom filter, footer | `Add`, `Finish`, `Open`, `Get`, iterator | a record added is found again |
| MergeIterator (`iterator.cc`) | children, heap | `SeekToFirst`, `Next`, `Seek` | sorted, complete, no key twice (it is not, see 4) |
| SkipList | nodes with a pointer per level | `Insert` under the lock, `FindGreaterOrEqual` and iterator without | a walk finds what was there when it began, in order, and comes to complete nodes |
| Arena | blocks, a pointer into the last | `Allocate`, `AllocateAligned` | no two pieces overlap |
| BloomFilter | bit array | add, test | no false negative |
| `coding` | none | varints, fixed integers, CRC32, file I/O | decoding inverts encoding |

How they interact. A writer holds `mutex_` through `Put`: it appends to the log,
then inserts into `mem_`. When `mem_` is full it becomes `imm_`, a new log and a
new memtable are made, and `bg_cv_` is notified; if `imm_` is still set the
writer waits on `bg_cv_` first. The background thread builds a table from `imm_`
without the lock, under the flag `imm_flushing_`, and merges level 0 into level 1
from a snapshot of referenced tables, also without the lock. `CompactRange` and
`~DB` have their own copies of the flush; `CompactRange` runs
`BackgroundCompaction` itself. `Get` and iterators take references under the
lock and read without it. Each commit of a flush or a compaction rewrites the
MANIFEST in place.

What is hard: one condition variable for four kinds of waiters, two of whose
wake-ups are `notify_one`; flags that stand for the lock across unlocked I/O;
shared ownership by reference counts; a crash between any two file operations;
failed I/O in the middle of each of them; and the order of the versions of a key
through memtables, tables and merges.

## 2. The modules

| Module | Models | State, and actions |
|---|---|---|
| `BackgroundSync` | the thread protocol of `DB` | one action per critical section, from lock to unlock or wait; the set `bg_cv` holds the waiting threads |
| `TableVersions` | memtables, tables, levels, references, file numbers; keys are written once | one action per critical section or step of the unlocked merge; the two halves of the unlocked `next_file_number_++` are separate actions |
| `SnapshotStore` | what the in-memory part promises: a growing set of keys and reads of snapshots | `Put`, `BeginRead`, `EndRead` |
| `Durability` | MANIFEST, logs, table files, recovery | one action per file operation, `Crash` between any two; a compaction's `next_file_number_++` in two steps without the lock, beside `~DB`'s flush |
| `WalLog` | one log, token by token | whole and cut writes, power failures, `Recover` as the code parses |
| `KeyVersions` | InternalKeys, memtable, block, index and level lookups, merge, `Seek` | each operation of `DB` is one step |
| `Arena` | the memory of a memtable | `Allocate`, `AllocateAligned` with the block each falls back to |
| `SkipList` | insertion beside readers; extends `Arena` | one action per step of a search, per allocation and per store into a node |
| `OrderedSet` | what the skip list promises: a set in which a search happens at one moment | `Insert`, `Find`, `Return` |
| `TableFile` | how a table file is written, what `SSTable::Open` accepts and what it makes of it | `Add`, `Finish`, `Abandon`, any write failing or stopping half-way |
| `TableReader` | threads with one table; extends `TableFile` | `Open`, also of a table whose index is not one, `Get`, the iterator's calls, and `fseek` and `fread` of `ReadBlock` as steps |
| `BloomFilter` | `BloomFilter` | each member function; `CreateFilter` probe by probe |

`MC*` modules instantiate them for TLC, `*Proofs` modules hold the theorems.
`TableVersions` instances `SnapshotStore` with a refinement mapping: the abstract
set of keys is what `Get` would find now, a read's view is what it would find in
what it holds. `SkipList` instances `OrderedSet`: the set is what is linked on
level 0, an answer is what a search has found when it is over.

What one module assumes, another shows. `TableVersions` and `Durability` leave
the condition variable to `BackgroundSync`: a thread that must wait is not
enabled there. `Durability` and `TableVersions` use keys written once, so that a
table is its set of keys; what several versions of a key do to each other is in
`KeyVersions`, without threads. `Durability` takes `Replay` as the records before
the first damage; `WalLog` derives that from the bytes. `TableVersions` has
`CompactRange` and no crashes, `Durability` crashes and no `CompactRange`.
A memtable is a set that readers share in `TableVersions` and `KeyVersions`;
`SkipList` derives that from its stores. A table is what was added to it;
`TableReader` derives that from the file, and `BloomFilter` that the filter denies
no key of it.

How the state corresponds. `BackgroundSync` counts: `mem` is the number of records
in `mem_`, `l0` of tables in `levels_[0]`, `snap[t]` how many of the tables in
`t`'s compaction snapshot are still there. `TableVersions` has the objects:
`memtables` and `tables` are all that were ever allocated, with `refs` for
`ref_count_`; `mem`, `imm`, `level0`, `level1` are indices into them; `job[t]` has the
locals of a flush or merge, `snap[r]` those of a read. `Durability` splits into disk (`logs`,
`sst`, `manifest`), which `Crash` keeps, and memory, which it clears; `shared` is the file that two builders write, of which any part of
what they write may be left. In
`KeyVersions` a record is an InternalKey, byte by byte, and its value; the value 0 is
the empty one, which is a tombstone in this code (`db.cc:241`). `latest`, `acked`,
`lost`, `exposed`, `written` are history variables that no guard reads, except
that a key in `acked` or `lost` is not written again.

In `SkipList` a node is named by its InternalKey, a number; `next[i][n]` is a
pointer, `Nil`, above all keys, is `nullptr`; `writer` and `reader[r]` have the locals of
`Insert` and of the unlocked walks. The stores of an insertion are plain (a data
race): `reorders`, chosen at the start, says whether the build makes them visible
in program order or in any other; `writer.todo` are those not yet visible. In
`TableFile` a file is a sequence of cells, `builder` has the members of
`SSTableBuilder` with the file itself; `size` is `file_size_`, where the builder
believes to be. In `TableReader` `filePos` is the position of the shared `FILE`,
`lock` the owner of `read_mutex_`, `reader[r]` what a call of `Get` or an iterator
keeps; `want`, the record the calls amount to, is history; `open` is "garbled" when `Open` returned OK but
has taken a data block for the index, whose entries then are `Misread`. In `BloomFilter` `filter` is an
object, `data` an encoded one, `create` the locals of `CreateFilter`.

Failed I/O is modelled where the code tests for it: an append to the log, the
opening of a log, of a builder and of a finished table, `Finish`, the opening of
the MANIFEST; and in `TableFile` each single write, tested or not.

## 3. What TLC checks

Every cap on a counter is a constant named `Max...`. Deadlock is checked except in
the `keys_*` runs, where the callers simply stop writing, and in `table_file`, where
a file that was abandoned or refused is the end.

| Run | Shows | Instance |
|---|---|---|
| `sync_threads` | `FlushIsExclusive`: one builder per `imm_`, which is not released under it. `NoLostWakeup`: nobody sleeps on a condition that already holds. `NotifyOneReachesBg`: a `notify_one` never finds another waiter than the background thread. `ProtocolInv`: what these rest on. Under `FairSpec`: `ImmDrains`, `StalledWriterReturns`, `CloseReturns` | 2 writers, 2 `CompactRange` callers, background thread, `~DB`; 2 failed I/Os, 1 log that fails to open |
| `tables_compaction` | `AckedFound` through every step of flush and merge, `SearchedByAge`, `Level1Disjoint`, `RefsExact`, `FilesMatchTables`; the DB implements `SnapshotStore` | 4 keys, compactions into a filled level 1 with outputs of up to two keys, 1 read, 1 failed append, flush or merge |
| `tables_close` | `RefsExact`, `NoUseAfterFree` when `CompactRange` and `~DB` flush beside the background thread and iterators outlive the DB | 2 writers, 1 caller of `CompactRange`, `~DB`, 1 read; level 0 below its trigger |
| `durability_crash` | `QuietIsDurable`, `AtMostOneMemtableAtRisk`, `CloseKeepsAll`, `LevelsMatchFiles` | 2 crashes, 1 close, 1 failed file operation, 1 log that fails to open, in any order; a number that `~DB` and a compaction both take; 5 keys |
| `durability_anymoment` | violation, see 4 | 1 crash |
| `wal_cuts` | `RecoversIntactRecords`, `ClosedIsDurable` | 3 records of 3 shapes, 2 cuts or power failures |
| `keys_lookups` | `GetsLatestUnlessExposed`; `IteratorMissesNoKey`: no user key is lost to an iterator or a merge; `SeekSkipsWhatIsBelow` | 6 puts and deletes of 3 keys, tables of 2 records in 2 blocks |
| `keys_lostkey` | violation, see 4 | 7 writes |
| `keys_twice` | violation, see 4 | 4 writes of 2 keys |
| `skiplist_reads` | `MemorySound`: no piece of memory is shared. `LevelsAreLists` after every store; `SearchFindsLeast`, `IteratorYieldsAll` for a walk beside insertions; the list implements `OrderedSet` | 3 insertions of any height up to 2, values that fit into the block or not, 1 reader, stores in program order or in any |
| `table_file` | `OneFailureIsNoticed`: what a failed write can do to a file that `Finish` was content with. `ReadsOwnBlock`, `GetNeverLies`, `IteratorFollows` for two readers of it, also if `Open` took a data block for its index | 5 keys, 2 or 3 records to a block, 2 failing writes, values that read as 3 different handles |
| `bloom_filter` | `NoFalseNegatives`, `OnlyOwnBits`: bits set by `Add` or `CreateFilter` are those `MayContain` asks for | 3 keys, arrays of 64, 96 and 104 bits, 1 or 30 probes |

Why the bounds are enough. In `sync_threads` every pair of threads of the same
kind, and all kinds at once, meet in every wait; `WriteBufferSize` 1 and a trigger
of 2 make stalls and compactions frequent; the proofs in 5 remove the bounds. In
`tables_compaction` three flushes allow three compactions, the later ones with
overlapping and with non-overlapping level-1 tables, while a read holds any
mixture of old and new tables. In `durability_crash` a log and a table number
can be handed out a second time after each of the two crashes, with a close before, between or
after, and in the close `~DB`'s flush can take the number that a compaction has read; the proofs remove the bounds. In `wal_cuts` a cut may fall between any two tokens of a record, be
followed by whole records, and be cut again. In `keys_lookups` six writes fill
two tables that are merged one after the other. In `skiplist_reads` the new
node is the first, the last or between two others, of their height or not, on
memory that ends with the block or not; the proofs remove the bounds. In `table_file` five keys
make a first, a middle and a half-filled last block; three records, of which a cut write
leaves five cells, are the fewest with which one failure puts a data block
where the footer says the index is; two failures are one more
than the code notices; the proofs remove the bounds.

What is scaled down. `wal_cuts`: `Radix` is 2 where the code has 128, so that a
length of two already takes two bytes, and `MaxVarintBytes` is 3 where it has 5, so that the
reader gives up the length of one of the records; the proofs remove both. `keys_*`: bytes below 8 and one digit of sequence
number instead of seven, few enough writes that none wraps (the proof has every number). `table_file`: a
record is two cells, a restart offset, a count, a checksum, an index entry, the filter and the
footer one each, so that a write can stop between any two of them; whether a footer could be torn
is not asked, since `Open` reads it only after `Finish`. `bloom_filter`: a word
has 16 bits instead of 32, and the three hash values are chosen to wrap at the first
probe, later, and never. The checksum is ideal in `wal_cuts` and
`table_file`: it matches only the bytes it was computed from.

`GetsLatestUnlessExposed` has three exceptions, all real (see 4) and made as narrow
as the code allows: a key is in `exposed` from a `Put` after a `Delete` in the same
memtable, from a write of a key that the memtable has when its numbers have reached `Base`
(`VersionsMixed`), or from a compaction that met two versions of it, until it is written
again; and the property is stated for states in which the tables of level 1 at
most touch. `QuietIsDurable`, `AtMostOneMemtableAtRisk` and `CloseKeepsAll` are
stated as long as no I/O has failed, for the reasons given under 4.
`SearchFindsLeast` and `IteratorYieldsAll` except walks beside which a store became
visible out of order: such a walk may come to a node whose contents are not there
(`Unreadable`), after which nothing is promised. `IteratorFollows` is stated for at
most one failed write, since an iterator reads damaged blocks as they are; `GetNeverLies` lets `Get`
miss a key once more writes failed than a block has cells (see 5). A table that `Open` was misled
about is read like any other: `OneFailureIsNoticed` says when that can come to be, `GetNeverLies` that
`Get` finds nothing in it that was not stored, and no property that it finds what was. The Bloom filter is
not exact: of an absent key `MayDeny` leaves it open what it says. `AtMostOneMemtableAtRisk`,
`LevelsMatchFiles` and `CloseKeepsAll` except exactly the keys, or the number, of a table whose number `~DB`'s
flush and a compaction both took (`shared`).

Fairness (`BackgroundSync`). Weak fairness of each thread that is inside a call:
the operating system runs every runnable thread. No caller is obliged to start a
call, hence `pc[w] # "idle"` and `pc[Closer] # "open"`. I/O fails only
`MaxIOFailures` times, so that a flush is retried until it succeeds.
`StalledWriterReturns` says of each writer that it returns, or that the others switch
memtables without end: the mutex alone does not promise any one of them its turn, and another
may fill the next memtable first.

## 4. Where the code and its documents differ

Three runs end in a counterexample to something the repository says of itself.

- `durability_anymoment`: the log "guarantees durability" (`README.md:13`); the
  MANIFEST learns of a new log only when a flush or a compaction commits, and
  recovery replays one log. A crash before that loses what the new log holds.
- `keys_lostkey`: level-1 ranges "do not overlap, which supports binary search"
  (`README.md:13`). A memtable with two versions of one key is flushed into a table
  whose InternalKeys descend; if level 0 holds only such tables of one key its
  range is empty and overlaps nothing. The new tables end up beside those that
  hold the key, the ranges become [2,3], [2,2], [2,2], and the bisection misses
  the key 3, written once and never deleted. The trace was replayed on the
  compiled program (`l0_compaction_trigger` 1, memtables of two records): `Get`
  of that key answers `NotFound`.
- `keys_twice`: `MergeIterator` is to "skip the entry with the same user_key as the last
  one returned" (`iterator.cc:226`; `README.md:28`: "deduplicated by InternalKey").
  `Advance` sets `current_` to `nullptr` before it tests it, so that nothing is ever
  skipped: an iterator yields every version of a key that its sources have, and the merge
  of a compaction keeps them all. What does hold is `IteratorMissesNoKey`.

Further divergences met while modelling. The models contain those that name an
action or operator; no run is devoted to them:

- `db.cc:537`: `next_file_number_` "is only used on the background thread";
  `CompactRange` uses it too, and so does `~DB`'s flush beside a running
  compaction: two builders write one file. In `Durability` the flush of `~DB` can take
  the number between `LoadNumber` and `StoreNumber`; the file then has any part of what both
  write, or is gone, and either table may fail to open. Of the data race itself only this outcome is
  modelled, a number that is read and written back whole. In `TableVersions` it is
  `CompactRange` that takes the number: with
  `Compactors = {c1}` in `MCTableVersions_compaction.cfg` `FilesMatchTables` fails.
- `db.cc:589-605`: two compactions of one snapshot both drop the level's
  reference to a table and erase level-1 tables by stale positions. With a
  compactor in `MCTableVersions_compaction.cfg`, `RefsExact` and `NoUseAfterFree`
  fail: a table is deleted while it is read.
- `memtable.cc:52`: the lookup "finds the newest version"; the trailer is compared from
  its low byte, the type (`internal_key.h:31`), so that a tombstone comes before
  every value, and the 256th record of a memtable after its 255th: the low byte of
  `kMaxSequenceNumber - seq` has wrapped. `exposed` of `KeyVersions` records the keys this befalls.
- `README.md:71`: a deleted key is `NotFound`; a compaction drops the tombstone and
  keeps the older value (`db.cc:515`), because `MergeIterator` skips nothing
  (`exposed` again).
- `db.cc:346-357`: when `WALWriter::Open` fails `wal_` stays null; the next write
  dereferences it (`SwitchOnNullWal`). The comment says "try to recover".
- `db.cc:418`: "flush failed: the data is still in the WAL and can be recovered". A
  compaction that commits meanwhile moves the MANIFEST to the next log.
- `db.cc:78-87`, `687-691`: `~DB` and `CompactRange` release `imm_` also when its table could not
  be built (`CloseFlushFail`, `DropUnlessBackground`).
- `README.md:25`: damaged records are "truncated"; `Recover` stops at them and
  later appends behind them, where the next recovery does not get to.
- `wal.cc:72`: `Sync`, and with it `Close`, returns OK when `fsync` failed (`Close`, the second
  alternative): `ClosedIsDurable` is about logs that were synced.
- `wal.cc:116`: a length of exactly five varint bytes is rejected although
  `Varint32Encode` writes it (`VarintEnds` stops one byte early).
- `memtable.cc:63`: the records of a key that continues `k` with a zero byte sort
  between the lookup key of `k` and its records, and `Get` of `k` misses.
- `memtable.cc:25`: `MemTableIterator::Seek` never goes back, and compares with the user
  key where the table's iterator takes a lookup key (`MemTableSeek`). After a `Seek` backwards a merged iterator
  lacks the records of the memtables; `SeekSkipsWhatIsBelow` is about the way forward.
- `README.md:13`: two tables of level 1 may share an end key, since a compaction
  may start its next file between two versions of a key.
- `sstable_builder.cc:157`: `FlushBlock` is void and returns when the records could not be
  written. If that happens in `Finish` the table lacks its last block and `Finish`
  succeeds (`BlockNotWritten`); `OneFailureIsNoticed` says that this and the next are the only
  single failures that go unnoticed.
- `sstable.cc:92-151`: a data block of the size of the index can be
  where the footer says that the index is; its checksum is right, `Open` parses its records as index entries
  and returns OK (`Garbled`, `Misread`). One failed write is enough once a block holds
  three records: what was left of the block that could not be written moves the index back by as
  much as the last block is long. `Get` then answers `NotFound` or reports damage for keys
  that are in the file, and `first_key_` and `last_key_`, by which `DB::Get` picks a table, may be wrong.
- `iterator.cc:120`: `LoadCurrentBlock` ignores a failed read and tests no checksum: with
  two failed writes an iterator goes through a damaged block and nobody is told
  (`HasForm`, "wild"); `Seek` in a table without blocks indexes an empty vector (`Seek`, "wild").
- `db.cc:797`: `ReadManifest` skips a line with fewer than four tokens: a table whose
  first key is empty or holds white space is lost. Not modelled.
- `db.cc:471`: with `l0_compaction_trigger` 0 a compaction reads the first table of an
  empty level 0. The models assume a trigger above 0.
- `db.cc:516`: a `Put` of the empty value is a `Delete`, there and in `memtable.cc:46`.

## 5. What is proved

All theorems hold for every value of the constants that satisfies the named
assumption of the module; none is bounded by the `Max...` constants. No property
below is inductive alone; each module proves an invariant `IInv` (`Init => IInv`,
`IInv /\ [Next]_vars => IInv'`, `IInv => property`), with one step per action.

`BackgroundSyncProofs`, from `ThreadsAssumption` (the threads are different) and
`SizesAssumption` (sizes and bounds are naturals, the trigger is positive), for
any sets of writers and callers of `CompactRange`: `TypeCorrect`,
`FlushExclusive`, `WakeupsNotLost`, `ProtocolHolds`, `NotifyOneSuffices`
(`Spec => NotifyOneReachesBg`).
`NoLostWakeup` needs to know that a thread in `bg_cv` is at one of the waits, and
that the background thread cleared `background_work_pending_` before it slept:
otherwise `MaybeScheduleBackgroundWork` would stay silent and set `imm_` under a
sleeper. That is `ProtocolInv`, which also says that `~DB` starts when all
other calls are over, and that `shutting_down_` belongs to it.
`FlushIsExclusive` gives that without `imm_` no flush runs; with `NoLostWakeup` it
follows that when a memtable is switched only the background thread can be
waiting (`OnlyBgWaits`), so that one `notify_one` is enough. `TypeOK` contains that
a compaction snapshot is no longer than level 0, so that the erasure never goes
below zero, also when two compactions erase.

`TableVersionsProofs`, from `ConstantsAssumption` and `OneCompactor` (no thread calls
`CompactRange`; two compactions of one snapshot break the counts, see 4), for any
number of writers, reads, keys and tables: `TypeCorrect`, `CountsExact`, `NothingUsedIsFreed`.
`FlushInv` says that a flush builds `imm_`, which stays, and is the only one; `MergeInv` that the
inputs of a merge stay in their levels and its outputs are in none, so that the commit drops
the levels' references to what is there; `SnapsInv` that a read holds what was allocated.
With these every step changes a count as it changes the number of holders, and whoever uses an
object is a holder, or relies on `imm_` (a flush).

The second part of `TableVersionsProofs`, from `ConstantsAssumption` and `OneWorker` (no thread
calls `CompactRange`, the DB stays open): `AckedKeysAreFound`, `SearchFollowsAge`, `Level1StaysSorted`,
`FilesMatch` and the refinement `ImplementsTheStore`. `SortedInv` says that level 1, and
what a read holds of it, ascends; `AgeInv` that what is acknowledged is in `mem`, `imm`
or a level, in the order of age; `ContentsInv` that a merge has all of level 0, that its
outputs and what it still has to write are the keys of its inputs, and that every other table of level
1 lies on one side of them, so that the sort at the commit has only one outcome; `NumbersInv` that the next
number is above all numbers in use, also between the load and the store of
`next_file_number_++`. `BisectionFinds` shows that the recursion of `BinarySearch` has a solution and ends
where a key belongs, by induction over the length of the range, stated with a set of numbers
(`AllNumbers`). Then a read finds exactly the keys of what it holds (`FindsSeen`), which no flush or merge
changes. Beside `CompactRange` or `~DB` a read can miss acknowledged keys, since both drop `imm_` when its
table could not be built, and `CompactRange` lets two builders share a file (see 4); `FilesMatch` is thus about the failures of
one thread, and what two builders of one number do is proved in `DurabilityProofs`.

`DurabilityProofs`, from `DurabilityAssumption`: `TypesHold`,
`LevelsHaveTheirFiles`, `QuietStatesAreDurable`, `OneMemtableIsAtRisk`, `ClosesKeepAll`. `FilesInv`
says that what is being built is in no level and shares its number with nothing, but for the one number in
`shared`; `NumbersInv` that the number a compaction has read without the lock is still the next one when it
writes it back, or is that of `shared`, and that a shared number belongs to a process that is closing;
`MemoryInv` that a builder has all of `imm_`, or of its inputs; `AckedInv` that each
acknowledged key is in `mem`, `imm` or a table of a level; `ManifestInv` which log and
which tables the MANIFEST names in each phase of flush, merge, close and
recovery; `LogsClean` that such a log replays to all of its memtable. The last
three are stated as long as no I/O has failed; that no other number is reused for
something alive holds with failures too. `LevelsHaveTheirFiles`, `OneMemtableIsAtRisk` and `ClosesKeepAll` carry the
same exception, because the code has it.

`WalLogProofs`, from `RecordsAssumption` (a radix above 1, records of bytes), for every set of records, any number of cuts and power failures: `LogIsSound`,
`RecordsAreRecovered`, `ClosedLogsLast`. `LogInv` says where the tokens of the file come from: the
history `written` lists the records whose checksum is in the file, each lies where it says, and no
checksum is anywhere else, so that what a cut left behind followed by what was appended later
cannot be taken for a record (`ReadsOnlyWhole`); that `intact` is the end of a whole record with
nothing but whole records before it; and that what was synced when the log was closed still is.
That `Varint32Encode` is inverted by the reader (`ValueOfEncoding`), and what `Recover` makes of a
file, are recursions over the bytes: existence and value of each are shown by
induction over a set of numbers (`AllNumbers`).

`SkipListProofs`, from `ArenaAssumption` (sizes are positive; the alignment need not
divide the block size) and `SkipListAssumption`, for any number of readers, keys and
levels and both orders of stores: `ArenaIsSound`, for every sequence of requests, where `PointerInv`
says that the current block is cut up to `offset` and that the rest of it remains; `MemoryIsSound`
(since each step is a request or leaves the arena alone), `TypesHold`, `LevelsStayLists`, `SearchesAreRight`,
`IteratorsAreComplete`, `ImplementsTheSet`. `WriterInv` says that `prev_` are the predecessors
of the new key on each level although they were found one after the other, and
which of its stores are visible; `ListInv` what each level looks like in between;
`ReadInv`, for each reader, that no key it must not miss is behind it. The refinement
follows: the store of level 0 is `Insert`, the last step of a search is `Find`.

`TableReaderProofs`, from `FileAssumption` (keys are positive, blocks and restart intervals
not empty), for any number of keys, blocks of whatever numbers of records, readers, failing writes and
handles that values read as: `ReadersReadOwnBlocks`,
from `LockInv` (who is between `fseek` and `fread` owns `read_mutex_`, and before `Open` has
returned nobody reads); `LostWritesAreNoticed`; `GetsDoNotLie`; `IteratorsFollow`. `FileInv` cuts
what was added at the records `c[i]` and the expected offsets `e[i]` of the index, and counts the
cells of the file that are there twice (`gained`: half a block, written again by the next
`FlushBlock`) and those that are missing (`lost`). The index is where the footer says only if the
two are equal (`IndexDisplaced`: a checksum that `Open` finds elsewhere would be that of the filter or the
index, which do not fit, or of a block in front of the index, which is `Garbled`); every `gained` cell takes a failure
that loses none, so that one failure leaves both at 0 and every block in its place, or moves the index. With more
failures a checksum still is that of some block, at most `gained` or `lost` cells from
its place, and `Checksum` being ideal what is read is that block (`BlockRead`): a block found by
`Get` holds only what is stored, and it is the one looked for as long as the distance is
smaller than a block. `TableInv` follows every call from there: the bisection of the index ends at the
only block that can hold the key (`BisectLeads`; the recursion has a solution since the range shrinks),
`want` is the record where a scan of it stops (`ScanFinds`), and at the last record of a block it is
the first of the next. In a table that `Open` was misled about none of this holds. `MisledInv` says what is
left: wherever a handle that was read from a value leads, cells that have a good checksum and the form of
a block are a block that was written (`BlockForm`), so that what `Get` finds is stored (`FoundIsStored`). The
filter is used only to deny, and every absent key may pass it.

`GetNeverLies` was first stated without the bound on failures in its second clause, and the
run, with two failures, agreed. It is false: eight failed writes (three in the
records of one block, five in the trailers of later ones) can put a whole block of the same size where
another is expected and the index back into its place, and `Get` misses a key of the latter. The
bound `SmallestBlock` = 5 is what the proof needs; whether six or seven suffice is not known.

`BloomFilterProofs`, from `BloomAssumption` (the widths of a word are positive,
every key has a hash below a word; nothing else is known of the hash function): `TypesHold`,
`KeysAreNotDenied`, `BitsAreOwn`. The invariant is that every array has exactly the
bits of its keys, one that is being filled also those of the probes made
so far. It rests on the arithmetic lemma that wrapping at every addition is
wrapping once at the end (`ModSum`).

`KeyVersionsProofs`, from `VersionsAssumption` and `KeysStandApart` (no user key continues another
with a byte 0 or 1), for any byte and sequence number widths, any sizes of memtables, blocks and tables
and any number of writes: `IteratorsAreComplete`, `SeeksAgreeWithNext`, `GetsAreLatest`. `KeysStandApart` is what the code
needs: a type byte 0 or 1 follows a user key in an InternalKey, and against a longer key that goes on
with such a byte it can decide the comparison, so that InternalKeys are no longer in the order of their
user keys (see 4). With it they are (`RecordOrder`), also against lookup keys (`LookupOrder`). `InOrderInv`
says that memtables hold records and every table is a `Run`, a sequence ascending by user key; nothing is
said of the versions of one key, which may lie in any order (a flush numbers the newest 1) and are all yielded
(`keys_twice`). From that alone
the bisection of the index ends in the block of the first record not below the key, or in the last
(`FoundBlock`), `TableSeek` and `MemTableSeek` find that record (`Bound`), and the merge, by induction over
the calls of `Next`, yields each place of a child once and in order (`Merged`, `MergeFacts`: it is a
bijection of calls and places). That recursions and the order of a finite set exist is shown by
induction over a set of numbers (`AllNumbers`). `GetsAreLatest` follows every key that is not exposed
through the versions of all the others. `KeyInv` says where its last version is (`Located`): first of its
versions in the memtable; or, if `mem_` lacks it, in `imm_`; or first in the newest table of level 0 that has
the key; or alone in level 1 (`Sole`), where a deleted key may also have no version left. A write makes the
first (`AddedIsFirst`; here the trailer's byte order matters, and `VersionsMixed` is just what breaks it), a
switch the second, a flush the third (`FlushKeepsNewest`), a compaction the fourth (`CompactKeepsSole`): merging, dropping
tombstones, cutting into tables and sorting each carry the records one to one (`Carries`), and a
key that the compaction meets in level 0 is not exposed only if that is its one version. Level 0 may hide
older versions in level 1 until then. `LevelGetFinds` shows that the bisection then comes to the
table that has the key, as far as ranges at most touch; that they do is the hypothesis of
`GetsLatestUnlessExposed` and not an invariant (`keys_lostkey`).

Model-checked only: liveness, which is out of reach of the prover. Every safety property of a passing
run is also a theorem.

## 6. What is not modelled

- CRC32's arithmetic (the checksum is ideal) and `InitCRCTable`, which `DB::Open` runs before there is a
  second thread; Varint64, the same loop as Varint32, which only tables use.
- The text of the MANIFEST: `Durability` has what it lists. Paths, directories, the Windows variants of
  I/O, logging, descriptors that are -1: no property is about them.
- `SkipList::Contains`, which only tests call; it is `FindGreaterOrEqual`. The
  branch of `Insert` for a key that is there: `MemTable` numbers its records.
- `Options`, `Status`: plain data. Options are constants, a `Status` is which
  outcome an action has. Tests and benchmark were read for what the code is expected to do.
- Power failures, other than for one log (`WalLog`): `Durability` keeps what was written.
- Two compactions at once are in `TableVersions` (`Compactors`) and break it, see 4;
  the passing runs and the proofs let only the background thread compact.

## 7. What is left

1. A bounded-key model of the MANIFEST's text, for the lines `ReadManifest` skips.
2. What a `Seek` backwards, an iterator over damaged blocks, or keys that continue each other with
   a byte 0 or 1 lead to: all three are modelled or noted under 4, and no property says what they still promise.
