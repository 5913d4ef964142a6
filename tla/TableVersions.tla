---------------------------- MODULE TableVersions ----------------------------
(***************************************************************************)
(* What class DB (src/db.cc) holds and who holds a reference to it: the    *)
(* memtables mem_ and imm_, the tables of levels_[0] and levels_[1], the   *)
(* references Get and iterators take, the inputs and outputs of flushes    *)
(* and compactions, and the numbered .sst files.                           *)
(*                                                                         *)
(* Keys are written once, so that a table is a set of keys and what a read *)
(* must find is plain. The condition variable is in BackgroundSync: here a *)
(* thread that has to wait is simply not enabled. One action is one        *)
(* critical section of mutex_, or one step of the unlocked merge.          *)
(***************************************************************************)
EXTENDS Naturals, Integers, FiniteSets, Sequences, SequencesExt

CONSTANTS
  Keys,             \* user keys: naturals above 0, in key order
  Writers,          \* threads that call Put
  Readers,          \* Get calls and iterators
  Bg,               \* the background thread
  Compactors,       \* threads that call CompactRange
  Closers,          \* the thread that deletes the DB, if one does
  WriteBufferSize,  \* keys that fill a memtable
  L0Trigger,        \* options_.l0_compaction_trigger
  TableCapacity,    \* keys after which a compaction starts its next file
  MaxIOFailures,    \* bound: failed WAL appends and table builds
  MaxFileNumber     \* bound: the largest file number handed out

ASSUME ConstantsAssumption ==
  /\ Keys \subseteq Nat \ {0} /\ IsFiniteSet(Keys)
  /\ WriteBufferSize \in Nat \ {0} /\ L0Trigger \in Nat \ {0}
  /\ TableCapacity \in Nat \ {0}
  /\ MaxIOFailures \in Nat /\ MaxFileNumber \in Nat
  /\ IsFiniteSet(Readers) /\ \A t, u \in Closers : t = u
  /\ Bg \notin Writers \cup Compactors \cup Closers
  /\ Writers \cap (Compactors \cup Closers) = {} /\ Compactors \cap Closers = {}

VARIABLES
  acked,       \* the keys whose Put returned OK, in that order (history)
  memtables,   \* every MemTable made: its keys and ref_count_
  mem, imm,    \* indices into memtables; imm is None when imm_ is null
  immFlushing, \* imm_flushing_
  tables,      \* every SSTable opened: its file number, keys and ref_count_
  level0,      \* levels_[0], indices into tables, oldest first
  level1,      \* levels_[1], indices into tables, by first key
  nextFile,    \* next_file_number_
  files,       \* numbers of the .sst files that exist
  pc,          \* where each thread is
  job,         \* what each flush or compaction has in its local variables
  snap,        \* snap[r]: what the read of r holds references to
  ioFailures

vars == <<acked, memtables, mem, imm, immFlushing, tables, level0, level1,
          nextFile, files, pc, job, snap, ioFailures>>

None == 0
MergingThreads == Compactors \cup {Bg}
SyncThreads == Compactors \cup Closers
Threads == Writers \cup MergingThreads \cup SyncThreads

\* The locals of a flush (imm, num) and of BackgroundCompaction (the others and
\* num, the number of the file current_builder writes).
NoJob == [imm |-> None, num |-> None, l0 |-> {}, l1 |-> {},
          positions |-> {}, todo |-> {}, out |-> <<>>]
NoSnap == [mem |-> None, imm |-> None, l0 |-> <<>>, l1 |-> <<>>]

\* A new database: an empty MemTable, no tables.
Init ==
  /\ acked = <<>>
  /\ memtables = <<[data |-> {}, refs |-> 1]>>
  /\ mem = 1 /\ imm = None /\ immFlushing = FALSE
  /\ tables = <<>> /\ level0 = <<>> /\ level1 = <<>>
  /\ nextFile = 1 /\ files = {}
  /\ pc = [t \in Threads |-> IF t = Bg THEN "flush" ELSE "idle"]
  /\ job = [t \in MergingThreads \cup SyncThreads |-> NoJob]
  /\ snap = [r \in Readers |-> NoSnap]
  /\ ioFailures = 0

Goto(t, label) == pc' = [pc EXCEPT ![t] = label]

Open == \A t \in Closers : pc[t] = "idle"

FailIO == ioFailures < MaxIOFailures /\ ioFailures' = ioFailures + 1

-----------------------------------------------------------------------------
(* References *)

One(b) == IF b THEN 1 ELSE 0

\* ref_count_ of every object x of the heap changes by delta[x].
Counted(heap, delta) ==
  [x \in DOMAIN heap |-> [heap[x] EXCEPT !.refs = @ + delta[x]]]

Levels == ToSet(level0) \cup ToSet(level1)

-----------------------------------------------------------------------------
(* Put *)

\* AddRecord, then Add to memtable m of heap h: the key is written, or the
\* append to the log fails.
WriteRecord(k, m, h) ==
  \/ /\ memtables' = [h EXCEPT ![m].data = @ \cup {k}]
     /\ acked' = Append(acked, k)
     /\ UNCHANGED ioFailures
  \/ FailIO /\ memtables' = h /\ UNCHANGED acked

Full == Cardinality(memtables[mem].data) >= WriteBufferSize

PutFast(w, k) ==
  /\ Open /\ pc[w] = "idle" /\ ~Full
  /\ WriteRecord(k, mem, memtables)
  /\ UNCHANGED <<mem, imm, immFlushing, tables, level0, level1, nextFile,
                 files, pc, job, snap>>

\* MakeRoomForWrite finds mem_ full and imm_ set: it waits.
MakeRoomWait(w) ==
  /\ Open /\ pc[w] = "idle" /\ Full /\ imm # None
  /\ Goto(w, "makeRoom")
  /\ UNCHANGED <<acked, memtables, mem, imm, immFlushing, tables, level0,
                 level1, nextFile, files, job, snap, ioFailures>>

\* imm_ is clear: mem_ becomes imm_ and the write goes to a new memtable. After
\* a wait nobody asks again whether mem_ is full. A new log that cannot be opened
\* undoes the switch under the same lock, which changes nothing here (SwitchFails
\* of Durability).
SwitchMemTable(w, k) ==
  /\ imm = None
  /\ \/ Open /\ pc[w] = "idle" /\ Full
     \/ pc[w] = "makeRoom"
  /\ imm' = mem
  /\ mem' = Len(memtables) + 1
  /\ WriteRecord(k, mem', Append(memtables, [data |-> {}, refs |-> 1]))
  /\ Goto(w, "idle")
  /\ UNCHANGED <<immFlushing, tables, level0, level1, nextFile, files, job,
                 snap>>

-----------------------------------------------------------------------------
(* Reads: Get, and NewIterator with the iterator it returns *)

Held(s) == ToSet(s.l0) \cup ToSet(s.l1)

\* The memtables a read takes a reference to. imm_ needs one as well.
PinnedMemOnly == {mem}
Pinned == {mem, imm}

\* Under the lock: a reference to everything mem_, imm_ and levels_ name.
BeginRead(r) ==
  /\ Open /\ snap[r] = NoSnap
  /\ snap' = [snap EXCEPT ![r] = [mem |-> mem, imm |-> imm,
                                  l0 |-> level0, l1 |-> level1]]
  /\ memtables' = Counted(memtables,
                    [m \in DOMAIN memtables |-> One(m \in Pinned)])
  /\ tables' = Counted(tables, [x \in DOMAIN tables |-> One(x \in Levels)])
  /\ UNCHANGED <<acked, mem, imm, immFlushing, level0, level1, nextFile, files,
                 pc, job, ioFailures>>

\* Without the lock: every reference is dropped. An iterator may do so after
\* the DB is gone.
EndRead(r) ==
  /\ snap[r] # NoSnap
  /\ snap' = [snap EXCEPT ![r] = NoSnap]
  /\ memtables' = Counted(memtables, [m \in DOMAIN memtables |->
                                        -One(m \in {snap[r].mem, snap[r].imm})])
  /\ tables' = Counted(tables,
                 [x \in DOMAIN tables |-> -One(x \in Held(snap[r]))])
  /\ UNCHANGED <<acked, mem, imm, immFlushing, level0, level1, nextFile, files,
                 pc, job, ioFailures>>

-----------------------------------------------------------------------------
(* Flush: BackgroundFlush, and its copies in CompactRange and ~DB *)

AfterFlush(t) == IF t \in Closers THEN "join" ELSE "compact"

\* The number is taken and the builder opens its file, truncating one that has
\* the same name.
TakeNumber(t) ==
  /\ nextFile <= MaxFileNumber
  /\ nextFile' = nextFile + 1
  /\ job' = [job EXCEPT ![t] = [NoJob EXCEPT !.num = nextFile, !.imm = imm]]
  /\ files' = files \cup {nextFile}

\* A call of CompactRange or ~DB begins; ~DB when every other call has returned.
MayFlush(t) ==
  \/ t = Bg /\ pc[t] = "flush"
  \/ t \in Compactors /\ pc[t] = "idle" /\ Open
  \/ /\ t \in Closers /\ pc[t] = "idle"
     /\ \A u \in Writers \cup Compactors : pc[u] = "idle"

\* The test without the flag.
ImmIsSet == imm # None
FlushWanted == imm # None /\ ~immFlushing

\* FlushBegin that takes imm_ away at once instead of flagging it.
FlushBeginMoving(t) ==
  /\ MayFlush(t)
  /\ FlushWanted
  /\ immFlushing' = TRUE
  /\ imm' = None
  /\ TakeNumber(t)
  /\ Goto(t, "build")
  /\ UNCHANGED <<acked, memtables, mem, tables, level0, level1, snap,
                 ioFailures>>

FlushBegin(t) ==
  /\ MayFlush(t)
  /\ FlushWanted
  /\ immFlushing' = TRUE
  /\ TakeNumber(t)
  /\ Goto(t, "build")
  /\ UNCHANGED <<acked, memtables, mem, imm, tables, level0, level1, snap,
                 ioFailures>>

\* Nothing to flush: BackgroundFlush returns also when another thread flushes,
\* CompactRange and ~DB wait for it.
FlushSkip(t) ==
  /\ MayFlush(t)
  /\ imm = None \/ (t = Bg /\ immFlushing)
  /\ Goto(t, AfterFlush(t))
  /\ UNCHANGED <<acked, memtables, mem, imm, immFlushing, tables, level0,
                 level1, nextFile, files, job, snap, ioFailures>>

\* ReleaseImm that leaves the pointer.
UnrefImm ==
  /\ memtables' = Counted(memtables,
                          [m \in DOMAIN memtables |-> -One(m = imm)])
  /\ UNCHANGED imm

ReleaseImm ==
  /\ memtables' = Counted(memtables,
                          [m \in DOMAIN memtables |-> -One(m = imm)])
  /\ imm' = None

NewTable(t, data) ==
  tables' = Append(tables, [num |-> job[t].num, data |-> data, refs |-> 1])

\* levels_[0].push_back. The other end would keep every table as well.
PushTableFront(x) == <<x>> \o level0
PushTable(x) == Append(level0, x)

FlushCommit(t) ==
  /\ pc[t] = "build"
  /\ NewTable(t, memtables[job[t].imm].data)
  /\ level0' = PushTable(Len(tables) + 1)
  /\ ReleaseImm
  /\ immFlushing' = FALSE
  /\ job' = [job EXCEPT ![t] = NoJob]
  /\ Goto(t, AfterFlush(t))
  /\ UNCHANGED <<acked, mem, level1, nextFile, files, snap, ioFailures>>

\* After a failure BackgroundFlush keeps imm_, CompactRange and ~DB drop it.
DropImm(t) == ReleaseImm
DropUnlessBackground(t) ==
  IF t = Bg THEN UNCHANGED <<memtables, imm>> ELSE ReleaseImm

\* The table could not be built or opened. Only if Open failed, and only
\* BackgroundFlush, deletes the file.
FlushFail(t) ==
  /\ pc[t] = "build"
  /\ FailIO
  /\ immFlushing' = FALSE
  /\ \/ UNCHANGED files
     \/ t = Bg /\ files' = files \ {job[t].num}
  /\ DropUnlessBackground(t)
  /\ job' = [job EXCEPT ![t] = NoJob]
  /\ Goto(t, AfterFlush(t))
  /\ UNCHANGED <<acked, mem, tables, level0, level1, nextFile, snap>>

-----------------------------------------------------------------------------
(* BackgroundCompaction, run by the background thread and by CompactRange *)

FirstKey(x) == IF tables[x].data = {} THEN 0 ELSE Min(tables[x].data)
LastKey(x) == IF tables[x].data = {} THEN 0 ELSE Max(tables[x].data)

\* Does table x of levels_[1] lie in, or overlap, the key range of levels_[0]?
LiesWithin(x) ==
  /\ Min({FirstKey(y) : y \in ToSet(level0)}) <= FirstKey(x)
  /\ LastKey(x) <= Max({LastKey(y) : y \in ToSet(level0)})
Overlaps(x) ==
  /\ Min({FirstKey(y) : y \in ToSet(level0)}) <= LastKey(x)
  /\ FirstKey(x) <= Max({LastKey(y) : y \in ToSet(level0)})

AfterCompaction(t) == IF t = Bg THEN "flush" ELSE "idle"

NeedCompaction == Len(level0) >= L0Trigger

\* Under the lock: a reference to all of levels_[0] and to the tables of
\* levels_[1] it overlaps. Of the latter the positions are remembered.
CompactionBegin(t) ==
  /\ pc[t] = "compact"
  /\ NeedCompaction
  /\ LET positions == {i \in DOMAIN level1 : Overlaps(level1[i])}
         inputs == ToSet(level0) \cup {level1[i] : i \in positions}
     IN  /\ job' = [job EXCEPT ![t] =
                      [NoJob EXCEPT !.l0 = ToSet(level0),
                                    !.l1 = {level1[i] : i \in positions},
                                    !.positions = positions,
                                    !.todo = UNION {tables[x].data : x \in inputs}]]
         /\ tables' = Counted(tables,
                              [x \in DOMAIN tables |-> One(x \in inputs)])
  /\ Goto(t, "merge")
  /\ UNCHANGED <<acked, memtables, mem, imm, immFlushing, level0, level1,
                 nextFile, files, snap, ioFailures>>

CompactionSkip(t) ==
  /\ pc[t] = "compact"
  /\ ~NeedCompaction
  /\ Goto(t, AfterCompaction(t))
  /\ UNCHANGED <<acked, memtables, mem, imm, immFlushing, tables, level0,
                 level1, nextFile, files, job, snap, ioFailures>>

\* next_file_number_++ outside mutex_: the load ...
LoadNumber(t) ==
  /\ pc[t] = "merge" /\ job[t].todo # {}
  /\ nextFile <= MaxFileNumber
  /\ job' = [job EXCEPT ![t].num = nextFile]
  /\ Goto(t, "store")
  /\ UNCHANGED <<acked, memtables, mem, imm, immFlushing, tables, level0,
                 level1, nextFile, files, snap, ioFailures>>

\* ... and the store, then the builder opens the file.
StoreNumber(t) == nextFile' = job[t].num + 1

OpenOutput(t) ==
  /\ pc[t] = "store"
  /\ StoreNumber(t)
  /\ files' = files \cup {job[t].num}
  /\ Goto(t, "output")
  /\ UNCHANGED <<acked, memtables, mem, imm, immFlushing, tables, level0,
                 level1, job, snap, ioFailures>>

\* The keys the current builder takes before the next one is started.
Batch(todo) == {k \in todo : Cardinality({j \in todo : j < k}) < TableCapacity}

FinishOutput(t) ==
  /\ pc[t] = "output"
  /\ NewTable(t, Batch(job[t].todo))
  /\ job' = [job EXCEPT ![t].todo = @ \ Batch(@),
                        ![t].out = Append(@, Len(tables) + 1),
                        ![t].num = None]
  /\ Goto(t, "merge")
  /\ UNCHANGED <<acked, memtables, mem, imm, immFlushing, level0, level1,
                 nextFile, files, snap, ioFailures>>

Inputs(t) == job[t].l0 \cup job[t].l1
Outputs(t) == ToSet(job[t].out)
Numbers(ids) == {tables[x].num : x \in ids}

\* A file could not be built or opened: all outputs are deleted, the references
\* to the inputs are dropped. An input's file must not be touched.
DeleteAllOnFail(t) == {job[t].num} \cup Numbers(Inputs(t) \cup Outputs(t))
DeleteOnFail(t) == {job[t].num} \cup Numbers(Outputs(t))

CompactionFail(t) ==
  /\ pc[t] = "output"
  /\ FailIO
  /\ files' = files \ DeleteOnFail(t)
  /\ tables' = Counted(tables, [x \in DOMAIN tables |->
                                  -One(x \in Inputs(t) \cup Outputs(t))])
  /\ job' = [job EXCEPT ![t] = NoJob]
  /\ Goto(t, AfterCompaction(t))
  /\ UNCHANGED <<acked, memtables, mem, imm, immFlushing, level0, level1,
                 nextFile, snap>>

Ascending(p) == \A i, j \in DOMAIN p : i < j => p[i] < p[j]

\* Sequence s after the elements in gone are erased: the others keep their order.
Without(s, gone) ==
  {[i \in DOMAIN p |-> s[p[i]]] :
     p \in {q \in SetToSeqs({i \in DOMAIN s : s[i] \notin gone}) : Ascending(q)}}

\* What std::sort may make of a level; it promises no order of equal keys.
InAnyOrder(ids) == SetToSeqs(ids)
ByFirstKey(ids) ==
  {s \in SetToSeqs(ids) :
     \A i, j \in DOMAIN s : i < j => FirstKey(s[i]) <= FirstKey(s[j])}

\* Under the lock: every input leaves its level and its file is deleted. For
\* levels_[0] the table is looked up, but the reference of the level is dropped
\* whether it is found or not; for levels_[1] whatever now is at the remembered
\* position goes.
CompactionCommit(t) ==
  /\ pc[t] = "merge" /\ job[t].todo = {}
  /\ LET gone0 == job[t].l0
         gone1 == {level1[i] : i \in job[t].positions \cap DOMAIN level1}
     IN  /\ level0' \in Without(level0, gone0)
         /\ level1' \in ByFirstKey((ToSet(level1) \ gone1) \cup Outputs(t))
         /\ files' = files \ Numbers(gone0 \cup gone1)
         /\ tables' = Counted(tables, [x \in DOMAIN tables |->
                        -One(x \in gone0) - One(x \in gone1)
                          - One(x \in Inputs(t))])
  /\ job' = [job EXCEPT ![t] = NoJob]
  /\ Goto(t, AfterCompaction(t))
  /\ UNCHANGED <<acked, memtables, mem, imm, immFlushing, nextFile, snap,
                 ioFailures>>

-----------------------------------------------------------------------------
(* ~DB, after its flush *)

\* The background thread has left its loop. mem_ and levels_ are released.
CloseRelease(t) ==
  /\ t \in Closers /\ pc[t] = "join" /\ pc[Bg] = "flush"
  /\ memtables' = Counted(memtables,
                          [m \in DOMAIN memtables |-> -One(m = mem)])
  /\ tables' = Counted(tables, [x \in DOMAIN tables |-> -One(x \in Levels)])
  /\ mem' = None /\ level0' = <<>> /\ level1' = <<>>
  /\ pc' = [pc EXCEPT ![t] = "closed", ![Bg] = "exited"]
  /\ UNCHANGED <<acked, imm, immFlushing, nextFile, files, job, snap,
                 ioFailures>>

\* The DB is gone. Iterators may be left.
Closed(t) == pc[t] = "closed" /\ UNCHANGED vars

-----------------------------------------------------------------------------
Unwritten == Keys \ ToSet(acked)

Next ==
  \/ \E w \in Writers, k \in Unwritten : PutFast(w, k) \/ SwitchMemTable(w, k)
  \/ \E w \in Writers : MakeRoomWait(w)
  \/ \E r \in Readers : BeginRead(r) \/ EndRead(r)
  \/ \E t \in MergingThreads \cup SyncThreads :
        FlushBegin(t) \/ FlushSkip(t) \/ FlushCommit(t) \/ FlushFail(t)
  \/ \E t \in MergingThreads :
        \/ CompactionBegin(t) \/ CompactionSkip(t)
        \/ LoadNumber(t) \/ OpenOutput(t) \/ FinishOutput(t)
        \/ CompactionFail(t) \/ CompactionCommit(t)
  \/ \E t \in Closers : CloseRelease(t) \/ Closed(t)

Spec == Init /\ [][Next]_vars

-----------------------------------------------------------------------------
(* What Get finds *)

\* The binary search of Get in the tables f of a level. It returns the position
\* of the table whose range holds k, or None.
BinarySearch(f, k) ==
  LET search[range \in (1..Len(f) + 1) \X (0..Len(f))] ==
        LET left == range[1]
            right == range[2]
            mid == (left + right) \div 2
        IN  IF left > right THEN None
            ELSE IF k < FirstKey(f[mid]) THEN search[<<left, mid - 1>>]
            ELSE IF k > LastKey(f[mid]) THEN search[<<mid + 1, right>>]
            ELSE mid
  IN  search[<<1, Len(f)>>]

InMemTable(m, k) == m # None /\ k \in memtables[m].data

Finds(s, k) ==
  \/ InMemTable(s.mem, k) \/ InMemTable(s.imm, k)
  \/ \E i \in DOMAIN s.l0 : k \in tables[s.l0[i]].data
  \/ LET i == BinarySearch(s.l1, k) IN i # None /\ k \in tables[s.l1[i]].data

\* What a Get that started now would hold.
Current == [mem |-> mem, imm |-> imm, l0 |-> level0, l1 |-> level1]

-----------------------------------------------------------------------------
(* Properties *)

Job == [imm : Nat, num : Nat, l0 : SUBSET Nat, l1 : SUBSET Nat,
        positions : SUBSET Nat, todo : SUBSET Keys, out : Seq(Nat)]
Snap == [mem : Nat, imm : Nat, l0 : Seq(Nat), l1 : Seq(Nat)]

\* Every variable keeps its type.
TypeOK ==
  /\ acked \in Seq(Keys) /\ IsInjective(acked)
  /\ memtables \in Seq([data : SUBSET Keys, refs : Nat])
  /\ mem \in 0..Len(memtables) /\ imm \in 0..Len(memtables)
  /\ immFlushing \in BOOLEAN
  /\ tables \in Seq([num : Nat, data : SUBSET Keys, refs : Nat])
  /\ level0 \in Seq(DOMAIN tables) /\ level1 \in Seq(DOMAIN tables)
  /\ nextFile \in 1..MaxFileNumber + 1
  /\ files \subseteq 1..MaxFileNumber
  /\ pc \in [Threads -> {"idle", "makeRoom", "flush", "build", "compact",
                         "merge", "store", "output", "join", "exited", "closed"}]
  /\ job \in [MergingThreads \cup SyncThreads -> Job]
  /\ snap \in [Readers -> Snap]
  /\ ioFailures \in 0..MaxIOFailures

ReadersOfMemTable(m) == {r \in Readers : m \in {snap[r].mem, snap[r].imm}}
ReadersOfTable(x) == {r \in Readers : x \in Held(snap[r])}
MergersOf(x) == {t \in MergingThreads : x \in Inputs(t) \cup Outputs(t)}

MemTableRefsExact ==
  \A m \in DOMAIN memtables :
    memtables[m].refs =
      One(m = mem) + One(m = imm) + Cardinality(ReadersOfMemTable(m))
SSTableRefsExact ==
  \A x \in DOMAIN tables :
    tables[x].refs =
      One(x \in Levels) + Cardinality(ReadersOfTable(x)) + Cardinality(MergersOf(x))

\* The reference counts are exact: an object's count is the number of places
\* that hold it, the DB itself, the running reads, and the compactions that have
\* it as input or output. So nothing leaks and nothing is deleted under a holder.
RefsExact == MemTableRefsExact /\ SSTableRefsExact

\* "When every reference is gone the object deletes itself" (README.md:43), and
\* not before: whatever the DB, a read, a flush or a compaction is about to use
\* is alive. A flush holds no reference of its own while it takes an iterator of
\* the memtable, it relies on imm_flushing_.
NoUseAfterFree ==
  /\ \A m \in {mem, imm} \cup {job[t].imm : t \in MergingThreads \cup SyncThreads}
          \cup UNION {{snap[r].mem, snap[r].imm} : r \in Readers} :
        m # None => memtables[m].refs > 0
  /\ \A x \in Levels \cup (UNION {Held(snap[r]) : r \in Readers})
          \cup UNION {Inputs(t) \cup Outputs(t) : t \in MergingThreads} :
        tables[x].refs > 0

\* A Get started now finds every acknowledged key and no other, at every step
\* of every flush and compaction, by the binary search of levels_[1] too.
AckedFound ==
  mem # None => {k \in Keys : Finds(Current, k)} = ToSet(acked)

\* The order in which Get searches is the order of age: whatever is in a source
\* was written after everything in the sources searched later. Get stops at the
\* first hit and rests on this.
SearchedByAge ==
  LET data(m) == IF m = None THEN {} ELSE memtables[m].data
      sources == <<data(mem), data(imm)>>
                   \o [i \in DOMAIN level0 |->
                         tables[level0[Len(level0) + 1 - i]].data]
                   \o <<UNION {tables[x].data : x \in ToSet(level1)}>>
  IN  \A i, j \in DOMAIN sources : i < j =>
        \A a, b \in DOMAIN acked :
          acked[a] \in sources[i] /\ acked[b] \in sources[j] => b < a

\* The tables of levels_[1] are sorted and their key ranges disjoint
\* (README.md:13), which the binary search needs.
Level1Disjoint ==
  \A i, j \in DOMAIN level1 :
    i < j => LastKey(level1[i]) < FirstKey(level1[j])

\* A file number names one table: what is being built shares its file neither
\* with a table in use nor with another builder.
FileNumbersUnique ==
  LET Building(t) == pc[t] \in {"build", "output"}
      inUse == Levels \cup UNION {Outputs(u) : u \in MergingThreads}
      workers == MergingThreads \cup SyncThreads
  IN  /\ \A t \in workers : Building(t) => job[t].num \notin Numbers(inUse)
      /\ \A t, u \in workers :
            Building(t) /\ Building(u) /\ job[t].num = job[u].num => t = u
      /\ \A x, y \in inUse : tables[x].num = tables[y].num => x = y

\* The file of every table of a level is there to be opened by the next
\* DB::Open.
LevelFilesExist == Numbers(Levels) \subseteq files

\* Tables and files correspond, whatever is built, merged, abandoned or failed,
\* as long as one thread flushes and merges. With CompactRange or ~DB beside a
\* merge two threads can take one number (db.cc:537, LoadNumber): what that does
\* to the files is LevelsMatchFiles of Durability.
FilesMatchTables == FileNumbersUnique /\ LevelFilesExist

\* The store without flushes, compactions, reference counts and files: the keys
\* are what a Get would find now, the views what each read finds in what it holds.
Visible == IF mem = None THEN ToSet(acked) ELSE {k \in Keys : Finds(Current, k)}
Views == [r \in Readers |-> [reading |-> snap[r] # NoSnap,
                             keys |-> {k \in Keys : Finds(snap[r], k)}]]
Store == INSTANCE SnapshotStore WITH store <- Visible, view <- Views

\* Seen through Get and iterators, the DB is SnapshotStore: flushes, compactions
\* and ~DB never change what a running or a new read finds, and a read keeps
\* finding all that was there when it began.
ImplementsStore == Store!Spec
=============================================================================
