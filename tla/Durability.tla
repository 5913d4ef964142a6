----------------------------- MODULE Durability -----------------------------
(***************************************************************************)
(* What of class DB (src/db.cc) outlives the process: the numbered logs,   *)
(* the numbered tables and the MANIFEST. They are written by Put, by the   *)
(* flushes of the background thread and of ~DB, and by compaction, and     *)
(* read back by Recover.                                                   *)
(*                                                                         *)
(* A crash stops the process between any two of its file operations; what  *)
(* was written stays (a kill of the process, not a power failure). One     *)
(* thread writes. A key is written once, so that a log or a table is told  *)
(* by its keys. CompactRange is in TableVersions.                          *)
(*                                                                         *)
(* A compaction takes the number of its output without the lock, so that   *)
(* the flush of ~DB can take the same one; two builders then write one     *)
(* file, and what it holds in the end is any part of what both write.      *)
(***************************************************************************)
EXTENDS Naturals, FiniteSets, Sequences, SequencesExt

CONSTANTS
  Keys,             \* user keys
  Torn,             \* what a write cut short leaves in a log
  WriteBufferSize,  \* keys that fill a memtable
  L0Trigger,        \* options_.l0_compaction_trigger
  MaxCrashes,       \* bound: crashes
  MaxCloses,        \* bound: calls of ~DB
  MaxIOFailures,    \* bound: failed log appends, table builds, MANIFEST opens
  MaxWalFailures,   \* bound: failed WALWriter::Open calls
  MaxNumber         \* bound: the largest log or table number

ASSUME DurabilityAssumption ==
  /\ Torn \notin Keys
  /\ WriteBufferSize \in Nat \ {0} /\ L0Trigger \in Nat \ {0}
  /\ MaxCrashes \in Nat /\ MaxCloses \in Nat /\ MaxIOFailures \in Nat
  /\ MaxWalFailures \in Nat /\ MaxNumber \in Nat \ {0}

VARIABLES
  logs,        \* disk: logs[n], the records of log n; empty if there is none
  sst,         \* disk: sst[n], the table file n
  manifest,    \* disk: what MANIFEST holds; Blank if it does not exist
  mem,         \* the keys in mem_
  imm,         \* imm_: whether it is set, and its keys
  walNumber,   \* wal_number_
  walOpen,     \* wal_ # nullptr
  level0,      \* levels_[0] as a set of tables
  level1,      \* levels_[1] as a set of tables
  nextFile,    \* next_file_number_
  pc,          \* where the background thread and ~DB are
  output,      \* the table each of them builds
  input,       \* the tables being compacted
  shared,      \* the number that two builders of this process took, with the
               \* keys that both write to its file; NoTable if there is none
  acked,       \* history: keys whose Put returned OK, less those a crash lost
  lost,        \* history: the keys a crash lost
  count        \* crashes, closes and failures so far

disk == <<logs, sst, manifest>>
tables == <<level0, level1, nextFile>>
memtables == <<mem, imm, walNumber, walOpen>>
jobs == <<output, input, shared>>
history == <<acked, lost>>
vars == <<disk, tables, memtables, pc, jobs, history, count>>

Bg == "background thread"
Closer == "~DB"
Workers == {Bg, Closer}

Numbers == 1..MaxNumber
NoTable == [num |-> 0, data |-> {}]
NoFile == [exists |-> FALSE, data |-> {}]
NoImm == [set |-> FALSE, data |-> {}]
Blank == [level0 |-> {}, level1 |-> {}, nextFile |-> 1, walNumber |-> 1]

\* Where the background thread and ~DB are.
At(bg, closer) == [t \in Workers |-> IF t = Bg THEN bg ELSE closer]

\* A new database, just opened.
Init ==
  /\ logs = [n \in Numbers |-> <<>>]
  /\ sst = [n \in Numbers |-> NoFile]
  /\ manifest = Blank
  /\ mem = {} /\ imm = NoImm /\ walNumber = 1 /\ walOpen = TRUE
  /\ level0 = {} /\ level1 = {} /\ nextFile = 1
  /\ pc = At("flush", "open")
  /\ output = [t \in Workers |-> NoTable] /\ input = {} /\ shared = NoTable
  /\ acked = {} /\ lost = {}
  /\ count = [crash |-> 0, close |-> 0, io |-> 0, wal |-> 0]

Bound == [crash |-> MaxCrashes, close |-> MaxCloses, io |-> MaxIOFailures,
          wal |-> MaxWalFailures]

\* One more event of the kind.
Spend(kind) ==
  count[kind] < Bound[kind] /\ count' = [count EXCEPT ![kind] = @ + 1]

Goto(t, label) == pc' = [pc EXCEPT ![t] = label]

Running == pc[Closer] # "down"

\* A thread holds mutex_ over more than one file operation.
Locked == \E t \in Workers : pc[t] \in {"replaced", "flushWrite", "compactWrite"}

-----------------------------------------------------------------------------
(* Put *)

Full == Cardinality(mem) >= WriteBufferSize

Writing(k) == pc[Closer] = "open" /\ ~Locked /\ k \notin acked \cup lost

\* AddRecord to log n, then Add to a memtable that holds m. A write that fails
\* may leave part of the record in the log.
WriteRecord(k, m, n) ==
  \/ /\ logs' = [logs EXCEPT ![n] = Append(@, k)]
     /\ mem' = m \cup {k}
     /\ acked' = acked \cup {k}
     /\ UNCHANGED count
  \/ /\ Spend("io")
     /\ logs' = [logs EXCEPT ![n] = Append(@, Torn)]
     /\ mem' = m
     /\ UNCHANGED acked

PutFast(k) ==
  /\ Writing(k) /\ ~Full
  /\ WriteRecord(k, mem, walNumber)
  /\ UNCHANGED <<sst, manifest, tables, imm, walNumber, walOpen, pc, jobs, lost>>

\* The new log is opened for appending: a log of that number left by an
\* earlier process keeps its records.
SwitchMemTable(k) ==
  /\ Writing(k) /\ Full /\ ~imm.set /\ walOpen /\ walNumber < MaxNumber
  /\ imm' = [set |-> TRUE, data |-> mem]
  /\ walNumber' = walNumber + 1
  /\ WriteRecord(k, {}, walNumber + 1)
  /\ UNCHANGED <<sst, manifest, tables, walOpen, pc, jobs, lost>>

\* WALWriter::Open fails: the memtable is put back, wal_number_ is not. The next
\* Put finds wal_ null and brings the process down, which is a crash.
SwitchFails ==
  /\ pc[Closer] = "open" /\ ~Locked
  /\ Full /\ ~imm.set /\ walOpen /\ walNumber < MaxNumber
  /\ Spend("wal")
  /\ walNumber' = walNumber + 1
  /\ walOpen' = FALSE
  /\ UNCHANGED <<disk, tables, mem, imm, pc, jobs, history>>

-----------------------------------------------------------------------------
(* MANIFEST *)

NumsOf(ts) == {x.num : x \in ts}

\* The state WriteManifest writes. Without the new log number Recover would
\* replay a log whose keys are in tables already, and miss the current one.
ManifestOldWal ==
  [level0 |-> NumsOf(level0), level1 |-> NumsOf(level1),
   nextFile |-> nextFile, walNumber |-> manifest.walNumber]
ManifestNow ==
  [level0 |-> NumsOf(level0), level1 |-> NumsOf(level1),
   nextFile |-> nextFile, walNumber |-> walNumber]

\* WriteManifest opens the file, which empties it, and goes on to write it; or
\* cannot open it, which every caller ignores.
OpenManifest(t, written, next) ==
  \/ manifest' = Blank /\ Goto(t, written) /\ UNCHANGED count
  \/ Spend("io") /\ UNCHANGED manifest /\ Goto(t, next)

AfterFlush(t) == IF t = Bg THEN "compact" ELSE "join"

WriteManifest(t) ==
  /\ pc[t] \in {"flushWrite", "compactWrite"}
  /\ manifest' = ManifestNow
  /\ Goto(t, IF pc[t] = "flushWrite" THEN AfterFlush(t) ELSE "flush")
  /\ UNCHANGED <<logs, sst, tables, memtables, jobs, history, count>>

-----------------------------------------------------------------------------
(* Flush, by the background thread and by ~DB *)

Flushing(t) == pc[t] \in {"build", "flushWrite"}

\* next_file_number_++ under the lock, and a builder that empties the file of
\* that number.
StartTable(t, data) ==
  /\ nextFile <= MaxNumber
  /\ nextFile' = nextFile + 1
  /\ output' = [output EXCEPT ![t] = [num |-> nextFile, data |-> data]]
  /\ sst' = [sst EXCEPT ![nextFile] = [exists |-> TRUE, data |-> {}]]

FlushBegin ==
  /\ pc[Bg] = "flush" /\ ~Locked
  /\ imm.set /\ ~Flushing(Closer)
  /\ StartTable(Bg, imm.data)
  /\ Goto(Bg, "build")
  /\ UNCHANGED <<logs, manifest, level0, level1, memtables, input, shared, history,
                 count>>

FlushSkip ==
  /\ pc[Bg] = "flush" /\ ~Locked
  /\ ~imm.set \/ Flushing(Closer)
  /\ Goto(Bg, "compact")
  /\ UNCHANGED <<disk, tables, memtables, jobs, history, count>>

\* A compaction has read next_file_number_ and not yet written it back.
NumberIsTaken == pc[Bg] = "store"

\* ~DB starts, once no flush runs; a compaction may.
CloseBegin ==
  /\ pc[Closer] = "open" /\ ~Locked /\ ~Flushing(Bg)
  /\ Spend("close")
  /\ \/ /\ imm.set /\ StartTable(Closer, imm.data) /\ Goto(Closer, "build")
        /\ shared' = IF NumberIsTaken
                     THEN [num |-> nextFile, data |-> imm.data \cup output[Bg].data]
                     ELSE shared
     \/ /\ ~imm.set /\ Goto(Closer, "join")
        /\ UNCHANGED <<output, sst, nextFile, shared>>
  /\ UNCHANGED <<logs, manifest, level0, level1, memtables, input, history>>

\* Two builders write t's file.
IsShared(t) == output[t].num = shared.num

Written(t, data) ==
  [sst EXCEPT ![output[t].num] = [exists |-> TRUE, data |-> data]]

\* The files when t has written its own: complete, or, if two builders write it,
\* with any part of what they write, and gone if the other one has deleted it.
Finished(t) ==
  IF ~IsShared(t) THEN {Written(t, output[t].data)}
  ELSE IF sst[output[t].num].exists
       THEN {Written(t, part) : part \in SUBSET shared.data} ELSE {sst}

Unlink(files, ts) ==
  [n \in Numbers |-> IF n \in NumsOf(ts) THEN NoFile ELSE files[n]]

\* Under the lock the table enters levels_[0], imm_ is released and
\* WriteManifest starts.
FlushCommit(t) ==
  /\ pc[t] = "build" /\ ~Locked
  /\ sst' \in Finished(t)
  /\ level0' = level0 \cup {output[t]}
  /\ imm' = NoImm
  /\ OpenManifest(t, "flushWrite", AfterFlush(t))
  /\ output' = [output EXCEPT ![t] = NoTable]
  /\ UNCHANGED <<logs, level1, nextFile, mem, walNumber, walOpen, input, shared,
                 acked, lost>>

\* BackgroundFlush could not build the table, and may have deleted it: imm_ is
\* kept.
FlushFail ==
  /\ pc[Bg] = "build" /\ ~Locked
  /\ Spend("io")
  /\ sst' \in {sst, Unlink(sst, {output[Bg]})}
  /\ output' = [output EXCEPT ![Bg] = NoTable]
  /\ Goto(Bg, "compact")
  /\ UNCHANGED <<logs, manifest, tables, memtables, input, shared, acked, lost>>

\* ~DB could not, because I/O failed or SSTable::Open met a file that two
\* builders wrote: imm_ is released and the MANIFEST written all the same.
CloseFlushFail ==
  /\ pc[Closer] = "build" /\ ~Locked
  /\ \/ sst' \in {sst, Unlink(sst, {output[Closer]})}
     \/ IsShared(Closer) /\ sst' \in Finished(Closer)
  /\ imm' = NoImm
  /\ \/ IsShared(Closer) /\ OpenManifest(Closer, "flushWrite", "join")
     \/ /\ Spend("io")
        /\ \/ manifest' = Blank /\ Goto(Closer, "flushWrite")
           \/ UNCHANGED manifest /\ Goto(Closer, "join")
  /\ output' = [output EXCEPT ![Closer] = NoTable]
  /\ UNCHANGED <<logs, tables, mem, walNumber, walOpen, input, shared, acked, lost>>

-----------------------------------------------------------------------------
(* Compaction *)

\* Under the lock: all of levels_[0] and the tables of levels_[1] that overlap it.
CompactionBegin ==
  /\ pc[Bg] = "compact" /\ ~Locked
  /\ Cardinality(level0) >= L0Trigger
  /\ \E overlapping \in SUBSET level1 : input' = level0 \cup overlapping
  /\ Goto(Bg, "merge")
  /\ UNCHANGED <<disk, tables, memtables, output, shared, history, count>>

CompactionSkip ==
  /\ pc[Bg] = "compact" /\ ~Locked
  /\ Cardinality(level0) < L0Trigger
  /\ Goto(Bg, "flush")
  /\ UNCHANGED <<disk, tables, memtables, jobs, history, count>>

\* What the merge may get from its inputs: all, but of a file that two builders
\* wrote any part.
Intact == {x \in input : x.num # shared.num}
Merged ==
  {part \cup UNION {x.data : x \in Intact} :
     part \in SUBSET (IF Intact = input THEN {} ELSE shared.data)}

\* next_file_number_++ for the output, without the lock: it is read, ... The files
\* a compaction writes are told by one table.
LoadNumber ==
  /\ pc[Bg] = "merge" /\ nextFile <= MaxNumber
  /\ \E data \in Merged \ {{}} :
        output' = [output EXCEPT ![Bg] = [num |-> nextFile, data |-> data]]
  /\ Goto(Bg, "store")
  /\ UNCHANGED <<disk, tables, memtables, input, shared, history, count>>

\* ... and written back; then the builder empties the file.
StoreNumber ==
  /\ pc[Bg] = "store"
  /\ nextFile' = output[Bg].num + 1
  /\ sst' = [sst EXCEPT ![output[Bg].num] = [exists |-> TRUE, data |-> {}]]
  /\ Goto(Bg, "output")
  /\ UNCHANGED <<logs, manifest, level0, level1, memtables, jobs, history, count>>

\* Under the lock: the inputs leave their levels and their files are deleted,
\* the output, if the merge found anything, enters levels_[1]. The MANIFEST
\* still lists the inputs.
CompactionReplace ==
  /\ ~Locked
  /\ \/ /\ pc[Bg] = "output"
        /\ \E files \in Finished(Bg) : sst' = Unlink(files, input)
        /\ level1' = (level1 \ input) \cup {output[Bg]}
     \/ /\ pc[Bg] = "merge" /\ {} \in Merged
        /\ sst' = Unlink(sst, input)
        /\ level1' = level1 \ input
  /\ level0' = level0 \ input
  /\ Goto(Bg, "replaced")
  /\ UNCHANGED <<logs, manifest, nextFile, memtables, jobs, history, count>>

CompactionCommit ==
  /\ pc[Bg] = "replaced"
  /\ OpenManifest(Bg, "compactWrite", "flush")
  /\ input' = {} /\ output' = [output EXCEPT ![Bg] = NoTable]
  /\ UNCHANGED <<logs, sst, tables, memtables, shared, history>>

\* The output could not be written, or not be opened: it is deleted, the inputs
\* stay.
CompactionFail ==
  /\ pc[Bg] = "output"
  /\ \/ Spend("io")
     \/ IsShared(Bg) /\ UNCHANGED count
  /\ sst' = Unlink(sst, {output[Bg]})
  /\ input' = {} /\ output' = [output EXCEPT ![Bg] = NoTable]
  /\ Goto(Bg, "flush")
  /\ UNCHANGED <<logs, manifest, tables, memtables, shared, history>>

-----------------------------------------------------------------------------
(* The end of a process, and DB::Open *)

Forget ==
  /\ mem' = {} /\ imm' = NoImm /\ walNumber' = 1 /\ walOpen' = FALSE
  /\ level0' = {} /\ level1' = {} /\ nextFile' = 1
  /\ pc' = At("down", "down")
  /\ output' = [t \in Workers |-> NoTable] /\ input' = {} /\ shared' = NoTable
  /\ UNCHANGED <<disk, acked, lost>>

\* The background thread has left its loop, ~DB returns.
CloseEnd ==
  /\ pc[Closer] = "join" /\ pc[Bg] = "flush"
  /\ Forget /\ UNCHANGED count

Crash == Running /\ Spend("crash") /\ Forget

\* The keys of a log that WALReader::Recover hands on: it stops at damage.
Replay(log) ==
  {log[i] : i \in {i \in DOMAIN log : \A j \in 1..i : log[j] # Torn}}

\* ReadManifest opens the tables listed; one that cannot be opened is skipped,
\* not entered as it is.
EnterTables(nums) == {[num |-> n, data |-> sst[n].data] : n \in nums}
OpenTables(nums) ==
  {[num |-> n, data |-> sst[n].data] : n \in {m \in nums : sst[m].exists}}

\* What a reopened DB would hold.
Recovered ==
  Replay(logs[manifest.walNumber])
    \cup UNION {x.data : x \in OpenTables(manifest.level0 \cup manifest.level1)}

\* The number ReadManifest restores. Starting over would reuse files.
FirstNumber == 1
RestoredNumber == manifest.nextFile

\* ReadManifest, then Recover replays one log, that of the MANIFEST, and goes on
\* appending to it.
Reopen ==
  /\ ~Running
  /\ level0' = OpenTables(manifest.level0)
  /\ level1' = OpenTables(manifest.level1)
  /\ nextFile' = RestoredNumber
  /\ walNumber' = manifest.walNumber /\ walOpen' = TRUE
  /\ mem' = Replay(logs[manifest.walNumber])
  /\ imm' = NoImm
  /\ acked' = (acked \cup lost) \cap Recovered
  /\ lost' = (acked \cup lost) \ Recovered
  /\ pc' = At("flush", "open")
  /\ UNCHANGED <<disk, jobs, count>>

-----------------------------------------------------------------------------
Next ==
  \/ \E k \in Keys : PutFast(k) \/ SwitchMemTable(k)
  \/ SwitchFails
  \/ FlushBegin \/ FlushSkip \/ FlushFail
  \/ \E t \in Workers : FlushCommit(t) \/ WriteManifest(t)
  \/ CompactionBegin \/ CompactionSkip \/ LoadNumber \/ StoreNumber
  \/ CompactionReplace \/ CompactionCommit \/ CompactionFail
  \/ CloseBegin \/ CloseFlushFail \/ CloseEnd
  \/ Crash \/ Reopen

Spec == Init /\ [][Next]_vars

-----------------------------------------------------------------------------
(* Properties *)

Tables == [num : Numbers, data : SUBSET Keys]
BgStages == {"flush", "build", "flushWrite", "compact", "merge", "store",
             "output", "replaced", "compactWrite", "down"}
CloserStages == {"open", "build", "flushWrite", "join", "down"}

\* Every variable keeps its type, and the number handed out next is above those
\* of all tables.
TypeOK ==
  /\ logs \in [Numbers -> Seq(Keys \cup {Torn})]
  /\ sst \in [Numbers -> [exists : BOOLEAN, data : SUBSET Keys]]
  /\ manifest \in [level0 : SUBSET Numbers, level1 : SUBSET Numbers,
                   nextFile : 1..MaxNumber + 1, walNumber : Numbers]
  /\ mem \subseteq Keys /\ imm \in [set : BOOLEAN, data : SUBSET Keys]
  /\ walNumber \in Numbers /\ walOpen \in BOOLEAN
  /\ level0 \subseteq Tables /\ level1 \subseteq Tables
  /\ nextFile \in 1..MaxNumber + 1
  /\ NumsOf(level0 \cup level1 \cup input) \subseteq 1..nextFile - 1
  /\ pc \in [Workers -> BgStages \cup CloserStages]
  /\ pc[Bg] \in BgStages /\ pc[Closer] \in CloserStages
  /\ output \in [Workers -> Tables \cup {NoTable}] /\ input \subseteq Tables
  /\ shared \in Tables \cup {NoTable}
  /\ acked \subseteq Keys /\ lost \subseteq Keys
  /\ count \in [crash : 0..MaxCrashes, close : 0..MaxCloses,
                io : 0..MaxIOFailures, wal : 0..MaxWalFailures]

\* No thread is between the file operations of one critical section.
Quiet == Running /\ ~Locked

\* As long as no I/O has failed: while the DB is open, no memtable waits to be
\* flushed and no log has failed to open, a crash loses nothing. The tables and
\* the log that the MANIFEST names hold every acknowledged key.
QuietIsDurable ==
  Quiet /\ pc[Closer] = "open" /\ ~imm.set /\ walOpen /\ count.io = 0
    => acked \subseteq Recovered

\* As long as no I/O has failed: the MANIFEST names the log of one memtable only,
\* and outside the critical sections that write it a crash loses at most one of
\* mem_ and imm_, and of what is in a table only what the flush of ~DB and a
\* compaction write to one file, since both took its number.
AtMostOneMemtableAtRisk ==
  Quiet /\ count.io = 0 =>
    \E m \in {mem, imm.data} : acked \ Recovered \subseteq m \cup shared.data

\* A table of a level has its own file, complete: no later table, of this
\* process or of one started after a crash, was written to a file of its number.
\* The one exception is a number that a compaction has read and not yet written
\* back when ~DB takes one: it names two tables, of which each may have spoilt
\* the other.
LevelsMatchFiles ==
  Quiet => \A x \in level0 \cup level1 :
             x.num # shared.num => sst[x.num] = [exists |-> TRUE, data |-> x.data]

\* When ~DB returns the next DB::Open will find every acknowledged key, those of
\* imm_ in a table, those of mem_ in the log the MANIFEST names, however the
\* background thread's last flush and compaction fell and whatever crashes came
\* before; unless I/O or the opening of a log failed. What ~DB does lose, then,
\* are keys of the two tables that got one number.
CloseKeepsAll ==
  [][CloseEnd /\ walOpen /\ count.io = 0
       => acked \ Recovered \subseteq shared.data]_vars

\* The log "guarantees durability" (README.md:13): a key whose Put returned OK
\* survives a crash at any moment.
AckedSurvivesCrash == Running => acked \subseteq Recovered
=============================================================================
