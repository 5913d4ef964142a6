--------------------------- MODULE BackgroundSync ---------------------------
(***************************************************************************)
(* The thread protocol of class DB (src/db.cc): the one mutex, the one     *)
(* condition variable bg_cv_ that foreground writers, CompactRange, ~DB    *)
(* and the background thread all wait on, and the flags imm_flushing_,     *)
(* background_work_pending_ and shutting_down_.                            *)
(*                                                                         *)
(* One action is one critical section of mutex_, from the lock to the      *)
(* unlock or to the wait that releases it, or one stretch of unlocked I/O. *)
(* A thread in the set bg_cv is blocked in wait; once notified it leaves   *)
(* the set and has to run its next critical section.                       *)
(*                                                                         *)
(* Data is abstracted away: mem_ is the number of its records, levels_[0]  *)
(* the number of its tables. Contents and lifetimes are in TableVersions.  *)
(***************************************************************************)
EXTENDS Naturals

CONSTANTS
  Writers,          \* threads that call Put and Delete
  Compactors,       \* threads that call CompactRange
  Bg,               \* the background thread, bg_thread_
  Closer,           \* the thread that deletes the DB
  WriteBufferSize,  \* records that fill a memtable (0: a fresh one is full)
  L0Trigger,        \* options_.l0_compaction_trigger
  MaxRecovered,     \* bound: records, and tables, a reopened DB starts with
  MaxIOFailures,    \* bound: failed WAL appends, table builds and merges
  MaxWalFailures    \* bound: failed WALWriter::Open calls

ASSUME ThreadsAssumption ==
  /\ Bg \notin Writers \cup Compactors
  /\ Closer \notin Writers \cup Compactors
  /\ Bg # Closer
  /\ Writers \cap Compactors = {}

ASSUME SizesAssumption ==
  /\ WriteBufferSize \in Nat
  /\ L0Trigger \in Nat \ {0}
  /\ MaxRecovered \in Nat /\ MaxIOFailures \in Nat /\ MaxWalFailures \in Nat

VARIABLES
  mem,          \* number of records in mem_
  walOpen,      \* wal_ # nullptr
  imm,          \* imm_ # nullptr
  immFlushing,  \* imm_flushing_
  pending,      \* background_work_pending_
  shuttingDown, \* shutting_down_
  l0,           \* levels_[0].size()
  snap,         \* snap[t]: tables of t's compaction snapshot still in levels_[0]
  bg_cv,        \* the threads blocked in bg_cv_.wait
  pc,           \* where each thread is
  ioFailures,   \* failed I/O operations so far
  walFailures,  \* failed WALWriter::Open calls so far
  crashed       \* the process dereferenced a null wal_

vars == <<mem, walOpen, imm, immFlushing, pending, shuttingDown, l0, snap,
          bg_cv, pc, ioFailures, walFailures, crashed>>

MergingThreads == Compactors \cup {Bg}
Threads == Writers \cup MergingThreads \cup {Closer}

Goto(t, label) == pc' = [pc EXCEPT ![t] = label]

\* DB::Open returned: Recover has replayed the log into mem_ and opened the
\* tables the MANIFEST lists, the background thread has been started.
Init ==
  /\ mem \in 0..MaxRecovered
  /\ walOpen = TRUE
  /\ imm = FALSE
  /\ immFlushing = FALSE
  /\ pending = FALSE
  /\ shuttingDown = FALSE
  /\ l0 \in 0..MaxRecovered
  /\ snap = [t \in MergingThreads |-> 0]
  /\ bg_cv = {}
  /\ pc = [t \in Threads |-> IF t = Bg THEN "loop"
                             ELSE IF t = Closer THEN "open" ELSE "idle"]
  /\ ioFailures = 0
  /\ walFailures = 0
  /\ crashed = FALSE

\* A caller may not start a call on a DB that is being deleted.
Serving == pc[Closer] = "open" /\ ~crashed

-----------------------------------------------------------------------------
(* bg_cv_ *)

Wait(t, label) == bg_cv' = bg_cv \cup {t} /\ Goto(t, label)

\* A wake-up that is forgotten.
NoNotifyAll == UNCHANGED bg_cv
NotifyAll == bg_cv' = {}

NotifyOne ==
  \/ bg_cv = {} /\ UNCHANGED bg_cv
  \/ \E t \in bg_cv : bg_cv' = bg_cv \ {t}

\* wait may return without a notification.
SpuriousWakeup ==
  /\ ~crashed
  /\ \E t \in bg_cv : bg_cv' = bg_cv \ {t}
  /\ UNCHANGED <<mem, walOpen, imm, immFlushing, pending, shuttingDown, l0,
                 snap, pc, ioFailures, walFailures, crashed>>

FailIO == ioFailures < MaxIOFailures /\ ioFailures' = ioFailures + 1

-----------------------------------------------------------------------------
(* Put and Delete *)

\* MaybeScheduleBackgroundWork without its wake-up.
ScheduleSilently == pending' = TRUE /\ UNCHANGED bg_cv

MaybeScheduleBackgroundWork ==
  \/ pending /\ UNCHANGED <<pending, bg_cv>>
  \/ ~pending /\ pending' = TRUE /\ NotifyOne

\* AddRecord, then mem_->Add, on a memtable that holds n records.
WriteRecord(n) ==
  \/ mem' = n + 1 /\ UNCHANGED ioFailures
  \/ FailIO /\ mem' = n

\* The write finds room in mem_.
PutFast(w) ==
  /\ Serving /\ pc[w] = "idle"
  /\ mem < WriteBufferSize
  /\ WriteRecord(mem)
  /\ UNCHANGED <<walOpen, imm, immFlushing, pending, shuttingDown, l0, snap,
                 bg_cv, pc, walFailures, crashed>>

\* The thread is in MakeRoomForWrite's slow path and holds mutex_: it either
\* enters with a full mem_ or returns from the wait. Only imm_ is tested again
\* after a wait, never the size of mem_.
InMakeRoom(w) ==
  /\ ~crashed
  /\ \/ pc[w] = "idle" /\ pc[Closer] = "open" /\ mem >= WriteBufferSize
     \/ pc[w] = "makeRoom" /\ w \notin bg_cv

MakeRoomWait(w) ==
  /\ InMakeRoom(w)
  /\ imm
  /\ Wait(w, "makeRoom")
  /\ UNCHANGED <<mem, walOpen, imm, immFlushing, pending, shuttingDown, l0,
                 snap, ioFailures, walFailures, crashed>>

\* mem_ becomes imm_, a new WAL is opened, the write goes to the new mem_.
SwitchMemTable(w) ==
  /\ InMakeRoom(w)
  /\ ~imm /\ walOpen
  /\ imm' = TRUE
  /\ MaybeScheduleBackgroundWork
  /\ WriteRecord(0)
  /\ Goto(w, "idle")
  /\ UNCHANGED <<walOpen, immFlushing, shuttingDown, l0, snap, walFailures,
                 crashed>>

\* WALWriter::Open fails: the switch is undone, wal_ stays null, Put returns.
SwitchFails(w) ==
  /\ InMakeRoom(w)
  /\ ~imm /\ walOpen
  /\ walFailures < MaxWalFailures
  /\ walFailures' = walFailures + 1
  /\ walOpen' = FALSE
  /\ Goto(w, "idle")
  /\ UNCHANGED <<mem, imm, immFlushing, pending, shuttingDown, l0, snap,
                 bg_cv, ioFailures, crashed>>

\* wal_->Close() on the null wal_ a failed switch left behind.
SwitchOnNullWal(w) ==
  /\ InMakeRoom(w)
  /\ ~imm /\ ~walOpen
  /\ crashed' = TRUE
  /\ UNCHANGED <<mem, walOpen, imm, immFlushing, pending, shuttingDown, l0,
                 snap, bg_cv, pc, ioFailures, walFailures>>

-----------------------------------------------------------------------------
(* Building a table from imm_: BackgroundFlush, and the copies of it in       *)
(* CompactRange and ~DB                                                       *)

\* BackgroundFlush's test without the flag.
FlushWanted0 == imm
FlushWanted == imm /\ ~immFlushing

BackgroundFlushBegin ==
  /\ ~crashed /\ pc[Bg] = "flush"
  /\ \/ FlushWanted /\ immFlushing' = TRUE /\ Goto(Bg, "build")
     \/ ~FlushWanted /\ UNCHANGED immFlushing /\ Goto(Bg, "compact")
  /\ UNCHANGED <<mem, walOpen, imm, pending, shuttingDown, l0, snap, bg_cv,
                 ioFailures, walFailures, crashed>>

\* Finish and Open succeeded: the table enters levels_[0], imm_ is released.
BackgroundFlushCommit ==
  /\ ~crashed /\ pc[Bg] = "build"
  /\ l0' = l0 + 1
  /\ imm' = FALSE /\ immFlushing' = FALSE
  /\ NotifyAll
  /\ Goto(Bg, "compact")
  /\ UNCHANGED <<mem, walOpen, pending, shuttingDown, snap, ioFailures,
                 walFailures, crashed>>

\* Finish or Open failed: imm_ stays for the next round.
BackgroundFlushFail ==
  /\ ~crashed /\ pc[Bg] = "build"
  /\ FailIO
  /\ immFlushing' = FALSE
  /\ NotifyAll
  /\ Goto(Bg, "compact")
  /\ UNCHANGED <<mem, walOpen, imm, pending, shuttingDown, l0, snap,
                 walFailures, crashed>>

\* Where CompactRange and ~DB go once imm_ is out of the way.
AfterFlush(t) == IF t = Closer THEN "signal" ELSE "compact"

\* CompactRange is called, or ~DB starts once every other call has returned.
EntersSyncFlush(t) ==
  \/ t \in Compactors /\ pc[t] = "idle" /\ pc[Closer] = "open"
  \/ /\ t = Closer /\ pc[t] = "open"
     /\ \A u \in Writers \cup Compactors : pc[u] = "idle"
  \/ pc[t] = "awaitFlush" /\ t \notin bg_cv

SyncFlushBegin(t) ==
  /\ ~crashed /\ EntersSyncFlush(t)
  /\ \/ immFlushing /\ Wait(t, "awaitFlush") /\ UNCHANGED immFlushing
     \/ /\ ~immFlushing /\ imm
        /\ immFlushing' = TRUE
        /\ Goto(t, "syncBuild") /\ UNCHANGED bg_cv
     \/ /\ ~immFlushing /\ ~imm
        /\ Goto(t, AfterFlush(t)) /\ UNCHANGED <<immFlushing, bg_cv>>
  /\ UNCHANGED <<mem, walOpen, imm, pending, shuttingDown, l0, snap,
                 ioFailures, walFailures, crashed>>

\* imm_ is released whether or not the table could be built. CompactRange
\* notifies, ~DB does not.
SyncFlushEnd(t) ==
  /\ ~crashed /\ pc[t] = "syncBuild"
  /\ \/ l0' = l0 + 1 /\ UNCHANGED ioFailures
     \/ FailIO /\ UNCHANGED l0
  /\ imm' = FALSE /\ immFlushing' = FALSE
  /\ IF t = Closer THEN UNCHANGED bg_cv ELSE NotifyAll
  /\ Goto(t, AfterFlush(t))
  /\ UNCHANGED <<mem, walOpen, pending, shuttingDown, snap, walFailures,
                 crashed>>

-----------------------------------------------------------------------------
(* BackgroundCompaction, run by the background thread and by CompactRange *)

NeedCompaction == l0 >= L0Trigger

AfterCompaction(t) == IF t = Bg THEN "loop" ELSE "idle"

CompactionBegin(t) ==
  /\ ~crashed /\ pc[t] = "compact"
  /\ \/ /\ NeedCompaction
        /\ snap' = [snap EXCEPT ![t] = l0] /\ Goto(t, "merge")
     \/ ~NeedCompaction /\ UNCHANGED snap /\ Goto(t, AfterCompaction(t))
  /\ UNCHANGED <<mem, walOpen, imm, immFlushing, pending, shuttingDown, l0,
                 bg_cv, ioFailures, walFailures, crashed>>

Minus(a, b) == IF a > b THEN a - b ELSE 0

\* The erasure without the find in levels_[0] that precedes it.
EraseWithoutFind(t) ==
  /\ l0' = l0 - snap[t]
  /\ snap' = [snap EXCEPT ![t] = 0]

\* levels_[0] grows at its end, so a snapshot is a prefix of it: removing t's
\* snapshot shortens what is left of another thread's.
EraseSnapshot(t) ==
  /\ l0' = l0 - snap[t]
  /\ snap' = [u \in MergingThreads |-> Minus(snap[u], snap[t])]

CompactionCommit(t) ==
  /\ ~crashed /\ pc[t] = "merge"
  /\ EraseSnapshot(t)
  /\ NotifyAll
  /\ Goto(t, AfterCompaction(t))
  /\ UNCHANGED <<mem, walOpen, imm, immFlushing, pending, shuttingDown,
                 ioFailures, walFailures, crashed>>

CompactionFail(t) ==
  /\ ~crashed /\ pc[t] = "merge"
  /\ FailIO
  /\ snap' = [snap EXCEPT ![t] = 0]
  /\ Goto(t, AfterCompaction(t))
  /\ UNCHANGED <<mem, walOpen, imm, immFlushing, pending, shuttingDown, l0,
                 bg_cv, walFailures, crashed>>

-----------------------------------------------------------------------------
(* BackgroundWork *)

\* The test before the wait, forgetting that levels_[0] may need work.
IdleUnlessImm == ~imm
NothingToDo == ~imm /\ ~NeedCompaction

\* One turn of the loop up to BackgroundFlush, or into the wait, or out. The
\* test of shutting_down_ in the loop's head is repeated under the lock.
BackgroundLoop ==
  /\ ~crashed /\ pc[Bg] = "loop"
  /\ \/ /\ shuttingDown
        /\ Goto(Bg, "exited") /\ UNCHANGED <<pending, bg_cv>>
     \/ /\ ~shuttingDown /\ NothingToDo
        /\ pending' = FALSE /\ Wait(Bg, "sleep")
     \/ /\ ~shuttingDown /\ ~NothingToDo
        /\ pending' = FALSE /\ Goto(Bg, "flush") /\ UNCHANGED bg_cv
  /\ UNCHANGED <<mem, walOpen, imm, immFlushing, shuttingDown, l0, snap,
                 ioFailures, walFailures, crashed>>

\* The wait is not in a loop: any wake-up leads to BackgroundFlush.
BackgroundWakes ==
  /\ ~crashed /\ pc[Bg] = "sleep" /\ Bg \notin bg_cv
  /\ \/ shuttingDown /\ Goto(Bg, "exited") /\ UNCHANGED pending
     \/ ~shuttingDown /\ pending' = FALSE /\ Goto(Bg, "flush")
  /\ UNCHANGED <<mem, walOpen, imm, immFlushing, shuttingDown, l0, snap,
                 bg_cv, ioFailures, walFailures, crashed>>

-----------------------------------------------------------------------------
(* ~DB, after its flush *)

\* The store of shutting_down_ happens outside mutex_.
CloseSignal ==
  /\ ~crashed /\ pc[Closer] = "signal"
  /\ shuttingDown' = TRUE
  /\ Goto(Closer, "notify")
  /\ UNCHANGED <<mem, walOpen, imm, immFlushing, pending, l0, snap, bg_cv,
                 ioFailures, walFailures, crashed>>

\* CloseNotify without its notify_one.
CloseSilently ==
  /\ ~crashed /\ pc[Closer] = "notify"
  /\ Goto(Closer, "join")
  /\ UNCHANGED <<mem, walOpen, imm, immFlushing, pending, shuttingDown, l0,
                 snap, bg_cv, ioFailures, walFailures, crashed>>

CloseNotify ==
  /\ ~crashed /\ pc[Closer] = "notify"
  /\ NotifyOne
  /\ Goto(Closer, "join")
  /\ UNCHANGED <<mem, walOpen, imm, immFlushing, pending, shuttingDown, l0,
                 snap, ioFailures, walFailures, crashed>>

\* bg_thread_.join() returns; wal_ is closed, mem_ and levels_ are released.
CloseJoin ==
  /\ ~crashed /\ pc[Closer] = "join" /\ pc[Bg] = "exited"
  /\ mem' = 0 /\ walOpen' = FALSE /\ l0' = 0
  /\ Goto(Closer, "closed")
  /\ UNCHANGED <<imm, immFlushing, pending, shuttingDown, snap, bg_cv,
                 ioFailures, walFailures, crashed>>

\* The DB is gone, or the process is.
Halted ==
  /\ crashed \/ pc[Closer] = "closed"
  /\ UNCHANGED vars

-----------------------------------------------------------------------------
WriterStep(w) ==
  PutFast(w) \/ MakeRoomWait(w) \/ SwitchMemTable(w) \/ SwitchFails(w)
    \/ SwitchOnNullWal(w)

MergeStep(t) == CompactionBegin(t) \/ CompactionCommit(t) \/ CompactionFail(t)

BgStep ==
  BackgroundLoop \/ BackgroundWakes \/ BackgroundFlushBegin
    \/ BackgroundFlushCommit \/ BackgroundFlushFail \/ MergeStep(Bg)

SyncFlushStep(t) == SyncFlushBegin(t) \/ SyncFlushEnd(t)

CloserStep ==
  SyncFlushStep(Closer) \/ CloseSignal \/ CloseNotify \/ CloseJoin

Next ==
  \/ \E w \in Writers : WriterStep(w)
  \/ \E c \in Compactors : SyncFlushStep(c) \/ MergeStep(c)
  \/ BgStep
  \/ CloserStep
  \/ SpuriousWakeup
  \/ Halted

Spec == Init /\ [][Next]_vars

\* The operating system runs every thread that has a step to take inside a
\* call. Nobody is obliged to start one.
Fairness ==
  /\ WF_vars(BgStep)
  /\ \A w \in Writers : WF_vars(pc[w] # "idle" /\ WriterStep(w))
  /\ \A c \in Compactors :
        WF_vars(pc[c] # "idle" /\ (SyncFlushStep(c) \/ MergeStep(c)))
  /\ WF_vars(pc[Closer] # "open" /\ CloserStep)

FairSpec == Spec /\ Fairness

-----------------------------------------------------------------------------
(* Properties *)

\* Every variable keeps its type, every thread stays within its own code, and
\* no thread's compaction snapshot holds more of levels_[0] than there is.
TypeOK ==
  /\ mem \in Nat /\ l0 \in Nat
  /\ walOpen \in BOOLEAN /\ imm \in BOOLEAN /\ immFlushing \in BOOLEAN
  /\ pending \in BOOLEAN /\ shuttingDown \in BOOLEAN /\ crashed \in BOOLEAN
  /\ snap \in [MergingThreads -> Nat]
  /\ \A t \in MergingThreads : snap[t] <= l0
  /\ bg_cv \subseteq Threads
  /\ DOMAIN pc = Threads
  /\ \A w \in Writers : pc[w] \in {"idle", "makeRoom"}
  /\ \A c \in Compactors :
        pc[c] \in {"idle", "awaitFlush", "syncBuild", "compact", "merge"}
  /\ pc[Bg] \in {"loop", "sleep", "flush", "build", "compact", "merge", "exited"}
  /\ pc[Closer] \in {"open", "awaitFlush", "syncBuild", "signal", "notify",
                     "join", "closed"}
  /\ ioFailures \in 0..MaxIOFailures /\ walFailures \in 0..MaxWalFailures

Flushing(t) == pc[t] \in {"build", "syncBuild"}

\* At most one thread builds a table from imm_, imm_flushing_ is set exactly
\* while one does, and imm_ is not released under it: BackgroundFlush reads
\* imm_ without a reference of its own and relies on the flag alone.
FlushIsExclusive ==
  /\ \A t, u \in Threads : Flushing(t) /\ Flushing(u) => t = u
  /\ immFlushing <=> \E t \in Threads : Flushing(t)
  /\ immFlushing => imm

\* No thread sleeps on bg_cv_ when what it waits for already holds: a writer
\* only while imm_ is set, CompactRange and ~DB only while a flush runs, the
\* background thread only while there is nothing to do. One condition variable
\* serves them all and two of the wake-ups are notify_one, so a notification
\* taken by the wrong thread would leave such a sleeper behind.
NoLostWakeup ==
  \A t \in bg_cv :
    /\ t \in Writers => imm
    /\ t \in Compactors \cup {Closer} => immFlushing
    /\ t = Bg => /\ ~imm
                 /\ pc[Closer] = "open" => ~NeedCompaction
                 /\ shuttingDown => pc[Closer] = "notify"

\* What makes the three invariants above inductive. A waiter is at one of the
\* waits; the background thread clears background_work_pending_ before it
\* waits, so that the next MaybeScheduleBackgroundWork does notify; a thread
\* holds a snapshot only while it merges; ~DB runs alone with the background
\* thread, which leaves its loop only on shutting_down_.
ProtocolInv ==
  /\ \A t \in bg_cv : pc[t] \in {"makeRoom", "awaitFlush", "sleep"}
  /\ Bg \in bg_cv => ~pending
  /\ \A t \in MergingThreads : pc[t] # "merge" => snap[t] = 0
  /\ pc[Closer] # "open" =>
        \A t \in Writers \cup Compactors : pc[t] = "idle"
  /\ shuttingDown <=> pc[Closer] \in {"notify", "join", "closed"}
  /\ pc[Bg] = "exited" => shuttingDown
  /\ pc[Closer] = "closed" => pc[Bg] = "exited"

\* When a notify_one is sent there is nobody but the background thread to
\* receive it.
NotifyOneReachesBg ==
  [][(\E w \in Writers : SwitchMemTable(w)) \/ CloseNotify
       => bg_cv \subseteq {Bg} /\ Bg \notin bg_cv']_vars

\* An immutable memtable is eventually out of imm_, if I/O fails only finitely
\* often.
ImmDrains == imm ~> ~imm

\* A writer stuck in MakeRoomForWrite eventually returns from Put, unless the
\* other writers fill memtable after memtable for ever: the mutex does not
\* promise one of them that it comes next. (Or the null wal_ that a failed
\* switch left behind ends the process.)
StalledWriterReturns ==
  \A w \in Writers :
    \/ []<>(pc[w] # "makeRoom" \/ crashed)
    \/ []<><<\E v \in Writers \ {w} : SwitchMemTable(v)>>_vars

\* ~DB, once started, returns: it neither sleeps through the end of a flush nor
\* joins a background thread that missed the shutdown.
CloseReturns == pc[Closer] # "open" ~> pc[Closer] = "closed"
=============================================================================
