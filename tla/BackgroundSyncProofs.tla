------------------------ MODULE BackgroundSyncProofs ------------------------
(***************************************************************************)
(* Proofs about BackgroundSync, for any set of threads, any buffer size,   *)
(* any compaction trigger and any number of I/O failures.                  *)
(***************************************************************************)
EXTENDS BackgroundSync, TLAPS

\* The inductive invariant.
IInv == TypeOK /\ ProtocolInv /\ FlushIsExclusive /\ NoLostWakeup

USE ThreadsAssumption, SizesAssumption
    DEF ThreadsAssumption, SizesAssumption, MergingThreads, Threads

\* The initial states, those a reopened DB starts in, satisfy the invariant.
LEMMA InitInv == Init => IInv
<1> SUFFICES ASSUME Init PROVE IInv
  OBVIOUS
<1>1. TypeOK
  <2>1. mem \in Nat /\ l0 \in Nat
    BY DEF Init
  <2>2. /\ snap \in [MergingThreads -> Nat]
        /\ \A t \in MergingThreads : snap[t] <= l0
    BY <2>1 DEF Init
  <2>3. ioFailures \in 0..MaxIOFailures /\ walFailures \in 0..MaxWalFailures
    BY DEF Init
  <2> QED BY <2>1, <2>2, <2>3 DEF Init, TypeOK
<1>2. ProtocolInv
  BY DEF Init, ProtocolInv
<1>3. FlushIsExclusive
  BY DEF Init, FlushIsExclusive, Flushing
<1>4. NoLostWakeup
  BY DEF Init, NoLostWakeup
<1> QED
  BY <1>1, <1>2, <1>3, <1>4 DEF IInv

-----------------------------------------------------------------------------
\* A thread that is about to switch memtables, with imm_ clear, finds nobody in
\* the wait set but the background thread: this is what makes notify_one enough.
LEMMA OnlyBgWaits ==
  ASSUME IInv, ~imm
  PROVE  bg_cv \subseteq {Bg}
<1>1. ~immFlushing
  BY DEF IInv, FlushIsExclusive
<1> QED
  BY <1>1 DEF IInv, TypeOK, NoLostWakeup

\* The same for ~DB once it has signalled: all other callers have returned.
LEMMA OnlyBgWaitsAtClose ==
  ASSUME IInv, pc[Closer] \in {"signal", "notify", "join", "closed"}
  PROVE  bg_cv \subseteq {Bg}
<1>1. \A t \in Writers \cup Compactors \cup {Closer} : t \notin bg_cv
  BY DEF IInv, ProtocolInv
<1> QED
  BY <1>1 DEF IInv, TypeOK

-----------------------------------------------------------------------------
\* One lemma per kind of step. A writer's step preserves the invariant.
LEMMA WriterInv ==
  ASSUME IInv, NEW w \in Writers, WriterStep(w)
  PROVE  IInv'
<1> USE DEF IInv
<1>1. CASE PutFast(w)
  <2>1. TypeOK'
    BY <1>1 DEF PutFast, WriteRecord, FailIO, TypeOK
  <2>2. ProtocolInv'
    BY <1>1 DEF PutFast, ProtocolInv
  <2>3. FlushIsExclusive'
    BY <1>1 DEF PutFast, FlushIsExclusive, Flushing
  <2>4. NoLostWakeup'
    BY <1>1 DEF PutFast, NoLostWakeup, NeedCompaction
  <2> QED BY <2>1, <2>2, <2>3, <2>4
<1>2. CASE MakeRoomWait(w)
  <2>0. pc[w] \in {"idle", "makeRoom"} /\ pc[Closer] = "open"
    BY <1>2 DEF MakeRoomWait, InMakeRoom, TypeOK, ProtocolInv
  <2>1. TypeOK'
    BY <1>2 DEF MakeRoomWait, Wait, Goto, TypeOK
  <2>2. ProtocolInv'
    BY <1>2, <2>0 DEF MakeRoomWait, Wait, Goto, ProtocolInv, TypeOK
  <2>3. FlushIsExclusive'
    BY <1>2, <2>0 DEF MakeRoomWait, Wait, Goto, FlushIsExclusive, Flushing, TypeOK
  <2>4. NoLostWakeup'
    BY <1>2, <2>0 DEF MakeRoomWait, Wait, Goto, NoLostWakeup, NeedCompaction, TypeOK
  <2> QED BY <2>1, <2>2, <2>3, <2>4
<1>3. CASE SwitchMemTable(w)
  <2>0. pc[w] \in {"idle", "makeRoom"} /\ pc[Closer] = "open"
    BY <1>3 DEF SwitchMemTable, InMakeRoom, TypeOK, ProtocolInv
  <2>1. bg_cv' = {}
    BY <1>3, OnlyBgWaits DEF SwitchMemTable, MaybeScheduleBackgroundWork,
                             NotifyOne, ProtocolInv
  <2>a. mem' \in Nat /\ ioFailures' \in 0..MaxIOFailures
    BY <1>3 DEF SwitchMemTable, WriteRecord, FailIO, TypeOK
  <2>b. pending' \in BOOLEAN
    BY <1>3 DEF SwitchMemTable, MaybeScheduleBackgroundWork, TypeOK
  <2>2. TypeOK'
    BY <1>3, <2>1, <2>a, <2>b DEF SwitchMemTable, Goto, TypeOK
  <2>3. ProtocolInv'
    BY <1>3, <2>0, <2>1 DEF SwitchMemTable, Goto, ProtocolInv, TypeOK
  <2>4. FlushIsExclusive'
    BY <1>3, <2>0 DEF SwitchMemTable, Goto, FlushIsExclusive, Flushing, TypeOK
  <2>5. NoLostWakeup'
    BY <2>1 DEF NoLostWakeup
  <2> QED BY <2>2, <2>3, <2>4, <2>5
<1>4. CASE SwitchFails(w)
  <2>0. pc[w] \in {"idle", "makeRoom"} /\ pc[Closer] = "open" /\ w \notin bg_cv
    BY <1>4 DEF SwitchFails, InMakeRoom, TypeOK, ProtocolInv
  <2>a. walFailures' \in 0..MaxWalFailures
    BY <1>4 DEF SwitchFails, TypeOK
  <2>1. TypeOK'
    BY <1>4, <2>a DEF SwitchFails, Goto, TypeOK
  <2>2. ProtocolInv'
    BY <1>4, <2>0 DEF SwitchFails, Goto, ProtocolInv, TypeOK
  <2>3. FlushIsExclusive'
    BY <1>4, <2>0 DEF SwitchFails, Goto, FlushIsExclusive, Flushing, TypeOK
  <2>4. NoLostWakeup'
    BY <1>4, <2>0 DEF SwitchFails, Goto, NoLostWakeup, NeedCompaction, TypeOK
  <2> QED BY <2>1, <2>2, <2>3, <2>4
<1>5. CASE SwitchOnNullWal(w)
  BY <1>5 DEF SwitchOnNullWal, TypeOK, ProtocolInv, FlushIsExclusive, Flushing,
              NoLostWakeup, NeedCompaction
<1> QED
  BY <1>1, <1>2, <1>3, <1>4, <1>5 DEF WriterStep

\* A step of the flush that CompactRange and ~DB share.
LEMMA SyncFlushInv ==
  ASSUME IInv, NEW t \in Compactors \cup {Closer}, SyncFlushStep(t)
  PROVE  IInv'
<1> USE DEF IInv
<1>1. CASE SyncFlushBegin(t)
  <2>0. /\ pc[t] \in {"idle", "open", "awaitFlush"} /\ t \notin bg_cv
        /\ t = Closer => \A u \in Writers \cup Compactors : pc[u] = "idle"
        /\ t # Closer => pc[Closer] = "open"
        /\ ~shuttingDown
    BY <1>1 DEF SyncFlushBegin, EntersSyncFlush, TypeOK, ProtocolInv
  <2>1. CASE immFlushing /\ Wait(t, "awaitFlush") /\ UNCHANGED immFlushing
    BY <1>1, <2>0, <2>1 DEF SyncFlushBegin, Wait, Goto, TypeOK, ProtocolInv,
       FlushIsExclusive, Flushing, NoLostWakeup, NeedCompaction
  <2>2. CASE /\ ~immFlushing /\ imm /\ immFlushing' = TRUE
             /\ Goto(t, "syncBuild") /\ UNCHANGED bg_cv
    <3>1. TypeOK'
      BY <1>1, <2>0, <2>2 DEF SyncFlushBegin, Goto, TypeOK
    <3>2. ProtocolInv'
      BY <1>1, <2>0, <2>2 DEF SyncFlushBegin, Goto, TypeOK, ProtocolInv
    <3>3. FlushIsExclusive'
      <4>1. \A u \in Threads : ~Flushing(u)
        BY <2>2 DEF FlushIsExclusive
      <4>2. \A u \in Threads : Flushing(u)' <=> u = t
        BY <1>1, <2>2, <4>1 DEF SyncFlushBegin, Goto, TypeOK, Flushing
      <4>3. imm' /\ immFlushing'
        BY <1>1, <2>2 DEF SyncFlushBegin
      <4> QED BY <4>2, <4>3 DEF FlushIsExclusive
    <3>4. NoLostWakeup'
      BY <1>1, <2>0, <2>2 DEF SyncFlushBegin, Goto, TypeOK, NoLostWakeup,
                              NeedCompaction
    <3> QED BY <3>1, <3>2, <3>3, <3>4
  <2>3. CASE /\ ~immFlushing /\ ~imm
             /\ Goto(t, AfterFlush(t)) /\ UNCHANGED <<immFlushing, bg_cv>>
    BY <1>1, <2>0, <2>3 DEF SyncFlushBegin, Goto, AfterFlush, TypeOK,
       ProtocolInv, FlushIsExclusive, Flushing, NoLostWakeup, NeedCompaction
  <2> QED
    BY <1>1, <2>1, <2>2, <2>3 DEF SyncFlushBegin
<1>2. CASE SyncFlushEnd(t)
  <2>0. /\ pc[t] = "syncBuild" /\ t \notin bg_cv /\ ~shuttingDown
        /\ t = Closer => \A u \in Writers \cup Compactors : pc[u] = "idle"
        /\ t # Closer => pc[Closer] = "open"
    BY <1>2 DEF SyncFlushEnd, TypeOK, ProtocolInv
  <2>1. bg_cv' \subseteq IF t = Closer THEN {Bg} ELSE {}
    BY <1>2, <2>0 DEF SyncFlushEnd, NotifyAll, TypeOK, ProtocolInv
  <2>a. l0' \in Nat /\ l0' >= l0 /\ ioFailures' \in 0..MaxIOFailures
    BY <1>2 DEF SyncFlushEnd, FailIO, TypeOK
  <2>2. TypeOK'
    <3>1. \A u \in MergingThreads : snap'[u] <= l0'
      BY <1>2, <2>a DEF SyncFlushEnd, TypeOK
    <3> QED BY <1>2, <2>1, <2>a, <3>1 DEF SyncFlushEnd, Goto, AfterFlush, TypeOK
  <2>3. ProtocolInv'
    <3>1. Bg \in bg_cv' => Bg \in bg_cv
      BY <1>2 DEF SyncFlushEnd, NotifyAll
    <3> QED BY <1>2, <2>0, <2>1, <3>1
              DEF SyncFlushEnd, Goto, AfterFlush, TypeOK, ProtocolInv
  <2>4. FlushIsExclusive'
    <3>1. \A u \in Threads : ~Flushing(u)'
      BY <1>2, <2>0 DEF SyncFlushEnd, Goto, AfterFlush, TypeOK, Flushing,
                        FlushIsExclusive
    <3> QED BY <1>2, <3>1 DEF SyncFlushEnd, FlushIsExclusive
  <2>5. NoLostWakeup'
    BY <1>2, <2>0, <2>1 DEF SyncFlushEnd, Goto, AfterFlush, TypeOK, NoLostWakeup
  <2> QED BY <2>2, <2>3, <2>4, <2>5
<1> QED
  BY <1>1, <1>2 DEF SyncFlushStep

\* A step of BackgroundCompaction, in whichever thread.
LEMMA MergeInv ==
  ASSUME IInv, NEW t \in MergingThreads, MergeStep(t)
  PROVE  IInv'
<1> USE DEF IInv
<1>0. /\ pc[t] \in {"compact", "merge"} /\ t \notin bg_cv /\ t # Closer
      /\ t \in Compactors => pc[Closer] = "open"
      /\ \A u \in MergingThreads : snap[u] \in Nat /\ snap[u] <= l0
  BY DEF MergeStep, CompactionBegin, CompactionCommit, CompactionFail, TypeOK,
         ProtocolInv
<1>1. CASE CompactionBegin(t)
  <2>0. AfterCompaction(t) = IF t = Bg THEN "loop" ELSE "idle"
    BY DEF AfterCompaction
  <2>1. /\ snap' \in [MergingThreads -> Nat]
        /\ \A u \in MergingThreads : snap'[u] <= l0'
    BY <1>1, <1>0 DEF CompactionBegin, TypeOK
  <2>2. TypeOK'
    BY <1>1, <1>0, <2>0, <2>1 DEF CompactionBegin, Goto, TypeOK
  <2>3. ProtocolInv'
    BY <1>1, <1>0, <2>0 DEF CompactionBegin, Goto, TypeOK, ProtocolInv
  <2>4. FlushIsExclusive'
    BY <1>1, <1>0, <2>0 DEF CompactionBegin, Goto, TypeOK, FlushIsExclusive,
                            Flushing
  <2>5. NoLostWakeup'
    BY <1>1, <1>0, <2>0 DEF CompactionBegin, Goto, TypeOK, NoLostWakeup,
                            NeedCompaction
  <2> QED BY <2>2, <2>3, <2>4, <2>5
<1>2. CASE CompactionCommit(t)
  <2>0. AfterCompaction(t) = IF t = Bg THEN "loop" ELSE "idle"
    BY DEF AfterCompaction
  <2>1. /\ l0' \in Nat
        /\ snap' \in [MergingThreads -> Nat]
        /\ \A u \in MergingThreads : snap'[u] <= l0'
        /\ \A u \in MergingThreads : snap[u] = 0 \/ u = t => snap'[u] = 0
    BY <1>2, <1>0 DEF CompactionCommit, EraseSnapshot, Minus, TypeOK
  <2>2. bg_cv' = {}
    BY <1>2 DEF CompactionCommit, NotifyAll
  <2>3. TypeOK'
    BY <1>2, <1>0, <2>0, <2>1, <2>2 DEF CompactionCommit, Goto, TypeOK
  <2>4. ProtocolInv'
    BY <1>2, <1>0, <2>0, <2>1, <2>2 DEF CompactionCommit, Goto, TypeOK, ProtocolInv
  <2>5. FlushIsExclusive'
    BY <1>2, <1>0, <2>0 DEF CompactionCommit, Goto, TypeOK, FlushIsExclusive,
                            Flushing
  <2>6. NoLostWakeup'
    BY <2>2 DEF NoLostWakeup
  <2> QED BY <2>3, <2>4, <2>5, <2>6
<1>3. CASE CompactionFail(t)
  <2>0. AfterCompaction(t) = IF t = Bg THEN "loop" ELSE "idle"
    BY DEF AfterCompaction
  <2>1. /\ snap' \in [MergingThreads -> Nat]
        /\ \A u \in MergingThreads : snap'[u] <= l0'
        /\ ioFailures' \in 0..MaxIOFailures
    BY <1>3, <1>0 DEF CompactionFail, FailIO, TypeOK
  <2>2. TypeOK'
    BY <1>3, <1>0, <2>0, <2>1 DEF CompactionFail, Goto, TypeOK
  <2>3. ProtocolInv'
    BY <1>3, <1>0, <2>0 DEF CompactionFail, Goto, TypeOK, ProtocolInv
  <2>4. FlushIsExclusive'
    BY <1>3, <1>0, <2>0 DEF CompactionFail, Goto, TypeOK, FlushIsExclusive,
                            Flushing
  <2>5. NoLostWakeup'
    BY <1>3, <1>0, <2>0 DEF CompactionFail, Goto, TypeOK, NoLostWakeup,
                            NeedCompaction
  <2> QED BY <2>2, <2>3, <2>4, <2>5
<1> QED
  BY <1>1, <1>2, <1>3 DEF MergeStep

\* A step of the background thread.
LEMMA BgInv ==
  ASSUME IInv, BgStep
  PROVE  IInv'
<1> USE DEF IInv
<1>1. CASE BackgroundLoop
  <2>0. pc[Bg] = "loop" /\ Bg \notin bg_cv /\ Bg \in Threads
    BY <1>1 DEF BackgroundLoop, ProtocolInv
  <2>1. CASE shuttingDown /\ Goto(Bg, "exited") /\ UNCHANGED <<pending, bg_cv>>
    BY <1>1, <2>0, <2>1 DEF BackgroundLoop, Goto, TypeOK, ProtocolInv,
       FlushIsExclusive, Flushing, NoLostWakeup, NeedCompaction
  <2>2. CASE ~shuttingDown /\ NothingToDo /\ pending' = FALSE /\ Wait(Bg, "sleep")
    BY <1>1, <2>0, <2>2 DEF BackgroundLoop, NothingToDo, Wait, Goto, TypeOK,
       ProtocolInv, FlushIsExclusive, Flushing, NoLostWakeup, NeedCompaction
  <2>3. CASE /\ ~shuttingDown /\ ~NothingToDo
             /\ pending' = FALSE /\ Goto(Bg, "flush") /\ UNCHANGED bg_cv
    BY <1>1, <2>0, <2>3 DEF BackgroundLoop, Goto, TypeOK, ProtocolInv,
       FlushIsExclusive, Flushing, NoLostWakeup, NeedCompaction
  <2> QED BY <1>1, <2>1, <2>2, <2>3 DEF BackgroundLoop
<1>2. CASE BackgroundWakes
  <2>1. pc[Bg] = "sleep" /\ Bg \notin bg_cv
    BY <1>2 DEF BackgroundWakes
  <2>2. TypeOK'
    BY <1>2, <2>1 DEF BackgroundWakes, Goto, TypeOK
  <2>3. ProtocolInv'
    BY <1>2, <2>1 DEF BackgroundWakes, Goto, TypeOK, ProtocolInv
  <2>4. FlushIsExclusive'
    BY <1>2, <2>1 DEF BackgroundWakes, Goto, TypeOK, FlushIsExclusive, Flushing
  <2>5. NoLostWakeup'
    BY <1>2, <2>1 DEF BackgroundWakes, Goto, TypeOK, NoLostWakeup, NeedCompaction
  <2> QED BY <2>2, <2>3, <2>4, <2>5
<1>3. CASE BackgroundFlushBegin
  <2>0. pc[Bg] = "flush" /\ Bg \notin bg_cv
    BY <1>3 DEF BackgroundFlushBegin, TypeOK, ProtocolInv
  <2>1. CASE FlushWanted /\ immFlushing' = TRUE /\ Goto(Bg, "build")
    <3>1. TypeOK' /\ ProtocolInv'
      BY <1>3, <2>0, <2>1 DEF BackgroundFlushBegin, Goto, TypeOK, ProtocolInv
    <3>2. FlushIsExclusive'
      <4>1. \A u \in Threads : ~Flushing(u)
        BY <2>1 DEF FlushIsExclusive, FlushWanted
      <4>2. \A u \in Threads : Flushing(u)' <=> u = Bg
        BY <2>1, <4>1 DEF Goto, TypeOK, Flushing
      <4>3. imm' /\ immFlushing'
        BY <1>3, <2>1 DEF BackgroundFlushBegin, FlushWanted
      <4> QED BY <4>2, <4>3 DEF FlushIsExclusive
    <3>3. NoLostWakeup'
      BY <1>3, <2>0, <2>1 DEF BackgroundFlushBegin, Goto, TypeOK, NoLostWakeup
    <3> QED BY <3>1, <3>2, <3>3
  <2>2. CASE ~FlushWanted /\ UNCHANGED immFlushing /\ Goto(Bg, "compact")
    BY <1>3, <2>0, <2>2 DEF BackgroundFlushBegin, Goto, TypeOK, ProtocolInv,
       FlushIsExclusive, Flushing, NoLostWakeup, NeedCompaction
  <2> QED BY <1>3, <2>1, <2>2 DEF BackgroundFlushBegin
<1>4. CASE BackgroundFlushCommit
  <2>0. pc[Bg] = "build" /\ bg_cv' = {} /\ l0' \in Nat /\ l0' >= l0
    BY <1>4 DEF BackgroundFlushCommit, NotifyAll, TypeOK
  <2>1. TypeOK'
    <3>1. \A u \in MergingThreads : snap'[u] <= l0'
      BY <1>4, <2>0 DEF BackgroundFlushCommit, TypeOK
    <3> QED BY <1>4, <2>0, <3>1 DEF BackgroundFlushCommit, Goto, TypeOK
  <2>2. ProtocolInv'
    BY <1>4, <2>0 DEF BackgroundFlushCommit, Goto, TypeOK, ProtocolInv
  <2>3. FlushIsExclusive'
    <3>1. \A u \in Threads : ~Flushing(u)'
      BY <1>4, <2>0 DEF BackgroundFlushCommit, Goto, TypeOK, Flushing,
                        FlushIsExclusive
    <3> QED BY <1>4, <3>1 DEF BackgroundFlushCommit, FlushIsExclusive
  <2>4. NoLostWakeup'
    BY <2>0 DEF NoLostWakeup
  <2> QED BY <2>1, <2>2, <2>3, <2>4
<1>5. CASE BackgroundFlushFail
  <2>0. pc[Bg] = "build" /\ bg_cv' = {} /\ ioFailures' \in 0..MaxIOFailures
    BY <1>5 DEF BackgroundFlushFail, FailIO, NotifyAll, TypeOK
  <2>1. TypeOK'
    BY <1>5, <2>0 DEF BackgroundFlushFail, Goto, TypeOK
  <2>2. ProtocolInv'
    BY <1>5, <2>0 DEF BackgroundFlushFail, Goto, TypeOK, ProtocolInv
  <2>3. FlushIsExclusive'
    <3>1. \A u \in Threads : ~Flushing(u)'
      BY <1>5, <2>0 DEF BackgroundFlushFail, Goto, TypeOK, Flushing,
                        FlushIsExclusive
    <3> QED BY <1>5, <3>1 DEF BackgroundFlushFail, FlushIsExclusive
  <2>4. NoLostWakeup'
    BY <2>0 DEF NoLostWakeup
  <2> QED BY <2>1, <2>2, <2>3, <2>4
<1>6. CASE MergeStep(Bg)
  BY <1>6, MergeInv
<1> QED
  BY <1>1, <1>2, <1>3, <1>4, <1>5, <1>6 DEF BgStep

\* A step of ~DB.
LEMMA CloserInv ==
  ASSUME IInv, CloserStep
  PROVE  IInv'
<1> USE DEF IInv
<1>1. CASE SyncFlushStep(Closer)
  BY <1>1, SyncFlushInv
<1>2. CASE CloseSignal
  BY <1>2 DEF CloseSignal, Goto, TypeOK, ProtocolInv, FlushIsExclusive, Flushing,
     NoLostWakeup, NeedCompaction
<1>3. CASE CloseNotify
  <2>0. bg_cv' = {}
    BY <1>3, OnlyBgWaitsAtClose DEF CloseNotify, NotifyOne
  <2> QED
    BY <1>3, <2>0 DEF CloseNotify, Goto, TypeOK, ProtocolInv, FlushIsExclusive,
       Flushing, NoLostWakeup
<1>4. CASE CloseJoin
  <2>1. \A u \in MergingThreads : snap[u] = 0
    BY <1>4 DEF CloseJoin, ProtocolInv, TypeOK
  <2>2. bg_cv = {}
    BY <1>4, OnlyBgWaitsAtClose DEF CloseJoin, ProtocolInv
  <2>3. IInv'
    <3>0. l0' = 0 /\ l0' \in Nat /\ mem' \in Nat /\ walOpen' \in BOOLEAN
      BY <1>4 DEF CloseJoin
    <3>b. /\ DOMAIN pc' = Threads /\ pc'[Closer] = "closed"
          /\ \A t \in Writers \cup MergingThreads : pc'[t] = pc[t]
      BY <1>4 DEF CloseJoin, Goto, TypeOK
    <3>a. \A u \in MergingThreads : snap'[u] <= l0'
      BY <1>4, <2>1, <3>0 DEF CloseJoin
    <3>1. TypeOK'
      BY <1>4, <2>2, <3>0, <3>a, <3>b DEF CloseJoin, TypeOK
    <3>2. ProtocolInv'
      BY <1>4, <2>1, <2>2 DEF CloseJoin, Goto, TypeOK, ProtocolInv
    <3>3. FlushIsExclusive'
      BY <1>4 DEF CloseJoin, Goto, TypeOK, FlushIsExclusive, Flushing
    <3>4. NoLostWakeup'
      BY <1>4, <2>2 DEF CloseJoin, NoLostWakeup
    <3> QED BY <3>1, <3>2, <3>3, <3>4
  <2> QED BY <2>3
<1> QED
  BY <1>1, <1>2, <1>3, <1>4 DEF CloserStep

-----------------------------------------------------------------------------
\* Every step preserves the invariant.
LEMMA NextInv == IInv /\ [Next]_vars => IInv'
<1> SUFFICES ASSUME IInv, [Next]_vars PROVE IInv'
  OBVIOUS
<1>1. ASSUME NEW w \in Writers, WriterStep(w) PROVE IInv'
  BY <1>1, WriterInv
<1>2. ASSUME NEW c \in Compactors, SyncFlushStep(c) \/ MergeStep(c) PROVE IInv'
  BY <1>2, SyncFlushInv, MergeInv
<1>3. CASE BgStep
  BY <1>3, BgInv
<1>4. CASE CloserStep
  BY <1>4, CloserInv
<1>5. CASE SpuriousWakeup
  BY <1>5 DEF SpuriousWakeup, IInv, TypeOK, ProtocolInv, FlushIsExclusive,
     Flushing, NoLostWakeup, NeedCompaction
<1>6. CASE UNCHANGED vars
  BY <1>6 DEF vars, IInv, TypeOK, ProtocolInv, FlushIsExclusive, Flushing,
     NoLostWakeup, NeedCompaction
<1> QED
  BY <1>1, <1>2, <1>3, <1>4, <1>5, <1>6 DEF Next, Halted

\* The inductive invariant holds in every reachable state.
THEOREM Invariance == Spec => []IInv
BY InitInv, NextInv, PTL DEF Spec

\* Every variable keeps its type, every thread its own code, and no compaction
\* snapshot outgrows levels_[0], however many threads compact at once.
THEOREM TypeCorrect == Spec => []TypeOK
<1>1. IInv => TypeOK
  BY DEF IInv
<1> QED
  BY <1>1, Invariance, PTL

\* imm_flushing_ is a lock on imm_: BackgroundFlush, CompactRange and ~DB never
\* build from it at once and none of them loses it while building.
THEOREM FlushExclusive == Spec => []FlushIsExclusive
<1>1. IInv => FlushIsExclusive
  BY DEF IInv
<1> QED
  BY <1>1, Invariance, PTL

\* One condition variable, shared by three kinds of waiters and signalled by
\* notify_one, loses no wake-up, whatever the number of writers and of threads
\* in CompactRange.
THEOREM WakeupsNotLost == Spec => []NoLostWakeup
<1>1. IInv => NoLostWakeup
  BY DEF IInv
<1> QED
  BY <1>1, Invariance, PTL

\* What the first three rest on.
THEOREM ProtocolHolds == Spec => []ProtocolInv
<1>1. IInv => ProtocolInv
  BY DEF IInv
<1> QED
  BY <1>1, Invariance, PTL

\* The notify_one of MaybeScheduleBackgroundWork and the one of ~DB can reach no
\* thread but the background thread, and do reach it if it sleeps.
THEOREM NotifyOneSuffices == Spec => NotifyOneReachesBg
<1> DEFINE Reaches == (\E w \in Writers : SwitchMemTable(w)) \/ CloseNotify
                        => bg_cv \subseteq {Bg} /\ Bg \notin bg_cv'
<1>1. ASSUME IInv, NEW w \in Writers, SwitchMemTable(w)
      PROVE  bg_cv \subseteq {Bg} /\ Bg \notin bg_cv'
  BY <1>1, OnlyBgWaits DEF IInv, ProtocolInv, SwitchMemTable,
     MaybeScheduleBackgroundWork, NotifyOne
<1>2. ASSUME IInv, CloseNotify
      PROVE  bg_cv \subseteq {Bg} /\ Bg \notin bg_cv'
  BY <1>2, OnlyBgWaitsAtClose DEF CloseNotify, NotifyOne
<1>3. IInv => Reaches
  BY <1>1, <1>2
<1>4. IInv => [Reaches]_vars
  BY <1>3
<1> QED
  BY <1>4, Invariance, PTL DEF NotifyOneReachesBg
=============================================================================
