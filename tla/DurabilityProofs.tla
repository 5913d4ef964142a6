--------------------------- MODULE DurabilityProofs ---------------------------
(***************************************************************************)
(* What a crash cannot take away, for every number of keys, crashes, closes*)
(* and failures, every size of memtables and every trigger.                *)
(*                                                                         *)
(* None of the properties is inductive.  That the levels match the files   *)
(* needs to know that what is being built is in no level and under no      *)
(* other builder's number, unless that is the shared one (FilesInv), and   *)
(* what a compaction makes of the number it read without the lock          *)
(* (NumbersInv).  That nothing acknowledged is lost needs to know where it *)
(* is, in memory (MemoryInv, AckedInv) and on disk: the MANIFEST names the *)
(* log of mem_, or that of imm_ while imm_ is set (ManifestInv).           *)
(***************************************************************************)
EXTENDS Durability, TLAPS

Levels == level0 \cup level1
KeysOf(ts) == UNION {x.data : x \in ts}
Building(t) == pc[t] \in {"build", "output"}
Numbered(t) == pc[t] \in {"build", "store", "output"}

\* Every table of a level is in its file, what is being built is in no level and
\* has a number of its own, unless the number is the shared one; the inputs of a
\* merge stay until it is over; the MANIFEST names only numbers that will not be
\* handed out again.
FilesInv ==
  /\ \A x \in Levels : IF x.num = shared.num
                       THEN x.data \subseteq shared.data
                       ELSE sst[x.num] = [exists |-> TRUE, data |-> x.data]
  /\ \A t \in Workers : Numbered(t) =>
        /\ output[t] \in Tables
        /\ IF output[t].num = shared.num
           THEN output[t].data \subseteq shared.data
           ELSE output[t].num \notin NumsOf(Levels)
  /\ \A t \in Workers : Building(t) => output[t].num < nextFile
  /\ Numbered(Bg) /\ Numbered(Closer) =>
        output[Bg].num # output[Closer].num \/ output[Bg].num = shared.num
  /\ pc[Bg] \in {"merge", "store", "output"} => input \subseteq Levels
  /\ manifest.level0 \cup manifest.level1 \subseteq 1..manifest.nextFile - 1

\* The number a compaction has read is the next one still, or ~DB has it as well;
\* a shared number is of a process that is closing, and will not be handed out
\* again.
NumbersInv ==
  /\ pc[Bg] = "store" => \/ output[Bg].num = nextFile
                         \/ output[Bg].num = shared.num /\ nextFile = shared.num + 1
  /\ shared # NoTable => shared.num < nextFile
  /\ pc[Closer] \in {"open", "down"} => shared = NoTable

\* Who builds a table has all of imm_, or of its inputs that are not spoilt, in
\* it; only one thread flushes; when ~DB waits for the background thread imm_ is
\* gone.
MemoryInv ==
  /\ ~imm.set => imm.data = {}
  /\ \A t \in Workers : pc[t] = "build" => imm.set /\ output[t].data = imm.data
  /\ pc[Bg] # "build" \/ pc[Closer] # "build"
  /\ pc[Bg] \in {"store", "output"} =>
        KeysOf(input) \subseteq output[Bg].data \cup shared.data
  /\ Running /\ ~walOpen => ~imm.set
  /\ pc[Closer] \in {"flushWrite", "join"} => ~imm.set
  /\ ~Running => pc[Bg] = "down" /\ input = {}

\* As long as no I/O has failed no log is damaged.
LogsClean ==
  count.io = 0 => \A n \in Numbers : \A i \in DOMAIN logs[n] : logs[n][i] # Torn

\* Every acknowledged key is in a memtable or a table, or was written to a shared
\* file; and mem_ is in its log.
AckedInv ==
  count.io = 0 /\ Running =>
    /\ acked \subseteq mem \cup imm.data \cup KeysOf(Levels) \cup shared.data
    /\ walOpen => mem \subseteq Replay(logs[walNumber])

\* The MANIFEST names every table, and the log of mem_ or that of imm_.
ManifestInv ==
  count.io = 0 /\ Quiet =>
    /\ NumsOf(Levels) \subseteq manifest.level0 \cup manifest.level1
    /\ walOpen /\ ~imm.set => manifest.walNumber = walNumber
    /\ imm.set => \/ manifest.walNumber = walNumber
                  \/ imm.data \subseteq Replay(logs[manifest.walNumber])

IInv ==
  /\ TypeOK /\ FilesInv /\ NumbersInv /\ MemoryInv
  /\ LogsClean /\ AckedInv /\ ManifestInv

-----------------------------------------------------------------------------
(* Logs and tables *)

\* What is replayed are keys, and a whole record appended to an undamaged log is
\* replayed as well.
LEMMA ReplayFacts ==
  ASSUME NEW log \in Seq(Keys \cup {Torn})
  PROVE  /\ Replay(log) \subseteq Keys
         /\ \A k \in Keys : (\A i \in DOMAIN log : log[i] # Torn) =>
              /\ Replay(Append(log, k)) = Replay(log) \cup {k}
              /\ \A i \in DOMAIN Append(log, k) : Append(log, k)[i] # Torn
<1>1. Replay(log) \subseteq Keys
  BY DEF Replay
<1>2. ASSUME NEW k \in Keys, \A i \in DOMAIN log : log[i] # Torn
      PROVE  /\ Replay(Append(log, k)) = Replay(log) \cup {k}
             /\ \A i \in DOMAIN Append(log, k) : Append(log, k)[i] # Torn
  <2>1. Torn \notin Keys
    BY DurabilityAssumption
  <2>2. /\ DOMAIN log = 1..Len(log) /\ Len(log) \in Nat
        /\ DOMAIN Append(log, k) = 1..Len(log) + 1
        /\ \A i \in 1..Len(log) : Append(log, k)[i] = log[i]
        /\ Append(log, k)[Len(log) + 1] = k
    OBVIOUS
  <2>3. \A i \in DOMAIN Append(log, k) : Append(log, k)[i] # Torn
    BY <1>2, <2>1, <2>2
  <2>4. \A i \in DOMAIN log : \A j \in 1..i : log[j] # Torn
    BY <1>2, <2>2
  <2>5. \A i \in DOMAIN Append(log, k) : \A j \in 1..i : Append(log, k)[j] # Torn
    BY <2>2, <2>3
  <2>6. Replay(log) = {log[i] : i \in DOMAIN log}
    BY <2>4 DEF Replay
  <2>7. Replay(Append(log, k)) = {Append(log, k)[i] : i \in DOMAIN Append(log, k)}
    BY <2>5 DEF Replay
  <2>8. {Append(log, k)[i] : i \in DOMAIN Append(log, k)}
          = {log[i] : i \in DOMAIN log} \cup {k}
    BY <2>2
  <2> QED
    BY <2>3, <2>6, <2>7, <2>8
<1> QED
  BY <1>1, <1>2

\* Two tables of the levels have one number only if it is the shared one.
LEMMA NumbersTellTables ==
  ASSUME IInv, NEW x \in Levels, NEW y \in Levels, x.num = y.num, x.num # shared.num
  PROVE  x = y
<1>1. x \in Tables /\ y \in Tables
  BY DEF IInv, TypeOK, Levels
<1>2. /\ sst[x.num] = [exists |-> TRUE, data |-> x.data]
      /\ sst[x.num] = [exists |-> TRUE, data |-> y.data]
  BY DEF IInv, FilesInv
<1>3. sst[x.num].data = x.data /\ sst[x.num].data = y.data
  BY <1>2
<1>4. x = [num |-> x.num, data |-> x.data] /\ y = [num |-> y.num, data |-> y.data]
  BY <1>1 DEF Tables
<1> QED
  BY <1>3, <1>4

\* An event is counted and leaves the counts in their bounds.
LEMMA SpendFacts ==
  ASSUME IInv, NEW kind \in {"crash", "close", "io", "wal"}, Spend(kind)
  PROVE  /\ count' \in [crash : 0..MaxCrashes, close : 0..MaxCloses,
                        io : 0..MaxIOFailures, wal : 0..MaxWalFailures]
         /\ kind = "io" => count'.io # 0
         /\ kind # "io" => count'.io = count.io
<1>1. /\ count[kind] < Bound[kind]
      /\ count' = [count EXCEPT ![kind] = count[kind] + 1]
  BY DEF Spend
<1>2. count \in [crash : 0..MaxCrashes, close : 0..MaxCloses,
                 io : 0..MaxIOFailures, wal : 0..MaxWalFailures]
  BY DEF IInv, TypeOK
<1>3. CASE kind = "crash"
  BY <1>1, <1>2, <1>3, DurabilityAssumption DEF Bound
<1>4. CASE kind = "close"
  BY <1>1, <1>2, <1>4, DurabilityAssumption DEF Bound
<1>5. CASE kind = "io"
  BY <1>1, <1>2, <1>5, DurabilityAssumption DEF Bound
<1>6. CASE kind = "wal"
  BY <1>1, <1>2, <1>6, DurabilityAssumption DEF Bound
<1> QED
  BY <1>3, <1>4, <1>5, <1>6

-----------------------------------------------------------------------------
(* Put *)

LEMMA InitInv == Init => IInv
<1> SUFFICES ASSUME Init
             PROVE  IInv
  OBVIOUS
<1>1. TypeOK
  <2>1. 1 \in Numbers /\ 1 \in 1..MaxNumber + 1
    BY DurabilityAssumption DEF Numbers
  <2>2. logs \in [Numbers -> Seq(Keys \cup {Torn})]
    BY DEF Init
  <2>3. sst \in [Numbers -> [exists : BOOLEAN, data : SUBSET Keys]]
    BY DEF Init, NoFile
  <2>4. manifest \in [level0 : SUBSET Numbers, level1 : SUBSET Numbers,
                      nextFile : 1..MaxNumber + 1, walNumber : Numbers]
    BY <2>1 DEF Init, Blank
  <2>5. /\ pc \in [Workers -> BgStages \cup CloserStages]
        /\ pc[Bg] \in BgStages /\ pc[Closer] \in CloserStages
    BY DEF Init, At, Workers, Bg, Closer, BgStages, CloserStages
  <2>6. count \in [crash : 0..MaxCrashes, close : 0..MaxCloses,
                   io : 0..MaxIOFailures, wal : 0..MaxWalFailures]
    BY DurabilityAssumption DEF Init
  <2> QED
    BY <2>1, <2>2, <2>3, <2>4, <2>5, <2>6 DEF Init, TypeOK, NoImm, NumsOf
<1>2. FilesInv /\ NumbersInv
  BY DEF Init, FilesInv, NumbersInv, Levels, Building, Numbered, At, Workers, Bg, Closer,
         Blank, NumsOf
<1>3. MemoryInv
  BY DEF Init, MemoryInv, Running, At, Workers, Bg, Closer, NoImm
<1>4. LogsClean /\ AckedInv /\ ManifestInv
  BY DEF Init, LogsClean, AckedInv, ManifestInv, Levels, NumsOf, Blank, NoImm
<1> QED
  BY <1>1, <1>2, <1>3, <1>4 DEF IInv

\* A record that is appended, whole or torn, to log n.
LEMMA WriteFacts ==
  ASSUME IInv, NEW k \in Keys, NEW n \in Numbers, NEW m \in SUBSET Keys,
         WriteRecord(k, m, n)
  PROVE  /\ logs' \in [Numbers -> Seq(Keys \cup {Torn})]
         /\ mem' \subseteq Keys /\ acked' \subseteq Keys
         /\ count' \in [crash : 0..MaxCrashes, close : 0..MaxCloses,
                        io : 0..MaxIOFailures, wal : 0..MaxWalFailures]
         /\ LogsClean'
         /\ \A i \in Numbers \ {n} : logs'[i] = logs[i]
         /\ count'.io = 0 => /\ count.io = 0
                             /\ mem' = m \cup {k} /\ acked' = acked \cup {k}
                             /\ Replay(logs'[n]) = Replay(logs[n]) \cup {k}
<1>1. /\ logs[n] \in Seq(Keys \cup {Torn}) /\ k \in Keys \cup {Torn}
      /\ logs \in [Numbers -> Seq(Keys \cup {Torn})] /\ acked \subseteq Keys
  BY DEF IInv, TypeOK
<1>2. CASE /\ logs' = [logs EXCEPT ![n] = Append(logs[n], k)]
           /\ mem' = m \cup {k} /\ acked' = acked \cup {k} /\ UNCHANGED count
  <2>1. logs'[n] = Append(logs[n], k) /\ \A i \in Numbers \ {n} : logs'[i] = logs[i]
    BY <1>1, <1>2
  <2>2. logs' \in [Numbers -> Seq(Keys \cup {Torn})]
    BY <1>1, <1>2
  <2>3. count.io = 0 => /\ Replay(logs'[n]) = Replay(logs[n]) \cup {k}
                        /\ \A i \in DOMAIN logs'[n] : logs'[n][i] # Torn
    BY <1>1, <2>1, ReplayFacts DEF IInv, LogsClean
  <2>4. LogsClean'
    BY <1>2, <2>1, <2>3 DEF IInv, LogsClean
  <2> QED
    BY <1>1, <1>2, <2>1, <2>2, <2>3, <2>4 DEF IInv, TypeOK
<1>3. CASE /\ Spend("io") /\ logs' = [logs EXCEPT ![n] = Append(logs[n], Torn)]
           /\ mem' = m /\ UNCHANGED acked
  <2>1. /\ count' \in [crash : 0..MaxCrashes, close : 0..MaxCloses,
                       io : 0..MaxIOFailures, wal : 0..MaxWalFailures]
        /\ count'.io # 0
    BY <1>3, SpendFacts
  <2>2. logs' \in [Numbers -> Seq(Keys \cup {Torn})]
    BY <1>1, <1>3
  <2> QED
    BY <1>1, <1>3, <2>1, <2>2 DEF LogsClean
<1> QED
  BY <1>2, <1>3 DEF WriteRecord
LEMMA PutFastInv ==
  ASSUME IInv, NEW k \in Keys, PutFast(k)
  PROVE  IInv'
<1>1. /\ pc[Closer] = "open" /\ WriteRecord(k, mem, walNumber)
      /\ UNCHANGED <<sst, manifest, level0, level1, nextFile, imm, walNumber, walOpen,
                     pc, output, input, shared, lost>>
  BY DEF PutFast, Writing, tables, jobs
<1>2. walNumber \in Numbers /\ mem \in SUBSET Keys
  BY DEF IInv, TypeOK
<1>3. /\ logs' \in [Numbers -> Seq(Keys \cup {Torn})]
      /\ mem' \subseteq Keys /\ acked' \subseteq Keys
      /\ count' \in [crash : 0..MaxCrashes, close : 0..MaxCloses,
                     io : 0..MaxIOFailures, wal : 0..MaxWalFailures]
      /\ LogsClean'
      /\ \A i \in Numbers \ {walNumber} : logs'[i] = logs[i]
      /\ count'.io = 0 => /\ count.io = 0
                          /\ mem' = mem \cup {k} /\ acked' = acked \cup {k}
                          /\ Replay(logs'[walNumber]) = Replay(logs[walNumber]) \cup {k}
  BY <1>1, <1>2, WriteFacts
<1>4. TypeOK'
  BY <1>1, <1>3 DEF IInv, TypeOK, NumsOf
<1>5. FilesInv' /\ NumbersInv'
  BY <1>1 DEF IInv, FilesInv, NumbersInv, Levels, Building, Numbered, NumsOf
<1>6. MemoryInv'
  BY <1>1 DEF IInv, MemoryInv, Running, KeysOf
<1>7. AckedInv'
  BY <1>1, <1>3 DEF IInv, AckedInv, Running, Levels, KeysOf
<1>8. ManifestInv'
  <2>1. manifest.walNumber \in Numbers
    BY DEF IInv, TypeOK
  <2>2. ASSUME count'.io = 0
        PROVE  Replay(logs[manifest.walNumber]) \subseteq Replay(logs'[manifest.walNumber])
    BY <1>3, <2>1, <2>2
  <2> QED
    BY <1>1, <1>3, <2>2 DEF IInv, ManifestInv, Quiet, Running, Locked, Levels, NumsOf
<1> QED
  BY <1>3, <1>4, <1>5, <1>6, <1>7, <1>8 DEF IInv

\* imm_ was clear, so the MANIFEST names the log that is now the one of imm_.
LEMMA SwitchMemTableInv ==
  ASSUME IInv, NEW k \in Keys, SwitchMemTable(k)
  PROVE  IInv'
<1>1. /\ pc[Closer] = "open" /\ ~Locked /\ ~imm.set /\ walOpen /\ walNumber < MaxNumber
      /\ imm' = [set |-> TRUE, data |-> mem] /\ walNumber' = walNumber + 1
      /\ WriteRecord(k, {}, walNumber + 1)
      /\ UNCHANGED <<sst, manifest, level0, level1, nextFile, walOpen, pc, output,
                     input, shared, lost>>
  BY DEF SwitchMemTable, Writing, tables, jobs
<1>2. walNumber \in Numbers /\ walNumber + 1 \in Numbers /\ {} \in SUBSET Keys
  BY <1>1, DurabilityAssumption DEF IInv, TypeOK, Numbers
<1>3. /\ logs' \in [Numbers -> Seq(Keys \cup {Torn})]
      /\ mem' \subseteq Keys /\ acked' \subseteq Keys
      /\ count' \in [crash : 0..MaxCrashes, close : 0..MaxCloses,
                     io : 0..MaxIOFailures, wal : 0..MaxWalFailures]
      /\ LogsClean'
      /\ \A i \in Numbers \ {walNumber + 1} : logs'[i] = logs[i]
      /\ count'.io = 0 => /\ count.io = 0
                          /\ mem' = {} \cup {k} /\ acked' = acked \cup {k}
                          /\ Replay(logs'[walNumber + 1])
                               = Replay(logs[walNumber + 1]) \cup {k}
  BY <1>1, <1>2, WriteFacts
<1>4. TypeOK'
  BY <1>1, <1>2, <1>3 DEF IInv, TypeOK, NumsOf
<1>5. FilesInv' /\ NumbersInv'
  BY <1>1 DEF IInv, FilesInv, NumbersInv, Levels, Building, Numbered, NumsOf
<1>6. MemoryInv'
  BY <1>1 DEF IInv, MemoryInv, Running, KeysOf, Workers
<1>7. AckedInv'
  BY <1>1, <1>3 DEF IInv, AckedInv, MemoryInv, Running, Levels, KeysOf
<1>8. ManifestInv'
  <2>1. ASSUME count'.io = 0, Quiet'
        PROVE  /\ NumsOf(Levels) \subseteq manifest.level0 \cup manifest.level1
               /\ mem \subseteq Replay(logs'[manifest.walNumber])
    <3>1. count.io = 0 /\ Quiet
      BY <1>1, <1>3, <2>1 DEF Quiet, Running
    <3>2. manifest.walNumber = walNumber /\ mem \subseteq Replay(logs[walNumber])
      BY <1>1, <3>1 DEF IInv, ManifestInv, AckedInv, Quiet
    <3>3. walNumber # walNumber + 1
      BY <1>2 DEF Numbers
    <3> QED
      BY <1>2, <1>3, <3>1, <3>2, <3>3 DEF IInv, ManifestInv
  <2> QED
    BY <1>1, <2>1 DEF ManifestInv, Levels, NumsOf
<1> QED
  BY <1>3, <1>4, <1>5, <1>6, <1>7, <1>8 DEF IInv

LEMMA SwitchFailsInv ==
  ASSUME IInv, SwitchFails
  PROVE  IInv'
<1>1. /\ ~imm.set /\ walNumber < MaxNumber
      /\ walNumber' = walNumber + 1 /\ walOpen' = FALSE /\ Spend("wal")
      /\ UNCHANGED <<logs, sst, manifest, level0, level1, nextFile, mem, imm, pc,
                     output, input, shared, acked, lost>>
  BY DEF SwitchFails, disk, tables, jobs, history
<1>2. /\ count' \in [crash : 0..MaxCrashes, close : 0..MaxCloses,
                     io : 0..MaxIOFailures, wal : 0..MaxWalFailures]
      /\ count'.io = count.io
  BY <1>1, SpendFacts
<1>3. walNumber + 1 \in Numbers
  BY <1>1, DurabilityAssumption DEF IInv, TypeOK, Numbers
<1>4. TypeOK'
  BY <1>1, <1>2, <1>3 DEF IInv, TypeOK, NumsOf
<1>5. FilesInv' /\ NumbersInv'
  BY <1>1 DEF IInv, FilesInv, NumbersInv, Levels, Building, Numbered, NumsOf
<1>6. MemoryInv'
  BY <1>1 DEF IInv, MemoryInv, Running, KeysOf
<1>7. LogsClean' /\ AckedInv' /\ ManifestInv'
  BY <1>1, <1>2 DEF IInv, LogsClean, AckedInv, ManifestInv, Quiet, Running, Locked,
                    Levels, KeysOf, NumsOf
<1> QED
  BY <1>4, <1>5, <1>6, <1>7 DEF IInv
-----------------------------------------------------------------------------
(* Flush *)

\* A file that is written, emptied or deleted is none of a level but the shared
\* one.
LEMMA OtherFilesStay ==
  ASSUME IInv, NEW n \in Numbers, n \in NumsOf(Levels) => n = shared.num,
         \A m \in Numbers \ {n} : sst'[m] = sst[m]
  PROVE  \A x \in Levels : IF x.num = shared.num
                           THEN x.data \subseteq shared.data
                           ELSE sst'[x.num] = [exists |-> TRUE, data |-> x.data]
<1> SUFFICES ASSUME NEW x \in Levels, x.num # shared.num
             PROVE  sst'[x.num] = [exists |-> TRUE, data |-> x.data]
  BY DEF IInv, FilesInv
<1>1. x.num \in Numbers
  BY DEF IInv, TypeOK, Levels, Tables
<1>2. x.num # n
  BY DEF NumsOf
<1> QED
  BY <1>1, <1>2 DEF IInv, FilesInv

\* No table of a level has the next number.
LEMMA NextIsFree ==
  ASSUME IInv
  PROVE  /\ nextFile \in Nat /\ nextFile \notin NumsOf(Levels)
         /\ \A x \in Levels : x \in Tables /\ x.num \in Numbers /\ x.num < nextFile
<1>1. nextFile \in Nat
  BY DEF IInv, TypeOK
<1>2. ASSUME NEW x \in Levels
      PROVE  x \in Tables /\ x.num \in Numbers /\ x.num < nextFile
  <2>1. x \in Tables
    BY DEF IInv, TypeOK, Levels
  <2>2. x.num \in 1..nextFile - 1
    BY DEF IInv, TypeOK, Levels, NumsOf
  <2> QED
    BY <1>1, <2>1, <2>2 DEF Tables, Numbers
<1>3. nextFile \notin NumsOf(Levels)
  BY <1>1, <1>2 DEF NumsOf, Numbers
<1> QED
  BY <1>1, <1>2, <1>3

\* A new table gets a number that no table of a level and no other builder has,
\* unless a compaction has read that number.
LEMMA StartTableFacts ==
  ASSUME IInv, NEW t \in Workers, NEW data \in SUBSET Keys,
         StartTable(t, data), Goto(t, "build"), UNCHANGED <<level0, level1, manifest, input>>,
         \/ pc[Bg] # "store" /\ shared' = shared
         \/ /\ t = Closer /\ pc[Closer] = "open" /\ pc[Bg] = "store"
            /\ shared' = [num |-> nextFile, data |-> data \cup output[Bg].data]
  PROVE  /\ nextFile \in Numbers /\ nextFile' = nextFile + 1
         /\ nextFile' \in 1..MaxNumber + 1
         /\ sst' \in [Numbers -> [exists : BOOLEAN, data : SUBSET Keys]]
         /\ output' \in [Workers -> Tables \cup {NoTable}]
         /\ shared' \in Tables \cup {NoTable}
         /\ output'[t].data = data
         /\ \A u \in Workers \ {t} : output'[u] = output[u] /\ pc'[u] = pc[u]
         /\ pc'[t] = "build" /\ DOMAIN pc' = DOMAIN pc
         /\ NumsOf(level0 \cup level1 \cup input) \subseteq 1..nextFile' - 1
         /\ shared.data \subseteq shared'.data
         /\ FilesInv'
<1>1. /\ nextFile <= MaxNumber /\ nextFile' = nextFile + 1
      /\ output' = [output EXCEPT ![t] = [num |-> nextFile, data |-> data]]
      /\ sst' = [sst EXCEPT ![nextFile] = [exists |-> TRUE, data |-> {}]]
      /\ pc' = [pc EXCEPT ![t] = "build"]
  BY DEF StartTable, Goto
<1>2. /\ nextFile \in Numbers /\ nextFile' \in 1..MaxNumber + 1
      /\ [num |-> nextFile, data |-> data] \in Tables
  <2>1. nextFile \in 1..MaxNumber + 1
    BY DEF IInv, TypeOK
  <2>2. nextFile \in Numbers /\ nextFile' \in 1..MaxNumber + 1
    BY <1>1, <2>1, DurabilityAssumption DEF Numbers
  <2> QED
    BY <2>2 DEF Tables
<1>3. /\ sst' \in [Numbers -> [exists : BOOLEAN, data : SUBSET Keys]]
      /\ \A n \in Numbers \ {nextFile} : sst'[n] = sst[n]
  BY <1>1, <1>2 DEF IInv, TypeOK
<1>4. /\ output' \in [Workers -> Tables \cup {NoTable}]
      /\ output'[t] = [num |-> nextFile, data |-> data]
      /\ \A u \in Workers \ {t} : output'[u] = output[u]
  BY <1>1, <1>2 DEF IInv, TypeOK
<1>5. /\ \A u \in Workers \ {t} : pc'[u] = pc[u]
      /\ pc'[t] = "build" /\ DOMAIN pc' = DOMAIN pc
  BY <1>1 DEF IInv, TypeOK
<1>6. /\ nextFile \notin NumsOf(Levels) /\ nextFile \in Nat
      /\ \A x \in Levels : x \in Tables /\ x.num \in Numbers /\ x.num < nextFile
  BY NextIsFree
<1>7. Bg \in Workers /\ Closer \in Workers \ {Bg} /\ Workers = {Bg, Closer}
  BY DEF Workers, Bg, Closer
<1>8. /\ shared' \in Tables \cup {NoTable} /\ shared.data \subseteq shared'.data
      /\ \/ shared' = shared
         \/ shared = NoTable /\ shared'.num = nextFile
      /\ shared.num # nextFile
  <2>1. shared \in Tables \cup {NoTable}
    BY DEF IInv, TypeOK
  <2>2. shared.num # nextFile
    <3>1. CASE shared = NoTable
      BY <1>2, <3>1 DEF NoTable, Numbers
    <3>2. CASE shared # NoTable
      <4>1. shared.num < nextFile /\ shared.num \in Nat
        BY <2>1, <3>2 DEF IInv, NumbersInv, Tables, Numbers
      <4> QED
        BY <1>6, <4>1
    <3> QED
      BY <3>1, <3>2
  <2>3. CASE shared' = shared
    BY <2>1, <2>2, <2>3
  <2>4. CASE /\ t = Closer /\ pc[Closer] = "open" /\ pc[Bg] = "store"
             /\ shared' = [num |-> nextFile, data |-> data \cup output[Bg].data]
    <3>1. output[Bg] \in Tables /\ shared = NoTable
      BY <1>7, <2>4 DEF IInv, FilesInv, NumbersInv, Numbered
    <3>2. output[Bg].data \subseteq Keys
      BY <3>1 DEF Tables
    <3>3. shared' \in Tables
      BY <1>2, <2>4, <3>2 DEF Tables
    <3> QED
      BY <2>2, <2>4, <3>1, <3>3 DEF NoTable
  <2> QED
    BY <2>3, <2>4
<1>9. FilesInv'
  <2>1. \A x \in Levels' : IF x.num = shared'.num
                           THEN x.data \subseteq shared'.data
                           ELSE sst'[x.num] = [exists |-> TRUE, data |-> x.data]
    <3>1. ASSUME NEW x \in Levels
          PROVE  IF x.num = shared'.num
                 THEN x.data \subseteq shared'.data
                 ELSE sst'[x.num] = [exists |-> TRUE, data |-> x.data]
      <4>1. IF x.num = shared.num
            THEN x.data \subseteq shared.data
            ELSE sst'[x.num] = [exists |-> TRUE, data |-> x.data]
        BY <1>2, <1>3, <1>6, OtherFilesStay
      <4>2. x.num # nextFile /\ x.num # 0
        BY <1>6 DEF Numbers
      <4> QED
        BY <1>8, <4>1, <4>2 DEF NoTable
    <3> QED
      BY <3>1 DEF Levels
  <2>2. ASSUME NEW u \in Workers, Numbered(u)'
        PROVE  /\ output'[u] \in Tables
               /\ IF output'[u].num = shared'.num
                  THEN output'[u].data \subseteq shared'.data
                  ELSE output'[u].num \notin NumsOf(Levels)'
    <3>1. NumsOf(Levels)' = NumsOf(Levels)
      BY DEF Levels, NumsOf
    <3>2. CASE u = t
      <4>1. output'[u] \in Tables /\ output'[u].num = nextFile /\ output'[u].data = data
        BY <1>2, <1>4, <3>2
      <4>2. shared'.num = nextFile => data \subseteq shared'.data
        BY <1>8
      <4> QED
        BY <1>6, <3>1, <4>1, <4>2
    <3>3. CASE u # t
      <4>1. Numbered(u) /\ output'[u] = output[u]
        BY <1>4, <1>5, <2>2, <3>3 DEF Numbered
      <4>2. /\ output[u] \in Tables
            /\ IF output[u].num = shared.num
               THEN output[u].data \subseteq shared.data
               ELSE output[u].num \notin NumsOf(Levels)
        BY <4>1 DEF IInv, FilesInv
      <4>3. CASE shared' = shared
        BY <3>1, <4>1, <4>2, <4>3
      <4>4. CASE shared' # shared
        <5>1. u = Bg /\ shared'.data = data \cup output[u].data /\ shared = NoTable
          BY <1>7, <1>8, <3>3, <4>4
        <5>2. output[u].num # 0
          BY <4>2 DEF Tables, Numbers
        <5> QED
          BY <3>1, <4>1, <4>2, <5>1, <5>2 DEF NoTable
      <4> QED
        BY <4>3, <4>4
    <3> QED
      BY <3>2, <3>3
  <2>3. ASSUME NEW u \in Workers, Building(u)'
        PROVE  output'[u].num < nextFile'
    <3>1. CASE u = t
      BY <1>1, <1>4, <1>6, <3>1
    <3>2. CASE u # t
      <4>1. Building(u) /\ output'[u] = output[u] /\ Numbered(u)
        BY <1>4, <1>5, <2>3, <3>2 DEF Building, Numbered
      <4>2. output[u].num < nextFile /\ output[u].num \in Nat
        BY <4>1 DEF IInv, FilesInv, Tables, Numbers
      <4> QED
        BY <1>1, <1>6, <4>1, <4>2
    <3> QED
      BY <3>1, <3>2
  <2>4. ASSUME Numbered(Bg)', Numbered(Closer)', output'[Bg].num # shared'.num
        PROVE  output'[Bg].num # output'[Closer].num
    <3>1. PICK u \in Workers : {t, u} = Workers /\ u # t
      BY <1>7
    <3>2. Numbered(u) /\ output'[u] = output[u] /\ output[u] \in Tables
      <4>1. Numbered(u) /\ output'[u] = output[u]
        BY <1>4, <1>5, <1>7, <2>4, <3>1 DEF Numbered
      <4> QED
        BY <4>1 DEF IInv, FilesInv
    <3>3. pc[u] # "store"
      <4> SUFFICES ASSUME pc[u] = "store"
                   PROVE  FALSE
        OBVIOUS
      <4>1. u = Bg
        BY <1>7 DEF IInv, TypeOK, CloserStages
      <4>2. shared = NoTable /\ shared'.num = nextFile
        BY <4>1 DEF IInv, NumbersInv
      <4>3. output[Bg].num = nextFile \/ output[Bg].num = 0
        BY <4>1 DEF IInv, NumbersInv, NoTable
      <4>4. output[Bg].num # 0
        BY <3>2, <4>1 DEF Tables, Numbers
      <4> QED
        BY <2>4, <3>2, <4>1, <4>2, <4>3, <4>4
    <3>4. output[u].num < nextFile
      BY <3>2, <3>3 DEF IInv, FilesInv, Numbered, Building
    <3>5. output[u].num \in Nat
      BY <3>2 DEF Tables, Numbers
    <3>6. output'[t].num = nextFile /\ output'[u].num # nextFile
      BY <1>4, <1>6, <3>2, <3>4, <3>5
    <3> QED
      BY <1>7, <3>1, <3>6
  <2>5. pc'[Bg] \in {"merge", "store", "output"} => input' \subseteq Levels'
    BY <1>5, <1>7 DEF IInv, FilesInv, Levels
  <2>6. manifest'.level0 \cup manifest'.level1 \subseteq 1..manifest'.nextFile - 1
    BY DEF IInv, FilesInv
  <2> QED
    BY <2>1, <2>2, <2>3, <2>4, <2>5, <2>6 DEF FilesInv
<1>10. NumsOf(level0 \cup level1 \cup input) \subseteq 1..nextFile' - 1
  <2>1. NumsOf(level0 \cup level1 \cup input) \subseteq 1..nextFile - 1
    BY DEF IInv, TypeOK
  <2>2. 1..nextFile - 1 \subseteq 1..nextFile' - 1
    BY <1>1, <1>2 DEF Numbers
  <2> QED
    BY <2>1, <2>2
<1> QED
  BY <1>1, <1>2, <1>3, <1>4, <1>5, <1>8, <1>9, <1>10

\* What a builder writes, or leaves when it fails, is in no table of a level but
\* a shared one.
LEMMA FinishedFacts ==
  ASSUME IInv, NEW t \in Workers, Building(t), NEW files \in Finished(t)
  PROVE  /\ files \in [Numbers -> [exists : BOOLEAN, data : SUBSET Keys]]
         /\ output[t].num # shared.num =>
              files[output[t].num] = [exists |-> TRUE, data |-> output[t].data]
         /\ \A x \in Levels : IF x.num = shared.num
                              THEN x.data \subseteq shared.data
                              ELSE files[x.num] = [exists |-> TRUE, data |-> x.data]
<1>1. /\ output[t] \in Tables
      /\ output[t].num \in NumsOf(Levels) => output[t].num = shared.num
  BY DEF IInv, FilesInv, Building, Numbered
<1>2. /\ output[t].num \in Numbers /\ output[t].data \in SUBSET Keys
      /\ shared.data \subseteq Keys
      /\ sst \in [Numbers -> [exists : BOOLEAN, data : SUBSET Keys]]
  BY <1>1 DEF IInv, TypeOK, Tables, NoTable
<1>3. PICK data \in SUBSET Keys :
        /\ files \in {sst, Written(t, data)}
        /\ output[t].num # shared.num => files = Written(t, data) /\ data = output[t].data
  <2>1. CASE ~IsShared(t)
    BY <1>2, <2>1 DEF Finished, IsShared
  <2>2. CASE IsShared(t) /\ sst[output[t].num].exists
    BY <1>2, <2>2 DEF Finished, IsShared
  <2>3. CASE IsShared(t) /\ ~sst[output[t].num].exists
    BY <1>2, <2>3 DEF Finished, IsShared
  <2> QED
    BY <2>1, <2>2, <2>3
<1>4. /\ Written(t, data) \in [Numbers -> [exists : BOOLEAN, data : SUBSET Keys]]
      /\ Written(t, data)[output[t].num] = [exists |-> TRUE, data |-> data]
      /\ \A m \in Numbers \ {output[t].num} : Written(t, data)[m] = sst[m]
  BY <1>2 DEF Written
<1>5. ASSUME NEW x \in Levels, x.num # shared.num
      PROVE  files[x.num] = [exists |-> TRUE, data |-> x.data]
  <2>1. x.num \in Numbers
    BY DEF IInv, TypeOK, Levels, Tables
  <2>2. x.num # output[t].num
    BY <1>1, <1>5 DEF NumsOf
  <2>3. files[x.num] = sst[x.num]
    BY <1>3, <1>4, <2>1, <2>2
  <2> QED
    BY <1>5, <2>3 DEF IInv, FilesInv
<1>6. files \in [Numbers -> [exists : BOOLEAN, data : SUBSET Keys]]
  BY <1>2, <1>3, <1>4
<1> QED
  BY <1>3, <1>4, <1>5, <1>6 DEF IInv, FilesInv

LEMMA FailedBuild ==
  ASSUME IInv, NEW t \in Workers, Building(t), sst' \in {sst, Unlink(sst, {output[t]})}
  PROVE  /\ sst' \in [Numbers -> [exists : BOOLEAN, data : SUBSET Keys]]
         /\ \A x \in Levels : IF x.num = shared.num
                              THEN x.data \subseteq shared.data
                              ELSE sst'[x.num] = [exists |-> TRUE, data |-> x.data]
<1>1. /\ output[t] \in Tables
      /\ output[t].num \in NumsOf(Levels) => output[t].num = shared.num
  BY DEF IInv, FilesInv, Building, Numbered
<1>2. output[t].num \in Numbers
  BY <1>1 DEF Tables
<1>3. sst \in [Numbers -> [exists : BOOLEAN, data : SUBSET Keys]]
  BY DEF IInv, TypeOK
<1>4. CASE sst' = sst
  BY <1>3, <1>4 DEF IInv, FilesInv
<1>5. CASE sst' = Unlink(sst, {output[t]})
  <2>1. sst' = [n \in Numbers |-> IF n = output[t].num THEN NoFile ELSE sst[n]]
    BY <1>5 DEF Unlink, NumsOf
  <2>2. sst' \in [Numbers -> [exists : BOOLEAN, data : SUBSET Keys]]
    BY <1>3, <2>1 DEF NoFile
  <2>3. \A m \in Numbers \ {output[t].num} : sst'[m] = sst[m]
    BY <2>1
  <2> QED
    BY <1>1, <1>2, <2>2, <2>3, OtherFilesStay
<1> QED
  BY <1>4, <1>5

LEMMA FlushBeginInv ==
  ASSUME IInv, FlushBegin
  PROVE  IInv'
<1>1. /\ pc[Bg] = "flush" /\ imm.set /\ ~Flushing(Closer)
      /\ StartTable(Bg, imm.data) /\ Goto(Bg, "build")
      /\ UNCHANGED <<logs, manifest, level0, level1, mem, imm, walNumber, walOpen,
                     input, shared, acked, lost, count>>
  BY DEF FlushBegin, memtables, history
<1>2. Bg \in Workers /\ Closer \in Workers \ {Bg} /\ imm.data \in SUBSET Keys
  BY DEF Workers, Bg, Closer, IInv, TypeOK
<1>3. pc' = [pc EXCEPT ![Bg] = "build"] /\ pc[Bg] # "store"
  BY <1>1 DEF Goto
<1>5. /\ nextFile \in Numbers /\ nextFile' = nextFile + 1
      /\ nextFile' \in 1..MaxNumber + 1
      /\ sst' \in [Numbers -> [exists : BOOLEAN, data : SUBSET Keys]]
      /\ output' \in [Workers -> Tables \cup {NoTable}]
      /\ shared' \in Tables \cup {NoTable}
      /\ output'[Bg].data = imm.data
      /\ \A u \in Workers \ {Bg} : output'[u] = output[u] /\ pc'[u] = pc[u]
      /\ pc'[Bg] = "build" /\ DOMAIN pc' = DOMAIN pc
      /\ NumsOf(level0 \cup level1 \cup input) \subseteq 1..nextFile' - 1
      /\ FilesInv'
  BY <1>1, <1>2, <1>3, StartTableFacts
<1>6. TypeOK'
  <2>1. NumsOf(level0 \cup level1 \cup input)' \subseteq 1..nextFile' - 1
    BY <1>1, <1>5 DEF NumsOf
  <2> QED
    BY <1>1, <1>2, <1>3, <1>5, <2>1 DEF IInv, TypeOK, BgStages
<1>7. MemoryInv'
  BY <1>1, <1>2, <1>5 DEF IInv, MemoryInv, Running, Flushing, Workers
<1>8. LogsClean' /\ AckedInv' /\ ManifestInv'
  BY <1>1, <1>2, <1>5 DEF IInv, LogsClean, AckedInv, ManifestInv, Quiet, Running, Locked,
                          Levels, KeysOf, NumsOf, Workers
<1>9. NumbersInv'
  <2>1. shared # NoTable => shared.num < nextFile + 1
    BY <1>5 DEF IInv, TypeOK, NumbersInv, Tables, Numbers
  <2> QED
    BY <1>1, <1>2, <1>5, <2>1 DEF IInv, NumbersInv
<1> QED
  BY <1>5, <1>6, <1>7, <1>8, <1>9 DEF IInv

LEMMA CloseBeginInv ==
  ASSUME IInv, CloseBegin
  PROVE  IInv'
<1>1. /\ pc[Closer] = "open" /\ ~Flushing(Bg) /\ Spend("close")
      /\ \/ /\ imm.set /\ StartTable(Closer, imm.data) /\ Goto(Closer, "build")
            /\ shared' = IF pc[Bg] = "store"
                         THEN [num |-> nextFile, data |-> imm.data \cup output[Bg].data]
                         ELSE shared
         \/ ~imm.set /\ Goto(Closer, "join") /\ UNCHANGED <<output, sst, nextFile, shared>>
      /\ UNCHANGED <<logs, manifest, level0, level1, mem, imm, walNumber, walOpen,
                     input, acked, lost>>
  BY DEF CloseBegin, NumberIsTaken, memtables, history
<1>2. Bg \in Workers \ {Closer} /\ Closer \in Workers /\ imm.data \in SUBSET Keys
  BY DEF Workers, Bg, Closer, IInv, TypeOK
<1>3. /\ count' \in [crash : 0..MaxCrashes, close : 0..MaxCloses,
                     io : 0..MaxIOFailures, wal : 0..MaxWalFailures]
      /\ count'.io = count.io
  BY <1>1, SpendFacts
<1>4. CASE /\ imm.set /\ StartTable(Closer, imm.data) /\ Goto(Closer, "build")
           /\ shared' = IF pc[Bg] = "store"
                        THEN [num |-> nextFile, data |-> imm.data \cup output[Bg].data]
                        ELSE shared
  <2>1. pc' = [pc EXCEPT ![Closer] = "build"]
    BY <1>4 DEF Goto
  <2>2. \/ pc[Bg] # "store" /\ shared' = shared
        \/ /\ pc[Bg] = "store"
           /\ shared' = [num |-> nextFile, data |-> imm.data \cup output[Bg].data]
    BY <1>4
  <2>3. /\ nextFile \in Numbers /\ nextFile' = nextFile + 1
        /\ nextFile' \in 1..MaxNumber + 1
        /\ sst' \in [Numbers -> [exists : BOOLEAN, data : SUBSET Keys]]
        /\ output' \in [Workers -> Tables \cup {NoTable}]
        /\ shared' \in Tables \cup {NoTable}
        /\ output'[Closer].data = imm.data
        /\ \A u \in Workers \ {Closer} : output'[u] = output[u] /\ pc'[u] = pc[u]
        /\ pc'[Closer] = "build" /\ DOMAIN pc' = DOMAIN pc
        /\ NumsOf(level0 \cup level1 \cup input) \subseteq 1..nextFile' - 1
        /\ shared.data \subseteq shared'.data
        /\ FilesInv'
    BY <1>1, <1>2, <1>4, <2>2, StartTableFacts
  <2>4. TypeOK'
    <3>1. NumsOf(level0 \cup level1 \cup input)' \subseteq 1..nextFile' - 1
      BY <1>1, <2>3 DEF NumsOf
    <3> QED
      BY <1>1, <1>2, <1>3, <2>1, <2>3, <3>1 DEF IInv, TypeOK, CloserStages
  <2>5. MemoryInv'
    <3>1. pc[Bg] \in {"store", "output"} =>
            KeysOf(input) \subseteq output[Bg].data \cup shared'.data
      BY <2>3 DEF IInv, MemoryInv
    <3> QED
      BY <1>1, <1>2, <1>4, <2>3, <3>1 DEF IInv, MemoryInv, Running, Flushing, Workers, KeysOf
  <2>6. LogsClean' /\ ManifestInv'
    BY <1>1, <1>2, <1>3, <2>3 DEF IInv, LogsClean, ManifestInv, Quiet, Running,
                                  Locked, Levels, NumsOf, Workers
  <2>7. AckedInv'
    <3>1. count.io = 0 /\ Running =>
            acked \subseteq mem \cup imm.data \cup KeysOf(Levels) \cup shared'.data
      BY <2>3 DEF IInv, AckedInv
    <3> QED
      BY <1>1, <1>2, <1>3, <2>3, <3>1 DEF IInv, AckedInv, Running, Levels, KeysOf
  <2>8. NumbersInv'
    <3>1. pc[Bg] = "store" => output[Bg].num = nextFile
      <4> SUFFICES ASSUME pc[Bg] = "store"
                   PROVE  output[Bg].num = nextFile
        OBVIOUS
      <4>1. output[Bg] \in Tables /\ shared = NoTable
        BY <1>1, <1>2 DEF IInv, FilesInv, NumbersInv, Numbered
      <4> QED
        BY <4>1 DEF IInv, NumbersInv, Tables, Numbers, NoTable
    <3>2. shared' # NoTable => shared'.num = nextFile
      BY <1>1, <2>2 DEF IInv, NumbersInv
    <3> QED
      BY <1>2, <2>2, <2>3, <3>1, <3>2 DEF NumbersInv, Numbers
  <2> QED
    BY <2>3, <2>4, <2>5, <2>6, <2>7, <2>8 DEF IInv
<1>5. CASE ~imm.set /\ Goto(Closer, "join") /\ UNCHANGED <<output, sst, nextFile, shared>>
  <2>1. pc' = [pc EXCEPT ![Closer] = "join"] /\ pc'[Closer] = "join" /\ pc'[Bg] = pc[Bg]
    BY <1>2, <1>5 DEF Goto, IInv, TypeOK
  <2>2. TypeOK'
    BY <1>1, <1>2, <1>3, <1>5, <2>1 DEF IInv, TypeOK, NumsOf, CloserStages
  <2>3. FilesInv' /\ NumbersInv'
    BY <1>1, <1>2, <1>5, <2>1 DEF IInv, FilesInv, NumbersInv, Levels, Building, Numbered,
                                  NumsOf, Workers
  <2>4. MemoryInv'
    BY <1>1, <1>2, <1>5, <2>1 DEF IInv, MemoryInv, Running, Workers, KeysOf
  <2>5. LogsClean' /\ AckedInv' /\ ManifestInv'
    BY <1>1, <1>2, <1>3, <1>5, <2>1 DEF IInv, LogsClean, AckedInv, ManifestInv, Quiet, Running,
                                  Locked, Levels, KeysOf, NumsOf, Workers
  <2> QED
    BY <2>2, <2>3, <2>4, <2>5 DEF IInv
<1> QED
  BY <1>1, <1>4, <1>5

\* The thread goes on without having done anything.
LEMMA SkipInv ==
  ASSUME IInv, FlushSkip \/ CompactionSkip
  PROVE  IInv'
<1>1. PICK stage \in {"compact", "flush"} :
        /\ pc[Bg] \in {"flush", "compact"} /\ ~Locked /\ pc' = [pc EXCEPT ![Bg] = stage]
        /\ UNCHANGED <<logs, sst, manifest, level0, level1, nextFile, mem, imm, walNumber,
                       walOpen, output, input, shared, acked, lost, count>>
  BY DEF FlushSkip, CompactionSkip, Goto, disk, tables, memtables, jobs, history
<1>2. Bg \in Workers /\ Closer \in Workers \ {Bg}
  BY DEF Workers, Bg, Closer
<1>3. pc'[Bg] = stage /\ pc'[Closer] = pc[Closer]
  BY <1>1, <1>2 DEF IInv, TypeOK
<1>4. TypeOK'
  BY <1>1, <1>2, <1>3 DEF IInv, TypeOK, NumsOf, BgStages
<1>5. FilesInv' /\ NumbersInv'
  BY <1>1, <1>2, <1>3 DEF IInv, FilesInv, NumbersInv, Levels, Building, Numbered, NumsOf,
                          Workers
<1>6. MemoryInv'
  BY <1>1, <1>2, <1>3 DEF IInv, MemoryInv, Running, Workers, KeysOf
<1>7. LogsClean' /\ AckedInv' /\ ManifestInv'
  BY <1>1, <1>2, <1>3 DEF IInv, LogsClean, AckedInv, ManifestInv, Quiet, Running,
                          Locked, Levels, KeysOf, NumsOf, Workers
<1> QED
  BY <1>4, <1>5, <1>6, <1>7 DEF IInv

\* BackgroundFlush could not build the table. No I/O has failed no longer holds.
LEMMA FlushFailInv ==
  ASSUME IInv, FlushFail
  PROVE  IInv'
<1>1. /\ pc[Bg] = "build" /\ Spend("io") /\ sst' \in {sst, Unlink(sst, {output[Bg]})}
      /\ output' = [output EXCEPT ![Bg] = NoTable] /\ pc' = [pc EXCEPT ![Bg] = "compact"]
      /\ UNCHANGED <<logs, manifest, level0, level1, nextFile, mem, imm, walNumber,
                     walOpen, input, shared, acked, lost>>
  BY DEF FlushFail, Goto, tables, memtables
<1>2. Bg \in Workers /\ Closer \in Workers \ {Bg}
  BY DEF Workers, Bg, Closer
<1>3. /\ pc'[Bg] = "compact" /\ pc'[Closer] = pc[Closer] /\ output'[Closer] = output[Closer]
      /\ output' \in [Workers -> Tables \cup {NoTable}]
  BY <1>1, <1>2 DEF IInv, TypeOK
<1>4. /\ count' \in [crash : 0..MaxCrashes, close : 0..MaxCloses,
                     io : 0..MaxIOFailures, wal : 0..MaxWalFailures]
      /\ count'.io # 0
  BY <1>1, SpendFacts
<1>5. /\ sst' \in [Numbers -> [exists : BOOLEAN, data : SUBSET Keys]]
      /\ \A x \in Levels : IF x.num = shared.num
                           THEN x.data \subseteq shared.data
                           ELSE sst'[x.num] = [exists |-> TRUE, data |-> x.data]
  BY <1>1, <1>2, FailedBuild DEF Building
<1>6. TypeOK'
  BY <1>1, <1>2, <1>3, <1>4, <1>5 DEF IInv, TypeOK, NumsOf, BgStages
<1>7. FilesInv'
  BY <1>1, <1>2, <1>3, <1>5 DEF IInv, FilesInv, Levels, Building, Numbered, NumsOf, Workers
<1>8. MemoryInv' /\ NumbersInv'
  BY <1>1, <1>2, <1>3 DEF IInv, MemoryInv, NumbersInv, Running, Workers, KeysOf
<1> QED
  BY <1>4, <1>6, <1>7, <1>8 DEF IInv, LogsClean, AckedInv, ManifestInv

\* What ~DB could not write to a table is lost; without a failed I/O that is a
\* shared file.
LEMMA CloseFlushFailInv ==
  ASSUME IInv, CloseFlushFail
  PROVE  IInv'
<1>1. PICK stage \in {"flushWrite", "join"} :
        /\ pc[Closer] = "build" /\ imm' = NoImm
        /\ \/ IsShared(Closer) /\ stage = "flushWrite" /\ UNCHANGED count
           \/ Spend("io")
        /\ manifest' \in {Blank, manifest}
        /\ \/ sst' \in {sst, Unlink(sst, {output[Closer]})}
           \/ sst' \in Finished(Closer)
        /\ output' = [output EXCEPT ![Closer] = NoTable]
        /\ pc' = [pc EXCEPT ![Closer] = stage]
        /\ UNCHANGED <<logs, level0, level1, nextFile, mem, walNumber,
                       walOpen, input, shared, acked, lost>>
  BY DEF CloseFlushFail, OpenManifest, Goto, tables, memtables
<1>2. Bg \in Workers \ {Closer} /\ Closer \in Workers /\ Building(Closer)
  BY <1>1 DEF Workers, Bg, Closer, Building
<1>3. /\ pc'[Closer] = stage /\ pc'[Bg] = pc[Bg] /\ output'[Bg] = output[Bg]
      /\ output' \in [Workers -> Tables \cup {NoTable}]
  BY <1>1, <1>2 DEF IInv, TypeOK
<1>4. /\ count' \in [crash : 0..MaxCrashes, close : 0..MaxCloses,
                     io : 0..MaxIOFailures, wal : 0..MaxWalFailures]
      /\ count'.io = 0 => count.io = 0 /\ stage = "flushWrite" /\ IsShared(Closer)
  <2>1. CASE UNCHANGED count /\ IsShared(Closer) /\ stage = "flushWrite"
    BY <2>1 DEF IInv, TypeOK
  <2>2. CASE Spend("io")
    BY <2>2, SpendFacts
  <2> QED
    BY <1>1, <2>1, <2>2
<1>5. /\ sst' \in [Numbers -> [exists : BOOLEAN, data : SUBSET Keys]]
      /\ \A x \in Levels : IF x.num = shared.num
                           THEN x.data \subseteq shared.data
                           ELSE sst'[x.num] = [exists |-> TRUE, data |-> x.data]
  <2>1. CASE sst' \in {sst, Unlink(sst, {output[Closer]})}
    BY <1>2, <2>1, FailedBuild
  <2>2. CASE sst' \in Finished(Closer)
    BY <1>2, <2>2, FinishedFacts
  <2> QED
    BY <1>1, <2>1, <2>2
<1>6. TypeOK'
  <2>1. manifest' \in [level0 : SUBSET Numbers, level1 : SUBSET Numbers,
                       nextFile : 1..MaxNumber + 1, walNumber : Numbers]
    <3>1. Blank \in [level0 : SUBSET Numbers, level1 : SUBSET Numbers,
                      nextFile : 1..MaxNumber + 1, walNumber : Numbers]
      BY DurabilityAssumption DEF Blank, Numbers
    <3> QED
      BY <1>1, <3>1 DEF IInv, TypeOK
  <2> QED
    BY <1>1, <1>2, <1>3, <1>4, <1>5, <2>1 DEF IInv, TypeOK, NumsOf, CloserStages, NoImm
<1>7. FilesInv'
  BY <1>1, <1>2, <1>3, <1>5 DEF IInv, FilesInv, Levels, Building, Numbered, NumsOf, Workers,
                                Blank
<1>8. MemoryInv' /\ NumbersInv'
  BY <1>1, <1>2, <1>3 DEF IInv, MemoryInv, NumbersInv, Running, Workers, NoImm, KeysOf
<1>9. LogsClean' /\ ManifestInv'
  BY <1>1, <1>2, <1>3, <1>4 DEF IInv, LogsClean, ManifestInv, Quiet, Locked
<1>10. AckedInv'
  <2> SUFFICES ASSUME count'.io = 0
               PROVE  /\ acked \subseteq mem \cup KeysOf(Levels) \cup shared.data
                      /\ walOpen => mem \subseteq Replay(logs[walNumber])
    BY <1>1 DEF AckedInv, Levels, KeysOf
  <2>1. imm.data \subseteq shared.data
    BY <1>1, <1>2, <1>4 DEF IInv, FilesInv, MemoryInv, Numbered, IsShared
  <2>2. Running
    BY <1>1 DEF Running
  <2> QED
    BY <1>4, <2>1, <2>2 DEF IInv, AckedInv
<1> QED
  BY <1>6, <1>7, <1>8, <1>9, <1>10 DEF IInv

LEMMA WriteManifestInv ==
  ASSUME IInv, NEW t \in Workers, WriteManifest(t)
  PROVE  IInv'
<1>1. PICK stage \in {"compact", "join", "flush"} :
        /\ pc[t] \in {"flushWrite", "compactWrite"} /\ manifest' = ManifestNow
        /\ pc' = [pc EXCEPT ![t] = stage]
        /\ t = Closer => pc[t] = "flushWrite" /\ stage = "join"
        /\ t = Bg => stage # "join"
        /\ UNCHANGED <<logs, sst, level0, level1, nextFile, mem, imm, walNumber,
                       walOpen, output, input, shared, acked, lost, count>>
  <2>1. t = Closer => pc[t] # "compactWrite"
    BY DEF IInv, TypeOK, CloserStages
  <2>2. AfterFlush(t) \in {"compact", "join"} /\ (AfterFlush(t) = "join" <=> t # Bg)
    BY DEF AfterFlush
  <2>3. Bg # Closer
    BY DEF Bg, Closer
  <2>4. CASE pc[t] = "flushWrite"
    BY <2>2, <2>3, <2>4 DEF WriteManifest, Goto, tables, memtables, jobs, history, Workers
  <2>5. CASE pc[t] = "compactWrite"
    BY <2>1, <2>5 DEF WriteManifest, Goto, tables, memtables, jobs, history
  <2> QED
    BY <2>4, <2>5 DEF WriteManifest
<1>2. PICK u \in Workers : Workers = {t, u} /\ t # u
  BY DEF Workers, Bg, Closer
<1>3. pc'[t] = stage /\ pc'[u] = pc[u] /\ {t, u} = {Bg, Closer} /\ Bg # Closer
  BY <1>1, <1>2 DEF IInv, TypeOK, Workers, Bg, Closer
<1>4. TypeOK'
  <2>1. /\ NumsOf(level0) \subseteq 1..nextFile - 1 /\ NumsOf(level1) \subseteq 1..nextFile - 1
        /\ nextFile \in 1..MaxNumber + 1
    BY DEF IInv, TypeOK, NumsOf
  <2>2. 1..nextFile - 1 \subseteq Numbers
    BY <2>1, DurabilityAssumption DEF Numbers
  <2>3. manifest' \in [level0 : SUBSET Numbers, level1 : SUBSET Numbers,
                       nextFile : 1..MaxNumber + 1, walNumber : Numbers]
    BY <1>1, <2>1, <2>2 DEF IInv, TypeOK, ManifestNow
  <2>4. /\ pc' \in [Workers -> BgStages \cup CloserStages]
        /\ pc'[Bg] \in BgStages /\ pc'[Closer] \in CloserStages
    BY <1>1, <1>3 DEF IInv, TypeOK, BgStages, CloserStages
  <2> QED
    BY <1>1, <2>3, <2>4 DEF IInv, TypeOK, NumsOf
<1>5. FilesInv'
  <2>1. manifest'.level0 \cup manifest'.level1 \subseteq 1..manifest'.nextFile - 1
    BY <1>1 DEF IInv, TypeOK, NumsOf, ManifestNow
  <2> QED
    BY <1>1, <1>2, <1>3, <2>1 DEF IInv, FilesInv, Levels, Building, Numbered, NumsOf
<1>6. MemoryInv' /\ NumbersInv'
  BY <1>1, <1>2, <1>3 DEF IInv, MemoryInv, NumbersInv, Running, KeysOf
<1>7. LogsClean' /\ AckedInv'
  BY <1>1, <1>2, <1>3 DEF IInv, LogsClean, AckedInv, Running, Levels, KeysOf
<1>8. ManifestInv'
  BY <1>1 DEF ManifestInv, ManifestNow, Levels, NumsOf
<1> QED
  BY <1>4, <1>5, <1>6, <1>7, <1>8 DEF IInv

\* The keys of imm_ are in the table that enters levels_[0], or were written to a
\* shared file.
LEMMA FlushCommitInv ==
  ASSUME IInv, NEW t \in Workers, FlushCommit(t)
  PROVE  IInv'
<1> DEFINE new == output[t]
<1>1. PICK stage \in {"flushWrite", "compact", "join"} :
        /\ pc[t] = "build" /\ sst' \in Finished(t) /\ level0' = level0 \cup {new}
        /\ imm' = NoImm /\ output' = [output EXCEPT ![t] = NoTable]
        /\ pc' = [pc EXCEPT ![t] = stage]
        /\ \/ manifest' = Blank /\ stage = "flushWrite" /\ UNCHANGED count
           \/ Spend("io") /\ UNCHANGED manifest
        /\ t = Closer => stage # "compact"
        /\ t = Bg => stage # "join"
        /\ UNCHANGED <<logs, level1, nextFile, mem, walNumber, walOpen, input, shared,
                       acked, lost>>
  <2>1. AfterFlush(t) \in {"compact", "join"} /\ (AfterFlush(t) = "join" <=> t # Bg)
    BY DEF AfterFlush
  <2>2. Bg # Closer
    BY DEF Bg, Closer
  <2> QED
    BY <2>1, <2>2 DEF FlushCommit, OpenManifest, Goto
<1>2. PICK u \in Workers : Workers = {t, u} /\ t # u
  BY DEF Workers, Bg, Closer
<1>3. /\ pc'[t] = stage /\ pc'[u] = pc[u] /\ {t, u} = {Bg, Closer} /\ Bg # Closer
      /\ output'[u] = output[u] /\ output' \in [Workers -> Tables \cup {NoTable}]
  BY <1>1, <1>2 DEF IInv, TypeOK, Workers, Bg, Closer
<1>4. /\ new \in Tables /\ new.num < nextFile
      /\ IF new.num = shared.num
         THEN new.data \subseteq shared.data
         ELSE new.num \notin NumsOf(Levels)
      /\ new.data = imm.data /\ Building(t) /\ Numbered(t)
  BY <1>1 DEF IInv, FilesInv, MemoryInv, Building, Numbered
<1>5. /\ count' \in [crash : 0..MaxCrashes, close : 0..MaxCloses,
                     io : 0..MaxIOFailures, wal : 0..MaxWalFailures]
      /\ count'.io = 0 => count.io = 0 /\ stage = "flushWrite"
  BY <1>1, SpendFacts DEF IInv, TypeOK
<1>6. /\ sst' \in [Numbers -> [exists : BOOLEAN, data : SUBSET Keys]]
      /\ new.num # shared.num => sst'[new.num] = [exists |-> TRUE, data |-> new.data]
      /\ \A x \in Levels : IF x.num = shared.num
                           THEN x.data \subseteq shared.data
                           ELSE sst'[x.num] = [exists |-> TRUE, data |-> x.data]
  BY <1>1, <1>4, FinishedFacts
<1>7. Levels' = Levels \cup {new}
  BY <1>1 DEF Levels
<1>8. TypeOK'
  <2>1. manifest' \in [level0 : SUBSET Numbers, level1 : SUBSET Numbers,
                       nextFile : 1..MaxNumber + 1, walNumber : Numbers]
    BY <1>1, DurabilityAssumption DEF IInv, TypeOK, Blank, Numbers
  <2>2. /\ pc' \in [Workers -> BgStages \cup CloserStages]
        /\ pc'[Bg] \in BgStages /\ pc'[Closer] \in CloserStages
    BY <1>1, <1>3 DEF IInv, TypeOK, BgStages, CloserStages
  <2>3. new.num \in 1..nextFile - 1
    BY <1>4 DEF IInv, TypeOK, Tables, Numbers
  <2>4. NumsOf(level0 \cup level1 \cup input)' \subseteq 1..nextFile' - 1
    BY <1>1, <2>3 DEF IInv, TypeOK, NumsOf
  <2>5. level0' \subseteq Tables /\ imm' \in [set : BOOLEAN, data : SUBSET Keys]
    BY <1>1, <1>4 DEF IInv, TypeOK, NoImm
  <2> QED
    BY <1>1, <1>3, <1>5, <1>6, <2>1, <2>2, <2>4, <2>5 DEF IInv, TypeOK
<1>9. FilesInv'
  <2>1. \A x \in Levels' : IF x.num = shared.num
                           THEN x.data \subseteq shared.data
                           ELSE sst'[x.num] = [exists |-> TRUE, data |-> x.data]
    BY <1>4, <1>6, <1>7
  <2>2. ASSUME NEW s \in Workers, Numbered(s)'
        PROVE  /\ s = u /\ Numbered(u)
               /\ output'[s] \in Tables
               /\ IF output'[s].num = shared.num
                  THEN output'[s].data \subseteq shared.data
                  ELSE output'[s].num \notin NumsOf(Levels')
    <3>1. s = u /\ Numbered(u)
      BY <1>1, <1>2, <1>3, <2>2 DEF Numbered
    <3>2. output[u].num # new.num \/ output[u].num = shared.num
      BY <1>3, <1>4, <3>1 DEF IInv, FilesInv
    <3>3. /\ output[u] \in Tables
          /\ IF output[u].num = shared.num
             THEN output[u].data \subseteq shared.data
             ELSE output[u].num \notin NumsOf(Levels)
      BY <1>2, <3>1 DEF IInv, FilesInv
    <3> QED
      BY <1>3, <1>7, <3>1, <3>2, <3>3 DEF NumsOf
  <2>3. ASSUME NEW s \in Workers, Building(s)'
        PROVE  output'[s].num < nextFile
    <3>1. s = u /\ Building(u)
      BY <1>1, <1>2, <1>3, <2>3 DEF Building
    <3> QED
      BY <1>2, <1>3, <3>1 DEF IInv, FilesInv
  <2>4. ~Numbered(t)'
    BY <1>3 DEF Numbered
  <2>5. pc'[Bg] \in {"merge", "store", "output"} => input' \subseteq Levels'
    BY <1>1, <1>3, <1>7 DEF IInv, FilesInv
  <2>6. manifest'.level0 \cup manifest'.level1 \subseteq 1..manifest'.nextFile - 1
    BY <1>1 DEF IInv, FilesInv, Blank
  <2>7. NumsOf(Levels)' = NumsOf(Levels')
    BY DEF NumsOf
  <2> QED
    BY <1>1, <1>3, <2>1, <2>2, <2>3, <2>4, <2>5, <2>6, <2>7 DEF FilesInv
<1>10. MemoryInv' /\ NumbersInv'
  BY <1>1, <1>2, <1>3 DEF IInv, MemoryInv, NumbersInv, Running, NoImm, KeysOf
<1>11. LogsClean'
  BY <1>1, <1>5 DEF IInv, LogsClean
<1>12. AckedInv'
  <2>1. ASSUME count'.io = 0, Running'
        PROVE  /\ acked \subseteq mem \cup imm.data \cup KeysOf(Levels) \cup shared.data
               /\ walOpen => mem \subseteq Replay(logs[walNumber])
    <3>1. Running
      BY <1>1, <1>2, <1>3, <2>1 DEF Running
    <3> QED
      BY <1>5, <2>1, <3>1 DEF IInv, AckedInv
  <2>2. KeysOf(Levels') = KeysOf(Levels) \cup imm.data
    BY <1>4, <1>7 DEF KeysOf
  <2>3. KeysOf(Levels)' = KeysOf(Levels')
    BY DEF KeysOf
  <2> QED
    BY <1>1, <2>1, <2>2, <2>3 DEF AckedInv
<1>13. ManifestInv'
  BY <1>3, <1>5 DEF ManifestInv, Quiet, Locked
<1> QED
  BY <1>8, <1>9, <1>10, <1>11, <1>12, <1>13 DEF IInv
-----------------------------------------------------------------------------
(* Compaction *)

LEMMA CompactionBeginInv ==
  ASSUME IInv, CompactionBegin
  PROVE  IInv'
<1>1. /\ pc[Bg] = "compact" /\ ~Locked /\ input' \subseteq Levels
      /\ pc' = [pc EXCEPT ![Bg] = "merge"]
      /\ UNCHANGED <<logs, sst, manifest, level0, level1, nextFile, mem, imm, walNumber,
                     walOpen, output, shared, acked, lost, count>>
  BY DEF CompactionBegin, Goto, disk, tables, memtables, history, Levels
<1>2. Bg \in Workers /\ Closer \in Workers \ {Bg} /\ Workers = {Bg, Closer}
  BY DEF Workers, Bg, Closer
<1>3. pc'[Bg] = "merge" /\ pc'[Closer] = pc[Closer]
  BY <1>1, <1>2 DEF IInv, TypeOK
<1>4. TypeOK'
  <2>1. NumsOf(level0 \cup level1 \cup input)' \subseteq 1..nextFile' - 1
    BY <1>1 DEF IInv, TypeOK, NumsOf, Levels
  <2>2. pc' \in [Workers -> BgStages \cup CloserStages] /\ input' \subseteq Tables
    BY <1>1, <1>2 DEF IInv, TypeOK, BgStages, Levels
  <2> QED
    BY <1>1, <1>2, <1>3, <2>1, <2>2 DEF IInv, TypeOK, BgStages
<1>5. FilesInv' /\ NumbersInv'
  BY <1>1, <1>2, <1>3 DEF IInv, FilesInv, NumbersInv, Levels, Building, Numbered, NumsOf
<1>6. MemoryInv'
  BY <1>1, <1>2, <1>3 DEF IInv, MemoryInv, Running
<1>7. LogsClean' /\ AckedInv' /\ ManifestInv'
  BY <1>1, <1>2, <1>3 DEF IInv, LogsClean, AckedInv, ManifestInv, Quiet, Running, Locked,
                          Levels, KeysOf, NumsOf
<1> QED
  BY <1>4, <1>5, <1>6, <1>7 DEF IInv

\* What a merge may find: keys, of its inputs that are not shared all.
LEMMA MergedFacts ==
  ASSUME IInv, pc[Bg] = "merge", NEW data \in Merged
  PROVE  data \subseteq Keys /\ KeysOf(input) \subseteq data \cup shared.data
<1>1. PICK part \in SUBSET (IF Intact = input THEN {} ELSE shared.data) :
        data = part \cup UNION {x.data : x \in Intact}
  BY DEF Merged
<1>2. input \subseteq Tables /\ Intact \subseteq input /\ shared.data \subseteq Keys
  BY DEF IInv, TypeOK, Tables, NoTable, Intact
<1>3. data \subseteq Keys
  <2>1. part \subseteq Keys
    BY <1>2
  <2>2. \A x \in Intact : x.data \subseteq Keys
    BY <1>2 DEF Tables
  <2> QED
    BY <1>1, <2>1, <2>2
<1>4. ASSUME NEW x \in input
      PROVE  x.data \subseteq data \cup shared.data
  <2>1. CASE x.num # shared.num
    BY <1>1, <2>1 DEF Intact
  <2>2. CASE x.num = shared.num
    <3>1. x \in Levels
      BY DEF IInv, FilesInv
    <3> QED
      BY <2>2, <3>1 DEF IInv, FilesInv
  <2> QED
    BY <2>1, <2>2
<1> QED
  BY <1>3, <1>4 DEF KeysOf

\* The number read is the next one, which no table of a level and no other
\* builder has.
LEMMA LoadNumberInv ==
  ASSUME IInv, LoadNumber
  PROVE  IInv'
<1>1. PICK data \in Merged :
        /\ pc[Bg] = "merge" /\ nextFile <= MaxNumber
        /\ output' = [output EXCEPT ![Bg] = [num |-> nextFile, data |-> data]]
        /\ pc' = [pc EXCEPT ![Bg] = "store"]
        /\ UNCHANGED <<logs, sst, manifest, level0, level1, nextFile, mem, imm, walNumber,
                       walOpen, input, shared, acked, lost, count>>
  BY DEF LoadNumber, Goto, disk, tables, memtables, history
<1>2. Bg \in Workers /\ Closer \in Workers \ {Bg} /\ Workers = {Bg, Closer}
  BY DEF Workers, Bg, Closer
<1>3. data \subseteq Keys /\ KeysOf(input) \subseteq data \cup shared.data
  BY <1>1, MergedFacts
<1>4. [num |-> nextFile, data |-> data] \in Tables
  <2>1. nextFile \in Numbers
    BY <1>1, DurabilityAssumption DEF IInv, TypeOK, Numbers
  <2> QED
    BY <1>3, <2>1 DEF Tables
<1>5. /\ pc'[Bg] = "store" /\ pc'[Closer] = pc[Closer]
      /\ output'[Bg] = [num |-> nextFile, data |-> data] /\ output'[Closer] = output[Closer]
      /\ output' \in [Workers -> Tables \cup {NoTable}]
  BY <1>1, <1>2, <1>4 DEF IInv, TypeOK
<1>6. TypeOK'
  <2>1. pc' \in [Workers -> BgStages \cup CloserStages]
    BY <1>1, <1>2 DEF IInv, TypeOK, BgStages
  <2>2. NumsOf(level0 \cup level1 \cup input)' \subseteq 1..nextFile' - 1
    BY <1>1 DEF IInv, TypeOK, NumsOf
  <2> QED
    BY <1>1, <1>2, <1>5, <2>1, <2>2 DEF IInv, TypeOK, BgStages
<1>7. shared.num # nextFile
  <2>1. shared # NoTable => shared.num < nextFile /\ shared.num \in Nat
    BY DEF IInv, TypeOK, NumbersInv, Tables, Numbers
  <2> QED
    BY <2>1, NextIsFree DEF NoTable, IInv, TypeOK
<1>8. FilesInv'
  <2>1. ASSUME NEW t \in Workers, Numbered(t)'
        PROVE  /\ output'[t] \in Tables
               /\ IF output'[t].num = shared.num
                  THEN output'[t].data \subseteq shared.data
                  ELSE output'[t].num \notin NumsOf(Levels)
    <3>1. CASE t = Bg
      BY <1>4, <1>5, <1>7, <3>1, NextIsFree
    <3>2. CASE t = Closer
      BY <1>5, <2>1, <3>2 DEF IInv, FilesInv, Numbered
    <3> QED
      BY <1>2, <3>1, <3>2
  <2>2. ASSUME NEW t \in Workers, Building(t)'
        PROVE  output'[t].num < nextFile
    BY <1>2, <1>5, <2>2 DEF IInv, FilesInv, Building
  <2>3. Numbered(Closer)' => output'[Closer].num # nextFile
    <3> SUFFICES ASSUME Numbered(Closer)'
                 PROVE  output[Closer].num # nextFile
      BY <1>5
    <3>1. Building(Closer) /\ Numbered(Closer)
      BY <1>5 DEF IInv, TypeOK, CloserStages, Building, Numbered
    <3>2. output[Closer].num < nextFile /\ output[Closer].num \in Nat
      BY <1>2, <3>1 DEF IInv, FilesInv, Tables, Numbers
    <3> QED
      BY <3>2
  <2> QED
    BY <1>1, <1>5, <2>1, <2>2, <2>3 DEF IInv, FilesInv, Levels, NumsOf
<1>9. MemoryInv' /\ NumbersInv'
  BY <1>1, <1>2, <1>3, <1>5 DEF IInv, MemoryInv, NumbersInv, Running, KeysOf
<1>10. LogsClean' /\ AckedInv' /\ ManifestInv'
  BY <1>1, <1>2, <1>5 DEF IInv, LogsClean, AckedInv, ManifestInv, Quiet, Running, Locked,
                          Levels, KeysOf, NumsOf
<1> QED
  BY <1>6, <1>8, <1>9, <1>10 DEF IInv

\* What is written back is the number behind the one read, even if ~DB has taken
\* that one since; the file that is emptied is in no level but as a shared one.
LEMMA StoreNumberInv ==
  ASSUME IInv, StoreNumber
  PROVE  IInv'
<1> DEFINE new == output[Bg]
<1>1. /\ pc[Bg] = "store" /\ nextFile' = new.num + 1
      /\ sst' = [sst EXCEPT ![new.num] = [exists |-> TRUE, data |-> {}]]
      /\ pc' = [pc EXCEPT ![Bg] = "output"]
      /\ UNCHANGED <<logs, manifest, level0, level1, mem, imm, walNumber, walOpen, output,
                     input, shared, acked, lost, count>>
  BY DEF StoreNumber, Goto, memtables, jobs, history
<1>2. Bg \in Workers /\ Closer \in Workers \ {Bg} /\ Workers = {Bg, Closer}
  BY DEF Workers, Bg, Closer
<1>3. pc'[Bg] = "output" /\ pc'[Closer] = pc[Closer]
  BY <1>1, <1>2 DEF IInv, TypeOK
<1>4. /\ new \in Tables /\ new.num \in Numbers /\ new.num \in Nat
      /\ new.num \in NumsOf(Levels) => new.num = shared.num
  BY <1>1, <1>2 DEF IInv, FilesInv, Numbered, Tables, Numbers
<1>5. /\ sst' \in [Numbers -> [exists : BOOLEAN, data : SUBSET Keys]]
      /\ \A n \in Numbers \ {new.num} : sst'[n] = sst[n]
  BY <1>1, <1>4 DEF IInv, TypeOK
<1>6. /\ nextFile \in Nat /\ nextFile' \in Nat /\ nextFile' \in 1..MaxNumber + 1
      /\ nextFile <= nextFile'
      /\ shared # NoTable => shared.num < nextFile'
  <2>1. nextFile \in Nat /\ nextFile' \in 1..MaxNumber + 1
    <3>1. nextFile \in Nat
      BY DEF IInv, TypeOK
    <3>2. new.num + 1 \in 1..MaxNumber + 1
      BY <1>4, DurabilityAssumption DEF Numbers
    <3> QED
      BY <1>1, <3>1, <3>2
  <2>2. nextFile' = nextFile + 1 \/ nextFile' = nextFile
    BY <1>1, <1>4 DEF IInv, NumbersInv
  <2>3. shared # NoTable => shared.num < nextFile /\ shared.num \in Nat
    BY DEF IInv, TypeOK, NumbersInv, Tables, Numbers
  <2> QED
    BY <2>1, <2>2, <2>3
<1>7. TypeOK'
  <2>1. pc' \in [Workers -> BgStages \cup CloserStages]
    BY <1>1, <1>2 DEF IInv, TypeOK, BgStages
  <2>2. NumsOf(level0 \cup level1 \cup input) \subseteq 1..nextFile - 1
    BY DEF IInv, TypeOK
  <2>3. 1..nextFile - 1 \subseteq 1..nextFile' - 1
    <3>1. \A m, n \in Nat : m <= n => 1..m - 1 \subseteq 1..n - 1
      OBVIOUS
    <3>2. nextFile \in Nat /\ nextFile' \in Nat /\ nextFile <= nextFile'
      BY <1>6
    <3> QED
      BY <3>1, <3>2
  <2>4. NumsOf(level0 \cup level1 \cup input)' \subseteq 1..nextFile' - 1
    BY <1>1, <2>2, <2>3 DEF NumsOf
  <2> QED
    BY <1>1, <1>2, <1>3, <1>5, <1>6, <2>1, <2>4 DEF IInv, TypeOK, BgStages
<1>8. FilesInv'
  <2>1. \A x \in Levels : IF x.num = shared.num
                          THEN x.data \subseteq shared.data
                          ELSE sst'[x.num] = [exists |-> TRUE, data |-> x.data]
    BY <1>4, <1>5, OtherFilesStay
  <2>2. \A t \in Workers : Numbered(t)' <=> Numbered(t)
    BY <1>1, <1>2, <1>3 DEF Numbered
  <2>3. ASSUME NEW t \in Workers, Building(t)'
        PROVE  output[t].num < nextFile'
    <3>1. CASE t = Bg
      BY <1>1, <1>4, <3>1
    <3>2. CASE t = Closer
      <4>1. output[t].num < nextFile /\ output[t].num \in Nat
        BY <1>3, <2>3, <3>2 DEF IInv, FilesInv, Building, Numbered, Tables, Numbers
      <4> QED
        BY <1>6, <4>1
    <3> QED
      BY <1>2, <3>1, <3>2
  <2>4. /\ \A t \in Workers : Numbered(t)' =>
             /\ output[t] \in Tables
             /\ IF output[t].num = shared.num
                THEN output[t].data \subseteq shared.data
                ELSE output[t].num \notin NumsOf(Levels)
        /\ Numbered(Bg)' /\ Numbered(Closer)' =>
             output[Bg].num # output[Closer].num \/ output[Bg].num = shared.num
    BY <1>2, <2>2 DEF IInv, FilesInv
  <2>5. pc'[Bg] \in {"merge", "store", "output"} => input \subseteq Levels
    BY <1>1 DEF IInv, FilesInv
  <2>6. manifest.level0 \cup manifest.level1 \subseteq 1..manifest.nextFile - 1
    BY DEF IInv, FilesInv
  <2>7. Levels' = Levels /\ NumsOf(Levels)' = NumsOf(Levels)
    BY <1>1 DEF Levels, NumsOf
  <2> QED
    BY <1>1, <2>1, <2>3, <2>4, <2>5, <2>6, <2>7 DEF FilesInv
<1>9. MemoryInv' /\ NumbersInv'
  BY <1>1, <1>2, <1>3, <1>6 DEF IInv, MemoryInv, NumbersInv, Running, KeysOf
<1>10. LogsClean' /\ AckedInv' /\ ManifestInv'
  BY <1>1, <1>2, <1>3 DEF IInv, LogsClean, AckedInv, ManifestInv, Quiet, Running, Locked,
                          Levels, KeysOf, NumsOf
<1> QED
  BY <1>7, <1>8, <1>9, <1>10 DEF IInv

\* The files of the inputs go; the output, if there is one, has their keys, but
\* of shared files.
LEMMA CompactionReplaceInv ==
  ASSUME IInv, CompactionReplace
  PROVE  IInv'
<1> DEFINE new == output[Bg]
<1>1. PICK files \in {sst} \cup Finished(Bg),
           entering \in SUBSET {new} :
        /\ \/ /\ pc[Bg] = "output" /\ entering = {new}
              /\ files \in Finished(Bg)
           \/ pc[Bg] = "merge" /\ {} \in Merged /\ files = sst /\ entering = {}
        /\ sst' = Unlink(files, input)
        /\ level0' = level0 \ input /\ level1' = (level1 \ input) \cup entering
        /\ pc' = [pc EXCEPT ![Bg] = "replaced"]
        /\ UNCHANGED <<logs, manifest, nextFile, mem, imm, walNumber, walOpen, output,
                       input, shared, acked, lost, count>>
  <2>1. CASE /\ pc[Bg] = "output"
             /\ \E files \in Finished(Bg) : sst' = Unlink(files, input)
             /\ level1' = (level1 \ input) \cup {output[Bg]}
    <3>1. PICK files \in Finished(Bg) : sst' = Unlink(files, input)
      BY <2>1
    <3>2. files \in {sst} \cup Finished(Bg) /\ {new} \in SUBSET {new}
      OBVIOUS
    <3>3. /\ level0' = level0 \ input /\ pc' = [pc EXCEPT ![Bg] = "replaced"]
          /\ UNCHANGED <<logs, manifest, nextFile, mem, imm, walNumber, walOpen, output,
                         input, shared, acked, lost, count>>
      BY DEF CompactionReplace, Goto, memtables, jobs, history
    <3> QED
      BY <2>1, <3>1, <3>2, <3>3
  <2>2. CASE /\ pc[Bg] = "merge" /\ {} \in Merged
             /\ sst' = Unlink(sst, input) /\ level1' = level1 \ input
    <3>1. /\ level0' = level0 \ input /\ pc' = [pc EXCEPT ![Bg] = "replaced"]
          /\ UNCHANGED <<logs, manifest, nextFile, mem, imm, walNumber, walOpen, output,
                         input, shared, acked, lost, count>>
      BY DEF CompactionReplace, Goto, memtables, jobs, history
    <3>2. {} \in SUBSET {new} /\ level1' = (level1 \ input) \cup {}
      BY <2>2
    <3> QED
      BY <2>2, <3>1, <3>2
  <2> QED
    BY <2>1, <2>2 DEF CompactionReplace
<1>2. /\ Bg \in Workers /\ Closer \in Workers \ {Bg} /\ Workers = {Bg, Closer}
      /\ pc'[Bg] = "replaced" /\ pc'[Closer] = pc[Closer]
  BY <1>1 DEF Workers, Bg, Closer, IInv, TypeOK
<1>3. input \subseteq Levels
  BY <1>1 DEF IInv, FilesInv
<1>4. Levels \subseteq Tables
  BY DEF IInv, TypeOK, Levels
<1>5. Levels' = (Levels \ input) \cup entering
  BY <1>1 DEF Levels
<1>6. entering # {} => /\ pc[Bg] = "output" /\ Building(Bg) /\ Numbered(Bg)
                       /\ new \in Tables /\ new.num < nextFile
                       /\ IF new.num = shared.num
                          THEN new.data \subseteq shared.data
                          ELSE new.num \notin NumsOf(Levels)
  BY <1>1, <1>2 DEF IInv, FilesInv, Building, Numbered
<1>7. /\ files \in [Numbers -> [exists : BOOLEAN, data : SUBSET Keys]]
      /\ \A x \in Levels : x.num # shared.num =>
            files[x.num] = [exists |-> TRUE, data |-> x.data]
      /\ entering # {} /\ new.num # shared.num =>
            files[new.num] = [exists |-> TRUE, data |-> new.data]
  <2>1. CASE pc[Bg] = "output"
    <3>1. files \in Finished(Bg) /\ Building(Bg)
      BY <1>1, <2>1 DEF Building
    <3>2. /\ files \in [Numbers -> [exists : BOOLEAN, data : SUBSET Keys]]
          /\ new.num # shared.num => files[new.num] = [exists |-> TRUE, data |-> new.data]
          /\ \A x \in Levels : IF x.num = shared.num
                               THEN x.data \subseteq shared.data
                               ELSE files[x.num] = [exists |-> TRUE, data |-> x.data]
      BY <1>2, <3>1, FinishedFacts
    <3> QED
      BY <3>2
  <2>2. CASE pc[Bg] = "merge"
    BY <1>1, <2>2 DEF IInv, TypeOK, FilesInv
  <2> QED
    BY <1>1, <2>1, <2>2
<1>8. /\ sst' \in [Numbers -> [exists : BOOLEAN, data : SUBSET Keys]]
      /\ \A n \in Numbers \ NumsOf(input) : sst'[n] = files[n]
  <2>1. sst' = [n \in Numbers |-> IF n \in NumsOf(input) THEN NoFile ELSE files[n]]
    BY <1>1 DEF Unlink
  <2>2. NoFile \in [exists : BOOLEAN, data : SUBSET Keys]
    BY DEF NoFile
  <2> QED
    BY <1>7, <2>1, <2>2
<1>9. TypeOK'
  <2>1. level0' \subseteq Tables /\ level1' \subseteq Tables
    BY <1>1, <1>6 DEF IInv, TypeOK
  <2>2. entering # {} => new.num \in 1..nextFile - 1
    <3>1. nextFile \in Nat
      BY DEF IInv, TypeOK
    <3>2. entering # {} => new.num \in Nat \ {0} /\ new.num < nextFile
      BY <1>6 DEF Tables, Numbers
    <3> QED
      BY <3>1, <3>2
  <2>3. NumsOf(level0 \cup level1 \cup input)' \subseteq 1..nextFile' - 1
    <3>1. NumsOf(level0 \cup level1 \cup input) \subseteq 1..nextFile - 1
      BY DEF IInv, TypeOK
    <3>2. NumsOf(level0 \cup level1 \cup input)'
            \subseteq NumsOf(level0 \cup level1 \cup input) \cup NumsOf(entering)
      BY <1>1 DEF NumsOf
    <3>3. NumsOf(entering) \subseteq 1..nextFile - 1
      BY <2>2 DEF NumsOf
    <3> QED
      BY <1>1, <3>1, <3>2, <3>3
  <2>4. /\ pc' \in [Workers -> BgStages \cup CloserStages] /\ pc'[Bg] \in BgStages
    BY <1>1, <1>2 DEF IInv, TypeOK, BgStages
  <2> QED
    BY <1>1, <1>2, <1>8, <2>1, <2>3, <2>4 DEF IInv, TypeOK
<1>10. FilesInv'
  <2>1. ASSUME NEW x \in Levels', x.num # shared.num
        PROVE  sst'[x.num] = [exists |-> TRUE, data |-> x.data]
    <3>1. x.num \in Numbers
      BY <1>4, <1>5, <1>6 DEF Tables
    <3>2. CASE x \in Levels \ input
      <4>1. x.num \notin NumsOf(input)
        <5> SUFFICES ASSUME NEW y \in input, y.num = x.num
                     PROVE  FALSE
          BY DEF NumsOf
        <5>1. x = y
          BY <1>3, <2>1, <3>2, NumbersTellTables
        <5> QED
          BY <3>2, <5>1
      <4> QED
        BY <1>7, <1>8, <2>1, <3>1, <3>2, <4>1
    <3>3. CASE x \in entering
      <4>1. x = new
        BY <3>3
      <4>2. new.num \notin NumsOf(input)
        BY <1>3, <1>6, <2>1, <3>3, <4>1 DEF NumsOf
      <4> QED
        BY <1>7, <1>8, <2>1, <3>1, <3>3, <4>1, <4>2
    <3> QED
      BY <1>5, <3>2, <3>3
  <2>2. ASSUME NEW x \in Levels', x.num = shared.num
        PROVE  x.data \subseteq shared.data
    <3>1. CASE x \in Levels
      BY <2>2, <3>1 DEF IInv, FilesInv
    <3>2. CASE x \in entering
      BY <1>6, <2>2, <3>2
    <3> QED
      BY <1>5, <3>1, <3>2
  <2>3. ASSUME Numbered(Closer)'
        PROVE  /\ Numbered(Closer) /\ output[Closer] \in Tables
               /\ IF output[Closer].num = shared.num
                  THEN output[Closer].data \subseteq shared.data
                  ELSE output[Closer].num \notin NumsOf(Levels')
    <3>1. Numbered(Closer)
      BY <1>2, <2>3 DEF Numbered
    <3>2. /\ output[Closer] \in Tables
          /\ IF output[Closer].num = shared.num
             THEN output[Closer].data \subseteq shared.data
             ELSE output[Closer].num \notin NumsOf(Levels)
      BY <1>2, <3>1 DEF IInv, FilesInv
    <3>3. entering # {} => output[Closer].num # new.num \/ output[Closer].num = shared.num
      BY <1>6, <3>1 DEF IInv, FilesInv
    <3> QED
      BY <1>5, <3>1, <3>2, <3>3 DEF NumsOf
  <2>4. Building(Closer)' => output[Closer].num < nextFile
    BY <1>2 DEF IInv, FilesInv, Building
  <2>5. ~Numbered(Bg)' /\ ~Building(Bg)' /\ pc'[Bg] \notin {"merge", "store", "output"}
    BY <1>2 DEF Building, Numbered
  <2>6. manifest.level0 \cup manifest.level1 \subseteq 1..manifest.nextFile - 1
    BY DEF IInv, FilesInv
  <2>7. NumsOf(Levels)' = NumsOf(Levels')
    BY DEF NumsOf
  <2> QED
    BY <1>1, <1>2, <2>1, <2>2, <2>3, <2>4, <2>5, <2>6, <2>7 DEF FilesInv
<1>11. MemoryInv' /\ NumbersInv'
  BY <1>1, <1>2 DEF IInv, MemoryInv, NumbersInv, Running
<1>12. LogsClean'
  BY <1>1 DEF IInv, LogsClean
<1>13. AckedInv'
  <2>1. KeysOf(input) \subseteq KeysOf(entering) \cup shared.data
    <3>1. CASE pc[Bg] = "output"
      <4>1. KeysOf(entering) = new.data
        BY <1>1, <3>1 DEF KeysOf
      <4> QED
        BY <3>1, <4>1 DEF IInv, MemoryInv
    <3>2. CASE pc[Bg] = "merge"
      BY <1>1, <3>2, MergedFacts
    <3> QED
      BY <1>1, <3>1, <3>2
  <2>2. KeysOf(Levels) \subseteq KeysOf(Levels') \cup shared.data
    <3>1. KeysOf(Levels) \subseteq KeysOf(Levels \ input) \cup KeysOf(input)
      BY DEF KeysOf
    <3>2. KeysOf(Levels \ input) \cup KeysOf(entering) \subseteq KeysOf(Levels')
      BY <1>5 DEF KeysOf
    <3> QED
      BY <2>1, <3>1, <3>2
  <2>3. KeysOf(Levels)' = KeysOf(Levels')
    BY DEF KeysOf
  <2>4. count.io = 0 /\ Running =>
          /\ acked \subseteq mem \cup imm.data \cup KeysOf(Levels) \cup shared.data
          /\ walOpen => mem \subseteq Replay(logs[walNumber])
    BY DEF IInv, AckedInv
  <2> QED
    BY <1>1, <1>2, <2>2, <2>3, <2>4 DEF AckedInv, Running
<1>14. ManifestInv'
  BY <1>2 DEF ManifestInv, Quiet, Locked
<1> QED
  BY <1>9, <1>10, <1>11, <1>12, <1>13, <1>14 DEF IInv

LEMMA CompactionCommitInv ==
  ASSUME IInv, CompactionCommit
  PROVE  IInv'
<1>1. PICK stage \in {"compactWrite", "flush"} :
        /\ pc[Bg] = "replaced" /\ input' = {} /\ output' = [output EXCEPT ![Bg] = NoTable]
        /\ pc' = [pc EXCEPT ![Bg] = stage]
        /\ \/ manifest' = Blank /\ stage = "compactWrite" /\ UNCHANGED count
           \/ Spend("io") /\ UNCHANGED manifest
        /\ UNCHANGED <<logs, sst, level0, level1, nextFile, mem, imm, walNumber, walOpen,
                       shared, acked, lost>>
  BY DEF CompactionCommit, OpenManifest, Goto, tables, memtables, history
<1>2. /\ Bg \in Workers /\ Closer \in Workers \ {Bg} /\ Workers = {Bg, Closer}
      /\ pc'[Bg] = stage /\ pc'[Closer] = pc[Closer] /\ output'[Closer] = output[Closer]
      /\ output' \in [Workers -> Tables \cup {NoTable}]
  BY <1>1 DEF Workers, Bg, Closer, IInv, TypeOK
<1>3. /\ count' \in [crash : 0..MaxCrashes, close : 0..MaxCloses,
                     io : 0..MaxIOFailures, wal : 0..MaxWalFailures]
      /\ count'.io = 0 => count.io = 0 /\ stage = "compactWrite"
  BY <1>1, SpendFacts DEF IInv, TypeOK
<1>4. TypeOK'
  <2>1. manifest' \in [level0 : SUBSET Numbers, level1 : SUBSET Numbers,
                       nextFile : 1..MaxNumber + 1, walNumber : Numbers]
    BY <1>1, DurabilityAssumption DEF IInv, TypeOK, Blank, Numbers
  <2>2. pc' \in [Workers -> BgStages \cup CloserStages] /\ pc'[Bg] \in BgStages
    BY <1>1, <1>2 DEF IInv, TypeOK, BgStages
  <2>3. NumsOf(level0 \cup level1 \cup input)' \subseteq 1..nextFile' - 1
    BY <1>1 DEF IInv, TypeOK, NumsOf
  <2> QED
    BY <1>1, <1>2, <1>3, <2>1, <2>2, <2>3 DEF IInv, TypeOK
<1>5. FilesInv' /\ NumbersInv'
  BY <1>1, <1>2 DEF IInv, FilesInv, NumbersInv, Levels, Building, Numbered, NumsOf, Blank
<1>6. MemoryInv'
  BY <1>1, <1>2 DEF IInv, MemoryInv, Running
<1>7. LogsClean' /\ AckedInv' /\ ManifestInv'
  BY <1>1, <1>2, <1>3 DEF IInv, LogsClean, AckedInv, ManifestInv, Quiet, Running, Locked,
                          Levels, KeysOf
<1> QED
  BY <1>4, <1>5, <1>6, <1>7 DEF IInv

\* The inputs stay, and so do their keys.
LEMMA CompactionFailInv ==
  ASSUME IInv, CompactionFail
  PROVE  IInv'
<1>1. /\ pc[Bg] = "output" /\ sst' = Unlink(sst, {output[Bg]})
      /\ Spend("io") \/ UNCHANGED count
      /\ input' = {} /\ output' = [output EXCEPT ![Bg] = NoTable]
      /\ pc' = [pc EXCEPT ![Bg] = "flush"]
      /\ UNCHANGED <<logs, manifest, level0, level1, nextFile, mem, imm, walNumber, walOpen,
                     shared, acked, lost>>
  BY DEF CompactionFail, Goto, tables, memtables, history
<1>2. /\ Bg \in Workers /\ Closer \in Workers \ {Bg} /\ Workers = {Bg, Closer}
      /\ pc'[Bg] = "flush" /\ pc'[Closer] = pc[Closer] /\ output'[Closer] = output[Closer]
      /\ output' \in [Workers -> Tables \cup {NoTable}]
  BY <1>1 DEF Workers, Bg, Closer, IInv, TypeOK
<1>3. /\ count' \in [crash : 0..MaxCrashes, close : 0..MaxCloses,
                     io : 0..MaxIOFailures, wal : 0..MaxWalFailures]
      /\ count'.io = 0 => count.io = 0
  BY <1>1, SpendFacts DEF IInv, TypeOK
<1>4. /\ sst' \in [Numbers -> [exists : BOOLEAN, data : SUBSET Keys]]
      /\ \A x \in Levels : IF x.num = shared.num
                           THEN x.data \subseteq shared.data
                           ELSE sst'[x.num] = [exists |-> TRUE, data |-> x.data]
  BY <1>1, <1>2, FailedBuild DEF Building
<1>5. TypeOK'
  <2>1. pc' \in [Workers -> BgStages \cup CloserStages] /\ pc'[Bg] \in BgStages
    BY <1>1, <1>2 DEF IInv, TypeOK, BgStages
  <2>2. NumsOf(level0 \cup level1 \cup input)' \subseteq 1..nextFile' - 1
    BY <1>1 DEF IInv, TypeOK, NumsOf
  <2> QED
    BY <1>1, <1>2, <1>3, <1>4, <2>1, <2>2 DEF IInv, TypeOK
<1>6. FilesInv' /\ NumbersInv'
  BY <1>1, <1>2, <1>4 DEF IInv, FilesInv, NumbersInv, Levels, Building, Numbered, NumsOf
<1>7. MemoryInv'
  BY <1>1, <1>2 DEF IInv, MemoryInv, Running
<1>8. LogsClean' /\ AckedInv'
  BY <1>1, <1>2, <1>3 DEF IInv, LogsClean, AckedInv, Running, Levels, KeysOf
<1>9. ManifestInv'
  BY <1>1, <1>2, <1>3 DEF IInv, ManifestInv, Quiet, Running, Locked, Levels, NumsOf
<1> QED
  BY <1>5, <1>6, <1>7, <1>8, <1>9 DEF IInv
-----------------------------------------------------------------------------
(* The end of a process, and the next one *)

LEMMA ForgetInv ==
  ASSUME IInv, CloseEnd \/ Crash
  PROVE  IInv'
<1>1. /\ mem' = {} /\ imm' = NoImm /\ walNumber' = 1 /\ walOpen' = FALSE
      /\ level0' = {} /\ level1' = {} /\ nextFile' = 1 /\ pc' = At("down", "down")
      /\ output' = [t \in Workers |-> NoTable] /\ input' = {} /\ shared' = NoTable
      /\ Spend("crash") \/ UNCHANGED count
      /\ UNCHANGED <<logs, sst, manifest, acked, lost>>
  BY DEF CloseEnd, Crash, Forget, disk
<1>2. /\ pc' \in [Workers -> BgStages \cup CloserStages]
      /\ pc'[Bg] = "down" /\ pc'[Closer] = "down" /\ Workers = {Bg, Closer}
  BY <1>1 DEF At, Workers, Bg, Closer, BgStages, CloserStages
<1>3. /\ count' \in [crash : 0..MaxCrashes, close : 0..MaxCloses,
                     io : 0..MaxIOFailures, wal : 0..MaxWalFailures]
      /\ count'.io = count.io
  BY <1>1, SpendFacts DEF IInv, TypeOK
<1>4. TypeOK'
  <2>1. 1 \in Numbers /\ 1 \in 1..MaxNumber + 1
    BY DurabilityAssumption DEF Numbers
  <2>2. NumsOf(level0 \cup level1 \cup input)' \subseteq 1..nextFile' - 1
    BY <1>1 DEF NumsOf
  <2> QED
    BY <1>1, <1>2, <1>3, <2>1, <2>2 DEF IInv, TypeOK, BgStages, CloserStages, NoImm
<1>5. FilesInv' /\ NumbersInv'
  BY <1>1, <1>2 DEF IInv, FilesInv, NumbersInv, Levels, Building, Numbered
<1>6. MemoryInv'
  BY <1>1, <1>2 DEF MemoryInv, Running, NoImm
<1>7. LogsClean' /\ AckedInv' /\ ManifestInv'
  BY <1>1, <1>2, <1>3 DEF IInv, LogsClean, AckedInv, ManifestInv, Quiet, Running
<1> QED
  BY <1>4, <1>5, <1>6, <1>7 DEF IInv

\* What the new process holds is what the disk had, and acked is cut down to it.
LEMMA ReopenInv ==
  ASSUME IInv, Reopen
  PROVE  IInv'
<1> DEFINE listed == manifest.level0 \cup manifest.level1
<1>1. /\ level0' = OpenTables(manifest.level0) /\ level1' = OpenTables(manifest.level1)
      /\ nextFile' = manifest.nextFile /\ walNumber' = manifest.walNumber /\ walOpen' = TRUE
      /\ mem' = Replay(logs[manifest.walNumber]) /\ imm' = NoImm
      /\ acked' = (acked \cup lost) \cap Recovered
      /\ lost' = (acked \cup lost) \ Recovered
      /\ pc' = At("flush", "open")
      /\ UNCHANGED <<logs, sst, manifest, output, input, shared, count>>
  BY DEF Reopen, RestoredNumber, disk, jobs
<1>2. /\ pc' \in [Workers -> BgStages \cup CloserStages]
      /\ pc'[Bg] = "flush" /\ pc'[Closer] = "open" /\ Workers = {Bg, Closer}
  BY <1>1 DEF At, Workers, Bg, Closer, BgStages, CloserStages
<1>3. manifest \in [level0 : SUBSET Numbers, level1 : SUBSET Numbers,
                    nextFile : 1..MaxNumber + 1, walNumber : Numbers]
  BY DEF IInv, TypeOK
<1>4. Levels' = OpenTables(listed)
  BY <1>1 DEF Levels, OpenTables
<1>5. ASSUME NEW x \in OpenTables(listed)
      PROVE  /\ x.num \in listed /\ x.num \in Numbers /\ x.data \in SUBSET Keys
             /\ x \in Tables /\ sst[x.num] = [exists |-> TRUE, data |-> x.data]
  <2>1. PICK n \in listed : x = [num |-> n, data |-> sst[n].data] /\ sst[n].exists
    BY DEF OpenTables
  <2>2. n \in Numbers
    BY <1>3, <2>1
  <2>3. sst[n] \in [exists : BOOLEAN, data : SUBSET Keys]
    BY <2>2 DEF IInv, TypeOK
  <2>4. sst[n] = [exists |-> TRUE, data |-> sst[n].data]
    BY <2>1, <2>3
  <2> QED
    BY <2>1, <2>2, <2>3, <2>4 DEF Tables
<1>6. TypeOK'
  <2>1. level0' \subseteq Tables /\ level1' \subseteq Tables
    BY <1>4, <1>5 DEF Levels
  <2>2. /\ Replay(logs[manifest.walNumber]) \subseteq Keys
        /\ manifest.nextFile \in 1..MaxNumber + 1 /\ manifest.walNumber \in Numbers
    BY <1>3, ReplayFacts DEF IInv, TypeOK
  <2>3. input = {}
    BY DEF Reopen, IInv, MemoryInv
  <2>4. NumsOf(level0 \cup level1 \cup input)' \subseteq 1..nextFile' - 1
    <3>1. (level0 \cup level1 \cup input)' = OpenTables(listed)
      BY <1>1, <1>4, <2>3 DEF Levels
    <3>2. NumsOf(level0 \cup level1 \cup input)' \subseteq listed
      BY <1>5, <3>1 DEF NumsOf
    <3> QED
      BY <1>1, <3>2 DEF IInv, FilesInv
  <2> QED
    BY <1>1, <1>2, <2>1, <2>2, <2>4 DEF IInv, TypeOK, BgStages, CloserStages, NoImm
<1>7. FilesInv' /\ NumbersInv'
  <2>1. shared = NoTable
    BY DEF Reopen, Running, IInv, NumbersInv
  <2>2. ASSUME NEW x \in Levels'
        PROVE  x.num # 0
    <3>1. x.num \in Numbers
      BY <1>4, <1>5
    <3> QED
      BY <3>1, DurabilityAssumption DEF Numbers
  <2> QED
    BY <1>1, <1>2, <1>4, <1>5, <2>1, <2>2
       DEF IInv, FilesInv, NumbersInv, Building, Numbered, NoTable
<1>8. MemoryInv'
  BY <1>1, <1>2 DEF MemoryInv, Running, NoImm
<1>9. LogsClean'
  BY <1>1 DEF IInv, LogsClean
<1>10. AckedInv'
  <2>1. Recovered = mem' \cup KeysOf(Levels')
    BY <1>1, <1>4 DEF Recovered, KeysOf
  <2>2. KeysOf(Levels)' = KeysOf(Levels')
    BY DEF KeysOf
  <2> QED
    BY <1>1, <2>1, <2>2 DEF AckedInv
<1>11. ManifestInv'
  <2>1. NumsOf(Levels)' \subseteq listed
    BY <1>4, <1>5 DEF NumsOf
  <2> QED
    BY <1>1, <2>1 DEF ManifestInv, NoImm
<1> QED
  BY <1>6, <1>7, <1>8, <1>9, <1>10, <1>11 DEF IInv

-----------------------------------------------------------------------------
(* Theorems *)

LEMMA StepInv == IInv /\ [Next]_vars => IInv'
<1> SUFFICES ASSUME IInv, [Next]_vars
             PROVE  IInv'
  OBVIOUS
<1>1. CASE \E k \in Keys : PutFast(k) \/ SwitchMemTable(k)
  BY <1>1, PutFastInv, SwitchMemTableInv
<1>2. CASE SwitchFails
  BY <1>2, SwitchFailsInv
<1>3. CASE FlushBegin \/ FlushSkip \/ FlushFail
  BY <1>3, FlushBeginInv, SkipInv, FlushFailInv
<1>4. CASE \E t \in Workers : FlushCommit(t) \/ WriteManifest(t)
  BY <1>4, FlushCommitInv, WriteManifestInv
<1>5. CASE CompactionBegin \/ CompactionSkip \/ LoadNumber \/ StoreNumber
           \/ CompactionReplace \/ CompactionCommit \/ CompactionFail
  BY <1>5, CompactionBeginInv, SkipInv, LoadNumberInv, StoreNumberInv,
     CompactionReplaceInv, CompactionCommitInv, CompactionFailInv
<1>6. CASE CloseBegin \/ CloseFlushFail \/ CloseEnd \/ Crash \/ Reopen
  BY <1>6, CloseBeginInv, CloseFlushFailInv, ForgetInv, ReopenInv
<1>7. CASE UNCHANGED vars
  BY <1>7 DEF vars, disk, tables, memtables, jobs, history, IInv, TypeOK, FilesInv,
              NumbersInv, MemoryInv, LogsClean, AckedInv, ManifestInv, Quiet, Running,
              Locked, Levels, KeysOf, Building, Numbered, NumsOf, Replay
<1> QED
  BY <1>1, <1>2, <1>3, <1>4, <1>5, <1>6, <1>7 DEF Next

\* Where every acknowledged key is, in memory and on disk, is known at each step.
THEOREM Invariance == Spec => []IInv
BY InitInv, StepInv, PTL DEF Spec

\* Every variable keeps its type, and no table has a number yet to be handed out.
THEOREM TypesHold == Spec => []TypeOK
BY Invariance, PTL DEF IInv

\* A table of a level has its own complete file, whatever crashed before and
\* however the unlocked number of a compaction fell, unless its number is the one
\* that ~DB and a compaction both took.
THEOREM LevelsHaveTheirFiles == Spec => []LevelsMatchFiles
<1>1. IInv => LevelsMatchFiles
  BY DEF IInv, FilesInv, LevelsMatchFiles, Levels
<1> QED
  BY <1>1, Invariance, PTL

\* What the MANIFEST names holds the tables, but the shared one, and one
\* memtable, both if one is empty.
LEMMA RecoveredFacts ==
  ASSUME IInv, Quiet, count.io = 0
  PROVE  /\ acked \subseteq mem \cup imm.data \cup Recovered \cup shared.data
         /\ walOpen /\ ~imm.set => mem \subseteq Recovered
         /\ imm.set => mem \subseteq Recovered \/ imm.data \subseteq Recovered
<1>1. Replay(logs[manifest.walNumber]) \subseteq Recovered
  BY DEF Recovered
<1>2. KeysOf(Levels) \subseteq Recovered \cup shared.data
  <2> SUFFICES ASSUME NEW x \in Levels, x.num # shared.num
               PROVE  x.data \subseteq Recovered
    <3>1. \A x \in Levels : x.num = shared.num => x.data \subseteq shared.data
      BY DEF IInv, FilesInv
    <3> QED
      BY <3>1 DEF KeysOf
  <2>1. x.num \in manifest.level0 \cup manifest.level1
    BY DEF IInv, ManifestInv, NumsOf
  <2>2. sst[x.num].exists /\ sst[x.num].data = x.data
    <3>1. sst[x.num] = [exists |-> TRUE, data |-> x.data]
      BY DEF IInv, FilesInv
    <3> QED
      BY <3>1
  <2>3. [num |-> x.num, data |-> x.data] \in OpenTables(manifest.level0 \cup manifest.level1)
    BY <2>1, <2>2 DEF OpenTables
  <2> QED
    BY <2>3 DEF Recovered
<1>3. Running
  BY DEF Quiet
<1> QED
  BY <1>1, <1>2, <1>3 DEF IInv, AckedInv, ManifestInv, MemoryInv

\* As long as no I/O failed, a crash loses nothing while no memtable waits to be
\* flushed and the DB is not being closed.
THEOREM QuietStatesAreDurable == Spec => []QuietIsDurable
<1>1. IInv => QuietIsDurable
  <2> SUFFICES ASSUME IInv, Quiet, pc[Closer] = "open", ~imm.set, walOpen, count.io = 0
               PROVE  acked \subseteq Recovered
    BY DEF QuietIsDurable
  <2>1. shared.data = {} /\ imm.data = {}
    BY DEF IInv, NumbersInv, MemoryInv, NoTable
  <2> QED
    BY <2>1, RecoveredFacts
<1> QED
  BY <1>1, Invariance, PTL

\* A crash takes the keys of one memtable at most, and of what is in a table only
\* what ~DB and a compaction write to one file.
THEOREM OneMemtableIsAtRisk == Spec => []AtMostOneMemtableAtRisk
<1>1. IInv => AtMostOneMemtableAtRisk
  <2> SUFFICES ASSUME IInv, Quiet, count.io = 0
               PROVE  \E m \in {mem, imm.data} :
                        acked \ Recovered \subseteq m \cup shared.data
    BY DEF AtMostOneMemtableAtRisk
  <2>1. CASE ~imm.set
    <3>1. imm.data = {}
      BY <2>1 DEF IInv, MemoryInv
    <3>2. acked \ Recovered \subseteq mem \cup shared.data
      BY <3>1, RecoveredFacts
    <3> QED
      BY <3>2
  <2>2. CASE imm.set
    <3>1. \/ acked \ Recovered \subseteq mem \cup shared.data
          \/ acked \ Recovered \subseteq imm.data \cup shared.data
      BY <2>2, RecoveredFacts
    <3> QED
      BY <3>1
  <2> QED
    BY <2>1, <2>2
<1> QED
  BY <1>1, Invariance, PTL

\* A close without failed I/O leaves everything on disk for the next DB::Open, but
\* what ~DB and a compaction wrote to one file.
THEOREM ClosesKeepAll == Spec => CloseKeepsAll
<1>1. IInv => (CloseEnd /\ walOpen /\ count.io = 0
                 => acked \ Recovered \subseteq shared.data)
  <2> SUFFICES ASSUME IInv, CloseEnd, walOpen, count.io = 0
               PROVE  acked \ Recovered \subseteq shared.data
    OBVIOUS
  <2>1. pc[Closer] = "join" /\ pc[Bg] = "flush"
    BY DEF CloseEnd
  <2>2. Quiet
    BY <2>1 DEF Quiet, Running, Locked, Workers
  <2>3. ~imm.set /\ imm.data = {}
    BY <2>1 DEF IInv, MemoryInv
  <2> QED
    BY <2>2, <2>3, RecoveredFacts
<1> QED
  BY <1>1, Invariance, PTL DEF CloseKeepsAll
=============================================================================
