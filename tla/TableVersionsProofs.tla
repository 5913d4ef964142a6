------------------------ MODULE TableVersionsProofs ------------------------
(***************************************************************************)
(* Proofs about TableVersions, for any number of writers, reads, keys and  *)
(* tables: first that reference counts are exact and nothing in use is     *)
(* freed, as long as only the background thread compacts; then what is in  *)
(* the memtables and tables.                                               *)
(*                                                                         *)
(* The invariant IInv of the first part is Shape (types, with counts that  *)
(* might be negative), what each kind of thread has in its locals          *)
(* (StagesInv, FlushInv, MergeInv, SnapsInv) and RefsExact itself. Each    *)
(* part has one lemma ...Step with one step per action. TypeOK and         *)
(* NoUseAfterFree follow: a count that is exact is a natural number and    *)
(* above zero while there is a holder.                                     *)
(***************************************************************************)
EXTENDS TableVersions, FiniteSetTheorems, WellFoundedInduction, TLAPS

\* The threads that have an entry in job.
Flushers == MergingThreads \cup SyncThreads
Merging == {"merge", "store", "output"}
\* What s names has been allocated.
InRange(s) ==
  /\ s.mem <= Len(memtables) /\ s.imm <= Len(memtables)
  /\ Held(s) \subseteq DOMAIN tables

Labels == {"idle", "makeRoom", "flush", "build", "compact", "merge", "store",
           "output", "join", "exited", "closed"}

\* TypeOK, with reference counts that might be negative.
MemShape ==
  /\ acked \in Seq(Keys) /\ IsInjective(acked)
  /\ memtables \in Seq([data : SUBSET Keys, refs : Int])
  /\ mem \in 0..Len(memtables) /\ imm \in 0..Len(memtables)
  /\ immFlushing \in BOOLEAN
  /\ ioFailures \in 0..MaxIOFailures
TableShape ==
  /\ tables \in Seq([num : Nat, data : SUBSET Keys, refs : Int])
  /\ level0 \in Seq(DOMAIN tables) /\ level1 \in Seq(DOMAIN tables)
  /\ nextFile \in 1..MaxFileNumber + 1
  /\ files \subseteq 1..MaxFileNumber
LocalShape ==
  /\ pc \in [Threads -> Labels]
  /\ job \in [Flushers -> Job]
  /\ snap \in [Readers -> Snap]
Shape == MemShape /\ TableShape /\ LocalShape

\* Where each kind of thread can be, and what has happened when ~DB is there.
StagesInv ==
  /\ \A w \in Writers : pc[w] \in {"idle", "makeRoom"}
  /\ pc[Bg] \in {"flush", "build", "compact", "exited"} \cup Merging
  /\ \A t \in Closers :
        /\ pc[t] \in {"idle", "build", "join", "closed"}
        /\ pc[t] # "idle" => \A w \in Writers : pc[w] = "idle"
        /\ pc[t] # "closed" => mem # None
  /\ Closers = {} => mem # None
  /\ mem = None \/ mem # imm

\* A flush builds imm_, which stays, and it is the only one.
FlushInv ==
  /\ \A t \in Flushers :
        IF pc[t] = "build"
        THEN /\ immFlushing /\ imm # None /\ job[t].imm = imm
             /\ job[t].num \in 1..MaxFileNumber
        ELSE job[t].imm = None
  /\ \A t, u \in Flushers : pc[t] = "build" /\ pc[u] = "build" => t = u

\* The inputs of a merge stay in their levels, the outputs are in none yet.
MergeInv ==
  /\ ToSet(level0) \cap ToSet(level1) = {}
  /\ \A t \in Flushers : pc[t] \notin Merging =>
        job[t].l0 = {} /\ job[t].l1 = {} /\ job[t].out = <<>>
  /\ job[Bg].l0 \subseteq ToSet(level0)
  /\ job[Bg].positions \subseteq DOMAIN level1 \/ pc[Bg] \notin Merging
  /\ pc[Bg] \in Merging =>
        job[Bg].l1 = {level1[i] : i \in job[Bg].positions}
  /\ Outputs(Bg) \subseteq DOMAIN tables \ Levels
  /\ pc[Bg] \in {"store", "output"} => job[Bg].num \in 1..MaxFileNumber

\* What a read holds stays allocated.
SnapsInv == \A r \in Readers : InRange(snap[r])

IInv == Shape /\ StagesInv /\ FlushInv /\ MergeInv /\ SnapsInv /\ RefsExact

-----------------------------------------------------------------------------
(* Sequences, and counting *)

LEMMA SeqElements ==
  ASSUME NEW S, NEW s \in Seq(S)
  PROVE  /\ Len(s) \in Nat /\ DOMAIN s = 1..Len(s)
         /\ \A i \in DOMAIN s : s[i] \in S
OBVIOUS

LEMMA SeqFromFunction ==
  ASSUME NEW S, NEW n \in Nat, NEW f, DOMAIN f = 1..n,
         f = [i \in 1..n |-> f[i]], \A i \in 1..n : f[i] \in S
  PROVE  f \in Seq(S) /\ Len(f) = n
<1>1. f \in [1..n -> S]
  OBVIOUS
<1> QED BY <1>1

LEMMA AppendSet ==
  ASSUME NEW S, NEW s \in Seq(S), NEW e
  PROVE  ToSet(Append(s, e)) = ToSet(s) \cup {e}
<1>1. DOMAIN s = 1..Len(s) /\ DOMAIN Append(s, e) = 1..Len(s) + 1 /\ Len(s) \in Nat
  OBVIOUS
<1>2. \A i \in 1..Len(s) : Append(s, e)[i] = s[i]
  OBVIOUS
<1>3. Append(s, e)[Len(s) + 1] = e
  OBVIOUS
<1>4. ToSet(s) \cup {e} \subseteq ToSet(Append(s, e))
  BY <1>1, <1>2, <1>3 DEF ToSet
<1>5. ToSet(Append(s, e)) \subseteq ToSet(s) \cup {e}
  BY <1>1, <1>2, <1>3 DEF ToSet
<1> QED BY <1>4, <1>5

LEMMA SeqsOfSet ==
  ASSUME NEW S, IsFiniteSet(S), NEW s \in SetToSeqs(S)
  PROVE  /\ s \in Seq(S) /\ ToSet(s) = S /\ Len(s) = Cardinality(S)
         /\ \A i, j \in DOMAIN s : i # j => s[i] # s[j]
<1> DEFINE D == 1..Cardinality(S)
<1>1. Cardinality(S) \in Nat
  BY FS_CardinalityType
<1>2. s \in [D -> S] /\ \A i, j \in D : i # j => s[i] # s[j]
  BY DEF SetToSeqs
<1>3. s \in Injection(D, S)
  BY <1>2 DEF Injection, IsInjective
<1>4. IsFiniteSet(D) /\ Cardinality(D) = Cardinality(S)
  BY <1>1, FS_Interval
<1>5. s \in Surjection(D, S)
  BY <1>3, <1>4, FS_Injection
<1>6. ToSet(s) = S
  BY <1>2, <1>5 DEF ToSet, Surjection
<1>7. s \in Seq(S) /\ Len(s) = Cardinality(S)
  BY <1>1, <1>2
<1> QED BY <1>2, <1>6, <1>7

\* Two finite sets that differ in r at most.
LEMMA Recount ==
  ASSUME NEW S, NEW T, NEW r, IsFiniteSet(S), IsFiniteSet(T),
         S \ {r} = T \ {r}
  PROVE  /\ Cardinality(S) \in Nat /\ Cardinality(T) \in Nat
         /\ Cardinality(T) = Cardinality(S) + One(r \in T) - One(r \in S)
<1>1. Cardinality(S) \in Nat /\ Cardinality(T) \in Nat
  BY FS_CardinalityType
<1>a. ASSUME NEW U, IsFiniteSet(U), Cardinality(U) \in Nat
      PROVE  Cardinality(U \ {r}) = Cardinality(U) - One(r \in U)
  <2>1. Cardinality(U \ {r}) = IF r \in U THEN Cardinality(U) - 1 ELSE Cardinality(U)
    BY <1>a, FS_RemoveElement
  <2> QED BY <1>a, <2>1 DEF One
<1>2. Cardinality(S \ {r}) = Cardinality(S) - One(r \in S)
  BY <1>1, <1>a
<1>3. Cardinality(T \ {r}) = Cardinality(T) - One(r \in T)
  BY <1>1, <1>a
<1> QED BY <1>1, <1>2, <1>3 DEF One

\* Counted changes counts and nothing else.
LEMMA CountedMemTables ==
  ASSUME NEW S, NEW h \in Seq([data : S, refs : Int]),
         NEW delta \in [DOMAIN h -> Int]
  PROVE  /\ Counted(h, delta) \in Seq([data : S, refs : Int])
         /\ Len(Counted(h, delta)) = Len(h)
         /\ \A x \in DOMAIN h :
              /\ Counted(h, delta)[x].data = h[x].data
              /\ Counted(h, delta)[x].refs = h[x].refs + delta[x]
<1> DEFINE R == [data : S, refs : Int]
           c == Counted(h, delta)
<1>0. Len(h) \in Nat /\ DOMAIN h = 1..Len(h) /\ \A x \in DOMAIN h : h[x] \in R
  <2> HIDE DEF R
  <2>1. h \in Seq(R)
    BY DEF R
  <2> QED BY <2>1, SeqElements
<1>1. ASSUME NEW x \in DOMAIN h
      PROVE  /\ c[x] \in R
             /\ c[x].data = h[x].data
             /\ c[x].refs = h[x].refs + delta[x]
  <2>1. h[x] \in R /\ delta[x] \in Int
    BY <1>0
  <2>2. c[x] = [h[x] EXCEPT !.refs = h[x].refs + delta[x]]
    BY DEF Counted
  <2>3. h[x].refs + delta[x] \in Int
    BY <2>1
  <2> QED BY <2>1, <2>2, <2>3
<1>2. DOMAIN c = 1..Len(h) /\ Len(h) \in Nat
  BY DEF Counted
<1>3. c = [x \in 1..Len(h) |-> c[x]]
  BY DEF Counted
<1> HIDE DEF c, R
<1>4. c \in Seq(R) /\ Len(c) = Len(h)
  BY <1>0, <1>1, <1>2, <1>3, SeqFromFunction
<1> QED BY <1>1, <1>4 DEF c, R

LEMMA CountedTables ==
  ASSUME NEW S, NEW h \in Seq([num : Nat, data : S, refs : Int]),
         NEW delta \in [DOMAIN h -> Int]
  PROVE  /\ Counted(h, delta) \in Seq([num : Nat, data : S, refs : Int])
         /\ Len(Counted(h, delta)) = Len(h)
         /\ \A x \in DOMAIN h :
              /\ Counted(h, delta)[x].num = h[x].num
              /\ Counted(h, delta)[x].data = h[x].data
              /\ Counted(h, delta)[x].refs = h[x].refs + delta[x]
<1> DEFINE R == [num : Nat, data : S, refs : Int]
           c == Counted(h, delta)
<1>0. Len(h) \in Nat /\ DOMAIN h = 1..Len(h) /\ \A x \in DOMAIN h : h[x] \in R
  <2> HIDE DEF R
  <2>1. h \in Seq(R)
    BY DEF R
  <2> QED BY <2>1, SeqElements
<1>1. ASSUME NEW x \in DOMAIN h
      PROVE  /\ c[x] \in R
             /\ c[x].num = h[x].num
             /\ c[x].data = h[x].data
             /\ c[x].refs = h[x].refs + delta[x]
  <2>1. h[x] \in R /\ delta[x] \in Int
    BY <1>0
  <2>2. c[x] = [h[x] EXCEPT !.refs = h[x].refs + delta[x]]
    BY DEF Counted
  <2>3. h[x].refs + delta[x] \in Int
    BY <2>1
  <2> QED BY <2>1, <2>2, <2>3
<1>2. DOMAIN c = 1..Len(h) /\ Len(h) \in Nat
  BY DEF Counted
<1>3. c = [x \in 1..Len(h) |-> c[x]]
  BY DEF Counted
<1> HIDE DEF c, R
<1>4. c \in Seq(R) /\ Len(c) = Len(h)
  BY <1>0, <1>1, <1>2, <1>3, SeqFromFunction
<1> QED BY <1>1, <1>4 DEF c, R

\* What Without leaves of s: the elements that are not gone, in their order.
LEMMA WithoutKeepsOrder ==
  ASSUME NEW S, NEW s \in Seq(S), NEW gone, NEW t \in Without(s, gone)
  PROVE  /\ t \in Seq(S) /\ ToSet(t) = ToSet(s) \ gone
         /\ \A i, j \in DOMAIN t : i < j =>
              \E g, h \in DOMAIN s : g < h /\ t[i] = s[g] /\ t[j] = s[h]
<1> DEFINE keep == {i \in DOMAIN s : s[i] \notin gone}
<1>1. PICK p \in SetToSeqs(keep) : Ascending(p) /\ t = [i \in DOMAIN p |-> s[p[i]]]
  BY DEF Without
<1>2. /\ keep \subseteq 1..Len(s) /\ Len(s) \in Nat /\ DOMAIN s = 1..Len(s)
      /\ \A i \in keep : s[i] \in S
  BY SeqElements
<1>3. IsFiniteSet(keep)
  <2> HIDE DEF keep
  <2>1. IsFiniteSet(1..Len(s))
    BY <1>2, FS_Interval
  <2> QED BY <1>2, <2>1, FS_Subset
<1> HIDE DEF keep
<1>4. p \in Seq(keep) /\ ToSet(p) = keep
  BY <1>3, SeqsOfSet
<1>5. \A i \in DOMAIN p : p[i] \in keep /\ s[p[i]] \in S
  <2>1. \A i \in DOMAIN p : p[i] \in keep
    BY <1>4, SeqElements
  <2> QED BY <1>2, <2>1
<1>6. t \in Seq(S) /\ DOMAIN t = DOMAIN p
  <2>1. DOMAIN p = 1..Len(p) /\ Len(p) \in Nat
    BY <1>4
  <2> QED BY <1>1, <1>5, <2>1
<1>7. ToSet(t) = {s[i] : i \in keep}
  BY <1>1, <1>4, <1>6 DEF ToSet
<1>8. {s[i] : i \in keep} = ToSet(s) \ gone
  BY DEF ToSet, keep
<1>9. ASSUME NEW i \in DOMAIN t, NEW j \in DOMAIN t, i < j
      PROVE  \E g, h \in DOMAIN s : g < h /\ t[i] = s[g] /\ t[j] = s[h]
  <2>1. p[i] \in DOMAIN s /\ p[j] \in DOMAIN s /\ t[i] = s[p[i]] /\ t[j] = s[p[j]]
    BY <1>1, <1>2, <1>5, <1>6
  <2>2. p[i] < p[j]
    BY <1>1, <1>6, <1>9 DEF Ascending
  <2> QED BY <2>1, <2>2
<1> QED BY <1>6, <1>7, <1>8, <1>9

-----------------------------------------------------------------------------
(* The heaps *)

\* Objects whose count may be any integer.
MemTables == [data : SUBSET Keys, refs : Int]
SSTables == [num : Nat, data : SUBSET Keys, refs : Int]

\* A write changes the keys of one memtable, and no reference count.
LEMMA Written ==
  ASSUME Shape, NEW k \in Keys, k \notin ToSet(acked),
         NEW h \in Seq(MemTables), NEW m \in DOMAIN h, WriteRecord(k, m, h)
  PROVE  /\ acked' \in Seq(Keys) /\ IsInjective(acked')
         /\ memtables' \in Seq(MemTables) /\ Len(memtables') = Len(h)
         /\ \A x \in DOMAIN h : memtables'[x].refs = h[x].refs
         /\ ioFailures' \in 0..MaxIOFailures
<1>0. /\ Len(h) \in Nat /\ DOMAIN h = 1..Len(h)
      /\ \A x \in DOMAIN h : h[x] \in MemTables
  <2> HIDE DEF MemTables
  <2> QED BY SeqElements
<1>1. CASE memtables' = h /\ UNCHANGED acked /\ FailIO
  BY <1>1, ConstantsAssumption DEF Shape, MemShape, FailIO
<1>2. CASE /\ memtables' = [h EXCEPT ![m].data = @ \cup {k}]
           /\ acked' = Append(acked, k)
           /\ UNCHANGED ioFailures
  <2>1. acked' \in Seq(Keys)
    BY <1>2 DEF Shape, MemShape
  <2>2. IsInjective(acked')
    <3>1. DOMAIN acked = 1..Len(acked) /\ Len(acked) \in Nat
      BY SeqElements DEF Shape, MemShape
    <3>2. DOMAIN acked' = 1..Len(acked) + 1
      BY <1>2, <3>1 DEF Shape, MemShape
    <3>3. \A i \in 1..Len(acked) : acked'[i] = acked[i] /\ acked[i] # k
      BY <1>2, <3>1 DEF Shape, MemShape, ToSet
    <3>4. acked'[Len(acked) + 1] = k
      BY <1>2 DEF Shape, MemShape
    <3>5. \A a, b \in 1..Len(acked) : acked[a] = acked[b] => a = b
      BY <3>1 DEF Shape, MemShape, IsInjective
    <3>6. ASSUME NEW a \in DOMAIN acked', NEW b \in DOMAIN acked',
                 acked'[a] = acked'[b]
          PROVE  a = b
      BY <3>1, <3>2, <3>3, <3>4, <3>5, <3>6
    <3> QED BY <3>6 DEF IsInjective
  <2>3. ASSUME NEW x \in DOMAIN h
        PROVE  memtables'[x] \in MemTables /\ memtables'[x].refs = h[x].refs
    BY <1>0, <1>2 DEF MemTables
  <2>4. DOMAIN memtables' = 1..Len(h) /\ memtables' = [x \in 1..Len(h) |-> memtables'[x]]
    BY <1>0, <1>2
  <2>5. memtables' \in Seq(MemTables) /\ Len(memtables') = Len(h)
    <3> HIDE DEF MemTables
    <3> QED BY <1>0, <2>3, <2>4, SeqFromFunction
  <2> QED BY <1>2, <2>1, <2>2, <2>3, <2>5 DEF Shape, MemShape
<1> QED BY <1>1, <1>2 DEF WriteRecord

LEMMA NewMemTable ==
  ASSUME Shape
  PROVE  LET h == Append(memtables, [data |-> {}, refs |-> 1])
         IN  /\ h \in Seq(MemTables) /\ Len(h) = Len(memtables) + 1
             /\ DOMAIN h = 1..Len(memtables) + 1 /\ Len(memtables) \in Nat
             /\ \A x \in DOMAIN memtables : h[x] = memtables[x]
             /\ h[Len(memtables) + 1].refs = 1
<1>1. [data |-> {}, refs |-> 1] \in MemTables
  BY DEF MemTables
<1>2. memtables \in Seq(MemTables)
  BY DEF Shape, MemShape, MemTables
<1> HIDE DEF MemTables
<1> QED BY <1>1, <1>2

LEMMA NewSSTable ==
  ASSUME Shape, NEW t \in Flushers, NEW data \in SUBSET Keys, NewTable(t, data)
  PROVE  /\ tables' \in Seq(SSTables) /\ Len(tables') = Len(tables) + 1
         /\ DOMAIN tables' = 1..Len(tables) + 1 /\ Len(tables) \in Nat
         /\ DOMAIN tables = 1..Len(tables)
         /\ \A x \in DOMAIN tables : tables'[x] = tables[x]
         /\ tables'[Len(tables) + 1] =
              [num |-> job[t].num, data |-> data, refs |-> 1]
<1>1. [num |-> job[t].num, data |-> data, refs |-> 1] \in SSTables
  BY DEF SSTables, Shape, LocalShape, Job
<1>2. tables \in Seq(SSTables)
  BY DEF Shape, TableShape, SSTables
<1> HIDE DEF SSTables
<1> QED BY <1>1, <1>2 DEF NewTable

\* References come and go, nothing else changes.
LEMMA MemTablesCounted ==
  ASSUME Shape, NEW delta \in [DOMAIN memtables -> Int],
         memtables' = Counted(memtables, delta)
  PROVE  /\ memtables' \in Seq(MemTables) /\ Len(memtables') = Len(memtables)
         /\ DOMAIN memtables' = DOMAIN memtables
         /\ \A x \in DOMAIN memtables :
              /\ memtables'[x].data = memtables[x].data
              /\ memtables'[x].refs = memtables[x].refs + delta[x]
<1>1. memtables \in Seq([data : SUBSET Keys, refs : Int])
  BY DEF Shape, MemShape
<1>2. /\ Counted(memtables, delta) \in Seq([data : SUBSET Keys, refs : Int])
      /\ Len(Counted(memtables, delta)) = Len(memtables)
      /\ \A x \in DOMAIN memtables :
           /\ Counted(memtables, delta)[x].data = memtables[x].data
           /\ Counted(memtables, delta)[x].refs = memtables[x].refs + delta[x]
  BY <1>1, CountedMemTables
<1>3. DOMAIN memtables = 1..Len(memtables) /\ DOMAIN memtables' = 1..Len(memtables')
  BY <1>1, <1>2
<1> QED BY <1>2, <1>3 DEF MemTables

LEMMA SSTablesCounted ==
  ASSUME Shape, NEW delta \in [DOMAIN tables -> Int],
         tables' = Counted(tables, delta)
  PROVE  /\ tables' \in Seq(SSTables) /\ Len(tables') = Len(tables)
         /\ DOMAIN tables' = DOMAIN tables
         /\ \A x \in DOMAIN tables :
              /\ tables'[x].num = tables[x].num
              /\ tables'[x].data = tables[x].data
              /\ tables'[x].refs = tables[x].refs + delta[x]
<1>1. tables \in Seq([num : Nat, data : SUBSET Keys, refs : Int])
  BY DEF Shape, TableShape
<1>2. /\ Counted(tables, delta) \in Seq([num : Nat, data : SUBSET Keys, refs : Int])
      /\ Len(Counted(tables, delta)) = Len(tables)
      /\ \A x \in DOMAIN tables :
           /\ Counted(tables, delta)[x].num = tables[x].num
           /\ Counted(tables, delta)[x].data = tables[x].data
           /\ Counted(tables, delta)[x].refs = tables[x].refs + delta[x]
  BY <1>1, CountedTables
<1>3. DOMAIN tables = 1..Len(tables) /\ DOMAIN tables' = 1..Len(tables')
  BY <1>1, <1>2
<1> QED BY <1>2, <1>3 DEF SSTables

-----------------------------------------------------------------------------
\* Compactions run on the background thread only: no thread calls CompactRange.
\* Two of one snapshot would both drop the references of the levels.
OneCompactor == Compactors = {}

\* Who is who then.
LEMMA Workers ==
  ASSUME OneCompactor
  PROVE  /\ MergingThreads = {Bg} /\ Flushers = {Bg} \cup Closers
         /\ Threads = Writers \cup {Bg} \cup Closers
         /\ Bg \notin Closers /\ Bg \notin Writers /\ Writers \cap Closers = {}
BY ConstantsAssumption DEF OneCompactor, MergingThreads, Flushers, SyncThreads,
                           Threads

(* The steps *)

LEMMA MemShapeStep ==
  ASSUME IInv, OneCompactor, [Next]_vars
  PROVE  MemShape'
<1> USE DEF IInv, Shape
<1>0. /\ Len(memtables) \in Nat /\ DOMAIN memtables = 1..Len(memtables)
      /\ memtables \in Seq(MemTables)
  BY SeqElements DEF MemShape, MemTables
<1>1. ASSUME NEW w \in Writers, NEW k \in Unwritten, PutFast(w, k)
      PROVE  MemShape'
  <2>1. mem \in DOMAIN memtables
    BY <1>0, <1>1, ConstantsAssumption DEF PutFast, Open, StagesInv, MemShape, None
  <2>2. WriteRecord(k, mem, memtables) /\ k \in Keys /\ k \notin ToSet(acked)
    BY <1>1 DEF PutFast, Unwritten
  <2>3. /\ acked' \in Seq(Keys) /\ IsInjective(acked')
        /\ memtables' \in Seq(MemTables) /\ Len(memtables') = Len(memtables)
        /\ ioFailures' \in 0..MaxIOFailures
    BY <1>0, <2>1, <2>2, Written
  <2> QED BY <1>1, <2>3 DEF MemShape, PutFast, MemTables
<1>2. ASSUME NEW w \in Writers, NEW k \in Unwritten, SwitchMemTable(w, k)
      PROVE  MemShape'
  <2> DEFINE h == Append(memtables, [data |-> {}, refs |-> 1])
  <2>1. /\ h \in Seq(MemTables) /\ Len(h) = Len(memtables) + 1
        /\ Len(memtables) + 1 \in DOMAIN h
    BY NewMemTable
  <2>2. /\ WriteRecord(k, Len(memtables) + 1, h) /\ k \in Keys
        /\ k \notin ToSet(acked) /\ mem' = Len(memtables) + 1
    BY <1>2 DEF SwitchMemTable, Unwritten
  <2> HIDE DEF h
  <2>3. /\ acked' \in Seq(Keys) /\ IsInjective(acked')
        /\ memtables' \in Seq(MemTables) /\ Len(memtables') = Len(memtables) + 1
        /\ ioFailures' \in 0..MaxIOFailures
    BY <1>0, <2>1, <2>2, Written
  <2> QED BY <1>0, <1>2, <2>2, <2>3 DEF MemShape, SwitchMemTable, MemTables
<1>3. ASSUME NEW delta \in [DOMAIN memtables -> Int],
             memtables' = Counted(memtables, delta),
             UNCHANGED acked, mem' \in {mem, None}, imm' \in {imm, None},
             immFlushing' \in BOOLEAN, ioFailures' \in 0..MaxIOFailures
      PROVE  MemShape'
  <2>1. memtables' \in Seq(MemTables) /\ Len(memtables') = Len(memtables)
    BY <1>3, MemTablesCounted
  <2> QED BY <1>0, <1>3, <2>1 DEF MemShape, MemTables, None
<1>4. ASSUME NEW r \in Readers, BeginRead(r) PROVE MemShape'
  <2> DEFINE delta == [m \in DOMAIN memtables |-> One(m \in Pinned)]
  <2>1. delta \in [DOMAIN memtables -> Int]
    BY DEF One
  <2>2. memtables' = Counted(memtables, delta)
    BY <1>4 DEF BeginRead
  <2> HIDE DEF delta
  <2> QED BY <1>3, <1>4, <2>1, <2>2 DEF BeginRead, MemShape
<1>5. ASSUME NEW r \in Readers, EndRead(r) PROVE MemShape'
  <2> DEFINE delta == [m \in DOMAIN memtables |->
                         -One(m \in {snap[r].mem, snap[r].imm})]
  <2>1. delta \in [DOMAIN memtables -> Int]
    BY DEF One
  <2>2. memtables' = Counted(memtables, delta)
    BY <1>5 DEF EndRead
  <2> HIDE DEF delta
  <2> QED BY <1>3, <1>5, <2>1, <2>2 DEF EndRead, MemShape
<1>6. ASSUME ReleaseImm, UNCHANGED <<acked, mem>>, immFlushing' \in BOOLEAN,
             ioFailures' \in 0..MaxIOFailures
      PROVE  MemShape'
  <2> DEFINE delta == [m \in DOMAIN memtables |-> -One(m = imm)]
  <2>1. delta \in [DOMAIN memtables -> Int]
    BY DEF One
  <2>2. memtables' = Counted(memtables, delta) /\ imm' = None
    BY <1>6 DEF ReleaseImm
  <2> HIDE DEF delta
  <2> QED BY <1>3, <1>6, <2>1, <2>2
<1>7. ASSUME NEW t \in Flushers, FlushCommit(t) PROVE MemShape'
  BY <1>6, <1>7 DEF FlushCommit, MemShape
<1>8. ASSUME NEW t \in Flushers, FlushFail(t) PROVE MemShape'
  <2>1. ioFailures' \in 0..MaxIOFailures
    BY <1>8, ConstantsAssumption DEF FlushFail, FailIO, MemShape
  <2>2. CASE t = Bg
    BY <1>8, <2>1, <2>2 DEF FlushFail, DropUnlessBackground, MemShape
  <2>3. CASE t # Bg
    BY <1>6, <1>8, <2>1, <2>3 DEF FlushFail, DropUnlessBackground
  <2> QED BY <2>2, <2>3
<1>9. ASSUME NEW t \in Closers, CloseRelease(t) PROVE MemShape'
  <2> DEFINE delta == [m \in DOMAIN memtables |-> -One(m = mem)]
  <2>1. delta \in [DOMAIN memtables -> Int]
    BY DEF One
  <2>2. memtables' = Counted(memtables, delta)
    BY <1>9 DEF CloseRelease
  <2> HIDE DEF delta
  <2> QED BY <1>3, <1>9, <2>1, <2>2 DEF CloseRelease, MemShape
<1>10. ASSUME CompactionFail(Bg) PROVE MemShape'
  BY <1>10, ConstantsAssumption DEF CompactionFail, FailIO, MemShape
<1>11. ASSUME UNCHANGED <<acked, memtables, mem, imm, ioFailures>>,
              immFlushing' \in BOOLEAN
       PROVE  MemShape'
  BY <1>11 DEF MemShape
<1>12. ASSUME NEW t \in Flushers, FlushBegin(t) \/ FlushSkip(t) PROVE MemShape'
  BY <1>11, <1>12 DEF FlushBegin, FlushSkip, MemShape
<1>13. ASSUME NEW w \in Writers, MakeRoomWait(w) PROVE MemShape'
  BY <1>11, <1>13 DEF MakeRoomWait, MemShape
<1>14. ASSUME \/ CompactionBegin(Bg) \/ CompactionSkip(Bg) \/ LoadNumber(Bg)
              \/ OpenOutput(Bg) \/ FinishOutput(Bg) \/ CompactionCommit(Bg)
       PROVE  MemShape'
  BY <1>11, <1>14 DEF CompactionBegin, CompactionSkip, LoadNumber, OpenOutput,
                      FinishOutput, CompactionCommit, MemShape
<1>15. ASSUME UNCHANGED vars PROVE MemShape'
  BY <1>11, <1>15 DEF vars, MemShape
<1> QED
  <2> USE Workers
  <2> QED BY <1>1, <1>2, <1>4, <1>5, <1>7, <1>8, <1>9, <1>10, <1>12, <1>13,
             <1>14, <1>15 DEF Next, Flushers, Closed

LEMMA MoreTables ==
  ASSUME NEW n \in Nat, NEW s \in Seq(1..n)
  PROVE  s \in Seq(1..n + 1) /\ Append(s, n + 1) \in Seq(1..n + 1)
<1>1. 1..n \subseteq 1..n + 1 /\ n + 1 \in 1..n + 1
  OBVIOUS
<1>2. s \in Seq(1..n + 1)
  BY <1>1
<1> QED BY <1>1, <1>2

\* What CompactionCommit makes of the levels.
LEMMA NewLevels ==
  ASSUME Shape, Outputs(Bg) \subseteq DOMAIN tables, CompactionCommit(Bg)
  PROVE  LET gone1 == {level1[i] : i \in job[Bg].positions \cap DOMAIN level1}
         IN  /\ level0' \in Seq(DOMAIN tables) /\ level1' \in Seq(DOMAIN tables)
             /\ ToSet(level0') = ToSet(level0) \ job[Bg].l0
             /\ ToSet(level1') = (ToSet(level1) \ gone1) \cup Outputs(Bg)
             /\ level1' \in ByFirstKey((ToSet(level1) \ gone1) \cup Outputs(Bg))
             /\ level0' \in Without(level0, job[Bg].l0)
<1> DEFINE gone1 == {level1[i] : i \in job[Bg].positions \cap DOMAIN level1}
           ids == (ToSet(level1) \ gone1) \cup Outputs(Bg)
<1>1. /\ level0 \in Seq(DOMAIN tables) /\ level1 \in Seq(DOMAIN tables)
      /\ Len(tables) \in Nat /\ DOMAIN tables = 1..Len(tables)
  BY DEF Shape, TableShape
<1>2. level0' \in Without(level0, job[Bg].l0) /\ level1' \in ByFirstKey(ids)
  BY DEF CompactionCommit
<1>3. level0' \in Seq(DOMAIN tables) /\ ToSet(level0') = ToSet(level0) \ job[Bg].l0
  BY <1>1, <1>2, WithoutKeepsOrder
<1>4. ToSet(level1) \subseteq DOMAIN tables
  BY <1>1 DEF ToSet
<1>5. ids \subseteq DOMAIN tables
  BY <1>4
<1>6. IsFiniteSet(ids)
  <2> HIDE DEF ids
  <2>1. IsFiniteSet(1..Len(tables))
    BY <1>1, FS_Interval
  <2> QED BY <1>1, <1>5, <2>1, FS_Subset
<1> HIDE DEF ids
<1>7. level1' \in Seq(ids) /\ ToSet(level1') = ids
  BY <1>2, <1>6, SeqsOfSet DEF ByFirstKey
<1>8. level1' \in Seq(DOMAIN tables)
  BY <1>5, <1>7
<1> QED BY <1>2, <1>3, <1>7, <1>8 DEF ids

\* What a flush writes are keys.
LEMMA FlushedKeys ==
  ASSUME Shape, FlushInv, NEW t \in Flushers, pc[t] = "build"
  PROVE  memtables[job[t].imm].data \in SUBSET Keys
<1>1. job[t].imm = imm /\ imm # None
  BY DEF FlushInv
<1>2. imm \in 1..Len(memtables)
  BY <1>1 DEF Shape, MemShape, None
<1>3. /\ memtables \in Seq(MemTables) /\ DOMAIN memtables = 1..Len(memtables)
      /\ \A m \in DOMAIN memtables : memtables[m] \in MemTables
  BY SeqElements DEF Shape, MemShape, MemTables
<1> QED BY <1>1, <1>2, <1>3 DEF MemTables

LEMMA TableShapeStep ==
  ASSUME IInv, OneCompactor, [Next]_vars
  PROVE  TableShape'
<1> USE DEF IInv, Shape
<1>0. /\ Len(tables) \in Nat /\ DOMAIN tables = 1..Len(tables)
      /\ tables \in Seq(SSTables)
  BY SeqElements DEF TableShape, SSTables
<1>1. ASSUME NEW delta \in [DOMAIN tables -> Int],
             tables' = Counted(tables, delta),
             level0' \in Seq(DOMAIN tables), level1' \in Seq(DOMAIN tables),
             UNCHANGED nextFile, files' \subseteq files
      PROVE  TableShape'
  <2>1. tables' \in Seq(SSTables) /\ DOMAIN tables' = DOMAIN tables
    BY <1>1, SSTablesCounted
  <2> QED BY <1>1, <2>1 DEF TableShape, SSTables
<1>2. ASSUME NEW t \in Flushers, NEW data \in SUBSET Keys, NewTable(t, data),
             level0' \in {level0, Append(level0, Len(tables) + 1)},
             UNCHANGED <<level1, nextFile, files>>
      PROVE  TableShape'
  <2>1. tables' \in Seq(SSTables) /\ DOMAIN tables' = 1..Len(tables) + 1
    BY <1>2, NewSSTable
  <2>2. level0' \in Seq(DOMAIN tables') /\ level1' \in Seq(DOMAIN tables')
    BY <1>0, <1>2, <2>1, MoreTables DEF TableShape
  <2> QED BY <1>2, <2>1, <2>2 DEF TableShape, SSTables
<1>3. ASSUME UNCHANGED <<tables, level0, level1>>,
             nextFile' \in 1..MaxFileNumber + 1, files' \subseteq 1..MaxFileNumber
      PROVE  TableShape'
  BY <1>3 DEF TableShape
<1>4. ASSUME UNCHANGED <<tables, level0, level1, nextFile, files>>
      PROVE  TableShape'
  BY <1>4 DEF TableShape
<1>5. ASSUME NEW r \in Readers, BeginRead(r) PROVE TableShape'
  <2> DEFINE delta == [x \in DOMAIN tables |-> One(x \in Levels)]
  <2>1. delta \in [DOMAIN tables -> Int]
    BY DEF One
  <2>2. tables' = Counted(tables, delta)
    BY <1>5 DEF BeginRead
  <2> HIDE DEF delta
  <2> QED BY <1>1, <1>5, <2>1, <2>2 DEF BeginRead, TableShape
<1>6. ASSUME NEW r \in Readers, EndRead(r) PROVE TableShape'
  <2> DEFINE delta == [x \in DOMAIN tables |-> -One(x \in Held(snap[r]))]
  <2>1. delta \in [DOMAIN tables -> Int]
    BY DEF One
  <2>2. tables' = Counted(tables, delta)
    BY <1>6 DEF EndRead
  <2> HIDE DEF delta
  <2> QED BY <1>1, <1>6, <2>1, <2>2 DEF EndRead, TableShape
<1>7. ASSUME NEW t \in Flushers, FlushBegin(t) PROVE TableShape'
  <2>1. /\ UNCHANGED <<tables, level0, level1>> /\ nextFile <= MaxFileNumber
        /\ nextFile' = nextFile + 1 /\ files' = files \cup {nextFile}
    BY <1>7 DEF FlushBegin, TakeNumber
  <2>2. nextFile \in 1..MaxFileNumber /\ nextFile' \in 1..MaxFileNumber + 1
    BY <2>1, ConstantsAssumption DEF TableShape
  <2> QED BY <1>3, <2>1, <2>2 DEF TableShape
<1>8. ASSUME NEW t \in Flushers, FlushCommit(t) PROVE TableShape'
  <2>1. memtables[job[t].imm].data \in SUBSET Keys
    BY <1>8, FlushedKeys DEF FlushCommit
  <2> QED BY <1>2, <1>8, <2>1 DEF FlushCommit, PushTable
<1>9. ASSUME NEW t \in Flushers, FlushFail(t) PROVE TableShape'
  <2>1. files' \subseteq files
    BY <1>9 DEF FlushFail
  <2> QED BY <1>3, <1>9, <2>1 DEF FlushFail, TableShape
<1>10. ASSUME CompactionBegin(Bg) PROVE TableShape'
  <2> DEFINE inputs == ToSet(level0)
               \cup {level1[i] : i \in {i \in DOMAIN level1 : Overlaps(level1[i])}}
             delta == [x \in DOMAIN tables |-> One(x \in inputs)]
  <2>1. delta \in [DOMAIN tables -> Int]
    BY DEF One
  <2>2. tables' = Counted(tables, delta)
    BY <1>10 DEF CompactionBegin
  <2> HIDE DEF delta
  <2> QED BY <1>1, <1>10, <2>1, <2>2 DEF CompactionBegin, TableShape
<1>11. ASSUME OpenOutput(Bg) PROVE TableShape'
  <2>1. job[Bg].num \in 1..MaxFileNumber
    BY <1>11 DEF OpenOutput, MergeInv
  <2>2. /\ UNCHANGED <<tables, level0, level1>>
        /\ nextFile' = job[Bg].num + 1 /\ files' = files \cup {job[Bg].num}
    BY <1>11 DEF OpenOutput, StoreNumber
  <2>3. nextFile' \in 1..MaxFileNumber + 1
    BY <2>1, <2>2, ConstantsAssumption
  <2> QED BY <1>3, <2>1, <2>2, <2>3 DEF TableShape
<1>12. ASSUME FinishOutput(Bg) PROVE TableShape'
  <2>1. Batch(job[Bg].todo) \in SUBSET Keys /\ Bg \in Flushers
    BY Workers DEF Batch, LocalShape, Job
  <2>2. /\ NewTable(Bg, Batch(job[Bg].todo))
        /\ UNCHANGED <<level0, level1, nextFile, files>>
    BY <1>12 DEF FinishOutput
  <2> QED BY <1>2, <2>1, <2>2
<1>13. ASSUME CompactionFail(Bg) PROVE TableShape'
  <2> DEFINE delta == [x \in DOMAIN tables |->
                         -One(x \in Inputs(Bg) \cup Outputs(Bg))]
  <2>1. delta \in [DOMAIN tables -> Int]
    BY DEF One
  <2>2. tables' = Counted(tables, delta)
    BY <1>13 DEF CompactionFail
  <2> HIDE DEF delta
  <2> QED BY <1>1, <1>13, <2>1, <2>2 DEF CompactionFail, TableShape
<1>14. ASSUME CompactionCommit(Bg) PROVE TableShape'
  <2> DEFINE gone1 == {level1[i] : i \in job[Bg].positions \cap DOMAIN level1}
             delta == [x \in DOMAIN tables |->
                         -One(x \in job[Bg].l0) - One(x \in gone1)
                           - One(x \in Inputs(Bg))]
  <2>1. delta \in [DOMAIN tables -> Int]
    BY DEF One
  <2>2. tables' = Counted(tables, delta)
    BY <1>14 DEF CompactionCommit
  <2>3. files' \subseteq files /\ UNCHANGED nextFile
    BY <1>14 DEF CompactionCommit
  <2> HIDE DEF delta
  <2>4. Outputs(Bg) \subseteq DOMAIN tables
    BY DEF MergeInv
  <2>5. level0' \in Seq(DOMAIN tables) /\ level1' \in Seq(DOMAIN tables)
    BY <1>14, <2>4, NewLevels
  <2> QED BY <1>1, <2>1, <2>2, <2>3, <2>5
<1>15. ASSUME NEW t \in Closers, CloseRelease(t) PROVE TableShape'
  <2> DEFINE delta == [x \in DOMAIN tables |-> -One(x \in Levels)]
  <2>1. delta \in [DOMAIN tables -> Int]
    BY DEF One
  <2>2. tables' = Counted(tables, delta)
    BY <1>15 DEF CloseRelease
  <2>3. <<>> \in Seq(DOMAIN tables)
    OBVIOUS
  <2> HIDE DEF delta
  <2> QED BY <1>1, <1>15, <2>1, <2>2, <2>3 DEF CloseRelease, TableShape
<1>16. ASSUME NEW w \in Writers, NEW k \in Unwritten,
              PutFast(w, k) \/ SwitchMemTable(w, k)
       PROVE  TableShape'
  BY <1>4, <1>16 DEF PutFast, SwitchMemTable
<1>17. ASSUME NEW w \in Writers, MakeRoomWait(w) PROVE TableShape'
  BY <1>4, <1>17 DEF MakeRoomWait
<1>18. ASSUME NEW t \in Flushers, FlushSkip(t) PROVE TableShape'
  BY <1>4, <1>18 DEF FlushSkip
<1>19. ASSUME CompactionSkip(Bg) \/ LoadNumber(Bg) PROVE TableShape'
  BY <1>4, <1>19 DEF CompactionSkip, LoadNumber
<1>20. ASSUME UNCHANGED vars PROVE TableShape'
  BY <1>4, <1>20 DEF vars
<1> QED
  <2> USE Workers
  <2> QED BY <1>5, <1>6, <1>7, <1>8, <1>9, <1>10, <1>11, <1>12, <1>13, <1>14,
             <1>15, <1>16, <1>17, <1>18, <1>19, <1>20 DEF Next, Flushers, Closed

\* The levels are sequences of tables.
LEMMA LevelIsSet ==
  ASSUME Shape
  PROVE  /\ ToSet(level0) \subseteq DOMAIN tables
         /\ ToSet(level1) \subseteq DOMAIN tables
         /\ \A i \in DOMAIN level1 : level1[i] \in DOMAIN tables /\ i \in Nat
         /\ DOMAIN tables = 1..Len(tables) /\ Len(tables) \in Nat
BY SeqElements DEF Shape, TableShape, ToSet

LEMMA LocalShapeStep ==
  ASSUME IInv, OneCompactor, [Next]_vars
  PROVE  LocalShape'
<1> USE DEF IInv, Shape
<1>w. /\ Bg \in Flushers /\ Closers \subseteq Flushers /\ Flushers \subseteq Threads
      /\ Writers \subseteq Threads /\ Bg \in Threads
  BY Workers
<1>0. NoJob \in Job /\ NoSnap \in Snap
  BY DEF NoJob, NoSnap, Job, Snap, None
<1>t. /\ Len(tables) \in Nat /\ DOMAIN tables = 1..Len(tables)
      /\ level0 \in Seq(Nat) /\ level1 \in Seq(Nat)
  BY DEF TableShape
<1>1. ASSUME NEW t \in Threads, NEW label \in Labels, Goto(t, label),
             UNCHANGED <<job, snap>>
      PROVE  LocalShape'
  BY <1>1 DEF Goto, LocalShape
<1>2. ASSUME NEW t \in Flushers, NEW label \in Labels, Goto(t, label),
             NEW j \in Job, job' = [job EXCEPT ![t] = j], UNCHANGED snap
      PROVE  LocalShape'
  BY <1>2, <1>w DEF Goto, LocalShape
<1>3. ASSUME NEW r \in Readers, NEW v \in Snap, snap' = [snap EXCEPT ![r] = v],
             UNCHANGED <<pc, job>>
      PROVE  LocalShape'
  BY <1>3 DEF LocalShape
<1>4. ASSUME UNCHANGED <<pc, job, snap>> PROVE LocalShape'
  BY <1>4 DEF LocalShape
<1>l. /\ {"idle", "makeRoom", "build", "merge", "store", "output"} \subseteq Labels
      /\ \A t : AfterFlush(t) \in Labels /\ AfterCompaction(t) \in Labels
  BY DEF Labels, AfterFlush, AfterCompaction
<1>5. ASSUME NEW w \in Writers, NEW k \in Unwritten,
             PutFast(w, k) \/ SwitchMemTable(w, k)
      PROVE  LocalShape'
  BY <1>1, <1>4, <1>5, <1>w, <1>l DEF PutFast, SwitchMemTable
<1>6. ASSUME NEW w \in Writers, MakeRoomWait(w) PROVE LocalShape'
  BY <1>1, <1>6, <1>w, <1>l DEF MakeRoomWait
<1>7. ASSUME NEW r \in Readers, BeginRead(r) PROVE LocalShape'
  <2> DEFINE v == [mem |-> mem, imm |-> imm, l0 |-> level0, l1 |-> level1]
  <2>1. v \in Snap
    BY <1>t DEF Snap, MemShape
  <2> QED BY <1>3, <1>7, <2>1 DEF BeginRead
<1>8. ASSUME NEW r \in Readers, EndRead(r) PROVE LocalShape'
  BY <1>0, <1>3, <1>8 DEF EndRead
<1>9. ASSUME NEW t \in Flushers, FlushBegin(t) PROVE LocalShape'
  <2> DEFINE j == [NoJob EXCEPT !.num = nextFile, !.imm = imm]
  <2>1. nextFile \in Nat /\ imm \in Nat
    BY DEF TableShape, MemShape
  <2>2. j \in Job
    BY <1>0, <2>1 DEF Job
  <2> QED BY <1>2, <1>9, <1>l, <2>2 DEF FlushBegin, TakeNumber
<1>10. ASSUME NEW t \in Flushers, FlushSkip(t) PROVE LocalShape'
  BY <1>1, <1>10, <1>w, <1>l DEF FlushSkip
<1>11. ASSUME NEW t \in Flushers, FlushCommit(t) \/ FlushFail(t) PROVE LocalShape'
  BY <1>0, <1>2, <1>11, <1>l DEF FlushCommit, FlushFail
<1>12. ASSUME CompactionBegin(Bg) PROVE LocalShape'
  <2> DEFINE positions == {i \in DOMAIN level1 : Overlaps(level1[i])}
             inputs == ToSet(level0) \cup {level1[i] : i \in positions}
             j == [NoJob EXCEPT !.l0 = ToSet(level0),
                                !.l1 = {level1[i] : i \in positions},
                                !.positions = positions,
                                !.todo = UNION {tables[x].data : x \in inputs}]
  <2>1. job' = [job EXCEPT ![Bg] = j] /\ Goto(Bg, "merge") /\ UNCHANGED snap
    BY <1>12 DEF CompactionBegin
  <2>2. inputs \subseteq DOMAIN tables /\ positions \subseteq Nat
    BY LevelIsSet
  <2>3. \A x \in inputs : tables[x].data \subseteq Keys
    <3>1. \A x \in DOMAIN tables : tables[x] \in SSTables
      BY SeqElements DEF TableShape, SSTables
    <3> QED BY <2>2, <3>1 DEF SSTables
  <2>4. /\ ToSet(level0) \subseteq Nat /\ {level1[i] : i \in positions} \subseteq Nat
        /\ UNION {tables[x].data : x \in inputs} \subseteq Keys
    <3>1. DOMAIN tables \subseteq Nat
      BY <1>t
    <3> QED BY <2>2, <2>3, <3>1
  <2>5. j \in Job
    <3> DEFINE l1 == {level1[i] : i \in positions}
               todo == UNION {tables[x].data : x \in inputs}
    <3> HIDE DEF positions, inputs, l1, todo
    <3>1. ToSet(level0) \in SUBSET Nat /\ l1 \in SUBSET Nat /\ todo \in SUBSET Keys
      BY <2>4 DEF l1, todo
    <3>2. [NoJob EXCEPT !.l0 = ToSet(level0), !.l1 = l1, !.positions = positions,
                        !.todo = todo] \in Job
      BY <1>0, <2>2, <3>1 DEF Job
    <3> QED BY <3>2 DEF l1, todo
  <2> HIDE DEF j
  <2> QED BY <1>2, <1>l, <1>w, <2>1, <2>5
<1>13. ASSUME CompactionSkip(Bg) PROVE LocalShape'
  BY <1>1, <1>13, <1>w, <1>l DEF CompactionSkip
<1>j. job[Bg] \in Job
  BY <1>w DEF LocalShape
<1>14. ASSUME LoadNumber(Bg) PROVE LocalShape'
  <2> DEFINE j == [job[Bg] EXCEPT !.num = nextFile]
  <2>1. j \in Job
    <3>1. nextFile \in Nat
      BY DEF TableShape
    <3> QED BY <1>j, <3>1 DEF Job
  <2>2. job' = [job EXCEPT ![Bg] = j]
    BY <1>14, <1>w DEF LoadNumber, LocalShape
  <2> HIDE DEF j
  <2> QED BY <1>2, <1>14, <1>l, <1>w, <2>1, <2>2 DEF LoadNumber
<1>15. ASSUME OpenOutput(Bg) PROVE LocalShape'
  BY <1>1, <1>15, <1>w, <1>l DEF OpenOutput
<1>16. ASSUME FinishOutput(Bg) PROVE LocalShape'
  <2> DEFINE j == [job[Bg] EXCEPT !.todo = @ \ Batch(@),
                                  !.out = Append(@, Len(tables) + 1),
                                  !.num = None]
  <2>1. j \in Job
    <3>1. Append(job[Bg].out, Len(tables) + 1) \in Seq(Nat)
      BY <1>j, <1>t DEF Job
    <3>2. job[Bg].todo \ Batch(job[Bg].todo) \in SUBSET Keys
      BY <1>j DEF Job
    <3> DEFINE todo == job[Bg].todo \ Batch(job[Bg].todo)
               out == Append(job[Bg].out, Len(tables) + 1)
    <3>3. j = [job[Bg] EXCEPT !.todo = todo, !.out = out, !.num = None]
      BY <1>j DEF Job
    <3> HIDE DEF todo, out
    <3>4. [job[Bg] EXCEPT !.todo = todo, !.out = out, !.num = None] \in Job
      <4>1. todo \in SUBSET Keys /\ out \in Seq(Nat) /\ None \in Nat
        BY <3>1, <3>2 DEF todo, out, None
      <4> QED BY <1>j, <4>1 DEF Job
    <3> QED BY <3>3, <3>4
  <2>2. job' = [job EXCEPT ![Bg] = j]
    BY <1>16, <1>w DEF FinishOutput, LocalShape
  <2> HIDE DEF j
  <2> QED BY <1>2, <1>16, <1>l, <1>w, <2>1, <2>2 DEF FinishOutput
<1>17. ASSUME CompactionFail(Bg) \/ CompactionCommit(Bg) PROVE LocalShape'
  BY <1>0, <1>2, <1>17, <1>l, <1>w DEF CompactionFail, CompactionCommit
<1>18. ASSUME NEW t \in Closers, CloseRelease(t) PROVE LocalShape'
  BY <1>18, <1>w DEF CloseRelease, LocalShape, Labels
<1>19. ASSUME UNCHANGED vars PROVE LocalShape'
  BY <1>4, <1>19 DEF vars
<1> QED
  <2> USE Workers
  <2> QED BY <1>5, <1>6, <1>7, <1>8, <1>9, <1>10, <1>11, <1>12, <1>13, <1>14,
             <1>15, <1>16, <1>17, <1>18, <1>19 DEF Next, Flushers, Closed

LEMMA StagesStep ==
  ASSUME IInv, OneCompactor, [Next]_vars
  PROVE  StagesInv'
<1> USE DEF IInv, Shape
<1>w. /\ Flushers = {Bg} \cup Closers /\ Threads = Writers \cup {Bg} \cup Closers
      /\ Bg \notin Closers /\ Bg \notin Writers /\ Writers \cap Closers = {}
      /\ \A t, u \in Closers : t = u
  BY Workers, ConstantsAssumption
<1>p. pc \in [Threads -> Labels]
  BY DEF LocalShape
<1>1. ASSUME UNCHANGED <<pc, mem>>, imm' \in {imm, None} PROVE StagesInv'
  BY <1>1 DEF StagesInv
<1>2. ASSUME NEW label, Goto(Bg, label), UNCHANGED mem, imm' \in {imm, None},
             label \in {"flush", "build", "compact", "exited"} \cup Merging
      PROVE  StagesInv'
  BY <1>2, <1>p, <1>w DEF StagesInv, Goto
<1>3. ASSUME NEW t \in Closers, NEW label \in {"build", "join"}, Goto(t, label),
             \A w \in Writers : pc[w] = "idle", UNCHANGED mem, mem # None,
             imm' \in {imm, None}
      PROVE  StagesInv'
  BY <1>3, <1>p, <1>w DEF StagesInv, Goto
<1>4. ASSUME NEW w \in Writers, NEW k \in Unwritten, PutFast(w, k)
      PROVE  StagesInv'
  BY <1>1, <1>4 DEF PutFast
<1>5. ASSUME NEW w \in Writers, NEW k \in Unwritten, SwitchMemTable(w, k)
      PROVE  StagesInv'
  <2>1. /\ imm' = mem /\ mem' = Len(memtables) + 1 /\ pc' = [pc EXCEPT ![w] = "idle"]
    BY <1>5 DEF SwitchMemTable, Goto
  <2>2. mem' # mem /\ mem' # None
    BY <2>1 DEF MemShape, None
  <2> QED BY <2>1, <2>2, <1>p, <1>w DEF StagesInv
<1>6. ASSUME NEW w \in Writers, MakeRoomWait(w) PROVE StagesInv'
  <2>1. /\ pc' = [pc EXCEPT ![w] = "makeRoom"] /\ UNCHANGED <<mem, imm>>
        /\ \A t \in Closers : pc[t] = "idle"
    BY <1>6 DEF MakeRoomWait, Goto, Open
  <2> QED BY <2>1, <1>p, <1>w DEF StagesInv
<1>7. ASSUME NEW r \in Readers, BeginRead(r) \/ EndRead(r) PROVE StagesInv'
  BY <1>1, <1>7 DEF BeginRead, EndRead
<1>8. ASSUME NEW t \in Flushers, FlushBegin(t) \/ FlushSkip(t) PROVE StagesInv'
  <2>1. CASE t = Bg
    BY <1>2, <1>8, <1>w, <2>1 DEF FlushBegin, FlushSkip, AfterFlush
  <2>2. CASE t \in Closers
    <3>1. \A w \in Writers : pc[w] = "idle"
      BY <1>8, <1>w, <2>2, ConstantsAssumption DEF FlushBegin, FlushSkip, MayFlush
    <3>2. pc[t] = "idle" /\ mem # None
      BY <1>8, <1>w, <2>2, ConstantsAssumption
         DEF FlushBegin, FlushSkip, MayFlush, StagesInv
    <3> QED BY <1>3, <1>8, <2>2, <3>1, <3>2 DEF FlushBegin, FlushSkip, AfterFlush
  <2> QED BY <1>w, <2>1, <2>2
<1>9. ASSUME NEW t \in Flushers, FlushCommit(t) \/ FlushFail(t) PROVE StagesInv'
  <2>1. imm' \in {imm, None} /\ UNCHANGED mem /\ pc[t] = "build"
        /\ Goto(t, AfterFlush(t))
    BY <1>9 DEF FlushCommit, FlushFail, DropUnlessBackground, ReleaseImm
  <2>2. CASE t = Bg
    BY <1>2, <1>w, <2>1, <2>2 DEF AfterFlush
  <2>3. CASE t \in Closers
    <3>1. (\A w \in Writers : pc[w] = "idle") /\ mem # None
      BY <2>1, <2>3 DEF StagesInv
    <3> QED BY <1>3, <2>1, <2>3, <3>1 DEF AfterFlush
  <2> QED BY <1>w, <2>2, <2>3
<1>10. ASSUME \/ CompactionBegin(Bg) \/ CompactionSkip(Bg) \/ LoadNumber(Bg)
              \/ OpenOutput(Bg) \/ FinishOutput(Bg) \/ CompactionFail(Bg)
              \/ CompactionCommit(Bg)
       PROVE  StagesInv'
  BY <1>2, <1>10 DEF CompactionBegin, CompactionSkip, LoadNumber, OpenOutput,
     FinishOutput, CompactionFail, CompactionCommit, AfterCompaction, Merging
<1>11. ASSUME NEW t \in Closers, CloseRelease(t) PROVE StagesInv'
  <2>1. /\ pc' = [pc EXCEPT ![t] = "closed", ![Bg] = "exited"] /\ mem' = None
        /\ pc[t] = "join"
    BY <1>11 DEF CloseRelease
  <2> QED BY <1>p, <1>w, <2>1 DEF StagesInv
<1>12. ASSUME UNCHANGED vars PROVE StagesInv'
  BY <1>1, <1>12 DEF vars
<1> QED
  <2> USE Workers
  <2> QED BY <1>4, <1>5, <1>6, <1>7, <1>8, <1>9, <1>10, <1>11, <1>12
          DEF Next, Flushers, Closed

LEMMA FlushStep ==
  ASSUME IInv, OneCompactor, [Next]_vars
  PROVE  FlushInv'
<1> USE DEF IInv, Shape
<1>w. /\ Flushers = {Bg} \cup Closers /\ Threads = Writers \cup {Bg} \cup Closers
      /\ Bg \notin Closers /\ Bg \notin Writers /\ Writers \cap Closers = {}
      /\ Flushers \cap Writers = {} /\ Flushers \subseteq Threads
  BY Workers
<1>p. pc \in [Threads -> Labels] /\ job \in [Flushers -> Job]
  BY DEF LocalShape
<1>1. ASSUME UNCHANGED <<imm, immFlushing, job>>,
             \A t \in Flushers : pc'[t] = "build" <=> pc[t] = "build"
      PROVE  FlushInv'
  BY <1>1 DEF FlushInv
<1>l. /\ {"idle", "makeRoom", "merge", "store", "output"} \subseteq Labels \ {"build"}
      /\ \A t : /\ AfterFlush(t) \in Labels \ {"build"}
                /\ AfterCompaction(t) \in Labels \ {"build"}
  BY DEF Labels, AfterFlush, AfterCompaction
<1>n. NoJob.imm = None
  BY DEF NoJob
<1>3. ASSUME NEW t \in Flushers, FlushBegin(t) PROVE FlushInv'
  <2>1. /\ imm # None /\ ~immFlushing /\ immFlushing' /\ imm' = imm
        /\ pc' = [pc EXCEPT ![t] = "build"]
        /\ job' = [job EXCEPT ![t] = [NoJob EXCEPT !.num = nextFile, !.imm = imm]]
        /\ nextFile \in 1..MaxFileNumber
    BY <1>3, ConstantsAssumption
       DEF FlushBegin, FlushWanted, TakeNumber, Goto, TableShape
  <2>2. job'[t].imm = imm /\ job'[t].num \in 1..MaxFileNumber
    BY <1>p, <2>1 DEF NoJob
  <2>3. \A u \in Flushers : pc[u] # "build"
    BY <2>1 DEF FlushInv
  <2>4. /\ pc'[t] = "build"
        /\ \A u \in Flushers \ {t} : pc'[u] = pc[u] /\ job'[u] = job[u]
    BY <1>p, <1>w, <2>1
  <2> QED BY <2>1, <2>2, <2>3, <2>4 DEF FlushInv
<1>4. ASSUME NEW t \in Flushers, FlushSkip(t) PROVE FlushInv'
  <2>1. pc[t] # "build"
    BY <1>4 DEF FlushSkip, MayFlush
  <2>2. /\ UNCHANGED <<imm, immFlushing, job>> /\ pc' = [pc EXCEPT ![t] = AfterFlush(t)]
    BY <1>4 DEF FlushSkip, Goto
  <2>3. AfterFlush(t) # "build"
    BY <1>l
  <2> QED BY <1>1, <1>p, <1>w, <2>1, <2>2, <2>3
<1>5. ASSUME NEW t \in Flushers, FlushCommit(t) \/ FlushFail(t) PROVE FlushInv'
  <2>1. /\ pc[t] = "build" /\ pc' = [pc EXCEPT ![t] = AfterFlush(t)]
        /\ job' = [job EXCEPT ![t] = NoJob]
    BY <1>5 DEF FlushCommit, FlushFail, Goto
  <2>2. \A u \in Flushers \ {t} : pc[u] # "build" /\ job[u].imm = None
    BY <2>1 DEF FlushInv
  <2>3. \A u \in Flushers : pc'[u] # "build" /\ job'[u].imm = None
    BY <1>l, <1>n, <1>p, <1>w, <2>1, <2>2
  <2> QED BY <2>3 DEF FlushInv
<1>6. ASSUME CompactionBegin(Bg) PROVE FlushInv'
  <2> DEFINE positions == {i \in DOMAIN level1 : Overlaps(level1[i])}
             inputs == ToSet(level0) \cup {level1[i] : i \in positions}
             j == [NoJob EXCEPT !.l0 = ToSet(level0),
                                !.l1 = {level1[i] : i \in positions},
                                !.positions = positions,
                                !.todo = UNION {tables[x].data : x \in inputs}]
  <2>1. job' = [job EXCEPT ![Bg] = j] /\ pc' = [pc EXCEPT ![Bg] = "merge"]
        /\ pc[Bg] = "compact" /\ UNCHANGED <<imm, immFlushing>>
    BY <1>6 DEF CompactionBegin, Goto
  <2>2. j.imm = None
    BY <1>n DEF NoJob
  <2> HIDE DEF j
  <2>3. /\ pc'[Bg] # "build" /\ job'[Bg].imm = None
        /\ \A t \in Flushers \ {Bg} : pc'[t] = pc[t] /\ job'[t] = job[t]
    BY <1>p, <1>w, <2>1, <2>2
  <2> QED BY <1>w, <2>1, <2>3 DEF FlushInv
<1>7. ASSUME LoadNumber(Bg) \/ FinishOutput(Bg) PROVE FlushInv'
  <2>1. /\ pc[Bg] \in Merging /\ pc'[Bg] # "build" /\ UNCHANGED <<imm, immFlushing>>
        /\ \A t \in Flushers \ {Bg} : pc'[t] = pc[t] /\ job'[t] = job[t]
    BY <1>7, <1>p, <1>w DEF LoadNumber, FinishOutput, Goto, Merging
  <2>2. job'[Bg].imm = job[Bg].imm
    BY <1>7, <1>p, <1>w DEF LoadNumber, FinishOutput, Job
  <2> QED BY <1>w, <2>1, <2>2 DEF FlushInv, Merging
<1>8. ASSUME OpenOutput(Bg) \/ CompactionSkip(Bg) PROVE FlushInv'
  BY <1>1, <1>8, <1>l, <1>p, <1>w DEF OpenOutput, CompactionSkip, Goto
<1>9. ASSUME CompactionFail(Bg) \/ CompactionCommit(Bg) PROVE FlushInv'
  <2>1. /\ pc[Bg] # "build" /\ pc' = [pc EXCEPT ![Bg] = AfterCompaction(Bg)]
        /\ job' = [job EXCEPT ![Bg] = NoJob] /\ UNCHANGED <<imm, immFlushing>>
    BY <1>9 DEF CompactionFail, CompactionCommit, Goto
  <2>2. /\ pc'[Bg] # "build" /\ job'[Bg].imm = None
        /\ \A t \in Flushers \ {Bg} : pc'[t] = pc[t] /\ job'[t] = job[t]
    BY <1>l, <1>n, <1>p, <1>w, <2>1
  <2> QED BY <1>w, <2>1, <2>2 DEF FlushInv
<1>10. ASSUME NEW w \in Writers, NEW k \in Unwritten, PutFast(w, k)
       PROVE  FlushInv'
  BY <1>1, <1>10 DEF PutFast
<1>11. ASSUME NEW w \in Writers, NEW k \in Unwritten, SwitchMemTable(w, k)
       PROVE  FlushInv'
  <2>1. \A t \in Flushers : pc[t] # "build" /\ pc'[t] = pc[t]
    BY <1>11, <1>p, <1>w DEF SwitchMemTable, FlushInv, Goto
  <2> QED BY <1>11, <2>1 DEF SwitchMemTable, FlushInv
<1>12. ASSUME NEW w \in Writers, MakeRoomWait(w) PROVE FlushInv'
  <2>1. \A t \in Flushers : pc'[t] = pc[t]
    BY <1>12, <1>p, <1>w DEF MakeRoomWait, Goto
  <2> QED BY <1>1, <1>12, <2>1 DEF MakeRoomWait
<1>13. ASSUME NEW r \in Readers, BeginRead(r) \/ EndRead(r) PROVE FlushInv'
  BY <1>1, <1>13 DEF BeginRead, EndRead
<1>14. ASSUME NEW t \in Closers, CloseRelease(t) PROVE FlushInv'
  BY <1>1, <1>14, <1>p, <1>w DEF CloseRelease
<1>15. ASSUME UNCHANGED vars PROVE FlushInv'
  BY <1>1, <1>15 DEF vars
<1> QED
  <2> USE Workers
  <2> QED BY <1>3, <1>4, <1>5, <1>6, <1>7, <1>8, <1>9, <1>10, <1>11, <1>12,
             <1>13, <1>14, <1>15 DEF Next, Flushers, Closed

LEMMA MergeStep ==
  ASSUME IInv, OneCompactor, [Next]_vars
  PROVE  MergeInv'
<1> USE DEF IInv, Shape
<1>w. /\ Flushers = {Bg} \cup Closers /\ Threads = Writers \cup {Bg} \cup Closers
      /\ Bg \notin Closers /\ Bg \notin Writers /\ Writers \cap Closers = {}
      /\ Flushers \cap Writers = {} /\ Flushers \subseteq Threads
  BY Workers
<1>p. pc \in [Threads -> Labels] /\ job \in [Flushers -> Job]
  BY DEF LocalShape
<1>t. /\ ToSet(level0) \subseteq DOMAIN tables /\ ToSet(level1) \subseteq DOMAIN tables
      /\ \A i \in DOMAIN level1 : level1[i] \in DOMAIN tables
      /\ DOMAIN tables = 1..Len(tables) /\ Len(tables) \in Nat
      /\ DOMAIN tables' = 1..Len(tables') /\ Len(tables') \in Nat
  BY LevelIsSet, TableShapeStep, SeqElements DEF TableShape
<1>l. \A t : AfterFlush(t) \notin Merging /\ AfterCompaction(t) \notin Merging
  BY DEF AfterFlush, AfterCompaction, Merging
<1>n. NoJob.l0 = {} /\ NoJob.l1 = {} /\ NoJob.out = <<>>
  BY DEF NoJob
<1>1. ASSUME UNCHANGED <<level0, level1>>, DOMAIN tables \subseteq DOMAIN tables',
             NEW t \in Flushers, pc[t] \notin Merging, pc'[t] \notin Merging,
             \A u \in Flushers \ {t} : pc'[u] = pc[u] /\ job'[u] = job[u],
             job'[t].l0 = {} /\ job'[t].l1 = {} /\ job'[t].out = <<>>
      PROVE  MergeInv'
  <2>1. CASE t = Bg
    <3>1. Outputs(Bg)' = {} /\ job'[Bg].l0 = {}
      BY <1>1, <2>1 DEF Outputs, ToSet
    <3>2. \A u \in Flushers : pc'[u] \notin Merging =>
            job'[u].l0 = {} /\ job'[u].l1 = {} /\ job'[u].out = <<>>
      BY <1>1, <2>1 DEF MergeInv
    <3> QED BY <1>1, <2>1, <3>1, <3>2 DEF MergeInv, Merging
  <2>2. CASE t # Bg
    BY <1>1, <1>w, <2>2 DEF MergeInv, Outputs, Levels, Merging
  <2> QED BY <2>1, <2>2
<1>2. ASSUME UNCHANGED <<level0, level1>>, DOMAIN tables' = DOMAIN tables,
             \A u \in Flushers : job'[u] = job[u] /\ pc'[u] = pc[u]
      PROVE  MergeInv'
  BY <1>2, <1>w DEF MergeInv, Outputs, Levels
<1>3. ASSUME NEW t \in Flushers, FlushBegin(t) PROVE MergeInv'
  <2>1. /\ UNCHANGED <<level0, level1, tables>> /\ pc' = [pc EXCEPT ![t] = "build"]
        /\ job' = [job EXCEPT ![t] = [NoJob EXCEPT !.num = nextFile, !.imm = imm]]
        /\ pc[t] \notin Merging
    BY <1>3 DEF FlushBegin, TakeNumber, Goto, MayFlush, Merging
  <2>2. job'[t].l0 = {} /\ job'[t].l1 = {} /\ job'[t].out = <<>>
    BY <1>p, <2>1 DEF NoJob
  <2>3. /\ pc'[t] \notin Merging
        /\ \A u \in Flushers \ {t} : pc'[u] = pc[u] /\ job'[u] = job[u]
    BY <1>p, <1>w, <2>1 DEF Merging
  <2> QED BY <1>1, <2>1, <2>2, <2>3
<1>4. ASSUME NEW t \in Flushers, FlushSkip(t) PROVE MergeInv'
  <2>1. /\ UNCHANGED <<level0, level1, tables, job>>
        /\ pc' = [pc EXCEPT ![t] = AfterFlush(t)] /\ pc[t] \notin Merging
    BY <1>4 DEF FlushSkip, Goto, MayFlush, Merging
  <2>2. job'[t].l0 = {} /\ job'[t].l1 = {} /\ job'[t].out = <<>>
    BY <2>1 DEF MergeInv
  <2>3. /\ pc'[t] \notin Merging
        /\ \A u \in Flushers \ {t} : pc'[u] = pc[u] /\ job'[u] = job[u]
    BY <1>l, <1>p, <1>w, <2>1
  <2> QED BY <1>1, <2>1, <2>2, <2>3
<1>5. ASSUME NEW t \in Flushers, FlushFail(t) PROVE MergeInv'
  <2>1. /\ UNCHANGED <<level0, level1, tables>> /\ pc[t] \notin Merging
        /\ pc' = [pc EXCEPT ![t] = AfterFlush(t)]
        /\ job' = [job EXCEPT ![t] = NoJob]
    BY <1>5 DEF FlushFail, Goto, Merging
  <2>2. /\ pc'[t] \notin Merging /\ job'[t] = NoJob
        /\ \A u \in Flushers \ {t} : pc'[u] = pc[u] /\ job'[u] = job[u]
    BY <1>l, <1>p, <1>w, <2>1
  <2> QED BY <1>1, <1>n, <2>1, <2>2
<1>6. ASSUME NEW t \in Flushers, FlushCommit(t) PROVE MergeInv'
  <2>1. /\ UNCHANGED level1 /\ level0' = Append(level0, Len(tables) + 1)
        /\ pc[t] \notin Merging /\ pc' = [pc EXCEPT ![t] = AfterFlush(t)]
        /\ job' = [job EXCEPT ![t] = NoJob]
    BY <1>6 DEF FlushCommit, Goto, Merging, PushTable
  <2>2. /\ pc'[t] \notin Merging /\ job'[t] = NoJob
        /\ \A u \in Flushers \ {t} : pc'[u] = pc[u] /\ job'[u] = job[u]
    BY <1>l, <1>p, <1>w, <2>1
  <2>3. ToSet(level0') = ToSet(level0) \cup {Len(tables) + 1}
    BY <2>1, AppendSet DEF TableShape
  <2>4. DOMAIN tables' = 1..Len(tables) + 1
    <3>1. tables' = Append(tables, [num |-> job[t].num,
                      data |-> memtables[job[t].imm].data, refs |-> 1])
      BY <1>6 DEF FlushCommit, NewTable
    <3>2. Len(tables') = Len(tables) + 1
      BY <3>1 DEF TableShape
    <3> QED BY <1>t, <3>2
  <2>5. Len(tables) + 1 \notin DOMAIN tables /\ DOMAIN tables \subseteq DOMAIN tables'
    BY <1>t, <2>4
  <2>6. ToSet(level0') \cap ToSet(level1') = {}
    BY <1>t, <2>1, <2>3, <2>5 DEF MergeInv
  <2>7. \A u \in Flushers : pc'[u] \notin Merging =>
            job'[u].l0 = {} /\ job'[u].l1 = {} /\ job'[u].out = <<>>
    BY <1>n, <2>2 DEF MergeInv
  <2>8. CASE t = Bg
    <3>1. Outputs(Bg)' = {} /\ job'[Bg].l0 = {}
      BY <1>n, <2>2, <2>8 DEF Outputs, ToSet
    <3> QED BY <2>2, <2>6, <2>7, <2>8, <3>1 DEF MergeInv, Merging
  <2>9. CASE t # Bg
    <3>1. pc'[Bg] = pc[Bg] /\ job'[Bg] = job[Bg]
      BY <1>w, <2>2, <2>9
    <3>2. Outputs(Bg)' \subseteq DOMAIN tables' \ Levels'
      BY <1>t, <2>1, <2>3, <2>5, <3>1 DEF MergeInv, Outputs, Levels
    <3> QED BY <2>1, <2>3, <2>6, <2>7, <3>1, <3>2 DEF MergeInv
  <2> QED BY <2>8, <2>9
<1>7. ASSUME CompactionBegin(Bg) PROVE MergeInv'
  <2> DEFINE positions == {i \in DOMAIN level1 : Overlaps(level1[i])}
             inputs == ToSet(level0) \cup {level1[i] : i \in positions}
             j == [NoJob EXCEPT !.l0 = ToSet(level0),
                                !.l1 = {level1[i] : i \in positions},
                                !.positions = positions,
                                !.todo = UNION {tables[x].data : x \in inputs}]
  <2>1. /\ job' = [job EXCEPT ![Bg] = j] /\ pc' = [pc EXCEPT ![Bg] = "merge"]
        /\ UNCHANGED <<level0, level1>>
        /\ tables' = Counted(tables, [x \in DOMAIN tables |-> One(x \in inputs)])
    BY <1>7 DEF CompactionBegin, Goto
  <2>2. /\ j.l0 = ToSet(level0) /\ j.l1 = {level1[i] : i \in positions}
        /\ j.positions = positions /\ j.out = <<>>
    BY DEF NoJob
  <2>3. positions \subseteq DOMAIN level1
    OBVIOUS
  <2> HIDE DEF j, positions
  <2>4. /\ pc'[Bg] = "merge" /\ job'[Bg] = j
        /\ \A t \in Flushers \ {Bg} : pc'[t] = pc[t] /\ job'[t] = job[t]
    BY <1>p, <1>w, <2>1
  <2>5. Outputs(Bg)' = {}
    BY <2>2, <2>4 DEF Outputs, ToSet
  <2>6. \A t \in Flushers : pc'[t] \notin Merging =>
          job'[t].l0 = {} /\ job'[t].l1 = {} /\ job'[t].out = <<>>
    BY <2>4 DEF MergeInv, Merging
  <2> QED BY <2>1, <2>2, <2>3, <2>4, <2>5, <2>6 DEF MergeInv
<1>8. ASSUME CompactionSkip(Bg) PROVE MergeInv'
  <2>1. /\ UNCHANGED <<level0, level1, tables, job>>
        /\ pc' = [pc EXCEPT ![Bg] = AfterCompaction(Bg)] /\ pc[Bg] \notin Merging
    BY <1>8 DEF CompactionSkip, Goto, Merging
  <2>2. job'[Bg].l0 = {} /\ job'[Bg].l1 = {} /\ job'[Bg].out = <<>>
    BY <1>w, <2>1 DEF MergeInv
  <2>3. /\ pc'[Bg] \notin Merging
        /\ \A u \in Flushers \ {Bg} : pc'[u] = pc[u] /\ job'[u] = job[u]
    BY <1>l, <1>p, <1>w, <2>1
  <2> QED BY <1>1, <1>w, <2>1, <2>2, <2>3
<1>9. ASSUME LoadNumber(Bg) PROVE MergeInv'
  <2>1. /\ pc[Bg] = "merge" /\ pc' = [pc EXCEPT ![Bg] = "store"]
        /\ job' = [job EXCEPT ![Bg].num = nextFile] /\ nextFile <= MaxFileNumber
        /\ UNCHANGED <<level0, level1, tables>>
    BY <1>9 DEF LoadNumber, Goto
  <2>2. /\ pc'[Bg] = "store" /\ job'[Bg] = [job[Bg] EXCEPT !.num = nextFile]
        /\ \A u \in Flushers \ {Bg} : pc'[u] = pc[u] /\ job'[u] = job[u]
    BY <1>p, <1>w, <2>1
  <2>3. /\ job'[Bg].l0 = job[Bg].l0 /\ job'[Bg].l1 = job[Bg].l1
        /\ job'[Bg].positions = job[Bg].positions /\ job'[Bg].out = job[Bg].out
        /\ job'[Bg].num = nextFile
    BY <1>p, <1>w, <2>2 DEF Job
  <2>4. nextFile \in 1..MaxFileNumber
    BY <2>1, ConstantsAssumption DEF TableShape
  <2>5. \A t \in Flushers : pc'[t] \notin Merging =>
          job'[t].l0 = {} /\ job'[t].l1 = {} /\ job'[t].out = <<>>
    BY <2>2 DEF MergeInv, Merging
  <2> QED BY <2>1, <2>2, <2>3, <2>4, <2>5 DEF MergeInv, Merging, Outputs, Levels
<1>10. ASSUME OpenOutput(Bg) PROVE MergeInv'
  <2>1. /\ pc[Bg] = "store" /\ pc' = [pc EXCEPT ![Bg] = "output"]
        /\ UNCHANGED <<level0, level1, tables, job>>
    BY <1>10 DEF OpenOutput, Goto
  <2>2. /\ pc'[Bg] = "output" /\ \A u \in Flushers \ {Bg} : pc'[u] = pc[u]
    BY <1>p, <1>w, <2>1
  <2> QED BY <2>1, <2>2 DEF MergeInv, Merging, Outputs, Levels
<1>11. ASSUME FinishOutput(Bg) PROVE MergeInv'
  <2>1. /\ pc[Bg] = "output" /\ pc' = [pc EXCEPT ![Bg] = "merge"]
        /\ job' = [job EXCEPT ![Bg].todo = @ \ Batch(@),
                              ![Bg].out = Append(@, Len(tables) + 1),
                              ![Bg].num = None]
        /\ NewTable(Bg, Batch(job[Bg].todo))
        /\ UNCHANGED <<level0, level1>>
    BY <1>11 DEF FinishOutput, Goto
  <2>2. pc'[Bg] = "merge" /\ \A u \in Flushers \ {Bg} : pc'[u] = pc[u] /\ job'[u] = job[u]
    BY <1>p, <1>w, <2>1
  <2>3. /\ job'[Bg].l0 = job[Bg].l0 /\ job'[Bg].l1 = job[Bg].l1
        /\ job'[Bg].positions = job[Bg].positions
        /\ job'[Bg].out = Append(job[Bg].out, Len(tables) + 1)
    BY <1>p, <1>w, <2>1 DEF Job
  <2>4. DOMAIN tables' = 1..Len(tables) + 1
    <3>1. Batch(job[Bg].todo) \in SUBSET Keys
      BY <1>p, <1>w DEF Batch, Job
    <3> QED BY <1>w, <2>1, <3>1, NewSSTable
  <2>5. Outputs(Bg)' = Outputs(Bg) \cup {Len(tables) + 1}
    <3>1. job[Bg].out \in Seq(Nat)
      BY <1>p, <1>w DEF Job
    <3> QED BY <2>3, <3>1, AppendSet DEF Outputs
  <2>6. Outputs(Bg)' \subseteq DOMAIN tables' \ Levels'
    BY <1>t, <2>1, <2>4, <2>5 DEF MergeInv, Levels
  <2>7. \A t \in Flushers : pc'[t] \notin Merging =>
          job'[t].l0 = {} /\ job'[t].l1 = {} /\ job'[t].out = <<>>
    BY <2>2 DEF MergeInv, Merging
  <2>8. "merge" \in Merging /\ "output" \in Merging
    BY DEF Merging
  <2>9. /\ job[Bg].l0 \subseteq ToSet(level0)
        /\ job[Bg].positions \subseteq DOMAIN level1
        /\ job[Bg].l1 = {level1[i] : i \in job[Bg].positions}
    BY <2>1, <2>8 DEF MergeInv
  <2>10. /\ job'[Bg].l0 \subseteq ToSet(level0')
         /\ job'[Bg].positions \subseteq DOMAIN level1'
         /\ job'[Bg].l1 = {level1'[i] : i \in job'[Bg].positions}
    BY <2>1, <2>3, <2>9
  <2>11. ToSet(level0') \cap ToSet(level1') = {}
    BY <2>1 DEF MergeInv
  <2> QED BY <2>2, <2>6, <2>7, <2>10, <2>11 DEF MergeInv
<1>12. ASSUME pc' = [pc EXCEPT ![Bg] = AfterCompaction(Bg)],
              job' = [job EXCEPT ![Bg] = NoJob],
              ToSet(level0') \cap ToSet(level1') = {}
       PROVE  MergeInv'
  <2>1. /\ pc'[Bg] \notin Merging /\ job'[Bg] = NoJob
        /\ \A u \in Flushers \ {Bg} : pc'[u] = pc[u] /\ job'[u] = job[u]
    BY <1>l, <1>p, <1>w, <1>12
  <2>2. \A u \in Flushers : pc'[u] \notin Merging =>
            job'[u].l0 = {} /\ job'[u].l1 = {} /\ job'[u].out = <<>>
    BY <1>n, <2>1 DEF MergeInv
  <2>3. Outputs(Bg)' = {} /\ job'[Bg].l0 = {}
    BY <1>n, <2>1 DEF Outputs, ToSet
  <2> QED BY <1>12, <2>1, <2>2, <2>3 DEF MergeInv, Merging
<1>13. ASSUME CompactionFail(Bg) PROVE MergeInv'
  BY <1>12, <1>13 DEF CompactionFail, Goto, MergeInv
<1>14. ASSUME CompactionCommit(Bg) PROVE MergeInv'
  <2>1. /\ ToSet(level0') = ToSet(level0) \ job[Bg].l0
        /\ ToSet(level1') \subseteq ToSet(level1) \cup Outputs(Bg)
    BY <1>14, NewLevels DEF MergeInv
  <2>2. ToSet(level0') \cap ToSet(level1') = {}
    BY <2>1 DEF MergeInv, Levels
  <2> QED BY <1>12, <1>14, <2>2 DEF CompactionCommit, Goto
<1>15. ASSUME NEW t \in Closers, CloseRelease(t) PROVE MergeInv'
  <2>1. /\ level0' = <<>> /\ level1' = <<>> /\ UNCHANGED job /\ pc[Bg] = "flush"
        /\ pc' = [pc EXCEPT ![t] = "closed", ![Bg] = "exited"]
    BY <1>15 DEF CloseRelease
  <2>2. ToSet(level0') = {} /\ ToSet(level1') = {}
    BY <2>1 DEF ToSet
  <2>3. /\ pc'[Bg] = "exited" /\ job[Bg].l0 = {} /\ job[Bg].out = <<>>
        /\ \A u \in Flushers : pc'[u] \in Merging => pc[u] \in Merging
        /\ \A u \in Flushers : pc[u] \in Merging => pc'[u] \in Merging
    BY <1>p, <1>w, <2>1 DEF MergeInv, Merging, StagesInv, CloseRelease
  <2>4. Outputs(Bg)' = {}
    BY <2>1, <2>3 DEF Outputs, ToSet
  <2>5. \A u \in Flushers : pc'[u] \notin Merging =>
            job'[u].l0 = {} /\ job'[u].l1 = {} /\ job'[u].out = <<>>
    BY <2>1, <2>3 DEF MergeInv
  <2>6. "exited" \notin Merging
    BY DEF Merging
  <2> QED BY <2>1, <2>2, <2>3, <2>4, <2>5, <2>6 DEF MergeInv
<1>16. ASSUME NEW w \in Writers, NEW k \in Unwritten,
              PutFast(w, k) \/ SwitchMemTable(w, k)
       PROVE  MergeInv'
  <2>1. /\ UNCHANGED <<level0, level1, tables, job>>
        /\ \A u \in Flushers : pc'[u] = pc[u]
    BY <1>16, <1>p, <1>w DEF PutFast, SwitchMemTable, Goto
  <2> QED BY <1>2, <2>1
<1>17. ASSUME NEW w \in Writers, MakeRoomWait(w) PROVE MergeInv'
  <2>1. /\ UNCHANGED <<level0, level1, tables, job>>
        /\ \A u \in Flushers : pc'[u] = pc[u]
    BY <1>17, <1>p, <1>w DEF MakeRoomWait, Goto
  <2> QED BY <1>2, <2>1
<1>18. ASSUME NEW r \in Readers, BeginRead(r) \/ EndRead(r) PROVE MergeInv'
  <2>1. DOMAIN tables' = DOMAIN tables
    BY <1>18 DEF BeginRead, EndRead, Counted
  <2> QED BY <1>2, <1>18, <2>1 DEF BeginRead, EndRead
<1>19. ASSUME UNCHANGED vars PROVE MergeInv'
  BY <1>2, <1>19 DEF vars
<1> QED
  <2> USE Workers
  <2> QED BY <1>3, <1>4, <1>5, <1>6, <1>7, <1>8, <1>9, <1>10, <1>11, <1>13,
             <1>14, <1>15, <1>16, <1>17, <1>18, <1>19 DEF Next, Flushers, Closed

\* Objects are never forgotten: those of the heap keep their indices.
LEMMA HeapsGrow ==
  ASSUME IInv, OneCompactor, [Next]_vars
  PROVE  /\ Len(memtables') >= Len(memtables)
         /\ DOMAIN tables \subseteq DOMAIN tables'
<1> USE DEF IInv, Shape
<1>0. /\ Len(memtables) \in Nat /\ Len(tables) \in Nat /\ DOMAIN tables = 1..Len(tables)
      /\ DOMAIN memtables = 1..Len(memtables)
      /\ memtables \in Seq(MemTables)
  BY SeqElements DEF MemShape, TableShape, MemTables
<1>a. ASSUME NEW delta, memtables' = Counted(memtables, delta)
      PROVE  Len(memtables') = Len(memtables)
  BY <1>0, <1>a DEF Counted
<1>b. ASSUME NEW delta, tables' = Counted(tables, delta)
      PROVE  DOMAIN tables' = DOMAIN tables
  BY <1>b DEF Counted
<1>c. ASSUME NEW t \in Flushers, NEW data \in SUBSET Keys, NewTable(t, data)
      PROVE  DOMAIN tables \subseteq DOMAIN tables'
  <2>1. DOMAIN tables' = 1..Len(tables) + 1
    BY <1>c, NewSSTable
  <2> QED BY <1>0, <2>1
<1>1. ASSUME NEW w \in Writers, NEW k \in Unwritten, PutFast(w, k)
      PROVE  Len(memtables') >= Len(memtables) /\ UNCHANGED tables
  <2>1. memtables' = memtables \/ memtables' = [memtables EXCEPT ![mem].data = @ \cup {k}]
    BY <1>1 DEF PutFast, WriteRecord
  <2>2. DOMAIN memtables' = DOMAIN memtables
    BY <2>1
  <2>3. memtables' \in Seq([data : SUBSET Keys, refs : Int])
    BY <1>1, MemShapeStep DEF MemShape
  <2> QED BY <1>0, <1>1, <2>2, <2>3 DEF PutFast
<1>2. ASSUME NEW w \in Writers, NEW k \in Unwritten, SwitchMemTable(w, k)
      PROVE  Len(memtables') >= Len(memtables) /\ UNCHANGED tables
  <2> DEFINE h == Append(memtables, [data |-> {}, refs |-> 1])
  <2>1. /\ h \in Seq(MemTables) /\ Len(h) = Len(memtables) + 1
        /\ Len(memtables) + 1 \in DOMAIN h
    BY NewMemTable
  <2>2. /\ WriteRecord(k, Len(memtables) + 1, h) /\ k \in Keys
        /\ k \notin ToSet(acked)
    BY <1>2 DEF SwitchMemTable, Unwritten
  <2> HIDE DEF h
  <2>3. Len(memtables') = Len(memtables) + 1
    BY <2>1, <2>2, Written
  <2> QED BY <1>0, <1>2, <2>3 DEF SwitchMemTable
<1>3. ASSUME NEW r \in Readers, BeginRead(r) \/ EndRead(r)
      PROVE  Len(memtables') = Len(memtables) /\ DOMAIN tables' = DOMAIN tables
  BY <1>3, <1>a, <1>b DEF BeginRead, EndRead
<1>4. ASSUME NEW t \in Flushers, FlushCommit(t)
      PROVE  Len(memtables') = Len(memtables) /\ DOMAIN tables \subseteq DOMAIN tables'
  <2>1. Len(memtables') = Len(memtables)
    BY <1>4, <1>a DEF FlushCommit, ReleaseImm
  <2>2. memtables[job[t].imm].data \in SUBSET Keys
    BY <1>4, FlushedKeys DEF FlushCommit
  <2> QED BY <1>4, <1>c, <2>1, <2>2 DEF FlushCommit
<1>5. ASSUME NEW t \in Flushers, FlushFail(t)
      PROVE  Len(memtables') = Len(memtables) /\ UNCHANGED tables
  BY <1>5, <1>a DEF FlushFail, DropUnlessBackground, ReleaseImm
<1>6. ASSUME FinishOutput(Bg)
      PROVE  UNCHANGED memtables /\ DOMAIN tables \subseteq DOMAIN tables'
  <2>1. Batch(job[Bg].todo) \in SUBSET Keys /\ Bg \in Flushers
    BY Workers DEF Batch, LocalShape, Job
  <2> QED BY <1>6, <1>c, <2>1 DEF FinishOutput
<1>7. ASSUME \/ CompactionBegin(Bg) \/ CompactionFail(Bg) \/ CompactionCommit(Bg)
             \/ CompactionSkip(Bg) \/ LoadNumber(Bg) \/ OpenOutput(Bg)
      PROVE  UNCHANGED memtables /\ DOMAIN tables' = DOMAIN tables
  BY <1>7, <1>b DEF CompactionBegin, CompactionFail, CompactionCommit,
     CompactionSkip, LoadNumber, OpenOutput
<1>8. ASSUME NEW t \in Closers, CloseRelease(t)
      PROVE  Len(memtables') = Len(memtables) /\ DOMAIN tables' = DOMAIN tables
  BY <1>8, <1>a, <1>b DEF CloseRelease
<1>9. ASSUME NEW t \in Flushers, FlushBegin(t) \/ FlushSkip(t)
      PROVE  UNCHANGED <<memtables, tables>>
  BY <1>9 DEF FlushBegin, FlushSkip
<1>10. ASSUME NEW w \in Writers, MakeRoomWait(w)
       PROVE  UNCHANGED <<memtables, tables>>
  BY <1>10 DEF MakeRoomWait
<1>11. ASSUME UNCHANGED vars PROVE UNCHANGED <<memtables, tables>>
  BY <1>11 DEF vars
<1> QED
  <2> USE Workers
  <2> QED BY <1>0, <1>1, <1>2, <1>3, <1>4, <1>5, <1>6, <1>7, <1>8, <1>9, <1>10,
             <1>11 DEF Next, Flushers, Closed

LEMMA SnapsStep ==
  ASSUME IInv, OneCompactor, [Next]_vars
  PROVE  SnapsInv'
<1> USE DEF IInv, Shape
<1>0. /\ Len(memtables) \in Nat /\ Len(memtables') \in Nat
      /\ Len(memtables') >= Len(memtables) /\ DOMAIN tables \subseteq DOMAIN tables'
  <2>1. MemShape'
    BY MemShapeStep
  <2> QED BY <2>1, HeapsGrow DEF MemShape
<1>t. \A r \in Readers : snap[r] \in Snap
  BY DEF LocalShape
<1>1. ASSUME UNCHANGED snap PROVE SnapsInv'
  BY <1>0, <1>1, <1>t DEF SnapsInv, InRange, Snap, Held
<1>2. ASSUME NEW r \in Readers, BeginRead(r) PROVE SnapsInv'
  <2> DEFINE v == [mem |-> mem, imm |-> imm, l0 |-> level0, l1 |-> level1]
  <2>1. snap' = [snap EXCEPT ![r] = v]
    BY <1>2 DEF BeginRead
  <2>2. InRange(v)'
    <3>1. ToSet(level0) \cup ToSet(level1) \subseteq DOMAIN tables
      BY LevelIsSet
    <3>2. mem <= Len(memtables) /\ imm <= Len(memtables) /\ mem \in Nat /\ imm \in Nat
      BY DEF MemShape
    <3>3. UNCHANGED <<mem, imm, level0, level1>>
      BY <1>2 DEF BeginRead
    <3> QED BY <1>0, <3>1, <3>2, <3>3 DEF InRange, Held
  <2>3. ASSUME NEW q \in Readers PROVE InRange(snap[q])'
    <3>1. CASE q = r
      <4>1. snap'[q] = v'
        BY <1>2, <2>1, <3>1 DEF LocalShape, BeginRead
      <4> QED BY <2>2, <4>1 DEF InRange, Held
    <3>2. CASE q # r
      <4>1. snap'[q] = snap[q]
        BY <2>1, <3>2 DEF LocalShape
      <4> QED BY <1>0, <1>t, <4>1 DEF SnapsInv, InRange, Snap, Held
    <3> QED BY <3>1, <3>2
  <2> QED BY <2>3 DEF SnapsInv
<1>3. ASSUME NEW r \in Readers, EndRead(r) PROVE SnapsInv'
  <2>1. snap' = [snap EXCEPT ![r] = NoSnap]
    BY <1>3 DEF EndRead
  <2>2. ASSUME NEW q \in Readers PROVE InRange(snap[q])'
    <3>1. CASE q = r
      <4>1. snap'[q] = NoSnap
        BY <2>1, <3>1 DEF LocalShape
      <4>2. /\ NoSnap.mem = 0 /\ NoSnap.imm = 0 /\ Held(NoSnap) = {}
        BY DEF NoSnap, Held, ToSet, None
      <4> QED BY <1>0, <4>1, <4>2 DEF InRange, Held
    <3>2. CASE q # r
      <4>1. snap'[q] = snap[q]
        BY <2>1, <3>2 DEF LocalShape
      <4> QED BY <1>0, <1>t, <4>1 DEF SnapsInv, InRange, Snap, Held
    <3> QED BY <3>1, <3>2
  <2> QED BY <2>2 DEF SnapsInv
<1>4. ASSUME NEW w \in Writers, NEW k \in Unwritten,
             PutFast(w, k) \/ SwitchMemTable(w, k)
      PROVE  SnapsInv'
  BY <1>1, <1>4 DEF PutFast, SwitchMemTable
<1>5. ASSUME NEW t \in Flushers, \/ FlushBegin(t) \/ FlushSkip(t)
                                 \/ FlushCommit(t) \/ FlushFail(t)
      PROVE  SnapsInv'
  BY <1>1, <1>5 DEF FlushBegin, FlushSkip, FlushCommit, FlushFail
<1>6. ASSUME \/ CompactionBegin(Bg) \/ CompactionFail(Bg) \/ CompactionCommit(Bg)
             \/ CompactionSkip(Bg) \/ LoadNumber(Bg) \/ OpenOutput(Bg)
             \/ FinishOutput(Bg)
      PROVE  SnapsInv'
  BY <1>1, <1>6 DEF CompactionBegin, CompactionFail, CompactionCommit,
     CompactionSkip, LoadNumber, OpenOutput, FinishOutput
<1>7. ASSUME NEW w \in Writers, MakeRoomWait(w) PROVE SnapsInv'
  BY <1>1, <1>7 DEF MakeRoomWait
<1>8. ASSUME NEW t \in Closers, CloseRelease(t) PROVE SnapsInv'
  BY <1>1, <1>8 DEF CloseRelease
<1>9. ASSUME UNCHANGED vars PROVE SnapsInv'
  BY <1>1, <1>9 DEF vars
<1> QED
  <2> USE Workers
  <2> QED BY <1>2, <1>3, <1>4, <1>5, <1>6, <1>7, <1>8, <1>9
          DEF Next, Flushers, Closed

LEMMA MemTableRefsStep ==
  ASSUME IInv, OneCompactor, [Next]_vars
  PROVE  MemTableRefsExact'
<1> USE DEF IInv, Shape, RefsExact
<1>0. /\ Len(memtables) \in Nat /\ DOMAIN memtables = 1..Len(memtables)
      /\ memtables \in Seq(MemTables)
      /\ \A m \in DOMAIN memtables : m # None /\ memtables[m].refs \in Int
  <2>1. memtables \in Seq(MemTables)
    BY DEF MemShape, MemTables
  <2>2. \A m \in DOMAIN memtables : memtables[m] \in MemTables
    BY <2>1, SeqElements
  <2> QED BY <2>1, <2>2 DEF MemTables, None
<1>f. ASSUME NEW m
      PROVE  /\ IsFiniteSet(ReadersOfMemTable(m))
             /\ IsFiniteSet(ReadersOfMemTable(m)')
  <2>1. /\ ReadersOfMemTable(m) \in SUBSET Readers
        /\ ReadersOfMemTable(m)' \in SUBSET Readers
    BY DEF ReadersOfMemTable
  <2> QED BY <2>1, ConstantsAssumption, FS_Subset
<1>c. \A m : Cardinality(ReadersOfMemTable(m)) \in Nat
  BY <1>f, FS_CardinalityType
<1>1. ASSUME UNCHANGED <<mem, imm, snap>>, DOMAIN memtables' = DOMAIN memtables,
             \A m \in DOMAIN memtables : memtables'[m].refs = memtables[m].refs
      PROVE  MemTableRefsExact'
  BY <1>1 DEF MemTableRefsExact, ReadersOfMemTable
<1>2. ASSUME NEW w \in Writers, NEW k \in Unwritten, PutFast(w, k)
      PROVE  MemTableRefsExact'
  <2>1. mem \in DOMAIN memtables
    BY <1>0, <1>2, ConstantsAssumption DEF PutFast, Open, StagesInv, MemShape, None
  <2>2. WriteRecord(k, mem, memtables) /\ k \in Keys /\ k \notin ToSet(acked)
    BY <1>2 DEF PutFast, Unwritten
  <2>3. /\ memtables' \in Seq(MemTables) /\ Len(memtables') = Len(memtables)
        /\ \A m \in DOMAIN memtables : memtables'[m].refs = memtables[m].refs
    BY <1>0, <2>1, <2>2, Written
  <2>4. DOMAIN memtables' = DOMAIN memtables
    BY <1>0, <2>3
  <2> QED BY <1>1, <1>2, <2>3, <2>4 DEF PutFast
<1>3. ASSUME NEW w \in Writers, NEW k \in Unwritten, SwitchMemTable(w, k)
      PROVE  MemTableRefsExact'
  <2> DEFINE new == Len(memtables) + 1
             h == Append(memtables, [data |-> {}, refs |-> 1])
  <2>1. /\ h \in Seq(MemTables) /\ Len(h) = new /\ DOMAIN h = 1..new
        /\ \A x \in DOMAIN memtables : h[x] = memtables[x]
        /\ h[new].refs = 1
    BY NewMemTable
  <2>2. /\ WriteRecord(k, new, h) /\ k \in Keys /\ k \notin ToSet(acked)
        /\ mem' = new /\ imm' = mem /\ imm = None /\ snap' = snap
    BY <1>3 DEF SwitchMemTable, Unwritten
  <2>3. new \in DOMAIN h
    BY <1>0, <2>1
  <2> HIDE DEF h
  <2>4. /\ Len(memtables') = new /\ memtables' \in Seq(MemTables)
        /\ \A x \in DOMAIN h : memtables'[x].refs = h[x].refs
    BY <2>1, <2>2, <2>3, Written
  <2>5. DOMAIN memtables' = 1..new
    BY <1>0, <2>4
  <2>6. ASSUME NEW m \in DOMAIN memtables'
        PROVE  memtables'[m].refs = One(m = mem') + One(m = imm')
                                      + Cardinality(ReadersOfMemTable(m)')
    <3>1. CASE m = new
      <4>1. ReadersOfMemTable(m)' = {}
        BY <1>0, <2>2, <3>1 DEF ReadersOfMemTable, SnapsInv, InRange, LocalShape, Snap
      <4>2. memtables'[m].refs = 1 /\ m = mem' /\ m # imm'
        <5>1. mem \in 0..Len(memtables)
          BY DEF MemShape
        <5>2. mem # new
          BY <1>0, <5>1
        <5>3. memtables'[new].refs = 1
          BY <2>1, <2>3, <2>4
        <5> QED BY <2>2, <3>1, <5>2, <5>3
      <4> QED BY <4>1, <4>2, FS_EmptySet DEF One
    <3>2. CASE m # new
      <4>1. m \in DOMAIN memtables
        BY <1>0, <2>5, <3>2
      <4>2. ReadersOfMemTable(m)' = ReadersOfMemTable(m)
        BY <2>2 DEF ReadersOfMemTable
      <4>3. memtables'[m].refs = memtables[m].refs
        BY <1>0, <2>1, <2>4, <4>1
      <4>4. m # imm /\ m # mem' /\ (m = imm' <=> m = mem)
        BY <1>0, <2>2, <3>2, <4>1
      <4> QED BY <4>1, <4>2, <4>3, <4>4 DEF MemTableRefsExact, One
    <3> QED BY <3>1, <3>2
  <2> QED BY <2>6 DEF MemTableRefsExact
<1>4. ASSUME NEW r \in Readers, BeginRead(r) PROVE MemTableRefsExact'
  <2> DEFINE delta == [m \in DOMAIN memtables |-> One(m \in Pinned)]
  <2>1. delta \in [DOMAIN memtables -> Int]
    BY DEF One
  <2>2. /\ memtables' = Counted(memtables, delta) /\ UNCHANGED <<mem, imm>>
        /\ snap[r] = NoSnap
        /\ snap' = [snap EXCEPT ![r] = [mem |-> mem, imm |-> imm,
                                        l0 |-> level0, l1 |-> level1]]
    BY <1>4 DEF BeginRead
  <2>3. /\ DOMAIN memtables' = DOMAIN memtables
        /\ \A m \in DOMAIN memtables :
             memtables'[m].refs = memtables[m].refs + delta[m]
    <3> HIDE DEF delta
    <3> QED BY <2>1, <2>2, MemTablesCounted
  <2>4. ASSUME NEW m \in DOMAIN memtables
        PROVE  memtables'[m].refs = One(m = mem') + One(m = imm')
                                      + Cardinality(ReadersOfMemTable(m)')
    <3>1. ReadersOfMemTable(m) \ {r} = ReadersOfMemTable(m)' \ {r}
      BY <2>2 DEF ReadersOfMemTable, LocalShape
    <3>2. r \notin ReadersOfMemTable(m)
      BY <1>0, <2>2 DEF ReadersOfMemTable, NoSnap
    <3>3. r \in ReadersOfMemTable(m)' <=> m \in Pinned
      BY <2>2 DEF ReadersOfMemTable, Pinned, LocalShape
    <3>4. Cardinality(ReadersOfMemTable(m)') =
            Cardinality(ReadersOfMemTable(m)) + One(m \in Pinned)
      BY <1>f, <1>c, <3>1, <3>2, <3>3, Recount DEF One
    <3>5. memtables'[m].refs = memtables[m].refs + One(m \in Pinned)
      BY <2>3
    <3> QED BY <1>c, <2>2, <3>4, <3>5 DEF MemTableRefsExact, One
  <2> QED BY <2>3, <2>4 DEF MemTableRefsExact
<1>5. ASSUME NEW r \in Readers, EndRead(r) PROVE MemTableRefsExact'
  <2> DEFINE held == {snap[r].mem, snap[r].imm}
             delta == [m \in DOMAIN memtables |-> -One(m \in held)]
  <2>1. delta \in [DOMAIN memtables -> Int]
    BY DEF One
  <2>2. /\ memtables' = Counted(memtables, delta) /\ UNCHANGED <<mem, imm>>
        /\ snap' = [snap EXCEPT ![r] = NoSnap]
    BY <1>5 DEF EndRead
  <2>3. /\ DOMAIN memtables' = DOMAIN memtables
        /\ \A m \in DOMAIN memtables :
             memtables'[m].refs = memtables[m].refs + delta[m]
    <3> HIDE DEF delta
    <3> QED BY <2>1, <2>2, MemTablesCounted
  <2>4. ASSUME NEW m \in DOMAIN memtables
        PROVE  memtables'[m].refs = One(m = mem') + One(m = imm')
                                      + Cardinality(ReadersOfMemTable(m)')
    <3>1. ReadersOfMemTable(m) \ {r} = ReadersOfMemTable(m)' \ {r}
      BY <2>2 DEF ReadersOfMemTable, LocalShape
    <3>2. r \notin ReadersOfMemTable(m)'
      BY <1>0, <2>2 DEF ReadersOfMemTable, NoSnap, LocalShape
    <3>3. r \in ReadersOfMemTable(m) <=> m \in held
      BY DEF ReadersOfMemTable
    <3>4. Cardinality(ReadersOfMemTable(m)') =
            Cardinality(ReadersOfMemTable(m)) - One(m \in held)
      BY <1>f, <1>c, <3>1, <3>2, <3>3, Recount DEF One
    <3>5. memtables'[m].refs = memtables[m].refs - One(m \in held)
      BY <1>0, <2>3 DEF One
    <3> QED BY <1>c, <2>2, <3>4, <3>5 DEF MemTableRefsExact, One
  <2> QED BY <2>3, <2>4 DEF MemTableRefsExact
<1>6. ASSUME ReleaseImm, UNCHANGED <<mem, snap>> PROVE MemTableRefsExact'
  <2> DEFINE delta == [m \in DOMAIN memtables |-> -One(m = imm)]
  <2>1. delta \in [DOMAIN memtables -> Int]
    BY DEF One
  <2>2. memtables' = Counted(memtables, delta) /\ imm' = None
    BY <1>6 DEF ReleaseImm
  <2>3. /\ DOMAIN memtables' = DOMAIN memtables
        /\ \A m \in DOMAIN memtables :
             memtables'[m].refs = memtables[m].refs + delta[m]
    <3> HIDE DEF delta
    <3> QED BY <2>1, <2>2, MemTablesCounted
  <2>4. ASSUME NEW m \in DOMAIN memtables
        PROVE  memtables'[m].refs = One(m = mem') + One(m = imm')
                                      + Cardinality(ReadersOfMemTable(m)')
    <3>1. ReadersOfMemTable(m)' = ReadersOfMemTable(m)
      BY <1>6 DEF ReadersOfMemTable
    <3>2. memtables'[m].refs = memtables[m].refs - One(m = imm)
      BY <1>0, <2>3 DEF One
    <3> QED BY <1>0, <1>6, <1>c, <2>2, <3>1, <3>2 DEF MemTableRefsExact, One
  <2> QED BY <2>3, <2>4 DEF MemTableRefsExact
<1>7. ASSUME NEW t \in Closers, CloseRelease(t) PROVE MemTableRefsExact'
  <2> DEFINE delta == [m \in DOMAIN memtables |-> -One(m = mem)]
  <2>1. delta \in [DOMAIN memtables -> Int]
    BY DEF One
  <2>2. memtables' = Counted(memtables, delta) /\ mem' = None /\ UNCHANGED <<imm, snap>>
    BY <1>7 DEF CloseRelease
  <2>3. /\ DOMAIN memtables' = DOMAIN memtables
        /\ \A m \in DOMAIN memtables :
             memtables'[m].refs = memtables[m].refs + delta[m]
    <3> HIDE DEF delta
    <3> QED BY <2>1, <2>2, MemTablesCounted
  <2>4. ASSUME NEW m \in DOMAIN memtables
        PROVE  memtables'[m].refs = One(m = mem') + One(m = imm')
                                      + Cardinality(ReadersOfMemTable(m)')
    <3>1. ReadersOfMemTable(m)' = ReadersOfMemTable(m)
      BY <2>2 DEF ReadersOfMemTable
    <3>2. memtables'[m].refs = memtables[m].refs - One(m = mem)
      BY <1>0, <2>3 DEF One
    <3> QED BY <1>0, <1>c, <2>2, <3>1, <3>2 DEF MemTableRefsExact, One
  <2> QED BY <2>3, <2>4 DEF MemTableRefsExact
<1>8. ASSUME NEW t \in Flushers, FlushCommit(t) PROVE MemTableRefsExact'
  BY <1>6, <1>8 DEF FlushCommit
<1>9. ASSUME NEW t \in Flushers, FlushFail(t) PROVE MemTableRefsExact'
  BY <1>1, <1>6, <1>9 DEF FlushFail, DropUnlessBackground
<1>10. ASSUME NEW t \in Flushers, FlushBegin(t) \/ FlushSkip(t)
       PROVE  MemTableRefsExact'
  BY <1>1, <1>10 DEF FlushBegin, FlushSkip
<1>11. ASSUME \/ CompactionBegin(Bg) \/ CompactionFail(Bg) \/ CompactionCommit(Bg)
              \/ CompactionSkip(Bg) \/ LoadNumber(Bg) \/ OpenOutput(Bg)
              \/ FinishOutput(Bg)
       PROVE  MemTableRefsExact'
  BY <1>1, <1>11 DEF CompactionBegin, CompactionFail, CompactionCommit,
     CompactionSkip, LoadNumber, OpenOutput, FinishOutput
<1>12. ASSUME NEW w \in Writers, MakeRoomWait(w) PROVE MemTableRefsExact'
  BY <1>1, <1>12 DEF MakeRoomWait
<1>13. ASSUME UNCHANGED vars PROVE MemTableRefsExact'
  BY <1>1, <1>13 DEF vars
<1> QED
  <2> USE Workers
  <2> QED BY <1>2, <1>3, <1>4, <1>5, <1>7, <1>8, <1>9, <1>10, <1>11, <1>12, <1>13
          DEF Next, Flushers, Closed

LEMMA SSTableRefsStep ==
  ASSUME IInv, OneCompactor, [Next]_vars
  PROVE  SSTableRefsExact'
<1> USE DEF IInv, Shape, RefsExact
<1>0. /\ Len(tables) \in Nat /\ DOMAIN tables = 1..Len(tables)
      /\ tables \in Seq(SSTables)
      /\ \A x \in DOMAIN tables : tables[x].refs \in Int
  <2>1. tables \in Seq(SSTables)
    BY DEF TableShape, SSTables
  <2>2. \A x \in DOMAIN tables : tables[x] \in SSTables
    BY <2>1, SeqElements
  <2> QED BY <2>1, <2>2, SeqElements DEF SSTables
<1>w. /\ Flushers = {Bg} \cup Closers /\ Threads = Writers \cup {Bg} \cup Closers
      /\ Bg \notin Closers /\ MergingThreads = {Bg}
  BY Workers
<1>p. pc \in [Threads -> Labels] /\ job \in [Flushers -> Job]
      /\ snap \in [Readers -> Snap]
  BY DEF LocalShape
\* Only the background thread merges.
<1>m. ASSUME NEW x
      PROVE  /\ Cardinality(MergersOf(x)) = One(x \in Inputs(Bg) \cup Outputs(Bg))
             /\ Cardinality(MergersOf(x)') = One(x \in (Inputs(Bg) \cup Outputs(Bg))')
  <2>1. MergersOf(x) = IF x \in Inputs(Bg) \cup Outputs(Bg) THEN {Bg} ELSE {}
    BY <1>w DEF MergersOf
  <2>2. MergersOf(x)' = IF x \in (Inputs(Bg) \cup Outputs(Bg))' THEN {Bg} ELSE {}
    BY <1>w DEF MergersOf
  <2> QED BY <2>1, <2>2, FS_EmptySet, FS_Singleton DEF One
<1>f. ASSUME NEW x
      PROVE  /\ IsFiniteSet(ReadersOfTable(x)) /\ IsFiniteSet(ReadersOfTable(x)')
             /\ Cardinality(ReadersOfTable(x)) \in Nat
  <2>1. /\ ReadersOfTable(x) \in SUBSET Readers
        /\ ReadersOfTable(x)' \in SUBSET Readers
    BY DEF ReadersOfTable
  <2> QED BY <2>1, ConstantsAssumption, FS_Subset, FS_CardinalityType
\* What is to be shown of a table, and what is known of it.
<1> DEFINE Count(x) == One(x \in Levels) + Cardinality(ReadersOfTable(x))
                         + One(x \in Inputs(Bg) \cup Outputs(Bg))
<1>e. \A x \in DOMAIN tables : tables[x].refs = Count(x)
  BY <1>m DEF SSTableRefsExact
<1>g. ASSUME \A x \in DOMAIN tables' : tables'[x].refs = Count(x)'
      PROVE  SSTableRefsExact'
  BY <1>g, <1>m DEF SSTableRefsExact
<1>1. ASSUME UNCHANGED <<tables, level0, level1, snap>>,
             (Inputs(Bg) \cup Outputs(Bg))' = Inputs(Bg) \cup Outputs(Bg)
      PROVE  SSTableRefsExact'
  BY <1>1, <1>e, <1>g DEF Levels, ReadersOfTable, Held
<1>2. ASSUME NEW delta \in [DOMAIN tables -> Int],
             tables' = Counted(tables, delta),
             \A x \in DOMAIN tables : Count(x) + delta[x] = Count(x)'
      PROVE  SSTableRefsExact'
  BY <1>2, <1>e, <1>g, SSTablesCounted
<1> HIDE DEF Count
<1>n. NoJob.l0 = {} /\ NoJob.l1 = {} /\ NoJob.out = <<>>
  BY DEF NoJob
<1>3. ASSUME NEW t \in Flushers, pc[t] \notin Merging,
             \A u \in Flushers \ {t} : job'[u] = job[u],
             job'[t].l0 = {} /\ job'[t].l1 = {} /\ job'[t].out = <<>>
      PROVE  (Inputs(Bg) \cup Outputs(Bg))' = Inputs(Bg) \cup Outputs(Bg)
  <2>1. CASE t = Bg
    BY <1>3, <2>1 DEF Inputs, Outputs, MergeInv
  <2>2. CASE t # Bg
    BY <1>3, <1>w, <2>2 DEF Inputs, Outputs
  <2> QED BY <2>1, <2>2
<1>4. ASSUME NEW t \in Flushers, FlushBegin(t) PROVE SSTableRefsExact'
  <2>1. /\ UNCHANGED <<level0, level1, tables, snap>> /\ pc[t] \notin Merging
        /\ job' = [job EXCEPT ![t] = [NoJob EXCEPT !.num = nextFile, !.imm = imm]]
    BY <1>4 DEF FlushBegin, TakeNumber, MayFlush, Merging
  <2>2. job'[t].l0 = {} /\ job'[t].l1 = {} /\ job'[t].out = <<>>
    BY <1>p, <2>1 DEF NoJob
  <2>3. \A u \in Flushers \ {t} : job'[u] = job[u]
    BY <1>p, <2>1
  <2> QED BY <1>1, <1>3, <2>1, <2>2, <2>3
<1>5. ASSUME NEW t \in Flushers, FlushSkip(t) PROVE SSTableRefsExact'
  BY <1>1, <1>5 DEF FlushSkip, Inputs, Outputs
<1>6. ASSUME NEW t \in Flushers, FlushFail(t) PROVE SSTableRefsExact'
  <2>1. /\ UNCHANGED <<level0, level1, tables, snap>> /\ pc[t] \notin Merging
        /\ job' = [job EXCEPT ![t] = NoJob]
    BY <1>6 DEF FlushFail, Merging
  <2>2. job'[t] = NoJob /\ \A u \in Flushers \ {t} : job'[u] = job[u]
    BY <1>p, <2>1
  <2> QED BY <1>1, <1>3, <1>n, <2>1, <2>2
\* A new table has one reference: that of its level, or that of its builder.
<1>7. ASSUME NEW t \in Flushers, NEW data \in SUBSET Keys, NewTable(t, data),
             UNCHANGED <<level1, snap>>,
             \/ /\ level0' = Append(level0, Len(tables) + 1)
                /\ (Inputs(Bg) \cup Outputs(Bg))' = Inputs(Bg) \cup Outputs(Bg)
             \/ /\ UNCHANGED level0
                /\ (Inputs(Bg) \cup Outputs(Bg))'
                      = Inputs(Bg) \cup Outputs(Bg) \cup {Len(tables) + 1}
      PROVE  SSTableRefsExact'
  <2>0. PICK new : new = Len(tables) + 1
    OBVIOUS
  <2>1. /\ DOMAIN tables' = 1..new /\ tables'[new].refs = 1
        /\ \A x \in DOMAIN tables : tables'[x] = tables[x]
    <3>1. /\ DOMAIN tables' = 1..Len(tables) + 1
          /\ \A x \in DOMAIN tables : tables'[x] = tables[x]
          /\ tables'[Len(tables) + 1] =
               [num |-> job[t].num, data |-> data, refs |-> 1]
      <4>1. NewTable(t, data)
        BY <1>7
      <4> QED BY <4>1, NewSSTable
    <3> QED BY <2>0, <3>1
  <2>2. /\ ToSet(level0') \in {ToSet(level0), ToSet(level0) \cup {new}}
        /\ Levels \subseteq DOMAIN tables
        /\ Inputs(Bg) \cup Outputs(Bg) \subseteq DOMAIN tables
    <3>1. ToSet(Append(level0, new)) = ToSet(level0) \cup {new}
      BY AppendSet DEF TableShape
    <3>2. /\ ToSet(level0) \subseteq DOMAIN tables /\ ToSet(level1) \subseteq DOMAIN tables
          /\ \A i \in DOMAIN level1 : level1[i] \in DOMAIN tables
      BY LevelIsSet
    <3>3. Inputs(Bg) \subseteq DOMAIN tables
      <4>1. CASE pc[Bg] \in Merging
        BY <3>2, <4>1 DEF Inputs, MergeInv
      <4>2. CASE pc[Bg] \notin Merging
        BY <1>w, <4>2 DEF Inputs, MergeInv
      <4> QED BY <4>1, <4>2
    <3> QED BY <1>7, <2>0, <3>1, <3>2, <3>3 DEF Levels, MergeInv
  <2>3. \A x : ReadersOfTable(x)' = ReadersOfTable(x)
    BY <1>7 DEF ReadersOfTable, Held
  <2>4. ASSUME NEW x \in DOMAIN tables PROVE tables'[x].refs = Count(x)'
    <3>1. /\ x \in Levels' <=> x \in Levels
          /\ x \in (Inputs(Bg) \cup Outputs(Bg))' <=> x \in Inputs(Bg) \cup Outputs(Bg)
      BY <1>0, <1>7, <2>0, <2>2, AppendSet DEF Levels, TableShape
    <3> QED BY <1>e, <2>1, <2>3, <3>1 DEF Count
  <2>5. tables'[new].refs = Count(new)'
    <3>1. new \notin DOMAIN tables
      BY <1>0, <2>0
    <3>2. ReadersOfTable(new) = {}
      BY <3>1 DEF ReadersOfTable, SnapsInv, InRange
    <3>3. /\ new \in Levels' \/ new \in (Inputs(Bg) \cup Outputs(Bg))'
          /\ ~(new \in Levels' /\ new \in (Inputs(Bg) \cup Outputs(Bg))')
      BY <1>7, <2>0, <2>2, <3>1, AppendSet DEF Levels, TableShape
    <3>4. Cardinality(ReadersOfTable(new)') = 0
      BY <2>3, <3>2, FS_EmptySet
    <3>5. One(new \in Levels') + One(new \in (Inputs(Bg) \cup Outputs(Bg))') = 1
      BY <3>3 DEF One
    <3> QED BY <2>1, <3>4, <3>5 DEF Count, One
  <2>6. \A x \in DOMAIN tables' : x \in DOMAIN tables \/ x = new
    BY <1>0, <2>0, <2>1
  <2> QED BY <1>g, <2>0, <2>4, <2>5, <2>6
<1>8. ASSUME NEW t \in Flushers, FlushCommit(t) PROVE SSTableRefsExact'
  <2>1. /\ pc[t] = "build" /\ pc[t] \notin Merging /\ job' = [job EXCEPT ![t] = NoJob]
        /\ NewTable(t, memtables[job[t].imm].data)
        /\ level0' = Append(level0, Len(tables) + 1) /\ UNCHANGED <<level1, snap>>
    BY <1>8 DEF FlushCommit, Merging, PushTable
  <2>2. job'[t] = NoJob /\ \A u \in Flushers \ {t} : job'[u] = job[u]
    BY <1>p, <2>1
  <2>3. (Inputs(Bg) \cup Outputs(Bg))' = Inputs(Bg) \cup Outputs(Bg)
    BY <1>3, <1>n, <2>1, <2>2
  <2>4. memtables[job[t].imm].data \in SUBSET Keys
    BY <2>1, FlushedKeys
  <2> QED BY <1>7, <2>1, <2>3, <2>4
<1>9. ASSUME FinishOutput(Bg) PROVE SSTableRefsExact'
  <2>1. /\ job' = [job EXCEPT ![Bg].todo = @ \ Batch(@),
                              ![Bg].out = Append(@, Len(tables) + 1),
                              ![Bg].num = None]
        /\ NewTable(Bg, Batch(job[Bg].todo))
        /\ UNCHANGED <<level0, level1, snap>>
    BY <1>9 DEF FinishOutput
  <2>2. /\ job'[Bg].l0 = job[Bg].l0 /\ job'[Bg].l1 = job[Bg].l1
        /\ job'[Bg].out = Append(job[Bg].out, Len(tables) + 1)
    BY <1>p, <1>w, <2>1 DEF Job
  <2>3. Outputs(Bg)' = Outputs(Bg) \cup {Len(tables) + 1}
    <3>1. job[Bg].out \in Seq(Nat)
      BY <1>p, <1>w DEF Job
    <3> QED BY <2>2, <3>1, AppendSet DEF Outputs
  <2>4. Inputs(Bg)' = Inputs(Bg)
    BY <2>2 DEF Inputs
  <2>5. Batch(job[Bg].todo) \in SUBSET Keys
    BY <1>p, <1>w DEF Batch, Job
  <2> QED BY <1>7, <1>w, <2>1, <2>3, <2>4, <2>5
<1>10. ASSUME NEW r \in Readers, BeginRead(r) PROVE SSTableRefsExact'
  <2> DEFINE delta == [x \in DOMAIN tables |-> One(x \in Levels)]
             v == [mem |-> mem, imm |-> imm, l0 |-> level0, l1 |-> level1]
  <2>1. delta \in [DOMAIN tables -> Int]
    BY DEF One
  <2>2. /\ tables' = Counted(tables, delta) /\ UNCHANGED <<level0, level1, job>>
        /\ snap[r] = NoSnap /\ snap' = [snap EXCEPT ![r] = v]
    BY <1>10 DEF BeginRead
  <2>3. /\ Held(v) = Levels /\ Held(NoSnap) = {}
        /\ snap'[r] = v /\ \A q \in Readers \ {r} : snap'[q] = snap[q]
    BY <1>p, <2>2 DEF Held, Levels, NoSnap, ToSet
  <2> HIDE DEF v
  <2>4. ASSUME NEW x \in DOMAIN tables PROVE Count(x) + delta[x] = Count(x)'
    <3>1. /\ ReadersOfTable(x) \ {r} = ReadersOfTable(x)' \ {r}
          /\ r \notin ReadersOfTable(x)
          /\ r \in ReadersOfTable(x)' <=> x \in Levels
      BY <2>2, <2>3 DEF ReadersOfTable, Held
    <3>2. Cardinality(ReadersOfTable(x)') =
            Cardinality(ReadersOfTable(x)) + One(x \in Levels)
      BY <1>f, <3>1, Recount DEF One
    <3>3. (Inputs(Bg) \cup Outputs(Bg))' = Inputs(Bg) \cup Outputs(Bg) /\ Levels' = Levels
      BY <2>2 DEF Inputs, Outputs, Levels
    <3> QED BY <1>f, <3>2, <3>3 DEF Count, One
  <2> HIDE DEF delta
  <2> QED BY <1>2, <2>1, <2>2, <2>4
<1>11. ASSUME NEW r \in Readers, EndRead(r) PROVE SSTableRefsExact'
  <2> DEFINE delta == [x \in DOMAIN tables |-> -One(x \in Held(snap[r]))]
  <2>1. delta \in [DOMAIN tables -> Int]
    BY DEF One
  <2>2. /\ tables' = Counted(tables, delta) /\ UNCHANGED <<level0, level1, job>>
        /\ snap' = [snap EXCEPT ![r] = NoSnap]
    BY <1>11 DEF EndRead
  <2>3. /\ Held(NoSnap) = {}
        /\ snap'[r] = NoSnap /\ \A q \in Readers \ {r} : snap'[q] = snap[q]
    BY <1>p, <2>2 DEF Held, NoSnap, ToSet
  <2>4. ASSUME NEW x \in DOMAIN tables PROVE Count(x) + delta[x] = Count(x)'
    <3>1. /\ ReadersOfTable(x) \ {r} = ReadersOfTable(x)' \ {r}
          /\ r \notin ReadersOfTable(x)'
          /\ r \in ReadersOfTable(x) <=> x \in Held(snap[r])
      BY <2>2, <2>3 DEF ReadersOfTable, Held
    <3>2. Cardinality(ReadersOfTable(x)') =
            Cardinality(ReadersOfTable(x)) - One(x \in Held(snap[r]))
      BY <1>f, <3>1, Recount DEF One
    <3>3. (Inputs(Bg) \cup Outputs(Bg))' = Inputs(Bg) \cup Outputs(Bg) /\ Levels' = Levels
      BY <2>2 DEF Inputs, Outputs, Levels
    <3> QED BY <1>f, <3>2, <3>3 DEF Count, One
  <2> HIDE DEF delta
  <2> QED BY <1>2, <2>1, <2>2, <2>4
<1>12. ASSUME CompactionBegin(Bg) PROVE SSTableRefsExact'
  <2> DEFINE positions == {i \in DOMAIN level1 : Overlaps(level1[i])}
             inputs == ToSet(level0) \cup {level1[i] : i \in positions}
             j == [NoJob EXCEPT !.l0 = ToSet(level0),
                                !.l1 = {level1[i] : i \in positions},
                                !.positions = positions,
                                !.todo = UNION {tables[x].data : x \in inputs}]
             delta == [x \in DOMAIN tables |-> One(x \in inputs)]
  <2>1. delta \in [DOMAIN tables -> Int]
    BY DEF One
  <2>2. /\ job' = [job EXCEPT ![Bg] = j] /\ pc[Bg] = "compact"
        /\ UNCHANGED <<level0, level1, snap>> /\ tables' = Counted(tables, delta)
    BY <1>12 DEF CompactionBegin
  <2>3. /\ j.l0 = ToSet(level0) /\ j.l1 = {level1[i] : i \in positions} /\ j.out = <<>>
    BY DEF NoJob
  <2> HIDE DEF j
  <2>4. (Inputs(Bg) \cup Outputs(Bg))' = inputs
    BY <1>p, <1>w, <2>2, <2>3 DEF Inputs, Outputs, ToSet
  <2>5. Inputs(Bg) \cup Outputs(Bg) = {}
    BY <1>w, <2>2 DEF Inputs, Outputs, MergeInv, Merging, ToSet
  <2> HIDE DEF inputs
  <2>6. ASSUME NEW x \in DOMAIN tables PROVE Count(x) + delta[x] = Count(x)'
    <3>1. ReadersOfTable(x)' = ReadersOfTable(x) /\ Levels' = Levels
      BY <2>2 DEF ReadersOfTable, Held, Levels
    <3> QED BY <1>f, <2>4, <2>5, <3>1 DEF Count, One
  <2> HIDE DEF delta
  <2> QED BY <1>2, <2>1, <2>2, <2>6
\* The merge is over.
<1>13. ASSUME job' = [job EXCEPT ![Bg] = NoJob]
       PROVE  (Inputs(Bg) \cup Outputs(Bg))' = {}
  BY <1>13, <1>n, <1>p, <1>w DEF Inputs, Outputs, ToSet
<1>14. ASSUME CompactionFail(Bg) PROVE SSTableRefsExact'
  <2> DEFINE delta == [x \in DOMAIN tables |->
                         -One(x \in Inputs(Bg) \cup Outputs(Bg))]
  <2>1. delta \in [DOMAIN tables -> Int]
    BY DEF One
  <2>2. /\ tables' = Counted(tables, delta) /\ UNCHANGED <<level0, level1, snap>>
        /\ job' = [job EXCEPT ![Bg] = NoJob]
    BY <1>14 DEF CompactionFail
  <2>3. ASSUME NEW x \in DOMAIN tables PROVE Count(x) + delta[x] = Count(x)'
    <3>1. ReadersOfTable(x)' = ReadersOfTable(x) /\ Levels' = Levels
      BY <2>2 DEF ReadersOfTable, Held, Levels
    <3>2. (Inputs(Bg) \cup Outputs(Bg))' = {}
      BY <1>13, <2>2
    <3> QED BY <1>f, <3>1, <3>2 DEF Count, One
  <2> HIDE DEF delta
  <2> QED BY <1>2, <2>1, <2>2, <2>3
\* Each input had the reference of its level and that of the merge, each output
\* that of the merge, which now is its level's.
<1>15. ASSUME CompactionCommit(Bg) PROVE SSTableRefsExact'
  <2> DEFINE l0 == job[Bg].l0
             l1 == job[Bg].l1
             gone1 == {level1[i] : i \in job[Bg].positions \cap DOMAIN level1}
             delta == [x \in DOMAIN tables |->
                         -One(x \in l0) - One(x \in gone1)
                           - One(x \in Inputs(Bg))]
  <2>1. delta \in [DOMAIN tables -> Int]
    BY DEF One
  <2>2. /\ tables' = Counted(tables, delta) /\ UNCHANGED snap
        /\ job' = [job EXCEPT ![Bg] = NoJob] /\ pc[Bg] \in Merging
    BY <1>15 DEF CompactionCommit, Merging
  <2>3. gone1 = l1
    BY <2>2 DEF MergeInv
  <2>4. /\ l0 \subseteq ToSet(level0) /\ l1 \subseteq ToSet(level1)
        /\ ToSet(level0) \cap ToSet(level1) = {} /\ Outputs(Bg) \cap Levels = {}
    BY <2>3 DEF MergeInv, ToSet
  <2>5. Levels' = (Levels \ Inputs(Bg)) \cup Outputs(Bg)
    <3>1. /\ ToSet(level0') = ToSet(level0) \ l0
          /\ ToSet(level1') = (ToSet(level1) \ gone1) \cup Outputs(Bg)
      BY <1>15, NewLevels DEF MergeInv
    <3> QED BY <2>3, <2>4, <3>1 DEF Levels, Inputs
  <2> HIDE DEF gone1
  <2>6. ASSUME NEW x \in DOMAIN tables PROVE Count(x) + delta[x] = Count(x)'
    <3>1. ReadersOfTable(x)' = ReadersOfTable(x)
      BY <2>2 DEF ReadersOfTable, Held
    <3>2. (Inputs(Bg) \cup Outputs(Bg))' = {}
      BY <1>13, <2>2
    <3>3. Inputs(Bg) = l0 \cup l1 /\ Inputs(Bg) \subseteq Levels
      BY <2>4 DEF Inputs, Levels
    <3>4. delta[x] = -One(x \in l0) - One(x \in l1) - One(x \in Inputs(Bg))
      BY <2>3
    <3>5. CASE x \in Inputs(Bg)
      <4>1. One(x \in l0) + One(x \in l1) = 1 /\ x \in Levels /\ x \notin Outputs(Bg)
        BY <2>4, <3>3, <3>5 DEF One, Levels
      <4>2. x \notin Levels'
        BY <2>5, <3>5, <4>1
      <4> HIDE DEF delta, l0, l1
      <4>3. delta[x] = -2
        BY <3>4, <3>5, <4>1 DEF One
      <4>4. Count(x) = 2 + Cardinality(ReadersOfTable(x))
        BY <1>f, <3>5, <4>1 DEF Count, One
      <4>5. Count(x)' = Cardinality(ReadersOfTable(x))
        BY <1>f, <3>1, <3>2, <4>2 DEF Count, One
      <4> QED BY <1>f, <4>3, <4>4, <4>5
    <3>6. CASE x \notin Inputs(Bg)
      <4>1. x \in Levels' <=> x \in Levels \/ x \in Outputs(Bg)
        BY <2>5, <3>6
      <4>2. ~(x \in Levels /\ x \in Outputs(Bg)) /\ delta[x] = 0
        BY <2>4, <3>3, <3>4, <3>6 DEF One
      <4> QED BY <1>f, <3>1, <3>2, <3>6, <4>1, <4>2 DEF Count, One
    <3> QED BY <3>5, <3>6
  <2> HIDE DEF delta
  <2> QED BY <1>2, <2>1, <2>2, <2>6
<1>16. ASSUME NEW t \in Closers, CloseRelease(t) PROVE SSTableRefsExact'
  <2> DEFINE delta == [x \in DOMAIN tables |-> -One(x \in Levels)]
  <2>1. delta \in [DOMAIN tables -> Int]
    BY DEF One
  <2>2. /\ tables' = Counted(tables, delta) /\ UNCHANGED <<snap, job>>
        /\ level0' = <<>> /\ level1' = <<>>
    BY <1>16 DEF CloseRelease
  <2>3. Levels' = {} /\ (Inputs(Bg) \cup Outputs(Bg))' = Inputs(Bg) \cup Outputs(Bg)
    BY <2>2 DEF Levels, ToSet, Inputs, Outputs
  <2>4. ASSUME NEW x \in DOMAIN tables PROVE Count(x) + delta[x] = Count(x)'
    <3>1. ReadersOfTable(x)' = ReadersOfTable(x)
      BY <2>2 DEF ReadersOfTable, Held
    <3> QED BY <1>f, <2>3, <3>1 DEF Count, One
  <2> HIDE DEF delta
  <2> QED BY <1>2, <2>1, <2>2, <2>4
<1>17. ASSUME LoadNumber(Bg) PROVE SSTableRefsExact'
  <2>1. /\ job' = [job EXCEPT ![Bg].num = nextFile]
        /\ UNCHANGED <<tables, level0, level1, snap>>
    BY <1>17 DEF LoadNumber
  <2>2. /\ job'[Bg].l0 = job[Bg].l0 /\ job'[Bg].l1 = job[Bg].l1
        /\ job'[Bg].out = job[Bg].out
    BY <1>p, <1>w, <2>1 DEF Job
  <2> QED BY <1>1, <2>1, <2>2 DEF Inputs, Outputs
<1>18. ASSUME CompactionSkip(Bg) \/ OpenOutput(Bg) PROVE SSTableRefsExact'
  BY <1>1, <1>18 DEF CompactionSkip, OpenOutput, Inputs, Outputs
<1>19. ASSUME NEW w \in Writers, NEW k \in Unwritten,
              PutFast(w, k) \/ SwitchMemTable(w, k)
       PROVE  SSTableRefsExact'
  BY <1>1, <1>19 DEF PutFast, SwitchMemTable, Inputs, Outputs
<1>20. ASSUME NEW w \in Writers, MakeRoomWait(w) PROVE SSTableRefsExact'
  BY <1>1, <1>20 DEF MakeRoomWait, Inputs, Outputs
<1>21. ASSUME UNCHANGED vars PROVE SSTableRefsExact'
  BY <1>1, <1>21 DEF vars, Inputs, Outputs
<1> QED
  <2> USE Workers
  <2> QED BY <1>4, <1>5, <1>6, <1>8, <1>9, <1>10, <1>11, <1>12, <1>14, <1>15,
             <1>16, <1>17, <1>18, <1>19, <1>20, <1>21 DEF Next, Flushers, Closed

-----------------------------------------------------------------------------
(* The invariant *)

LEMMA InitInv ==
  ASSUME OneCompactor, Init
  PROVE  IInv
<1> USE DEF Init
<1>w. /\ Flushers = {Bg} \cup Closers /\ Threads = Writers \cup {Bg} \cup Closers
      /\ Bg \notin Closers /\ Bg \notin Writers /\ MergingThreads = {Bg}
  BY Workers
<1>n. /\ NoJob.imm = None /\ NoJob.l0 = {} /\ NoJob.l1 = {} /\ NoJob.out = <<>>
      /\ NoJob \in Job
  BY DEF NoJob, Job, None
<1>s. /\ NoSnap.mem = None /\ NoSnap.imm = None /\ NoSnap.l0 = <<>>
      /\ NoSnap.l1 = <<>> /\ NoSnap \in Snap /\ Held(NoSnap) = {}
  BY DEF NoSnap, Snap, None, Held, ToSet
<1>t. /\ pc[Bg] = "flush" /\ \A t \in Threads \ {Bg} : pc[t] = "idle"
      /\ \A t \in Flushers : job[t] = NoJob
      /\ \A r \in Readers : snap[r] = NoSnap
  BY <1>w DEF Flushers
<1>l. Levels = {} /\ ToSet(level0) = {} /\ ToSet(level1) = {} /\ ToSet(job[Bg].out) = {}
  BY <1>n, <1>t, <1>w DEF Levels, ToSet
<1>h. /\ memtables \in Seq([data : SUBSET Keys, refs : Int]) /\ Len(memtables) = 1
      /\ DOMAIN memtables = {1} /\ memtables[1].refs = 1
      /\ DOMAIN tables = {}
  OBVIOUS
<1>1. Shape
  <2>1. MemShape
    <3>1. acked \in Seq(Keys) /\ IsInjective(acked)
      BY DEF IsInjective
    <3>2. mem \in 0..1 /\ imm \in 0..1 /\ ioFailures \in 0..MaxIOFailures
      BY ConstantsAssumption DEF None
    <3>3. immFlushing \in BOOLEAN
      OBVIOUS
    <3> HIDE DEF Init
    <3> QED BY <1>h, <3>1, <3>2, <3>3 DEF MemShape
  <2>2. TableShape
    BY ConstantsAssumption DEF TableShape
  <2>3. LocalShape
    BY <1>n, <1>s, <1>w DEF LocalShape, Labels, Flushers
  <2> QED BY <2>1, <2>2, <2>3 DEF Shape
<1>2. StagesInv
  BY <1>t, <1>w DEF StagesInv, None
<1>3. FlushInv
  BY <1>n, <1>t, <1>w DEF FlushInv
<1>4. MergeInv
  <2> HIDE DEF Init
  <2>1. /\ job[Bg] = NoJob /\ pc[Bg] \notin Merging
        /\ job[Bg].l0 = {} /\ Outputs(Bg) = {}
    BY <1>l, <1>n, <1>t, <1>w DEF Outputs, Merging
  <2> QED BY <1>l, <1>n, <1>t, <1>w, <2>1 DEF MergeInv, Merging
<1>5. SnapsInv
  BY <1>h, <1>s, <1>t DEF SnapsInv, InRange, None
<1>6. RefsExact
  <2>1. ReadersOfMemTable(1) = {}
    BY <1>s, <1>t DEF ReadersOfMemTable, None
  <2>2. MemTableRefsExact
    <3>1. mem = 1 /\ imm = None /\ Cardinality(ReadersOfMemTable(1)) = 0
      BY <2>1, FS_EmptySet
    <3> HIDE DEF Init
    <3> QED BY <1>h, <3>1 DEF MemTableRefsExact, One, None
  <2>3. SSTableRefsExact
    BY <1>h DEF SSTableRefsExact
  <2> QED BY <2>2, <2>3 DEF RefsExact
<1> QED BY <1>1, <1>2, <1>3, <1>4, <1>5, <1>6 DEF IInv

LEMMA StepInv ==
  ASSUME IInv, OneCompactor, [Next]_vars
  PROVE  IInv'
<1>1. Shape'
  BY MemShapeStep, TableShapeStep, LocalShapeStep DEF Shape
<1>2. RefsExact'
  BY MemTableRefsStep, SSTableRefsStep DEF RefsExact
<1> QED BY <1>1, <1>2, StagesStep, FlushStep, MergeStep, SnapsStep DEF IInv

LEMMA Invariance ==
  ASSUME OneCompactor
  PROVE  Spec => []IInv
<1>1. Init => IInv
  BY InitInv
<1>2. IInv /\ [Next]_vars => IInv'
  BY StepInv
<1> QED BY <1>1, <1>2, PTL DEF Spec

-----------------------------------------------------------------------------
\* In such a state a count is a natural number, and above 0 while there is a
\* holder.
LEMMA HeldIsAlive ==
  ASSUME OneCompactor, IInv
  PROVE  /\ \A m \in DOMAIN memtables :
              /\ memtables[m].refs \in Nat
              /\ m \in {mem, imm} \/ ReadersOfMemTable(m) # {}
                   => memtables[m].refs > 0
         /\ \A x \in DOMAIN tables :
              /\ tables[x].refs \in Nat
              /\ x \in Levels \/ ReadersOfTable(x) # {} \/ MergersOf(x) # {}
                   => tables[x].refs > 0
<1> USE DEF IInv, RefsExact
<1>w. MergingThreads = {Bg}
  BY Workers
<1>1. ASSUME NEW S, IsFiniteSet(S)
      PROVE  Cardinality(S) \in Nat /\ (S # {} => Cardinality(S) > 0)
  BY <1>1, FS_CardinalityType, FS_EmptySet
<1>2. ASSUME NEW m \in DOMAIN memtables
      PROVE  /\ memtables[m].refs \in Nat
             /\ m \in {mem, imm} \/ ReadersOfMemTable(m) # {}
                  => memtables[m].refs > 0
  <2>1. IsFiniteSet(ReadersOfMemTable(m))
    <3>1. ReadersOfMemTable(m) \in SUBSET Readers
      BY DEF ReadersOfMemTable
    <3> QED BY <3>1, ConstantsAssumption, FS_Subset
  <2> QED BY <1>1, <2>1 DEF MemTableRefsExact, One
<1>3. ASSUME NEW x \in DOMAIN tables
      PROVE  /\ tables[x].refs \in Nat
             /\ x \in Levels \/ ReadersOfTable(x) # {} \/ MergersOf(x) # {}
                  => tables[x].refs > 0
  <2>1. IsFiniteSet(ReadersOfTable(x))
    <3>1. ReadersOfTable(x) \in SUBSET Readers
      BY DEF ReadersOfTable
    <3> QED BY <3>1, ConstantsAssumption, FS_Subset
  <2>2. IsFiniteSet(MergersOf(x))
    <3>1. MergersOf(x) \in SUBSET MergingThreads
      BY DEF MergersOf
    <3> QED BY <3>1, <1>w, FS_Singleton, FS_Subset
  <2> QED BY <1>1, <2>1, <2>2 DEF SSTableRefsExact, One
<1> QED BY <1>2, <1>3

LEMMA TypesFollow ==
  ASSUME OneCompactor, IInv
  PROVE  TypeOK
<1>1. memtables \in Seq([data : SUBSET Keys, refs : Nat])
  <2> DEFINE R == [data : SUBSET Keys, refs : Nat]
  <2>1. /\ memtables \in Seq(MemTables) /\ DOMAIN memtables = 1..Len(memtables)
        /\ Len(memtables) \in Nat /\ \A m \in DOMAIN memtables : memtables[m] \in MemTables
    BY SeqElements DEF IInv, Shape, MemShape, MemTables
  <2>2. \A m \in DOMAIN memtables : memtables[m] \in R
    BY <2>1, HeldIsAlive DEF MemTables
  <2> HIDE DEF R
  <2>3. memtables = [m \in 1..Len(memtables) |-> memtables[m]]
    BY <2>1
  <2>4. memtables \in Seq(R)
    BY <2>1, <2>2, <2>3, SeqFromFunction
  <2> QED BY <2>4 DEF R
<1>2. tables \in Seq([num : Nat, data : SUBSET Keys, refs : Nat])
  <2> DEFINE R == [num : Nat, data : SUBSET Keys, refs : Nat]
  <2>1. /\ tables \in Seq(SSTables) /\ DOMAIN tables = 1..Len(tables)
        /\ Len(tables) \in Nat /\ \A x \in DOMAIN tables : tables[x] \in SSTables
    BY SeqElements DEF IInv, Shape, TableShape, SSTables
  <2>2. \A x \in DOMAIN tables : tables[x] \in R
    BY <2>1, HeldIsAlive DEF SSTables
  <2> HIDE DEF R
  <2>3. tables = [x \in 1..Len(tables) |-> tables[x]]
    BY <2>1
  <2>4. tables \in Seq(R)
    BY <2>1, <2>2, <2>3, SeqFromFunction
  <2> QED BY <2>4 DEF R
<1> QED
  BY <1>1, <1>2 DEF IInv, Shape, MemShape, TableShape, LocalShape, TypeOK, Flushers, Labels

LEMMA AliveFollows ==
  ASSUME OneCompactor, IInv
  PROVE  NoUseAfterFree
<1> USE DEF IInv, Shape
<1>w. MergingThreads = {Bg} /\ MergingThreads \cup SyncThreads = Flushers
  BY Workers DEF Flushers
<1>d. /\ DOMAIN memtables = 1..Len(memtables) /\ Len(memtables) \in Nat
      /\ mem \in 0..Len(memtables) /\ imm \in 0..Len(memtables)
  BY SeqElements DEF MemShape
<1>1. ASSUME NEW m \in {mem, imm}, m # None PROVE memtables[m].refs > 0
  BY <1>1, <1>d, HeldIsAlive DEF None
<1>2. ASSUME NEW t \in Flushers, job[t].imm # None
      PROVE  memtables[job[t].imm].refs > 0
  BY <1>1, <1>2 DEF FlushInv
<1>3. ASSUME NEW r \in Readers, NEW m \in {snap[r].mem, snap[r].imm}, m # None
      PROVE  memtables[m].refs > 0
  <2>1. m \in DOMAIN memtables
    BY <1>3, <1>d DEF SnapsInv, InRange, LocalShape, Snap, None
  <2> QED BY <1>3, <2>1, HeldIsAlive DEF ReadersOfMemTable
<1>4. ASSUME NEW x \in Levels PROVE tables[x].refs > 0
  BY <1>4, HeldIsAlive, LevelIsSet DEF Levels
<1>5. ASSUME NEW r \in Readers, NEW x \in Held(snap[r]) PROVE tables[x].refs > 0
  BY <1>5, HeldIsAlive DEF SnapsInv, InRange, ReadersOfTable
<1>i. Inputs(Bg) \subseteq Levels
  <2>1. CASE pc[Bg] \in Merging
    BY <2>1 DEF Inputs, MergeInv, Levels, ToSet
  <2>2. CASE pc[Bg] \notin Merging
    BY <1>w, <2>2 DEF Inputs, MergeInv
  <2> QED BY <2>1, <2>2
<1>6. ASSUME NEW x \in Inputs(Bg) \cup Outputs(Bg) PROVE tables[x].refs > 0
  <2>1. x \in DOMAIN tables
    BY <1>i, LevelIsSet DEF MergeInv, Levels
  <2>2. Bg \in MergersOf(x)
    BY <1>w DEF MergersOf
  <2> QED BY <2>1, <2>2, HeldIsAlive
<1>7. ASSUME NEW m \in {mem, imm} \cup {job[t].imm : t \in Flushers}
                 \cup UNION {{snap[r].mem, snap[r].imm} : r \in Readers},
             m # None
      PROVE  memtables[m].refs > 0
  BY <1>1, <1>2, <1>3, <1>7
<1>8. ASSUME NEW x,
             \/ x \in Levels
             \/ x \in UNION {Held(snap[r]) : r \in Readers}
             \/ x \in UNION {Inputs(t) \cup Outputs(t) : t \in {Bg}}
      PROVE  tables[x].refs > 0
  BY <1>4, <1>5, <1>6, <1>8
<1> HIDE DEF IInv, Shape
<1>9. {job[t].imm : t \in MergingThreads \cup SyncThreads} = {job[t].imm : t \in Flushers}
  BY <1>w
<1>10. UNION {Inputs(t) \cup Outputs(t) : t \in MergingThreads}
         = UNION {Inputs(t) \cup Outputs(t) : t \in {Bg}}
  BY <1>w
<1>11. \A m \in {mem, imm} \cup {job[t].imm : t \in MergingThreads \cup SyncThreads}
             \cup UNION {{snap[r].mem, snap[r].imm} : r \in Readers} :
         m # None => memtables[m].refs > 0
  BY <1>7, <1>9
<1>12. \A x \in Levels \cup (UNION {Held(snap[r]) : r \in Readers})
             \cup UNION {Inputs(t) \cup Outputs(t) : t \in MergingThreads} :
         tables[x].refs > 0
  BY <1>8, <1>10
<1> QED BY <1>11, <1>12 DEF NoUseAfterFree

\* Every variable keeps its type; that no reference count becomes negative rests
\* on the counts being exact.
THEOREM TypeCorrect == OneCompactor => (Spec => []TypeOK)
<1> SUFFICES ASSUME OneCompactor PROVE Spec => []TypeOK
  OBVIOUS
<1>1. IInv => TypeOK
  BY TypesFollow
<1> QED BY <1>1, Invariance, PTL

\* While only the background thread compacts, every ref_count_ is at every
\* moment the number of holders (db.cc:251-300, 452-661; memtable.h and
\* sstable.h Ref and Unref), however many threads write and read, and with ~DB
\* at any point.
THEOREM CountsExact == OneCompactor => (Spec => []RefsExact)
<1> SUFFICES ASSUME OneCompactor PROVE Spec => []RefsExact
  OBVIOUS
<1>1. IInv => RefsExact
  BY DEF IInv
<1> QED BY <1>1, Invariance, PTL

\* Nothing that the DB, a read, a flush or a compaction still uses has deleted
\* itself. A flush, which takes no reference, is safe because imm_ stays where it
\* is while imm_flushing_ is set.
THEOREM NothingUsedIsFreed == OneCompactor => (Spec => []NoUseAfterFree)
<1> SUFFICES ASSUME OneCompactor PROVE Spec => []NoUseAfterFree
  OBVIOUS
<1>1. IInv => NoUseAfterFree
  BY AliveFollows
<1> QED BY <1>1, Invariance, PTL

-----------------------------------------------------------------------------
(***************************************************************************)
(* What is in the memtables and tables: Get finds what was acknowledged,   *)
(* in the order of age, and flushes and merges are invisible, so that the  *)
(* module implements SnapshotStore. OneWorker is assumed: the properties   *)
(* about files are false with a second merging thread (db.cc:537).         *)
(*                                                                         *)
(* The invariant CInv has four parts: levels_[1] and its snapshots ascend  *)
(* (SortedInv), what is searched later is older (AgeInv), the outputs of a *)
(* merge and the keys it still has to write are the keys of its inputs     *)
(* (ContentsInv), and file numbers are unique and their files there        *)
(* (NumbersInv). Each has one lemma ...Step. The bisection of levels_[1]   *)
(* is shown to find the one table whose range holds the key                *)
(* (BisectionFinds): a set of numbers that contains 0 and each successor   *)
(* is Nat (AllNumbers), which needs no operator as a parameter.            *)
(***************************************************************************)

\* Only the background thread flushes and merges: no thread calls CompactRange,
\* and the DB stays open.
OneWorker == Compactors = {} /\ Closers = {}

\* The keys of a memtable, if there is one, and of some tables.
Data(heap, m) == IF m = None THEN {} ELSE heap[m].data
KeysIn(heap, ids) == UNION {heap[x].data : x \in ids}

\* Every key of S is smaller than every key of T.
Below(S, T) == \A a \in S, b \in T : a < b
\* Every key of S was acknowledged before every key of T.
Older(log, S, T) ==
  \A a, b \in DOMAIN log : log[a] \in S /\ log[b] \in T => a < b

\* The tables of s ascend, without overlap and without an empty one among them.
Sorted(heap, s) ==
  /\ \A i \in DOMAIN s : heap[s[i]].data # {}
  /\ \A i, j \in DOMAIN s : i < j => Below(heap[s[i]].data, heap[s[j]].data)

SortedInv ==
  /\ Sorted(tables, level1)
  /\ \A r \in Readers : Sorted(tables, snap[r].l1)

\* What is acknowledged (log) is in mem_ (M), imm_ (I) or a level (L0, L1), and
\* the later a source is searched the older are its keys.
Aged(log, M, I, L0, L1) ==
  /\ ToSet(log) = M \cup I \cup L0 \cup L1
  /\ Older(log, I, M)
  /\ Older(log, L0 \cup L1, M \cup I)
  /\ Older(log, L1, L0)

\* The tables of s are in the order of age.
InOrder(log, heap, s) ==
  \A i, j \in DOMAIN s : i < j => Older(log, heap[s[i]].data, heap[s[j]].data)

AgeInv ==
  /\ Aged(acked, Data(memtables, mem), Data(memtables, imm),
          KeysIn(tables, ToSet(level0)), KeysIn(tables, ToSet(level1)))
  /\ InOrder(acked, tables, level0)

\* A merge has all of levels_[0]; its outputs, in order, and what is still to be
\* written are the keys of its inputs; every other table of levels_[1] lies on one
\* side of them.
ContentsInv ==
  pc[Bg] \in Merging =>
    LET j == job[Bg]
        inputs == KeysIn(tables, Inputs(Bg))
        outputs == KeysIn(tables, Outputs(Bg))
    IN  /\ j.l0 = ToSet(level0)
        /\ outputs \cup j.todo = inputs
        /\ Sorted(tables, j.out) /\ Below(outputs, j.todo)
        /\ pc[Bg] # "merge" => j.todo # {}
        /\ \A x \in ToSet(level1) \ j.l1 :
              Below(tables[x].data, inputs) \/ Below(inputs, tables[x].data)

\* No number is handed out twice, and the files of what is in a level, finished or
\* being built are there.
NumbersInv ==
  /\ \A x \in DOMAIN tables : tables[x].num < nextFile
  /\ \A x, y \in DOMAIN tables : tables[x].num = tables[y].num => x = y
  /\ pc[Bg] = "store" => job[Bg].num = nextFile
  /\ pc[Bg] \in {"build", "output"} =>
       /\ job[Bg].num < nextFile
       /\ \A x \in DOMAIN tables : tables[x].num # job[Bg].num
       /\ job[Bg].num \in files
  /\ Numbers(Levels \cup Outputs(Bg)) \subseteq files

CInv == SortedInv /\ AgeInv /\ ContentsInv /\ NumbersInv

-----------------------------------------------------------------------------
(* Natural numbers and the bisection *)

LEMMA Least ==
  ASSUME NEW S \in SUBSET Nat, S # {}
  PROVE  \E m \in S : \A k \in S : m <= k
<1> DEFINE R == OpToRel(<, Nat)
<1>1. IsWellFoundedOn(R, Nat)
  BY NatLessThanWellFounded
<1> HIDE DEF R
<1>2. PICK x \in S : \A y \in S : ~ (<<y, x>> \in R)
  BY <1>1, WFMin
<1>3. \A y \in S : ~(y < x)
  BY <1>2 DEF R, OpToRel
<1> QED BY <1>3

LEMMA AllNumbers ==
  ASSUME NEW S \in SUBSET Nat, 0 \in S, \A n \in S : n + 1 \in S
  PROVE  S = Nat
<1> SUFFICES ASSUME S # Nat PROVE FALSE
  OBVIOUS
<1>1. Nat \ S # {} /\ Nat \ S \in SUBSET Nat
  OBVIOUS
<1>2. PICK m \in Nat \ S : \A k \in Nat \ S : m <= k
  BY <1>1, Least
<1>3. m # 0 /\ m - 1 \in Nat /\ m - 1 < m
  BY <1>2
<1>4. m - 1 \in S
  BY <1>2, <1>3
<1> QED BY <1>2, <1>3, <1>4

LEMMA MinIsLeast ==
  ASSUME NEW S \in SUBSET Nat, S # {}
  PROVE  Min(S) \in S /\ \A y \in S : Min(S) <= y
BY Least DEF Min

LEMMA FiniteIsBounded ==
  ASSUME NEW S \in SUBSET Nat, IsFiniteSet(S)
  PROVE  \E b \in Nat : \A y \in S : y <= b
<1> DEFINE bounded(T) == \E b \in Nat : \A y \in T : y <= b
           reached == {n \in Nat : \A T \in SUBSET S : Cardinality(T) = n => bounded(T)}
<1>0. \A T \in SUBSET S : IsFiniteSet(T)
  BY FS_Subset
<1>1. 0 \in reached
  <2>1. \A T \in SUBSET S : Cardinality(T) = 0 => T = {}
    BY <1>0, FS_EmptySet
  <2>2. bounded({})
    OBVIOUS
  <2> HIDE DEF bounded
  <2> QED BY <2>1, <2>2
<1>2. ASSUME NEW n \in reached PROVE n + 1 \in reached
  <2>1. ASSUME NEW T \in SUBSET S, Cardinality(T) = n + 1 PROVE bounded(T)
    <3>0. IsFiniteSet(T) /\ n \in Nat /\ T # {}
      BY <1>0, <2>1, FS_EmptySet
    <3>1. PICK x \in T : TRUE
      BY <3>0
    <3>2. Cardinality(T \ {x}) = n
      <4>1. Cardinality(T \ {x}) = Cardinality(T) - 1
        BY <3>0, FS_RemoveElement
      <4> QED BY <2>1, <3>0, <4>1
    <3>3. bounded(T \ {x})
      <4>1. T \ {x} \in SUBSET S
        OBVIOUS
      <4> HIDE DEF bounded
      <4> QED BY <3>2, <4>1
    <3>4. PICK b \in Nat : \A y \in T \ {x} : y <= b
      BY <3>3
    <3>5. CASE x <= b
      BY <3>4, <3>5
    <3>6. CASE b < x
      <4>1. x \in Nat /\ \A y \in T : y <= x
        BY <3>4, <3>6
      <4> QED BY <4>1
    <3> QED BY <3>5, <3>6
  <2> HIDE DEF bounded
  <2> QED BY <2>1
<1>3. reached = Nat
  <2> HIDE DEF reached
  <2>1. reached \in SUBSET Nat
    BY DEF reached
  <2> QED BY <1>1, <1>2, <2>1, AllNumbers
<1> HIDE DEF bounded
<1> QED
  <2>1. Cardinality(S) \in Nat
    BY FS_CardinalityType
  <2>2. bounded(S)
    BY <1>3, <2>1
  <2> QED BY <2>2 DEF bounded

LEMMA MaxIsGreatest ==
  ASSUME NEW S \in SUBSET Nat, S # {}, IsFiniteSet(S)
  PROVE  Max(S) \in S /\ \A y \in S : y <= Max(S)
<1>1. PICK b \in Nat : \A y \in S : y <= b
  BY FiniteIsBounded
<1> DEFINE gaps == {b - y : y \in S}
<1>2. gaps \in SUBSET Nat /\ gaps # {}
  <2>1. \A y \in S : b - y \in Nat
    BY <1>1
  <2> QED BY <2>1
<1>3. PICK g \in gaps : \A h \in gaps : g <= h
  BY <1>2, Least
<1>4. PICK x \in S : g = b - x
  BY <1>3
<1>5. \A y \in S : y <= x
  <2> SUFFICES ASSUME NEW y \in S PROVE y <= x
    OBVIOUS
  <2>1. g <= b - y
    BY <1>3
  <2> QED BY <1>4, <2>1
<1> QED BY <1>5 DEF Max


\* One step of the bisection, which goes on with search.
Bisect(f, k, search, left, right) ==
  LET mid == (left + right) \div 2
  IN  IF left > right THEN None
      ELSE IF k < FirstKey(f[mid]) THEN search[<<left, mid - 1>>]
      ELSE IF k > LastKey(f[mid]) THEN search[<<mid + 1, right>>]
      ELSE mid

LEMMA Middle ==
  ASSUME NEW n \in Nat, NEW l \in 1..n + 1, NEW r \in 0..n, l <= r
  PROVE  LET mid == (l + r) \div 2
         IN  mid \in l..r /\ mid - 1 \in 0..n /\ mid + 1 \in 1..n + 1
OBVIOUS

SearchTable(f, k, n, search) ==
  [range \in (1..n + 1) \X (0..n) |-> Bisect(f, k, search, range[1], range[2])]

\* The recursion has a solution, since the range shrinks.
LEMMA BisectionExists ==
  ASSUME NEW f, NEW n \in Nat, NEW k
  PROVE  \E search : search = SearchTable(f, k, n, search)
<1> DEFINE D == (1..n + 1) \X (0..n)
           table(g) == [p \in D |-> Bisect(f, k, g, p[1], p[2])]
           solves(g, m) == \A l \in 1..n + 1, r \in 0..n :
                              r + 1 - l <= m => g[<<l, r>>] = Bisect(f, k, g, l, r)
           reached == {m \in Nat : \E g : solves(g, m)}
           agree(g, h, len) == \A a \in 1..n + 1, b \in 0..n :
                                 b - a < len => g[<<a, b>>] = h[<<a, b>>]
<1>0. ASSUME NEW g, NEW l \in 1..n + 1, NEW r \in 0..n
      PROVE  table(g)[<<l, r>>] = Bisect(f, k, g, l, r)
  OBVIOUS
<1>a. ASSUME NEW g, NEW h, NEW l \in 1..n + 1, NEW r \in 0..n, agree(g, h, r - l)
      PROVE  Bisect(f, k, g, l, r) = Bisect(f, k, h, l, r)
  <2>1. CASE l > r
    BY <2>1 DEF Bisect
  <2>2. CASE l <= r
    <3>1. PICK mid : mid = (l + r) \div 2
      OBVIOUS
    <3>2. mid \in l..r /\ mid - 1 \in 0..n /\ mid + 1 \in 1..n + 1
      BY <2>2, <3>1, Middle
    <3>3. /\ g[<<l, mid - 1>>] = h[<<l, mid - 1>>]
          /\ g[<<mid + 1, r>>] = h[<<mid + 1, r>>]
      BY <1>a, <3>2
    <3> QED BY <3>1, <3>3 DEF Bisect
  <2> QED BY <2>1, <2>2
<1> HIDE DEF D, table, agree
<1>1. 0 \in reached
  <2>1. PICK g : g = [p \in D |-> None]
    OBVIOUS
  <2>2. solves(g, 0)
    BY <2>1 DEF D, Bisect
  <2> HIDE DEF solves
  <2> QED BY <2>2
<1>2. ASSUME NEW m \in reached PROVE m + 1 \in reached
  <2>1. PICK g : solves(g, m)
    OBVIOUS
  <2>2. PICK h : h = table(g)
    OBVIOUS
  <2>3. \A l \in 1..n + 1, r \in 0..n : h[<<l, r>>] = Bisect(f, k, g, l, r)
    BY <1>0, <2>2
  <2>4. ASSUME NEW l \in 1..n + 1, NEW r \in 0..n, r + 1 - l <= m + 1
        PROVE  h[<<l, r>>] = Bisect(f, k, h, l, r)
    <3>1. ASSUME NEW a \in 1..n + 1, NEW b \in 0..n, b - a < r - l
          PROVE  g[<<a, b>>] = h[<<a, b>>]
      <4>1. b + 1 - a <= m
        BY <2>4, <3>1
      <4> QED BY <2>1, <2>3, <4>1
    <3>2. agree(g, h, r - l)
      BY <3>1 DEF agree
    <3>3. Bisect(f, k, g, l, r) = Bisect(f, k, h, l, r)
      BY <1>a, <3>2
    <3> QED BY <2>3, <3>3
  <2>5. solves(h, m + 1)
    BY <2>4
  <2> HIDE DEF solves
  <2> QED BY <2>5
<1>3. reached = Nat
  BY <1>1, <1>2, AllNumbers
<1>4. PICK g : solves(g, n)
  BY <1>3
<1>5. ASSUME NEW l \in 1..n + 1, NEW r \in 0..n
      PROVE  g[<<l, r>>] = Bisect(f, k, g, l, r)
  <2>1. r + 1 - l <= n
    OBVIOUS
  <2> QED BY <1>4, <2>1
<1>6. PICK h : h = table(g)
  OBVIOUS
<1>7. \A l \in 1..n + 1, r \in 0..n : h[<<l, r>>] = g[<<l, r>>]
  BY <1>0, <1>5, <1>6
<1>8. ASSUME NEW p \in D PROVE Bisect(f, k, g, p[1], p[2]) = Bisect(f, k, h, p[1], p[2])
  <2>1. p[1] \in 1..n + 1 /\ p[2] \in 0..n
    BY DEF D
  <2>2. agree(g, h, p[2] - p[1])
    BY <1>7 DEF agree
  <2> QED BY <1>a, <2>1, <2>2
<1>9. h = [p \in D |-> Bisect(f, k, h, p[1], p[2])]
  BY <1>6, <1>8 DEF table
<1> QED BY <1>9 DEF D, SearchTable

\* The tables of f cover ranges that ascend.
Ranges(f) ==
  /\ Len(f) \in Nat
  /\ \A i \in 1..Len(f) : /\ FirstKey(f[i]) \in Nat /\ LastKey(f[i]) \in Nat
                          /\ FirstKey(f[i]) <= LastKey(f[i])
  /\ \A i, j \in 1..Len(f) : i < j => LastKey(f[i]) < FirstKey(f[j])

\* i is where k belongs, 0 if it belongs nowhere.
Belongs(f, k, i) ==
  /\ i \in 0..Len(f)
  /\ \A j \in 1..Len(f) : FirstKey(f[j]) <= k /\ k <= LastKey(f[j]) <=> j = i

\* If k belongs anywhere, then between left and right.
Outside(f, k, left, right) ==
  \A i \in 1..Len(f) : /\ i < left => LastKey(f[i]) < k
                       /\ i > right => k < FirstKey(f[i])

\* A step is right if the two searches it may go on with are.
LEMMA BisectStep ==
  ASSUME NEW f, NEW k \in Nat, Ranges(f), NEW search,
         NEW l \in 1..Len(f) + 1, NEW r \in 0..Len(f), Outside(f, k, l, r),
         \A a \in 1..Len(f) + 1, b \in 0..Len(f) :
           b - a < r - l /\ Outside(f, k, a, b) => Belongs(f, k, search[<<a, b>>])
  PROVE  Belongs(f, k, Bisect(f, k, search, l, r))
<1> DEFINE step == Bisect(f, k, search, l, r)
<1>0. Len(f) \in Nat
  BY DEF Ranges
<1>1. CASE l > r
  <2>1. step = 0
    BY <1>1 DEF Bisect, None
  <2>2. ASSUME NEW i \in 1..Len(f) PROVE ~(FirstKey(f[i]) <= k /\ k <= LastKey(f[i]))
    <3>1. i < l \/ i > r
      BY <1>0, <1>1
    <3>2. FirstKey(f[i]) \in Nat /\ LastKey(f[i]) \in Nat
      BY DEF Ranges
    <3> QED BY <3>1, <3>2 DEF Outside
  <2> QED BY <1>0, <2>1, <2>2 DEF Belongs
<1>2. CASE l <= r
  <2>1. PICK mid : mid = (l + r) \div 2
    OBVIOUS
  <2>2. /\ mid \in l..r /\ mid \in 1..Len(f)
        /\ mid - 1 \in 0..Len(f) /\ mid + 1 \in 1..Len(f) + 1
    BY <1>0, <1>2, <2>1, Middle
  <2>3. FirstKey(f[mid]) \in Nat /\ LastKey(f[mid]) \in Nat
    BY <2>2 DEF Ranges
  <2>4. CASE k < FirstKey(f[mid])
    <3>1. step = search[<<l, mid - 1>>]
      BY <1>2, <2>1, <2>4 DEF Bisect
    <3>2. Outside(f, k, l, mid - 1)
      <4>1. ASSUME NEW i \in 1..Len(f), i > mid - 1 PROVE k < FirstKey(f[i])
        <5>1. i = mid \/ mid < i
          BY <2>2, <4>1
        <5>2. mid < i => /\ LastKey(f[mid]) < FirstKey(f[i]) /\ FirstKey(f[i]) \in Nat
                         /\ FirstKey(f[mid]) <= LastKey(f[mid])
          BY <2>2 DEF Ranges
        <5> QED BY <2>3, <2>4, <5>1, <5>2
      <4> QED BY <4>1 DEF Outside
    <3>3. mid - 1 - l < r - l
      BY <2>2
    <3> QED BY <2>2, <3>1, <3>2, <3>3
  <2>5. CASE k > LastKey(f[mid]) /\ ~(k < FirstKey(f[mid]))
    <3>1. step = search[<<mid + 1, r>>]
      BY <1>2, <2>1, <2>5 DEF Bisect
    <3>2. Outside(f, k, mid + 1, r)
      <4>1. ASSUME NEW i \in 1..Len(f), i < mid + 1 PROVE LastKey(f[i]) < k
        <5>1. i = mid \/ i < mid
          BY <2>2, <4>1
        <5>2. i < mid => /\ LastKey(f[i]) < FirstKey(f[mid]) /\ LastKey(f[i]) \in Nat
                         /\ FirstKey(f[mid]) <= LastKey(f[mid])
          BY <2>2 DEF Ranges
        <5> QED BY <2>3, <2>5, <5>1, <5>2
      <4> QED BY <4>1 DEF Outside
    <3>3. r - (mid + 1) < r - l
      BY <2>2
    <3> QED BY <2>2, <3>1, <3>2, <3>3
  <2>6. CASE ~(k > LastKey(f[mid])) /\ ~(k < FirstKey(f[mid]))
    <3>1. step = mid
      BY <1>2, <2>1, <2>6 DEF Bisect
    <3>2. FirstKey(f[mid]) <= k /\ k <= LastKey(f[mid])
      BY <2>3, <2>6
    <3>3. ASSUME NEW j \in 1..Len(f), FirstKey(f[j]) <= k, k <= LastKey(f[j]) PROVE j = mid
      <4>1. /\ j < mid => LastKey(f[j]) < FirstKey(f[mid])
            /\ mid < j => LastKey(f[mid]) < FirstKey(f[j])
            /\ FirstKey(f[j]) \in Nat /\ LastKey(f[j]) \in Nat
        BY <2>2 DEF Ranges
      <4> QED BY <2>2, <2>3, <3>2, <3>3, <4>1
    <3>4. mid \in 0..Len(f)
      BY <2>2
    <3> QED BY <3>1, <3>2, <3>3, <3>4 DEF Belongs
  <2> QED BY <2>4, <2>5, <2>6
<1> QED BY <1>0, <1>1, <1>2

\* The bisection ends where k belongs.
LEMMA BisectionFinds ==
  ASSUME NEW f, NEW k \in Nat, Ranges(f)
  PROVE  Belongs(f, k, BinarySearch(f, k))
<1>0. Len(f) \in Nat
  BY DEF Ranges
<1> DEFINE search == CHOOSE g : g = SearchTable(f, k, Len(f), g)
<1>1. BinarySearch(f, k) = search[<<1, Len(f)>>]
  BY DEF BinarySearch, Bisect, SearchTable
<1>2. search = SearchTable(f, k, Len(f), search)
  BY <1>0, BisectionExists
<1> HIDE DEF search
<1>4. ASSUME NEW l \in 1..Len(f) + 1, NEW r \in 0..Len(f)
      PROVE  search[<<l, r>>] = Bisect(f, k, search, l, r)
  <2>1. SearchTable(f, k, Len(f), search)[<<l, r>>] = Bisect(f, k, search, l, r)
    BY DEF SearchTable
  <2> QED BY <1>2, <2>1
<1> DEFINE reached == {m \in Nat : \A l \in 1..Len(f) + 1, r \in 0..Len(f) :
                         r + 1 - l <= m /\ Outside(f, k, l, r)
                           => Belongs(f, k, search[<<l, r>>])}
<1>5. 0 \in reached
  <2>1. ASSUME NEW l \in 1..Len(f) + 1, NEW r \in 0..Len(f), r + 1 - l <= 0,
               Outside(f, k, l, r)
        PROVE  Belongs(f, k, search[<<l, r>>])
    <3>1. search[<<l, r>>] = 0
      <4>1. l > r
        BY <1>0, <2>1
      <4> QED BY <1>4, <4>1 DEF Bisect, None
    <3>2. ASSUME NEW i \in 1..Len(f) PROVE ~(FirstKey(f[i]) <= k /\ k <= LastKey(f[i]))
      <4>1. i < l \/ i > r
        BY <1>0, <2>1
      <4>2. FirstKey(f[i]) \in Nat /\ LastKey(f[i]) \in Nat
        BY DEF Ranges
      <4> QED BY <2>1, <4>1, <4>2 DEF Outside
    <3> QED BY <1>0, <3>1, <3>2 DEF Belongs
  <2> QED BY <2>1
<1>6. ASSUME NEW m \in reached PROVE m + 1 \in reached
  <2>1. ASSUME NEW l \in 1..Len(f) + 1, NEW r \in 0..Len(f), r + 1 - l <= m + 1,
               Outside(f, k, l, r)
        PROVE  Belongs(f, k, search[<<l, r>>])
    <3>1. m \in Nat
      OBVIOUS
    <3>2. ASSUME NEW a \in 1..Len(f) + 1, NEW b \in 0..Len(f), b - a < r - l,
                 Outside(f, k, a, b)
          PROVE  Belongs(f, k, search[<<a, b>>])
      <4>1. b + 1 - a <= m
        BY <1>0, <2>1, <3>1, <3>2
      <4> QED BY <3>2, <4>1
    <3>3. Belongs(f, k, Bisect(f, k, search, l, r))
      BY <2>1, <3>2, BisectStep
    <3> QED BY <1>4, <3>3
  <2> QED BY <2>1
<1>7. reached = Nat
  <2>1. reached \in SUBSET Nat
    OBVIOUS
  <2> HIDE DEF reached
  <2> QED BY <1>5, <1>6, <2>1, AllNumbers
<1>8. Belongs(f, k, search[<<1, Len(f)>>])
  <2>1. 1 \in 1..Len(f) + 1 /\ Len(f) \in 0..Len(f) /\ Len(f) + 1 - 1 <= Len(f)
    BY <1>0
  <2>2. Outside(f, k, 1, Len(f))
    BY <1>0 DEF Outside
  <2> QED BY <1>0, <1>7, <2>1, <2>2
<1> QED BY <1>1, <1>8

-----------------------------------------------------------------------------
(* Sets of keys *)

LEMMA SameKeys ==
  ASSUME NEW g, NEW h, NEW ids, \A x \in ids : h[x].data = g[x].data
  PROVE  KeysIn(h, ids) = KeysIn(g, ids)
BY DEF KeysIn

LEMMA KeysOfUnion ==
  ASSUME NEW h, NEW ids, NEW more
  PROVE  KeysIn(h, ids \cup more) = KeysIn(h, ids) \cup KeysIn(h, more)
BY DEF KeysIn

LEMMA KeysOfOne ==
  ASSUME NEW h, NEW x
  PROVE  KeysIn(h, {x}) = h[x].data /\ KeysIn(h, {}) = {}
BY DEF KeysIn

LEMMA SameSorted ==
  ASSUME NEW g, NEW h, NEW s, \A x \in ToSet(s) : h[x].data = g[x].data,
         Sorted(g, s)
  PROVE  Sorted(h, s)
<1>1. \A i \in DOMAIN s : s[i] \in ToSet(s)
  BY DEF ToSet
<1> QED BY <1>1 DEF Sorted

LEMMA SameLog ==
  ASSUME NEW log, NEW S, NEW T, NEW U, NEW V, U \subseteq S, V \subseteq T,
         Older(log, S, T)
  PROVE  Older(log, U, V)
BY DEF Older

\* A new key is younger than all others.
LEMMA LongerLog ==
  ASSUME NEW log \in Seq(Nat), NEW k \in Nat, k \notin ToSet(log),
         NEW S, NEW T, NEW V, Older(log, S, T), k \notin S, V \subseteq T \cup {k}
  PROVE  Older(Append(log, k), S, V)
<1>1. /\ DOMAIN log = 1..Len(log) /\ Len(log) \in Nat
      /\ DOMAIN Append(log, k) = 1..Len(log) + 1
      /\ \A a \in 1..Len(log) : Append(log, k)[a] = log[a]
      /\ Append(log, k)[Len(log) + 1] = k
  OBVIOUS
<1>2. \A a \in 1..Len(log) : log[a] # k
  BY <1>1 DEF ToSet
<1>3. ASSUME NEW a \in 1..Len(log) + 1, NEW b \in 1..Len(log) + 1,
             Append(log, k)[a] \in S, Append(log, k)[b] \in V
      PROVE  a < b
  <2>1. a \in 1..Len(log) /\ log[a] \in S
    BY <1>1, <1>3
  <2>2. CASE b = Len(log) + 1
    BY <1>1, <2>1, <2>2
  <2>3. CASE b # Len(log) + 1
    <3>1. b \in 1..Len(log) /\ Append(log, k)[b] = log[b]
      BY <1>1, <2>3
    <3>2. log[b] \in T
      BY <1>2, <1>3, <3>1
    <3> QED BY <1>1, <2>1, <3>1, <3>2 DEF Older
  <2> QED BY <2>2, <2>3
<1> QED BY <1>1, <1>3 DEF Older

-----------------------------------------------------------------------------
(* Ranges of tables *)

LEMMA KeysAreFinite ==
  ASSUME NEW S \in SUBSET Keys
  PROVE  IsFiniteSet(S) /\ S \in SUBSET Nat /\ 0 \notin S
BY ConstantsAssumption, FS_Subset

LEMMA KeyRange ==
  ASSUME Shape, NEW x \in DOMAIN tables
  PROVE  /\ tables[x].data \in SUBSET Keys
         /\ FirstKey(x) \in Nat /\ LastKey(x) \in Nat /\ FirstKey(x) <= LastKey(x)
         /\ tables[x].data # {} =>
              FirstKey(x) \in tables[x].data /\ LastKey(x) \in tables[x].data
         /\ \A k \in tables[x].data : FirstKey(x) <= k /\ k <= LastKey(x)
<1>1. tables[x] \in SSTables
  BY SeqElements DEF Shape, TableShape, SSTables
<1>2. tables[x].data \in SUBSET Keys
  BY <1>1 DEF SSTables
<1>3. IsFiniteSet(tables[x].data) /\ tables[x].data \in SUBSET Nat
  BY <1>2, KeysAreFinite
<1>4. CASE tables[x].data = {}
  BY <1>4 DEF FirstKey, LastKey
<1>5. CASE tables[x].data # {}
  <2>1. /\ FirstKey(x) = Min(tables[x].data) /\ LastKey(x) = Max(tables[x].data)
    BY <1>5 DEF FirstKey, LastKey
  <2>2. /\ FirstKey(x) \in tables[x].data
        /\ \A k \in tables[x].data : FirstKey(x) <= k
    BY <1>3, <1>5, <2>1, MinIsLeast
  <2>3. /\ LastKey(x) \in tables[x].data
        /\ \A k \in tables[x].data : k <= LastKey(x)
    BY <1>3, <1>5, <2>1, MaxIsGreatest
  <2> QED BY <1>2, <1>3, <2>2, <2>3
<1> QED BY <1>2, <1>4, <1>5

\* Ascending tables have ascending ranges.
LEMMA SortedRanges ==
  ASSUME Shape, NEW s \in Seq(DOMAIN tables), Sorted(tables, s)
  PROVE  Ranges(s)
<1>1. Len(s) \in Nat /\ DOMAIN s = 1..Len(s) /\ \A i \in 1..Len(s) : s[i] \in DOMAIN tables
  OBVIOUS
<1>2. ASSUME NEW i \in 1..Len(s)
      PROVE  /\ FirstKey(s[i]) \in Nat /\ LastKey(s[i]) \in Nat
             /\ FirstKey(s[i]) <= LastKey(s[i])
  BY <1>1, KeyRange
<1>3. ASSUME NEW i \in 1..Len(s), NEW j \in 1..Len(s), i < j
      PROVE  LastKey(s[i]) < FirstKey(s[j])
  <2>1. /\ LastKey(s[i]) \in tables[s[i]].data /\ FirstKey(s[j]) \in tables[s[j]].data
    BY <1>1, KeyRange DEF Sorted
  <2>2. Below(tables[s[i]].data, tables[s[j]].data)
    BY <1>1, <1>3 DEF Sorted
  <2> QED BY <2>1, <2>2 DEF Below
<1> QED BY <1>1, <1>2, <1>3 DEF Ranges

\* A batch is not empty and has the smallest keys.
LEMMA BatchProps ==
  ASSUME NEW todo \in SUBSET Keys, todo # {}
  PROVE  /\ Batch(todo) # {} /\ Batch(todo) \subseteq todo
         /\ Below(Batch(todo), todo \ Batch(todo))
<1> DEFINE before(k) == {j \in todo : j < k}
<1>1. IsFiniteSet(todo) /\ todo \in SUBSET Nat
  BY KeysAreFinite
<1>2. \A k \in todo : IsFiniteSet(before(k)) /\ Cardinality(before(k)) \in Nat
  <2>1. \A k \in todo : IsFiniteSet(before(k))
    BY <1>1, FS_Subset
  <2> HIDE DEF before
  <2> QED BY <2>1, FS_CardinalityType
<1>3. PICK m \in todo : \A k \in todo : m <= k
  BY <1>1, Least
<1>4. m \in Batch(todo)
  <2>1. before(m) = {}
    <3>1. \A j \in todo : ~(j < m)
      BY <1>1, <1>3
    <3> QED BY <3>1
  <2>2. Cardinality({}) = 0
    BY FS_EmptySet
  <2> QED BY <1>3, <2>1, <2>2, ConstantsAssumption DEF Batch
<1>5. ASSUME NEW a \in Batch(todo), NEW b \in todo \ Batch(todo) PROVE a < b
  <2>1. a \in todo /\ a \in Nat /\ b \in Nat /\ a # b
    BY <1>1, <1>5 DEF Batch
  <2>2. CASE b < a
    <3>1. before(b) \subseteq before(a)
      <4>1. \A j \in todo : j < b => j < a
        BY <1>1, <2>1, <2>2
      <4> QED BY <4>1
    <3>2. Cardinality(before(b)) <= Cardinality(before(a))
      BY <1>2, <2>1, <3>1, FS_Subset
    <3>3. Cardinality(before(a)) < TableCapacity
      BY DEF Batch
    <3>4. Cardinality(before(b)) < TableCapacity
      <4> HIDE DEF before
      <4> QED BY <1>2, <2>1, <3>2, <3>3, ConstantsAssumption
    <3> QED BY <3>4 DEF Batch
  <2> QED BY <2>1, <2>2
<1> QED BY <1>4, <1>5 DEF Batch, Below

-----------------------------------------------------------------------------
(* What the steps do *)

\* Who is who then.
LEMMA OnlyBg ==
  ASSUME OneWorker
  PROVE  /\ OneCompactor /\ MergingThreads = {Bg} /\ SyncThreads = {}
         /\ Flushers = {Bg} /\ Threads = Writers \cup {Bg} /\ Bg \notin Writers
BY ConstantsAssumption DEF OneWorker, OneCompactor, MergingThreads, Flushers,
                           SyncThreads, Threads

LEMMA StepCases ==
  ASSUME OneWorker, [Next]_vars
  PROVE  \/ \E w \in Writers, k \in Unwritten : PutFast(w, k) \/ SwitchMemTable(w, k)
         \/ \E w \in Writers : MakeRoomWait(w)
         \/ \E r \in Readers : BeginRead(r) \/ EndRead(r)
         \/ FlushBegin(Bg) \/ FlushSkip(Bg) \/ FlushCommit(Bg) \/ FlushFail(Bg)
         \/ CompactionBegin(Bg) \/ CompactionSkip(Bg)
         \/ LoadNumber(Bg) \/ OpenOutput(Bg) \/ FinishOutput(Bg)
         \/ CompactionFail(Bg) \/ CompactionCommit(Bg)
         \/ UNCHANGED vars
<1>1. MergingThreads = {Bg} /\ SyncThreads = {} /\ Closers = {}
  BY OnlyBg DEF OneWorker
<1> QED BY <1>1 DEF Next

\* A table keeps its keys and its number.
LEMMA TablesKept ==
  ASSUME IInv, OneWorker, [Next]_vars
  PROVE  \A x \in DOMAIN tables :
           /\ x \in DOMAIN tables'
           /\ tables'[x].data = tables[x].data /\ tables'[x].num = tables[x].num
<1> USE DEF IInv
<1>w. OneCompactor /\ Flushers = {Bg}
  BY OnlyBg
<1>1. CASE UNCHANGED tables
  BY <1>1
<1>2. ASSUME NEW inc,
             tables' = Counted(tables, [x \in DOMAIN tables |-> One(x \in inc)])
      PROVE  \A x \in DOMAIN tables :
               /\ x \in DOMAIN tables'
               /\ tables'[x].data = tables[x].data /\ tables'[x].num = tables[x].num
  <2>1. [x \in DOMAIN tables |-> One(x \in inc)] \in [DOMAIN tables -> Int]
    BY DEF One
  <2> QED BY <1>2, <2>1, SSTablesCounted
<1>3. ASSUME NEW dec,
             tables' = Counted(tables, [x \in DOMAIN tables |-> -One(x \in dec)])
      PROVE  \A x \in DOMAIN tables :
               /\ x \in DOMAIN tables'
               /\ tables'[x].data = tables[x].data /\ tables'[x].num = tables[x].num
  <2>1. [x \in DOMAIN tables |-> -One(x \in dec)] \in [DOMAIN tables -> Int]
    BY DEF One
  <2> QED BY <1>3, <2>1, SSTablesCounted
<1>4. ASSUME NEW t \in Flushers, NEW data \in SUBSET Keys, NewTable(t, data)
      PROVE  \A x \in DOMAIN tables :
               /\ x \in DOMAIN tables'
               /\ tables'[x].data = tables[x].data /\ tables'[x].num = tables[x].num
  <2>1. /\ DOMAIN tables' = 1..Len(tables) + 1 /\ Len(tables) \in Nat
        /\ DOMAIN tables = 1..Len(tables)
        /\ \A x \in DOMAIN tables : tables'[x] = tables[x]
    BY <1>4, NewSSTable
  <2> QED BY <2>1
<1>5. CASE \E r \in Readers : BeginRead(r) \/ EndRead(r)
  BY <1>2, <1>3, <1>5 DEF BeginRead, EndRead
<1>6. CASE FlushCommit(Bg)
  <2>1. memtables[job[Bg].imm].data \in SUBSET Keys
    BY <1>w, <1>6, FlushedKeys DEF FlushCommit
  <2> QED BY <1>w, <1>4, <1>6, <2>1 DEF FlushCommit
<1>7. CASE FinishOutput(Bg)
  <2>1. Batch(job[Bg].todo) \in SUBSET Keys
    BY <1>w DEF Batch, Shape, LocalShape, Job
  <2> QED BY <1>w, <1>4, <1>7, <2>1 DEF FinishOutput
<1>8. CASE CompactionBegin(Bg)
  BY <1>2, <1>8 DEF CompactionBegin
<1>9. CASE CompactionFail(Bg)
  BY <1>3, <1>9 DEF CompactionFail
<1>10. CASE CompactionCommit(Bg)
  <2> DEFINE gone0 == job[Bg].l0
             gone1 == {level1[i] : i \in job[Bg].positions \cap DOMAIN level1}
             delta == [x \in DOMAIN tables |->
                        -One(x \in gone0) - One(x \in gone1) - One(x \in Inputs(Bg))]
  <2>1. tables' = Counted(tables, delta)
    BY <1>10 DEF CompactionCommit
  <2>2. delta \in [DOMAIN tables -> Int]
    BY DEF One
  <2> HIDE DEF delta
  <2> QED BY <2>1, <2>2, SSTablesCounted
<1>11. CASE (\/ \E w \in Writers, k \in Unwritten : PutFast(w, k) \/ SwitchMemTable(w, k)
             \/ \E w \in Writers : MakeRoomWait(w)
             \/ FlushBegin(Bg) \/ FlushSkip(Bg) \/ FlushFail(Bg)
             \/ CompactionSkip(Bg) \/ LoadNumber(Bg) \/ OpenOutput(Bg)
             \/ UNCHANGED vars)
  BY <1>1, <1>11 DEF PutFast, SwitchMemTable, MakeRoomWait, FlushBegin, FlushSkip,
     FlushFail, CompactionSkip, LoadNumber, OpenOutput, vars
<1> QED BY <1>5, <1>6, <1>7, <1>8, <1>9, <1>10, <1>11, StepCases

\* What an append to the log and the write to memtable m amount to.
LEMMA KeyWritten ==
  ASSUME Shape, NEW k \in Unwritten, NEW h \in Seq(MemTables), NEW m \in DOMAIN h,
         WriteRecord(k, m, h)
  PROVE  /\ k \in Keys /\ k \in Nat /\ k \notin ToSet(acked)
         /\ DOMAIN memtables' = DOMAIN h
         /\ \A x \in DOMAIN h : x # m => memtables'[x].data = h[x].data
         /\ \/ acked' = acked /\ memtables'[m].data = h[m].data
            \/ /\ acked' = Append(acked, k)
               /\ memtables'[m].data = h[m].data \cup {k}
<1>1. \A x \in DOMAIN h : h[x] \in MemTables
  <2> HIDE DEF MemTables
  <2> QED BY SeqElements
<1>2. k \in Keys /\ k \in Nat /\ k \notin ToSet(acked)
  BY ConstantsAssumption DEF Unwritten
<1>3. CASE memtables' = h /\ UNCHANGED acked
  BY <1>2, <1>3
<1>4. CASE /\ memtables' = [h EXCEPT ![m].data = @ \cup {k}]
           /\ acked' = Append(acked, k)
  BY <1>1, <1>2, <1>4 DEF MemTables
<1> QED BY <1>3, <1>4 DEF WriteRecord

LEMMA PutEffect ==
  ASSUME IInv, OneWorker, NEW w \in Writers, NEW k \in Unwritten, PutFast(w, k)
  PROVE  /\ k \in Keys /\ k \in Nat /\ k \notin ToSet(acked)
         /\ mem \in DOMAIN memtables /\ DOMAIN memtables' = DOMAIN memtables
         /\ \A x \in DOMAIN memtables : x # mem => memtables'[x].data = memtables[x].data
         /\ \/ acked' = acked /\ memtables'[mem].data = memtables[mem].data
            \/ /\ acked' = Append(acked, k)
               /\ memtables'[mem].data = memtables[mem].data \cup {k}
         /\ UNCHANGED <<mem, imm, tables, level0, level1, nextFile, files, pc, job, snap>>
<1> USE DEF IInv
<1>1. memtables \in Seq(MemTables) /\ mem \in DOMAIN memtables
  BY DEF Shape, MemShape, MemTables, StagesInv, OneWorker, None
<1>2. WriteRecord(k, mem, memtables)
  BY DEF PutFast
<1> QED BY <1>1, <1>2, KeyWritten DEF PutFast

LEMMA SwitchEffect ==
  ASSUME IInv, OneWorker, NEW w \in Writers, NEW k \in Unwritten, SwitchMemTable(w, k)
  PROVE  /\ k \in Keys /\ k \in Nat /\ k \notin ToSet(acked)
         /\ imm = None /\ imm' = mem /\ mem' = Len(memtables) + 1
         /\ mem \in 1..Len(memtables) /\ Len(memtables) \in Nat
         /\ DOMAIN memtables = 1..Len(memtables)
         /\ DOMAIN memtables' = 1..Len(memtables) + 1
         /\ \A x \in DOMAIN memtables : memtables'[x].data = memtables[x].data
         /\ \/ acked' = acked /\ memtables'[mem'].data = {}
            \/ acked' = Append(acked, k) /\ memtables'[mem'].data = {k}
         /\ UNCHANGED <<tables, level0, level1, nextFile, files, job, snap>>
         /\ pc'[Bg] = pc[Bg]
<1> USE DEF IInv
<1> DEFINE h == Append(memtables, [data |-> {}, refs |-> 1])
           new == Len(memtables) + 1
<1>1. /\ h \in Seq(MemTables) /\ Len(h) = new /\ DOMAIN h = 1..new
      /\ \A x \in DOMAIN memtables : h[x] = memtables[x]
  BY NewMemTable
<1>2. /\ DOMAIN memtables = 1..Len(memtables) /\ Len(memtables) \in Nat
      /\ mem \in 1..Len(memtables) /\ h[new].data = {}
  BY DEF Shape, MemShape, StagesInv, OneWorker, None
<1>3. WriteRecord(k, new, h) /\ mem' = new /\ imm' = mem /\ imm = None
  BY DEF SwitchMemTable
<1>4. UNCHANGED <<tables, level0, level1, nextFile, files, job, snap>> /\ pc'[Bg] = pc[Bg]
  <2>1. Bg # w
    BY OnlyBg
  <2> QED BY <2>1 DEF SwitchMemTable, Goto, Shape, LocalShape
<1>5. new \in DOMAIN h
  BY <1>1, <1>2
<1> HIDE DEF h
<1>6. /\ k \in Keys /\ k \in Nat /\ k \notin ToSet(acked)
      /\ DOMAIN memtables' = DOMAIN h
      /\ \A x \in DOMAIN h : x # new => memtables'[x].data = h[x].data
      /\ \/ acked' = acked /\ memtables'[new].data = h[new].data
         \/ /\ acked' = Append(acked, k)
            /\ memtables'[new].data = h[new].data \cup {k}
  BY <1>1, <1>3, <1>5, KeyWritten
<1>7. \A x \in DOMAIN memtables : memtables'[x].data = memtables[x].data
  BY <1>1, <1>2, <1>6
<1> QED BY <1>1, <1>2, <1>3, <1>4, <1>6, <1>7

\* Reads and flushes change reference counts of memtables, never their keys.
LEMMA MemTablesKept ==
  ASSUME IInv, OneWorker,
         \/ \E r \in Readers : BeginRead(r) \/ EndRead(r)
         \/ FlushCommit(Bg)
  PROVE  /\ DOMAIN memtables' = DOMAIN memtables
         /\ \A x \in DOMAIN memtables : memtables'[x].data = memtables[x].data
<1> USE DEF IInv
<1>1. ASSUME NEW delta \in [DOMAIN memtables -> Int],
             memtables' = Counted(memtables, delta)
      PROVE  /\ DOMAIN memtables' = DOMAIN memtables
             /\ \A x \in DOMAIN memtables : memtables'[x].data = memtables[x].data
  BY <1>1, MemTablesCounted
<1>2. ASSUME NEW S
      PROVE  /\ [m \in DOMAIN memtables |-> One(m \in S)] \in [DOMAIN memtables -> Int]
             /\ [m \in DOMAIN memtables |-> -One(m \in S)] \in [DOMAIN memtables -> Int]
  BY DEF One
<1>3. CASE \E r \in Readers : BeginRead(r) \/ EndRead(r)
  BY <1>1, <1>2, <1>3 DEF BeginRead, EndRead
<1>4. CASE FlushCommit(Bg)
  <2>1. [m \in DOMAIN memtables |-> -One(m = imm)] \in [DOMAIN memtables -> Int]
    BY DEF One
  <2> QED BY <1>1, <1>4, <2>1 DEF FlushCommit, ReleaseImm
<1> QED BY <1>3, <1>4

\* What a flush appends to levels_[0].
LEMMA FlushEffect ==
  ASSUME IInv, OneWorker, FlushCommit(Bg)
  PROVE  /\ imm \in DOMAIN memtables /\ imm # None /\ mem # imm
         /\ imm' = None /\ UNCHANGED <<acked, mem, level1, nextFile, files, snap>>
         /\ DOMAIN tables = 1..Len(tables) /\ Len(tables) \in Nat
         /\ DOMAIN tables' = 1..Len(tables) + 1
         /\ tables'[Len(tables) + 1].data = memtables[imm].data
         /\ tables'[Len(tables) + 1].num = job[Bg].num
         /\ level0' = Append(level0, Len(tables) + 1)
         /\ level0 \in Seq(1..Len(tables)) /\ ToSet(level1) \subseteq DOMAIN tables
         /\ pc[Bg] = "build" /\ pc'[Bg] = "compact" /\ job'[Bg] = NoJob
<1> USE DEF IInv
<1>w. Flushers = {Bg} /\ Closers = {} /\ Threads = Writers \cup {Bg} /\ OneCompactor
  BY OnlyBg DEF OneWorker
<1>1. pc[Bg] = "build" /\ job[Bg].imm = imm /\ imm # None /\ mem # imm
  <2>1. pc[Bg] = "build"
    BY DEF FlushCommit
  <2>2. mem # None
    BY <1>w DEF StagesInv
  <2> QED BY <1>w, <2>1, <2>2 DEF FlushInv, StagesInv
<1>2. imm \in DOMAIN memtables
  BY <1>1 DEF Shape, MemShape, None
<1>3. memtables[imm].data \in SUBSET Keys
  BY <1>w, <1>1, FlushedKeys
<1>4. NewTable(Bg, memtables[imm].data)
  BY <1>1 DEF FlushCommit
<1>5. /\ DOMAIN tables' = 1..Len(tables) + 1 /\ Len(tables) \in Nat
      /\ DOMAIN tables = 1..Len(tables)
      /\ tables'[Len(tables) + 1] =
           [num |-> job[Bg].num, data |-> memtables[imm].data, refs |-> 1]
  BY <1>w, <1>3, <1>4, NewSSTable
<1>6. level0 \in Seq(1..Len(tables)) /\ ToSet(level1) \subseteq DOMAIN tables
  BY <1>5, LevelIsSet DEF Shape, TableShape
<1>7. pc'[Bg] = "compact" /\ job'[Bg] = NoJob
  BY <1>w DEF FlushCommit, Goto, AfterFlush, Shape, LocalShape
<1> QED BY <1>1, <1>2, <1>5, <1>6, <1>7 DEF FlushCommit, ReleaseImm, PushTable

\* What the merge has when it is over.
LEMMA CommitEffect ==
  ASSUME IInv, OneWorker, ContentsInv, CompactionCommit(Bg)
  PROVE  LET ids == (ToSet(level1) \ job[Bg].l1) \cup Outputs(Bg)
         IN  /\ ids \subseteq DOMAIN tables
             /\ level1' \in ByFirstKey(ids) /\ IsFiniteSet(ids)
             /\ level1' \in Seq(ids) /\ ToSet(level1') = ids
             /\ \A i, j \in DOMAIN level1' : i # j => level1'[i] # level1'[j]
             /\ level0' \in Seq(DOMAIN tables) /\ ToSet(level0') = {}
             /\ job[Bg].l0 = ToSet(level0) /\ job[Bg].l1 \subseteq ToSet(level1)
             /\ KeysIn(tables, Outputs(Bg)) = KeysIn(tables, Inputs(Bg))
             /\ files' = files \ Numbers(job[Bg].l0 \cup job[Bg].l1)
             /\ UNCHANGED <<acked, memtables, mem, imm, nextFile, snap>>
             /\ pc[Bg] = "merge" /\ pc'[Bg] = "flush" /\ job'[Bg] = NoJob
<1> USE DEF IInv
<1>w. Flushers = {Bg} /\ Threads = Writers \cup {Bg}
  BY OnlyBg
<1> DEFINE gone1 == {level1[i] : i \in job[Bg].positions \cap DOMAIN level1}
           ids == (ToSet(level1) \ gone1) \cup Outputs(Bg)
<1>1. pc[Bg] = "merge" /\ pc[Bg] \in Merging /\ job[Bg].todo = {}
  BY DEF CompactionCommit, Merging
<1>2. Outputs(Bg) \subseteq DOMAIN tables
  BY DEF MergeInv
<1>3. /\ level0' \in Seq(DOMAIN tables)
      /\ ToSet(level0') = ToSet(level0) \ job[Bg].l0
      /\ level1' \in ByFirstKey(ids)
  BY <1>2, NewLevels
<1>4. gone1 = job[Bg].l1 /\ job[Bg].l1 \subseteq ToSet(level1)
  BY <1>1 DEF MergeInv, ToSet
<1>5. job[Bg].l0 = ToSet(level0) /\ KeysIn(tables, Outputs(Bg)) = KeysIn(tables, Inputs(Bg))
  BY <1>1 DEF ContentsInv
<1>6. ids \subseteq DOMAIN tables /\ IsFiniteSet(ids)
  <2>1. ids \subseteq DOMAIN tables /\ DOMAIN tables = 1..Len(tables) /\ Len(tables) \in Nat
    BY <1>2, LevelIsSet
  <2>2. IsFiniteSet(1..Len(tables))
    BY <2>1, FS_Interval
  <2> HIDE DEF ids
  <2> QED BY <2>1, <2>2, FS_Subset
<1>7. /\ level1' \in Seq(ids) /\ ToSet(level1') = ids
      /\ \A i, j \in DOMAIN level1' : i # j => level1'[i] # level1'[j]
  <2> HIDE DEF ids
  <2> QED BY <1>3, <1>6, SeqsOfSet DEF ByFirstKey
<1>8. files' = files \ Numbers(job[Bg].l0 \cup job[Bg].l1)
  BY <1>4 DEF CompactionCommit
<1>9. pc'[Bg] = "flush" /\ job'[Bg] = NoJob
  BY <1>w DEF CompactionCommit, Goto, AfterCompaction, Shape, LocalShape
<1>10. UNCHANGED <<acked, memtables, mem, imm, nextFile, snap>>
  BY DEF CompactionCommit
<1>11. ids = (ToSet(level1) \ job[Bg].l1) \cup Outputs(Bg)
  BY <1>4
<1> HIDE DEF gone1, ids
<1> QED BY <1>1, <1>3, <1>4, <1>5, <1>6, <1>7, <1>8, <1>9, <1>10, <1>11

-----------------------------------------------------------------------------
(* The levels ascend *)

\* Tables of which any two lie on different sides of a key are sorted by their
\* first keys only in the order of all their keys.
LEMMA SortSorts ==
  ASSUME Shape, NEW ids \in SUBSET DOMAIN tables, NEW s \in Seq(ids),
         \A i, j \in DOMAIN s : i # j => s[i] # s[j],
         \A i, j \in DOMAIN s : i < j => FirstKey(s[i]) <= FirstKey(s[j]),
         \A x \in ids : tables[x].data # {},
         \A x, y \in ids : x # y => \/ Below(tables[x].data, tables[y].data)
                                    \/ Below(tables[y].data, tables[x].data)
  PROVE  Sorted(tables, s)
<1>1. DOMAIN s \subseteq Nat /\ \A i \in DOMAIN s : s[i] \in ids /\ s[i] \in DOMAIN tables
  OBVIOUS
<1>2. ASSUME NEW i \in DOMAIN s, NEW j \in DOMAIN s, i < j
      PROVE  Below(tables[s[i]].data, tables[s[j]].data)
  <2>1. s[i] # s[j] /\ FirstKey(s[i]) <= FirstKey(s[j])
    BY <1>1, <1>2
  <2>2. ~Below(tables[s[j]].data, tables[s[i]].data)
    <3>1. /\ FirstKey(s[i]) \in tables[s[i]].data /\ FirstKey(s[j]) \in tables[s[j]].data
          /\ FirstKey(s[i]) \in Nat /\ FirstKey(s[j]) \in Nat
      BY <1>1, KeyRange
    <3>2. ~(FirstKey(s[j]) < FirstKey(s[i]))
      BY <2>1, <3>1
    <3> QED BY <3>1, <3>2 DEF Below
  <2> QED BY <1>1, <2>1, <2>2
<1> QED BY <1>1, <1>2 DEF Sorted

\* The merged level: what stayed lies around the outputs.
LEMMA MergedLevelSorted ==
  ASSUME IInv, OneWorker, SortedInv, ContentsInv, CompactionCommit(Bg)
  PROVE  Sorted(tables, level1')
<1> USE DEF IInv
<1> DEFINE stays == ToSet(level1) \ job[Bg].l1
           inputs == KeysIn(tables, Inputs(Bg))
           ids == stays \cup Outputs(Bg)
<1>1. /\ ids \subseteq DOMAIN tables /\ level1' \in ByFirstKey(ids) /\ level1' \in Seq(ids)
      /\ \A i, j \in DOMAIN level1' : i # j => level1'[i] # level1'[j]
      /\ KeysIn(tables, Outputs(Bg)) = inputs
      /\ pc[Bg] = "merge"
  BY CommitEffect
<1>2. pc[Bg] \in Merging
  BY <1>1 DEF Merging
<1>3. Sorted(tables, job[Bg].out) /\ Sorted(tables, level1)
  BY <1>2 DEF ContentsInv, SortedInv
<1>4. \A x \in stays : Below(tables[x].data, inputs) \/ Below(inputs, tables[x].data)
  BY <1>2 DEF ContentsInv
<1>5. \A x \in Outputs(Bg) : tables[x].data \subseteq inputs
  BY <1>1 DEF KeysIn
<1>6. \A x \in ids : tables[x].data # {}
  BY <1>3 DEF Sorted, Outputs, ToSet
<1>a. ASSUME NEW s, DOMAIN s \subseteq Nat, Sorted(tables, s),
             NEW x \in ToSet(s), NEW y \in ToSet(s), x # y
      PROVE  Below(tables[x].data, tables[y].data) \/ Below(tables[y].data, tables[x].data)
  <2>1. PICK i \in DOMAIN s, j \in DOMAIN s : x = s[i] /\ y = s[j] /\ i \in Nat /\ j \in Nat
    BY <1>a DEF ToSet
  <2>2. i < j \/ j < i
    BY <1>a, <2>1
  <2> QED BY <1>a, <2>1, <2>2 DEF Sorted
<1>7. ASSUME NEW x \in ids, NEW y \in ids, x # y
      PROVE  Below(tables[x].data, tables[y].data) \/ Below(tables[y].data, tables[x].data)
  <2>1. DOMAIN level1 \subseteq Nat
    BY LevelIsSet
  <2>2. DOMAIN job[Bg].out \subseteq Nat
    <3>1. Flushers = {Bg}
      BY OnlyBg
    <3>2. job[Bg].out \in Seq(Nat)
      BY <3>1 DEF Shape, LocalShape, Job
    <3> QED BY <3>2
  <2>3. CASE x \in stays /\ y \in stays
    BY <1>3, <1>7, <1>a, <2>1, <2>3
  <2>4. CASE x \in Outputs(Bg) /\ y \in Outputs(Bg)
    BY <1>3, <1>7, <1>a, <2>2, <2>4 DEF Outputs
  <2>5. CASE x \in stays /\ y \in Outputs(Bg)
    BY <1>4, <1>5, <2>5 DEF Below
  <2>6. CASE x \in Outputs(Bg) /\ y \in stays
    BY <1>4, <1>5, <2>6 DEF Below
  <2> QED BY <1>7, <2>3, <2>4, <2>5, <2>6
<1>8. \A i, j \in DOMAIN level1' : i < j => FirstKey(level1'[i]) <= FirstKey(level1'[j])
  BY <1>1 DEF ByFirstKey
<1> HIDE DEF ids
<1> QED BY <1>1, <1>6, <1>7, <1>8, SortSorts

LEMMA SortedStep ==
  ASSUME IInv, OneWorker, SortedInv, ContentsInv, [Next]_vars
  PROVE  SortedInv'
<1> USE DEF IInv
<1>k. \A x \in DOMAIN tables : tables'[x].data = tables[x].data
  BY TablesKept
<1>l. ToSet(level1) \subseteq DOMAIN tables
  BY LevelIsSet
<1>r. \A r \in Readers : ToSet(snap[r].l1) \subseteq DOMAIN tables
  BY DEF SnapsInv, InRange, Held
<1>1. Sorted(tables', level1)
  BY <1>k, <1>l, SameSorted DEF SortedInv
<1>2. \A r \in Readers : Sorted(tables', snap[r].l1)
  BY <1>k, <1>r, SameSorted DEF SortedInv
<1>3. CASE UNCHANGED <<level1, snap>>
  BY <1>1, <1>2, <1>3 DEF SortedInv
<1>4. ASSUME NEW r \in Readers, BeginRead(r) PROVE SortedInv'
  <2>1. /\ UNCHANGED level1
        /\ snap' = [snap EXCEPT ![r] = [mem |-> mem, imm |-> imm,
                                        l0 |-> level0, l1 |-> level1]]
    BY <1>4 DEF BeginRead
  <2>2. \A q \in Readers : snap'[q] = snap[q] \/ snap'[q].l1 = level1
    BY <2>1 DEF Shape, LocalShape
  <2>3. \A q \in Readers : Sorted(tables', snap'[q].l1)
    BY <1>1, <1>2, <2>2
  <2> QED BY <1>1, <2>1, <2>3 DEF SortedInv
<1>5. ASSUME NEW r \in Readers, EndRead(r) PROVE SortedInv'
  <2>1. UNCHANGED level1 /\ snap' = [snap EXCEPT ![r] = NoSnap]
    BY <1>5 DEF EndRead
  <2>2. \A q \in Readers : snap'[q] = snap[q] \/ snap'[q].l1 = <<>>
    BY <2>1 DEF Shape, LocalShape, NoSnap
  <2>3. Sorted(tables', <<>>)
    BY DEF Sorted
  <2>4. \A q \in Readers : Sorted(tables', snap'[q].l1)
    BY <1>2, <2>2, <2>3
  <2> QED BY <1>1, <2>1, <2>4 DEF SortedInv
<1>6. CASE CompactionCommit(Bg)
  <2>1. Sorted(tables, level1') /\ ToSet(level1') \subseteq DOMAIN tables /\ snap' = snap
    BY <1>6, MergedLevelSorted, CommitEffect
  <2>2. Sorted(tables', level1')
    BY <1>k, <2>1, SameSorted
  <2> QED BY <1>2, <2>1, <2>2 DEF SortedInv
<1>7. CASE (\/ \E w \in Writers, k \in Unwritten : PutFast(w, k) \/ SwitchMemTable(w, k)
            \/ \E w \in Writers : MakeRoomWait(w)
            \/ FlushBegin(Bg) \/ FlushSkip(Bg) \/ FlushCommit(Bg) \/ FlushFail(Bg)
            \/ CompactionBegin(Bg) \/ CompactionSkip(Bg)
            \/ LoadNumber(Bg) \/ OpenOutput(Bg) \/ FinishOutput(Bg)
            \/ CompactionFail(Bg) \/ UNCHANGED vars)
  <2>1. UNCHANGED <<level1, snap>>
    BY <1>7 DEF PutFast, SwitchMemTable, MakeRoomWait, FlushBegin, FlushSkip,
       FlushCommit, FlushFail, CompactionBegin, CompactionSkip, LoadNumber,
       OpenOutput, FinishOutput, CompactionFail, vars
  <2> QED BY <1>3, <2>1
<1> QED BY <1>4, <1>5, <1>6, <1>7, StepCases

-----------------------------------------------------------------------------
(* The later a source is searched the older are its keys *)

LEMMA AgedPut ==
  ASSUME NEW log \in Seq(Nat), NEW k \in Nat, k \notin ToSet(log),
         NEW M, NEW I, NEW L0, NEW L1, Aged(log, M, I, L0, L1)
  PROVE  Aged(Append(log, k), M \cup {k}, I, L0, L1)
<1>1. ToSet(Append(log, k)) = ToSet(log) \cup {k}
  BY AppendSet
<1>2. k \notin I /\ k \notin L0 \cup L1
  BY DEF Aged
<1>3. Older(Append(log, k), I, M \cup {k})
  BY <1>2, LongerLog DEF Aged
<1>4. Older(Append(log, k), L0 \cup L1, (M \cup {k}) \cup I)
  <2>1. /\ Older(log, L0 \cup L1, M \cup I)
        /\ (M \cup {k}) \cup I \subseteq (M \cup I) \cup {k}
    BY DEF Aged
  <2> QED BY <1>2, <2>1, LongerLog
<1>5. Older(Append(log, k), L1, L0)
  <2>1. Older(log, L1, L0) /\ L0 \subseteq L0 \cup {k} /\ k \notin L1
    BY <1>2 DEF Aged
  <2> QED BY <2>1, LongerLog
<1> QED BY <1>1, <1>3, <1>4, <1>5 DEF Aged

LEMMA AgedSwitch ==
  ASSUME NEW log, NEW M, NEW L0, NEW L1, Aged(log, M, {}, L0, L1)
  PROVE  Aged(log, {}, M, L0, L1)
BY DEF Aged, Older

LEMMA AgedFlush ==
  ASSUME NEW log, NEW M, NEW I, NEW L0, NEW L1, Aged(log, M, I, L0, L1)
  PROVE  Aged(log, M, {}, L0 \cup I, L1)
BY DEF Aged, Older

LEMMA AgedMerge ==
  ASSUME NEW log, NEW M, NEW I, NEW L0, NEW L1, Aged(log, M, I, L0, L1)
  PROVE  Aged(log, M, I, {}, L0 \cup L1)
BY DEF Aged, Older

LEMMA AgeStep ==
  ASSUME IInv, OneWorker, AgeInv, ContentsInv, [Next]_vars
  PROVE  AgeInv'
<1> USE DEF IInv
<1> DEFINE M == Data(memtables, mem)
           I == Data(memtables, imm)
           L0 == KeysIn(tables, ToSet(level0))
           L1 == KeysIn(tables, ToSet(level1))
<1>a. Aged(acked, M, I, L0, L1) /\ InOrder(acked, tables, level0)
  BY DEF AgeInv
<1>k. \A x \in DOMAIN tables : tables'[x].data = tables[x].data
  BY TablesKept
<1>l. /\ ToSet(level0) \subseteq DOMAIN tables /\ ToSet(level1) \subseteq DOMAIN tables
      /\ \A i \in DOMAIN level0 : level0[i] \in ToSet(level0) /\ i \in Nat
  <2>1. DOMAIN level0 = 1..Len(level0) /\ Len(level0) \in Nat
    BY DEF Shape, TableShape
  <2>2. \A i \in DOMAIN level0 : level0[i] \in ToSet(level0)
    BY DEF ToSet
  <2> QED BY <2>1, <2>2, LevelIsSet
<1>s. acked \in Seq(Nat)
  <2>1. /\ Len(acked) \in Nat /\ DOMAIN acked = 1..Len(acked)
        /\ acked = [i \in 1..Len(acked) |-> acked[i]]
        /\ \A i \in 1..Len(acked) : acked[i] \in Keys
    BY DEF Shape, MemShape
  <2>2. \A i \in 1..Len(acked) : acked[i] \in Nat
    BY <2>1, ConstantsAssumption
  <2> QED BY <2>1, <2>2, SeqFromFunction
<1>m. /\ mem = None \/ mem \in DOMAIN memtables
      /\ imm = None \/ imm \in DOMAIN memtables
      /\ mem # None
  BY OnlyBg DEF Shape, MemShape, None, StagesInv, OneWorker
<1>1. KeysIn(tables', ToSet(level0)) = L0 /\ KeysIn(tables', ToSet(level1)) = L1
  BY <1>k, <1>l, SameKeys
<1>2. InOrder(acked, tables', level0)
  BY <1>a, <1>k, <1>l DEF InOrder
<1>3. ASSUME NEW k \in Nat, k \notin ToSet(acked)
      PROVE  InOrder(Append(acked, k), tables', level0)
  <2>1. ASSUME NEW i \in DOMAIN level0, NEW j \in DOMAIN level0, i < j
        PROVE  Older(Append(acked, k), tables'[level0[i]].data, tables'[level0[j]].data)
    <3>1. Older(acked, tables'[level0[i]].data, tables'[level0[j]].data)
      BY <1>2, <2>1 DEF InOrder
    <3>2. k \notin tables'[level0[i]].data
      <4>1. tables'[level0[i]].data \subseteq L0
        BY <1>1, <1>l DEF KeysIn
      <4> QED BY <1>3, <1>a, <4>1 DEF Aged
    <3> QED BY <1>3, <1>s, <3>1, <3>2, LongerLog
  <2> QED BY <2>1 DEF InOrder
<1>4. ASSUME UNCHANGED <<acked, mem, imm, level0, level1>>,
             \A x \in DOMAIN memtables : memtables'[x].data = memtables[x].data
      PROVE  AgeInv'
  <2>1. Data(memtables', mem) = M /\ Data(memtables', imm) = I
    BY <1>4, <1>m DEF Data
  <2> QED BY <1>a, <1>1, <1>2, <1>4, <2>1 DEF AgeInv
<1>5. ASSUME NEW w \in Writers, NEW k \in Unwritten, PutFast(w, k) PROVE AgeInv'
  <2>1. /\ k \in Nat /\ k \notin ToSet(acked)
        /\ \A x \in DOMAIN memtables : x # mem => memtables'[x].data = memtables[x].data
        /\ \/ acked' = acked /\ memtables'[mem].data = memtables[mem].data
           \/ /\ acked' = Append(acked, k)
              /\ memtables'[mem].data = memtables[mem].data \cup {k}
        /\ UNCHANGED <<mem, imm, level0, level1>>
    BY <1>5, PutEffect
  <2>2. CASE acked' = acked /\ memtables'[mem].data = memtables[mem].data
    BY <1>4, <2>1, <2>2
  <2>3. CASE /\ acked' = Append(acked, k)
             /\ memtables'[mem].data = memtables[mem].data \cup {k}
    <3>1. Data(memtables', mem) = M \cup {k}
      BY <1>m, <2>3 DEF Data
    <3>2. Data(memtables', imm) = I
      BY <1>m, <2>1 DEF Data, StagesInv
    <3>3. Aged(Append(acked, k), M \cup {k}, I, L0, L1)
      BY <1>a, <1>s, <2>1, AgedPut
    <3> QED BY <1>1, <1>3, <2>1, <2>3, <3>1, <3>2, <3>3 DEF AgeInv
  <2> QED BY <2>1, <2>2, <2>3
<1>6. ASSUME NEW w \in Writers, NEW k \in Unwritten, SwitchMemTable(w, k) PROVE AgeInv'
  <2>1. /\ k \in Nat /\ k \notin ToSet(acked)
        /\ imm = None /\ imm' = mem /\ mem' = Len(memtables) + 1 /\ Len(memtables) \in Nat
        /\ mem \in DOMAIN memtables
        /\ \A x \in DOMAIN memtables : memtables'[x].data = memtables[x].data
        /\ \/ acked' = acked /\ memtables'[mem'].data = {}
           \/ acked' = Append(acked, k) /\ memtables'[mem'].data = {k}
        /\ UNCHANGED <<level0, level1>>
    BY <1>6, SwitchEffect
  <2>2. I = {} /\ mem' # None
    BY <2>1 DEF Data, None
  <2>3. Data(memtables', imm') = M
    BY <1>m, <2>1 DEF Data
  <2>4. Aged(acked, {}, M, L0, L1)
    BY <1>a, <2>2, AgedSwitch
  <2>5. CASE acked' = acked /\ memtables'[mem'].data = {}
    <3>1. Data(memtables', mem') = {}
      BY <2>2, <2>5 DEF Data
    <3> QED BY <1>1, <1>2, <2>1, <2>3, <2>4, <2>5, <3>1 DEF AgeInv
  <2>6. CASE acked' = Append(acked, k) /\ memtables'[mem'].data = {k}
    <3>1. Data(memtables', mem') = {} \cup {k}
      BY <2>2, <2>6 DEF Data
    <3>2. Aged(Append(acked, k), {} \cup {k}, M, L0, L1)
      BY <1>s, <2>1, <2>4, AgedPut
    <3> QED BY <1>1, <1>3, <2>1, <2>3, <2>6, <3>1, <3>2 DEF AgeInv
  <2> QED BY <2>1, <2>5, <2>6
<1>7. CASE \E r \in Readers : BeginRead(r) \/ EndRead(r)
  <2>1. \A x \in DOMAIN memtables : memtables'[x].data = memtables[x].data
    BY <1>7, MemTablesKept
  <2> QED BY <1>4, <1>7, <2>1 DEF BeginRead, EndRead
<1>8. CASE FlushCommit(Bg)
  <2> DEFINE x == Len(tables) + 1
  <2>1. /\ imm \in DOMAIN memtables /\ imm # None /\ imm' = None
        /\ UNCHANGED <<acked, mem, level1>>
        /\ DOMAIN tables = 1..Len(tables) /\ Len(tables) \in Nat
        /\ tables'[x].data = memtables[imm].data
        /\ level0' = Append(level0, x) /\ level0 \in Seq(1..Len(tables))
    BY <1>8, FlushEffect
  <2>2. \A y \in DOMAIN memtables : memtables'[y].data = memtables[y].data
    BY <1>8, MemTablesKept
  <2>3. Data(memtables', mem') = M /\ Data(memtables', imm') = {}
    BY <1>m, <2>1, <2>2 DEF Data
  <2>4. tables'[x].data = I
    BY <2>1 DEF Data
  <2>5. KeysIn(tables', ToSet(level0')) = L0 \cup I
    <3>1. ToSet(level0') = ToSet(level0) \cup {x}
      BY <2>1, AppendSet
    <3>2. KeysIn(tables', {x}) = I
      BY <2>4, KeysOfOne
    <3> HIDE DEF x, I, L0
    <3> QED BY <1>1, <3>1, <3>2, KeysOfUnion
  <2>6. InOrder(acked, tables', level0')
    <3> DEFINE n == Len(level0)
    <3>1. /\ DOMAIN level0 = 1..n /\ n \in Nat /\ DOMAIN level0' = 1..n + 1
          /\ \A i \in 1..n : level0'[i] = level0[i]
          /\ level0'[n + 1] = x
      BY <2>1
    <3>2. ASSUME NEW i \in 1..n + 1, NEW j \in 1..n + 1, i < j
          PROVE  Older(acked, tables'[level0'[i]].data, tables'[level0'[j]].data)
      <4>1. i \in 1..n
        BY <3>1, <3>2
      <4>2. CASE j \in 1..n
        <5>1. Older(acked, tables'[level0[i]].data, tables'[level0[j]].data)
          BY <1>2, <3>1, <3>2, <4>1, <4>2 DEF InOrder
        <5> QED BY <3>1, <4>1, <4>2, <5>1
      <4>3. CASE j = n + 1
        <5>1. tables'[level0[i]].data \subseteq L0
          BY <1>1, <1>l, <3>1, <4>1 DEF KeysIn
        <5>2. Older(acked, L0 \cup L1, M \cup I)
          BY <1>a DEF Aged
        <5>3. Older(acked, tables'[level0[i]].data, I)
          <6> HIDE DEF L0, L1, M, I
          <6> QED BY <5>1, <5>2, SameLog
        <5> QED BY <2>4, <3>1, <4>1, <4>3, <5>3
      <4> QED BY <3>1, <4>2, <4>3
    <3> HIDE DEF x
    <3> QED BY <3>1, <3>2 DEF InOrder
  <2>7. Aged(acked, M, {}, L0 \cup I, L1)
    BY <1>a, AgedFlush
  <2> HIDE DEF x, M, I, L0, L1
  <2> QED BY <1>1, <2>1, <2>3, <2>5, <2>6, <2>7 DEF AgeInv
<1>9. CASE CompactionCommit(Bg)
  <2>1. /\ ToSet(level1') = (ToSet(level1) \ job[Bg].l1) \cup Outputs(Bg)
        /\ ToSet(level1') \subseteq DOMAIN tables
        /\ ToSet(level0') = {} /\ level0' \in Seq(DOMAIN tables)
        /\ job[Bg].l0 = ToSet(level0) /\ job[Bg].l1 \subseteq ToSet(level1)
        /\ KeysIn(tables, Outputs(Bg)) = KeysIn(tables, Inputs(Bg))
        /\ UNCHANGED <<acked, memtables, mem, imm>>
    BY <1>9, CommitEffect
  <2>2. KeysIn(tables', ToSet(level1')) = KeysIn(tables, ToSet(level1'))
    BY <1>k, <2>1, SameKeys
  <2>3. KeysIn(tables, ToSet(level1')) = L0 \cup L1
    <3> DEFINE stays == KeysIn(tables, ToSet(level1) \ job[Bg].l1)
    <3>1. KeysIn(tables, ToSet(level1')) = stays \cup KeysIn(tables, Inputs(Bg))
      BY <2>1, KeysOfUnion
    <3>2. KeysIn(tables, Inputs(Bg)) = L0 \cup KeysIn(tables, job[Bg].l1)
      BY <2>1, KeysOfUnion DEF Inputs
    <3>3. L1 = stays \cup KeysIn(tables, job[Bg].l1)
      <4>1. ToSet(level1) = (ToSet(level1) \ job[Bg].l1) \cup job[Bg].l1
        BY <2>1
      <4> QED BY <4>1, KeysOfUnion
    <3> HIDE DEF stays, L0, L1
    <3> QED BY <3>1, <3>2, <3>3
  <2>4. KeysIn(tables', ToSet(level0')) = {}
    BY <2>1, KeysOfOne
  <2>5. InOrder(acked, tables', level0')
    <3>1. ASSUME NEW i \in DOMAIN level0' PROVE FALSE
      <4>1. level0'[i] \in ToSet(level0')
        BY DEF ToSet
      <4> QED BY <2>1, <4>1
    <3> QED BY <3>1 DEF InOrder
  <2>6. Aged(acked, M, I, {}, L0 \cup L1)
    BY <1>a, AgedMerge
  <2> QED BY <2>1, <2>2, <2>3, <2>4, <2>5, <2>6 DEF AgeInv
<1>10. CASE (\/ \E w \in Writers : MakeRoomWait(w)
             \/ FlushBegin(Bg) \/ FlushSkip(Bg) \/ FlushFail(Bg)
             \/ CompactionBegin(Bg) \/ CompactionSkip(Bg)
             \/ LoadNumber(Bg) \/ OpenOutput(Bg) \/ FinishOutput(Bg)
             \/ CompactionFail(Bg) \/ UNCHANGED vars)
  <2>1. UNCHANGED <<acked, memtables, mem, imm, level0, level1>>
    BY <1>10 DEF MakeRoomWait, FlushBegin, FlushSkip, FlushFail, DropUnlessBackground,
       CompactionBegin, CompactionSkip, LoadNumber, OpenOutput, FinishOutput,
       CompactionFail, vars
  <2> QED BY <1>4, <2>1
<1> QED BY <1>5, <1>6, <1>7, <1>8, <1>9, <1>10, StepCases

-----------------------------------------------------------------------------
(* What a merge reads and writes *)

\* The range that BackgroundCompaction computes covers levels_[0].
LEMMA Level0Range ==
  ASSUME Shape, NeedCompaction
  PROVE  LET lo == Min({FirstKey(y) : y \in ToSet(level0)})
             hi == Max({LastKey(y) : y \in ToSet(level0)})
         IN  /\ lo \in Nat /\ hi \in Nat
             /\ \A k \in KeysIn(tables, ToSet(level0)) : lo <= k /\ k <= hi
<1> DEFINE ids == ToSet(level0)
           firsts == {FirstKey(y) : y \in ids}
           lasts == {LastKey(y) : y \in ids}
<1>1. /\ ids \subseteq DOMAIN tables
      /\ DOMAIN tables = 1..Len(tables) /\ Len(tables) \in Nat
  BY LevelIsSet
<1>2. ids # {}
  <2>1. Len(level0) >= 1 /\ DOMAIN level0 = 1..Len(level0) /\ Len(level0) \in Nat
    <3>1. DOMAIN level0 = 1..Len(level0) /\ Len(level0) \in Nat
      BY DEF Shape, TableShape
    <3>2. L0Trigger \in Nat \ {0} /\ Len(level0) >= L0Trigger
      BY ConstantsAssumption DEF NeedCompaction
    <3> QED BY <3>1, <3>2
  <2>2. level0[1] \in ids
    BY <2>1 DEF ToSet
  <2> QED BY <2>2
<1>3. IsFiniteSet(ids)
  <2>1. IsFiniteSet(1..Len(tables))
    BY <1>1, FS_Interval
  <2> HIDE DEF ids
  <2> QED BY <1>1, <2>1, FS_Subset
<1>4. \A y \in ids : /\ FirstKey(y) \in Nat /\ LastKey(y) \in Nat
                     /\ \A k \in tables[y].data : /\ k \in Nat
                                                  /\ FirstKey(y) <= k /\ k <= LastKey(y)
  BY <1>1, KeyRange, ConstantsAssumption
<1> HIDE DEF ids
<1>5. Min(firsts) \in firsts /\ \A f \in firsts : Min(firsts) <= f
  <2>1. firsts \in SUBSET Nat /\ firsts # {}
    BY <1>2, <1>4
  <2> HIDE DEF firsts
  <2> QED BY <2>1, MinIsLeast
<1>6. Max(lasts) \in lasts /\ \A l \in lasts : l <= Max(lasts)
  <2>1. lasts \in SUBSET Nat /\ lasts # {}
    BY <1>2, <1>4
  <2>2. IsFiniteSet(lasts)
    <3>1. [y \in ids |-> LastKey(y)] \in Surjection(ids, lasts)
      BY DEF Surjection
    <3> HIDE DEF lasts
    <3> QED BY <1>3, <3>1, FS_Surjection
  <2> HIDE DEF lasts
  <2> QED BY <2>1, <2>2, MaxIsGreatest
<1>7. Min(firsts) \in Nat /\ Max(lasts) \in Nat
  BY <1>4, <1>5, <1>6
<1>8. ASSUME NEW k \in KeysIn(tables, ids) PROVE Min(firsts) <= k /\ k <= Max(lasts)
  <2>1. PICK y \in ids : k \in tables[y].data
    BY DEF KeysIn
  <2>2. Min(firsts) <= FirstKey(y) /\ LastKey(y) <= Max(lasts)
    BY <1>5, <1>6
  <2>3. /\ k \in Nat /\ FirstKey(y) \in Nat /\ LastKey(y) \in Nat
        /\ FirstKey(y) <= k /\ k <= LastKey(y)
    BY <1>4, <2>1
  <2> HIDE DEF firsts, lasts
  <2> QED BY <1>7, <2>2, <2>3
<1> QED BY <1>7, <1>8 DEF ids

\* A table of levels_[1] that is not an input is on one side of all inputs.
LEMMA InputsOnOneSide ==
  ASSUME IInv, SortedInv, NeedCompaction,
         NEW l1, l1 = {y \in ToSet(level1) : Overlaps(y)},
         NEW x \in ToSet(level1) \ l1
  PROVE  LET inputs == KeysIn(tables, ToSet(level0) \cup l1)
         IN  Below(tables[x].data, inputs) \/ Below(inputs, tables[x].data)
<1> USE DEF IInv
<1> DEFINE lo == Min({FirstKey(y) : y \in ToSet(level0)})
           hi == Max({LastKey(y) : y \in ToSet(level0)})
<1>1. /\ lo \in Nat /\ hi \in Nat
      /\ \A k \in KeysIn(tables, ToSet(level0)) : lo <= k /\ k <= hi
  BY Level0Range
<1>2. ASSUME NEW y \in ToSet(level1)
      PROVE  /\ FirstKey(y) \in Nat /\ LastKey(y) \in Nat
             /\ FirstKey(y) \in tables[y].data /\ LastKey(y) \in tables[y].data
             /\ \A k \in tables[y].data : k \in Nat /\ FirstKey(y) <= k /\ k <= LastKey(y)
             /\ Overlaps(y) <=> lo <= LastKey(y) /\ FirstKey(y) <= hi
  <2>1. y \in DOMAIN tables
    BY LevelIsSet
  <2>2. tables[y].data # {}
    BY DEF SortedInv, Sorted, ToSet
  <2> QED BY <2>1, <2>2, KeyRange, ConstantsAssumption DEF Overlaps
<1> HIDE DEF lo, hi
<1>3. ASSUME NEW y \in l1
      PROVE  Below(tables[x].data, tables[y].data) \/ Below(tables[y].data, tables[x].data)
  <2>1. PICK i \in DOMAIN level1, j \in DOMAIN level1 : x = level1[i] /\ y = level1[j]
    BY DEF ToSet
  <2>2. i \in Nat /\ j \in Nat /\ i # j
    BY <2>1, LevelIsSet
  <2>3. i < j \/ j < i
    BY <2>2
  <2> QED BY <2>1, <2>3 DEF SortedInv, Sorted
<1>4. \A y \in l1 : y \in ToSet(level1) /\ lo <= LastKey(y) /\ FirstKey(y) <= hi
  BY <1>2
<1>5. \A k \in KeysIn(tables, ToSet(level0)) : k \in Nat
  <2>1. \A y \in ToSet(level0) : tables[y].data \subseteq Nat
    BY LevelIsSet, KeyRange, ConstantsAssumption
  <2> QED BY <2>1 DEF KeysIn
<1>6. ASSUME NEW y \in l1
      PROVE  /\ LastKey(x) < lo => Below(tables[x].data, tables[y].data)
             /\ hi < FirstKey(x) => Below(tables[y].data, tables[x].data)
  <2>1. CASE Below(tables[x].data, tables[y].data)
    <3>1. FirstKey(x) < FirstKey(y)
      BY <1>2, <1>4, <2>1 DEF Below
    <3>2. ~(hi < FirstKey(x))
      BY <1>1, <1>2, <1>4, <3>1
    <3> QED BY <2>1, <3>2
  <2>2. CASE Below(tables[y].data, tables[x].data)
    <3>1. LastKey(y) < LastKey(x)
      BY <1>2, <1>4, <2>2 DEF Below
    <3>2. ~(LastKey(x) < lo)
      BY <1>1, <1>2, <1>4, <3>1
    <3> QED BY <2>2, <3>2
  <2> QED BY <1>3, <2>1, <2>2
<1>7. LastKey(x) < lo \/ hi < FirstKey(x)
  BY <1>1, <1>2
<1>8. CASE LastKey(x) < lo
  <2>1. ASSUME NEW a \in tables[x].data, NEW b \in KeysIn(tables, ToSet(level0)) PROVE a < b
    <3>1. a \in Nat /\ a <= LastKey(x) /\ lo <= b /\ b \in Nat /\ LastKey(x) \in Nat
      BY <1>1, <1>2, <1>5
    <3> QED BY <1>1, <1>8, <3>1
  <2>2. ASSUME NEW a \in tables[x].data, NEW b \in KeysIn(tables, l1) PROVE a < b
    BY <1>6, <1>8 DEF KeysIn, Below
  <2> QED BY <2>1, <2>2, KeysOfUnion DEF Below
<1>9. CASE hi < FirstKey(x)
  <2>1. ASSUME NEW a \in tables[x].data, NEW b \in KeysIn(tables, ToSet(level0)) PROVE b < a
    <3>1. a \in Nat /\ FirstKey(x) <= a /\ b <= hi /\ b \in Nat /\ FirstKey(x) \in Nat
      BY <1>1, <1>2, <1>5
    <3> QED BY <1>1, <1>9, <3>1
  <2>2. ASSUME NEW a \in tables[x].data, NEW b \in KeysIn(tables, l1) PROVE b < a
    BY <1>6, <1>9 DEF KeysIn, Below
  <2> QED BY <2>1, <2>2, KeysOfUnion DEF Below
<1> QED BY <1>7, <1>8, <1>9

LEMMA ContentsStep ==
  ASSUME IInv, OneWorker, SortedInv, ContentsInv, [Next]_vars
  PROVE  ContentsInv'
<1> USE DEF IInv
<1>w. /\ Flushers = {Bg} /\ Threads = Writers \cup {Bg} /\ Bg \notin Writers
      /\ pc \in [Threads -> Labels] /\ job \in [{Bg} -> Job] /\ job[Bg] \in Job
  BY OnlyBg DEF Shape, LocalShape
<1>k. \A x \in DOMAIN tables : tables'[x].data = tables[x].data
  BY TablesKept
<1>l. /\ ToSet(level0) \subseteq DOMAIN tables /\ ToSet(level1) \subseteq DOMAIN tables
      /\ DOMAIN tables = 1..Len(tables) /\ Len(tables) \in Nat
  BY LevelIsSet
<1>m. pc[Bg] \in Merging =>
        /\ Inputs(Bg) \subseteq DOMAIN tables /\ Outputs(Bg) \subseteq DOMAIN tables
  BY <1>l DEF MergeInv, Inputs, ToSet
\* A merge that goes on with what it has.
<1>1. ASSUME UNCHANGED <<level0, level1>>,
             job'[Bg].l0 = job[Bg].l0, job'[Bg].l1 = job[Bg].l1,
             job'[Bg].out = job[Bg].out, job'[Bg].todo = job[Bg].todo,
             pc'[Bg] \in Merging =>
               pc[Bg] \in Merging /\ (pc'[Bg] # "merge" => job[Bg].todo # {})
      PROVE  ContentsInv'
  <2> SUFFICES ASSUME pc'[Bg] \in Merging PROVE ContentsInv'
    BY DEF ContentsInv
  <2>1. pc[Bg] \in Merging
    BY <1>1
  <2>2. Inputs(Bg)' = Inputs(Bg) /\ Outputs(Bg)' = Outputs(Bg)
    BY <1>1 DEF Inputs, Outputs
  <2>3. /\ KeysIn(tables', Inputs(Bg)) = KeysIn(tables, Inputs(Bg))
        /\ KeysIn(tables', Outputs(Bg)) = KeysIn(tables, Outputs(Bg))
    BY <1>k, <1>m, <2>1, SameKeys
  <2>4. Sorted(tables', job[Bg].out)
    BY <1>k, <1>m, <2>1, SameSorted DEF ContentsInv, Outputs
  <2>5. \A x \in ToSet(level1) \ job[Bg].l1 :
          \/ Below(tables'[x].data, KeysIn(tables, Inputs(Bg)))
          \/ Below(KeysIn(tables, Inputs(Bg)), tables'[x].data)
    BY <1>k, <1>l, <2>1 DEF ContentsInv
  <2> QED BY <1>1, <2>1, <2>2, <2>3, <2>4, <2>5 DEF ContentsInv
<1>2. CASE pc'[Bg] \notin Merging
  BY <1>2 DEF ContentsInv
<1>3. CASE (\/ \E w \in Writers, k \in Unwritten : PutFast(w, k) \/ SwitchMemTable(w, k)
            \/ \E w \in Writers : MakeRoomWait(w)
            \/ \E r \in Readers : BeginRead(r) \/ EndRead(r)
            \/ UNCHANGED vars)
  <2>1. UNCHANGED <<level0, level1, job>> /\ pc'[Bg] = pc[Bg]
    BY <1>3, <1>w DEF PutFast, SwitchMemTable, MakeRoomWait, BeginRead, EndRead, vars, Goto
  <2>2. pc[Bg] \in Merging => (pc[Bg] # "merge" => job[Bg].todo # {})
    BY DEF ContentsInv
  <2> QED BY <1>1, <2>1, <2>2
<1>4. CASE FlushBegin(Bg) \/ FlushSkip(Bg) \/ FlushCommit(Bg) \/ FlushFail(Bg)
           \/ CompactionSkip(Bg) \/ CompactionFail(Bg) \/ CompactionCommit(Bg)
  <2>1. pc'[Bg] \in {"build", AfterFlush(Bg), AfterCompaction(Bg)}
    BY <1>4, <1>w DEF FlushBegin, FlushSkip, FlushCommit, FlushFail, CompactionSkip,
       CompactionFail, CompactionCommit, Goto
  <2>2. pc'[Bg] \notin Merging
    BY <2>1 DEF AfterFlush, AfterCompaction, Merging
  <2> QED BY <1>2, <2>2
<1>5. CASE LoadNumber(Bg)
  <2>1. /\ pc[Bg] = "merge" /\ job[Bg].todo # {} /\ UNCHANGED <<level0, level1>>
        /\ job' = [job EXCEPT ![Bg].num = nextFile]
    BY <1>5 DEF LoadNumber
  <2>2. /\ job'[Bg].l0 = job[Bg].l0 /\ job'[Bg].l1 = job[Bg].l1
        /\ job'[Bg].out = job[Bg].out /\ job'[Bg].todo = job[Bg].todo
    BY <1>w, <2>1 DEF Job
  <2>3. pc[Bg] \in Merging
    BY <2>1 DEF Merging
  <2> QED BY <1>1, <2>1, <2>2, <2>3
<1>6. CASE OpenOutput(Bg)
  <2>1. pc[Bg] = "store" /\ UNCHANGED <<level0, level1, job>>
    BY <1>6 DEF OpenOutput
  <2>2. pc[Bg] \in Merging /\ job[Bg].todo # {}
    BY <2>1 DEF Merging, ContentsInv
  <2> QED BY <1>1, <2>1, <2>2
<1>7. CASE CompactionBegin(Bg)
  <2> DEFINE positions == {i \in DOMAIN level1 : Overlaps(level1[i])}
             l1 == {level1[i] : i \in positions}
             inputs == ToSet(level0) \cup l1
             j == [NoJob EXCEPT !.l0 = ToSet(level0), !.l1 = l1,
                                !.positions = positions,
                                !.todo = UNION {tables[x].data : x \in inputs}]
  <2>1. /\ job' = [job EXCEPT ![Bg] = j] /\ pc' = [pc EXCEPT ![Bg] = "merge"]
        /\ UNCHANGED <<level0, level1>> /\ NeedCompaction
    BY <1>7 DEF CompactionBegin, Goto
  <2>2. l1 = {y \in ToSet(level1) : Overlaps(y)} /\ l1 \subseteq ToSet(level1)
    BY DEF ToSet
  <2>3. /\ job'[Bg].l0 = ToSet(level0) /\ job'[Bg].l1 = l1 /\ job'[Bg].out = <<>>
        /\ job'[Bg].todo = KeysIn(tables, inputs) /\ pc'[Bg] = "merge"
    BY <1>w, <2>1 DEF NoJob, KeysIn
  <2> HIDE DEF j, positions, l1
  <2>4. Outputs(Bg)' = {} /\ Inputs(Bg)' = inputs
    BY <2>3 DEF Outputs, Inputs, ToSet
  <2>5. inputs \subseteq DOMAIN tables
    BY <1>l, <2>2
  <2> HIDE DEF inputs
  <2>6. KeysIn(tables', inputs) = KeysIn(tables, inputs) /\ KeysIn(tables', {}) = {}
    BY <1>k, <2>5, SameKeys, KeysOfOne
  <2>7. Sorted(tables', <<>>) /\ Below({}, KeysIn(tables, inputs))
    BY DEF Sorted, Below
  <2>8. \A x \in ToSet(level1) \ l1 :
          \/ Below(tables[x].data, KeysIn(tables, inputs))
          \/ Below(KeysIn(tables, inputs), tables[x].data)
    BY <2>1, <2>2, InputsOnOneSide DEF inputs
  <2>9. \A x \in ToSet(level1) \ l1 :
          \/ Below(tables'[x].data, KeysIn(tables, inputs))
          \/ Below(KeysIn(tables, inputs), tables'[x].data)
    BY <1>k, <1>l, <2>8
  <2> QED BY <2>1, <2>3, <2>4, <2>6, <2>7, <2>9 DEF ContentsInv
<1>8. CASE FinishOutput(Bg)
  <2> DEFINE todo == job[Bg].todo
             batch == Batch(todo)
             x == Len(tables) + 1
             inputs == KeysIn(tables, Inputs(Bg))
             outputs == KeysIn(tables, Outputs(Bg))
  <2>1. /\ pc[Bg] = "output" /\ pc' = [pc EXCEPT ![Bg] = "merge"]
        /\ NewTable(Bg, batch) /\ UNCHANGED <<level0, level1>>
        /\ job' = [job EXCEPT ![Bg].todo = @ \ Batch(@),
                              ![Bg].out = Append(@, Len(tables) + 1),
                              ![Bg].num = None]
    BY <1>8 DEF FinishOutput, Goto
  <2>2. /\ job'[Bg].l0 = job[Bg].l0 /\ job'[Bg].l1 = job[Bg].l1
        /\ job'[Bg].out = Append(job[Bg].out, x) /\ job'[Bg].todo = todo \ batch
        /\ pc'[Bg] = "merge"
    BY <1>w, <2>1 DEF Job
  <2>3. pc[Bg] \in Merging
    BY <2>1 DEF Merging
  <2>4. /\ job[Bg].l0 = ToSet(level0) /\ outputs \cup todo = inputs
        /\ Sorted(tables, job[Bg].out) /\ Below(outputs, todo) /\ todo # {}
        /\ \A y \in ToSet(level1) \ job[Bg].l1 :
              Below(tables[y].data, inputs) \/ Below(inputs, tables[y].data)
    BY <2>1, <2>3 DEF ContentsInv
  <2>5. todo \in SUBSET Keys /\ job[Bg].out \in Seq(Nat)
    BY <1>w DEF Job
  <2>6. batch # {} /\ batch \subseteq todo /\ Below(batch, todo \ batch)
    <3> HIDE DEF todo
    <3> QED BY <2>4, <2>5, BatchProps
  <2>7. tables'[x].data = batch
    <3>1. batch \in SUBSET Keys
      BY <2>5, <2>6
    <3>2. tables'[x] = [num |-> job[Bg].num, data |-> batch, refs |-> 1]
      <4> HIDE DEF batch
      <4> QED BY <1>w, <2>1, <3>1, NewSSTable
    <3> QED BY <3>2
  <2> HIDE DEF batch, todo, x, inputs, outputs
  <2>8. Inputs(Bg)' = Inputs(Bg) /\ Outputs(Bg)' = Outputs(Bg) \cup {x}
    BY <2>2, <2>5, AppendSet DEF Inputs, Outputs
  <2>9. KeysIn(tables', Inputs(Bg)) = inputs
    BY <1>k, <1>m, <2>3, SameKeys DEF inputs
  <2>10. KeysIn(tables', Outputs(Bg) \cup {x}) = outputs \cup batch
    <3>1. KeysIn(tables', Outputs(Bg)) = outputs
      BY <1>k, <1>m, <2>3, SameKeys DEF outputs
    <3>2. KeysIn(tables', {x}) = batch
      BY <2>7, KeysOfOne
    <3> QED BY <3>1, <3>2, KeysOfUnion
  <2>11. Sorted(tables', Append(job[Bg].out, x))
    <3> DEFINE s == job[Bg].out
    <3>1. Sorted(tables', s)
      BY <1>k, <1>m, <2>3, <2>4, SameSorted DEF Outputs
    <3>2. /\ Len(s) \in Nat /\ DOMAIN s = 1..Len(s)
          /\ DOMAIN Append(s, x) = 1..Len(s) + 1
          /\ \A i \in 1..Len(s) : Append(s, x)[i] = s[i]
          /\ Append(s, x)[Len(s) + 1] = x
      BY <2>5
    <3>3. \A i \in 1..Len(s) : tables'[s[i]].data \subseteq outputs
      <4>1. \A i \in 1..Len(s) : s[i] \in Outputs(Bg)
        BY <3>2 DEF Outputs, ToSet
      <4>2. \A y \in Outputs(Bg) : tables'[y].data = tables[y].data
        BY <1>k, <1>m, <2>3
      <4> QED BY <4>1, <4>2 DEF outputs, KeysIn
    <3>4. \A i \in 1..Len(s) : Below(tables'[s[i]].data, batch)
      BY <2>4, <2>6, <3>3 DEF Below
    <3> HIDE DEF s
    <3>5. ASSUME NEW i \in 1..Len(s) + 1
          PROVE  tables'[Append(s, x)[i]].data # {}
      <4>1. CASE i = Len(s) + 1
        BY <2>6, <2>7, <3>2, <4>1
      <4>2. CASE i # Len(s) + 1
        <5>1. i \in 1..Len(s)
          BY <3>2, <4>2
        <5> QED BY <3>1, <3>2, <5>1 DEF Sorted
      <4> QED BY <4>1, <4>2
    <3>6. ASSUME NEW i \in 1..Len(s) + 1, NEW j \in 1..Len(s) + 1, i < j
          PROVE  Below(tables'[Append(s, x)[i]].data, tables'[Append(s, x)[j]].data)
      <4>1. i \in 1..Len(s)
        BY <3>2, <3>6
      <4>2. CASE j = Len(s) + 1
        BY <2>7, <3>2, <3>4, <4>1, <4>2
      <4>3. CASE j # Len(s) + 1
        <5>1. j \in 1..Len(s)
          BY <3>2, <4>3
        <5> QED BY <3>1, <3>2, <3>6, <4>1, <5>1 DEF Sorted
      <4> QED BY <4>2, <4>3
    <3>7. Sorted(tables', Append(s, x))
      BY <3>2, <3>5, <3>6 DEF Sorted
    <3> QED BY <3>7 DEF s
  <2>12. (outputs \cup batch) \cup (todo \ batch) = inputs
    BY <2>4, <2>6
  <2>13. Below(outputs \cup batch, todo \ batch)
    BY <2>4, <2>6 DEF Below
  <2>14. \A y \in ToSet(level1) \ job[Bg].l1 :
           Below(tables'[y].data, inputs) \/ Below(inputs, tables'[y].data)
    BY <1>k, <1>l, <2>4
  <2> QED BY <2>1, <2>2, <2>4, <2>8, <2>9, <2>10, <2>11, <2>12, <2>13, <2>14
          DEF ContentsInv
<1> QED BY <1>3, <1>4, <1>5, <1>6, <1>7, <1>8, StepCases

-----------------------------------------------------------------------------
(* File numbers *)

LEMMA NumbersStep ==
  ASSUME IInv, OneWorker, ContentsInv, NumbersInv, [Next]_vars
  PROVE  NumbersInv'
<1> USE DEF IInv
<1>w. /\ Flushers = {Bg} /\ Threads = Writers \cup {Bg} /\ Bg \notin Writers
      /\ pc \in [Threads -> Labels] /\ job \in [{Bg} -> Job] /\ job[Bg] \in Job
  BY OnlyBg DEF Shape, LocalShape
<1>n. nextFile \in Nat
  BY ConstantsAssumption DEF Shape, TableShape
<1>k. \A x \in DOMAIN tables : x \in DOMAIN tables' /\ tables'[x].num = tables[x].num
  BY TablesKept
<1>l. /\ ToSet(level0) \subseteq DOMAIN tables /\ ToSet(level1) \subseteq DOMAIN tables
      /\ Levels \subseteq DOMAIN tables /\ Outputs(Bg) \subseteq DOMAIN tables
      /\ Levels \cap Outputs(Bg) = {} /\ ToSet(level0) \cap ToSet(level1) = {}
      /\ DOMAIN tables = 1..Len(tables) /\ Len(tables) \in Nat
  BY LevelIsSet DEF MergeInv, Levels
<1>t. \A x \in DOMAIN tables : tables[x].num \in Nat
  <2>1. \A x \in DOMAIN tables : tables[x] \in SSTables
    BY SeqElements DEF Shape, TableShape, SSTables
  <2> QED BY <2>1 DEF SSTables
<1>o. pc[Bg] \notin Merging => Outputs(Bg) = {}
  BY <1>w DEF MergeInv, Outputs, ToSet
<1> DEFINE unique(h) == \A x, y \in DOMAIN h : h[x].num = h[y].num => x = y
           alive == Levels \cup Outputs(Bg)
<1>i. /\ \A x \in DOMAIN tables : tables[x].num < nextFile
      /\ unique(tables) /\ Numbers(alive) \subseteq files
  BY DEF NumbersInv
\* A step that opens no table: which numbers are below nextFile and unique.
<1>1. ASSUME DOMAIN tables' = DOMAIN tables, nextFile' \in Nat, nextFile' >= nextFile
      PROVE  /\ \A x \in DOMAIN tables' : tables'[x].num < nextFile'
             /\ \A x, y \in DOMAIN tables' : tables'[x].num = tables'[y].num => x = y
  <2>1. \A x \in DOMAIN tables : tables'[x].num = tables[x].num
    BY <1>k
  <2> QED BY <1>1, <1>i, <1>n, <1>t, <2>1
\* A step that opens one, with the number of the builder.
<1>2. ASSUME DOMAIN tables' = 1..Len(tables) + 1, UNCHANGED nextFile,
             tables'[Len(tables) + 1].num = job[Bg].num,
             pc[Bg] \in {"build", "output"}
      PROVE  /\ \A x \in DOMAIN tables' : tables'[x].num < nextFile'
             /\ \A x, y \in DOMAIN tables' : tables'[x].num = tables'[y].num => x = y
  <2>1. /\ job[Bg].num < nextFile
        /\ \A x \in DOMAIN tables : tables[x].num # job[Bg].num
    BY <1>2 DEF NumbersInv
  <2>2. \A x \in DOMAIN tables : tables'[x].num = tables[x].num
    BY <1>k
  <2>3. \A x \in DOMAIN tables' : x \in DOMAIN tables \/ x = Len(tables) + 1
    BY <1>2, <1>l
  <2> QED BY <1>2, <1>i, <2>1, <2>2, <2>3
\* What is in a level or finished, and was before, has its file as long as the
\* files of others are deleted.
<1>3. ASSUME NEW ids \in SUBSET alive, files \subseteq files'
      PROVE  {tables'[x].num : x \in ids} \subseteq files'
  <2>1. \A x \in ids : tables'[x].num = tables[x].num /\ tables[x].num \in files
    BY <1>k, <1>l, <1>i DEF Numbers
  <2> QED BY <1>3, <2>1
<1>4. ASSUME NEW ids \in SUBSET alive, NEW gone \in SUBSET DOMAIN tables,
             NEW n, \A x \in DOMAIN tables : tables[x].num # n,
             ids \cap gone = {}, files \ ({n} \cup Numbers(gone)) \subseteq files'
      PROVE  {tables'[x].num : x \in ids} \subseteq files'
  <2>1. ASSUME NEW x \in ids PROVE tables'[x].num \in files'
    <3>1. x \in DOMAIN tables
      BY <1>l
    <3>2. tables'[x].num = tables[x].num /\ tables[x].num \in files
      BY <1>i, <1>k, <3>1 DEF Numbers
    <3>3. tables[x].num \notin Numbers(gone)
      BY <1>4, <1>i, <3>1 DEF Numbers
    <3> QED BY <1>4, <3>1, <3>2, <3>3
  <2> QED BY <2>1
\* Steps that leave numbers, levels and the merge alone.
<1>5. ASSUME UNCHANGED <<level0, level1, nextFile, files, job>>,
             pc'[Bg] = pc[Bg], DOMAIN tables' = DOMAIN tables
      PROVE  NumbersInv'
  <2>1. {tables'[x].num : x \in alive} \subseteq files'
    BY <1>3, <1>5
  <2>2. alive' = alive
    BY <1>5 DEF Levels, Outputs
  <2>3. Numbers(alive)' \subseteq files'
    BY <2>1, <2>2 DEF Numbers
  <2>4. pc[Bg] \in {"build", "output"} =>
          \A x \in DOMAIN tables' : tables'[x].num # job[Bg].num
    BY <1>5, <1>k DEF NumbersInv
  <2> HIDE DEF alive
  <2> QED BY <1>1, <1>5, <1>n, <2>3, <2>4 DEF NumbersInv, alive
<1>6. CASE (\/ \E w \in Writers, k \in Unwritten : PutFast(w, k) \/ SwitchMemTable(w, k)
            \/ \E w \in Writers : MakeRoomWait(w)
            \/ \E r \in Readers : BeginRead(r) \/ EndRead(r)
            \/ UNCHANGED vars)
  <2>1. /\ UNCHANGED <<level0, level1, nextFile, files, job>> /\ pc'[Bg] = pc[Bg]
        /\ DOMAIN tables' = DOMAIN tables
    BY <1>6, <1>w DEF PutFast, SwitchMemTable, MakeRoomWait, BeginRead, EndRead, vars,
       Goto, Counted
  <2> QED BY <1>5, <2>1
\* Steps after which nothing is being built and nothing is finished.
<1>7. ASSUME pc'[Bg] \in {"flush", "compact", "merge"}, Outputs(Bg)' = {},
             \A x \in DOMAIN tables' : tables'[x].num < nextFile',
             \A x, y \in DOMAIN tables' : tables'[x].num = tables'[y].num => x = y,
             {tables'[x].num : x \in Levels'} \subseteq files'
      PROVE  NumbersInv'
  <2>1. Numbers(Levels \cup Outputs(Bg))' \subseteq files'
    BY <1>7 DEF Numbers
  <2> QED BY <1>7, <2>1 DEF NumbersInv
<1>8. CASE FlushBegin(Bg)
  <2>1. /\ nextFile' = nextFile + 1 /\ files' = files \cup {nextFile}
        /\ pc' = [pc EXCEPT ![Bg] = "build"] /\ UNCHANGED <<tables, level0, level1>>
        /\ job' = [job EXCEPT ![Bg] = [NoJob EXCEPT !.num = nextFile, !.imm = imm]]
    BY <1>8 DEF FlushBegin, TakeNumber, Goto
  <2>2. pc'[Bg] = "build" /\ job'[Bg].num = nextFile /\ job'[Bg].out = <<>>
    BY <1>w, <2>1 DEF NoJob
  <2>3. Levels' = Levels /\ Outputs(Bg)' = {}
    BY <2>1, <2>2 DEF Levels, Outputs, ToSet
  <2>4. {tables'[x].num : x \in Levels} \subseteq files'
    BY <1>3, <2>1
  <2>5. Numbers(Levels \cup Outputs(Bg))' \subseteq files'
    BY <2>3, <2>4 DEF Numbers
  <2>6. \A x \in DOMAIN tables' : tables'[x].num # nextFile
    BY <1>i, <1>n, <1>t, <2>1
  <2>7. /\ \A x \in DOMAIN tables' : tables'[x].num < nextFile'
        /\ \A x, y \in DOMAIN tables' : tables'[x].num = tables'[y].num => x = y
    <3>1. DOMAIN tables' = DOMAIN tables /\ nextFile' \in Nat /\ nextFile' >= nextFile
      BY <1>n, <2>1
    <3> QED BY <1>1, <3>1
  <2>8. nextFile < nextFile'
    BY <1>n, <2>1
  <2>9. nextFile \in files'
    BY <2>1
  <2> QED BY <2>2, <2>5, <2>6, <2>7, <2>8, <2>9 DEF NumbersInv
<1>9. CASE FlushSkip(Bg) \/ CompactionSkip(Bg)
  <2>1. /\ UNCHANGED <<tables, level0, level1, nextFile, files, job>>
        /\ pc[Bg] \in {"flush", "compact"}
        /\ pc'[Bg] \in {AfterFlush(Bg), AfterCompaction(Bg)}
    BY <1>9, <1>w DEF FlushSkip, CompactionSkip, MayFlush, Goto, OneWorker, SyncThreads
  <2>2. Outputs(Bg)' = {} /\ Levels' = Levels
    BY <1>o, <2>1 DEF Merging, Outputs, Levels
  <2>3. {tables'[x].num : x \in Levels'} \subseteq files'
    BY <1>3, <2>1, <2>2
  <2>4. pc'[Bg] \in {"flush", "compact", "merge"}
    BY <2>1 DEF AfterFlush, AfterCompaction, OneWorker
  <2> QED BY <1>1, <1>7, <1>n, <2>1, <2>2, <2>3, <2>4
<1>10. CASE FlushCommit(Bg)
  <2>1. /\ UNCHANGED <<level1, nextFile, files>>
        /\ DOMAIN tables' = 1..Len(tables) + 1
        /\ tables'[Len(tables) + 1].num = job[Bg].num
        /\ level0' = Append(level0, Len(tables) + 1) /\ level0 \in Seq(1..Len(tables))
        /\ pc[Bg] = "build" /\ pc'[Bg] = "compact" /\ job'[Bg] = NoJob
    BY <1>10, FlushEffect
  <2>2. Outputs(Bg)' = {}
    BY <2>1 DEF Outputs, NoJob, ToSet
  <2>3. Levels' = Levels \cup {Len(tables) + 1}
    BY <2>1, AppendSet DEF Levels
  <2>4. job[Bg].num \in files
    BY <2>1 DEF NumbersInv
  <2>5. {tables'[x].num : x \in Levels} \subseteq files'
    BY <1>3, <2>1
  <2>6. {tables'[x].num : x \in Levels'} \subseteq files'
    BY <2>1, <2>3, <2>4, <2>5
  <2> QED BY <1>2, <1>7, <2>1, <2>2, <2>6
<1>11. CASE FlushFail(Bg)
  <2>1. /\ UNCHANGED <<tables, level0, level1, nextFile>> /\ pc[Bg] = "build"
        /\ files \ ({job[Bg].num} \cup Numbers({})) \subseteq files'
        /\ pc'[Bg] = AfterFlush(Bg) /\ job'[Bg] = NoJob
    BY <1>11, <1>w DEF FlushFail, Goto
  <2>2. Outputs(Bg)' = {} /\ Levels' = Levels
    BY <2>1 DEF Outputs, NoJob, ToSet, Levels
  <2>3. \A x \in DOMAIN tables : tables[x].num # job[Bg].num
    BY <2>1 DEF NumbersInv
  <2>4. {tables'[x].num : x \in Levels'} \subseteq files'
    <3>1. Levels' \in SUBSET alive /\ {} \in SUBSET DOMAIN tables /\ Levels' \cap {} = {}
      BY <2>2
    <3>2. files \ ({job[Bg].num} \cup Numbers({})) \subseteq files'
      BY <2>1
    <3> HIDE DEF alive
    <3> QED BY <1>4, <2>3, <3>1, <3>2
  <2>5. pc'[Bg] \in {"flush", "compact", "merge"}
    BY <2>1 DEF AfterFlush, OneWorker
  <2> QED BY <1>1, <1>7, <1>n, <2>1, <2>2, <2>4, <2>5
<1>12. CASE CompactionBegin(Bg)
  <2>1. /\ UNCHANGED <<level0, level1, nextFile, files>> /\ pc'[Bg] = "merge"
        /\ DOMAIN tables' = DOMAIN tables /\ job'[Bg].out = <<>>
    BY <1>12, <1>w DEF CompactionBegin, Goto, NoJob, Counted
  <2>2. Outputs(Bg)' = {} /\ Levels' = Levels
    BY <2>1 DEF Outputs, ToSet, Levels
  <2>3. {tables'[x].num : x \in Levels'} \subseteq files'
    BY <1>3, <2>1, <2>2
  <2> QED BY <1>1, <1>7, <1>n, <2>1, <2>2, <2>3
<1>13. CASE LoadNumber(Bg)
  <2>1. /\ UNCHANGED <<tables, level0, level1, nextFile, files>> /\ pc'[Bg] = "store"
        /\ job'[Bg].num = nextFile /\ job'[Bg].out = job[Bg].out
    BY <1>13, <1>w DEF LoadNumber, Goto, Job
  <2>2. alive' = alive
    BY <2>1 DEF Levels, Outputs
  <2>3. Numbers(alive)' \subseteq files'
    BY <1>3, <2>1, <2>2 DEF Numbers
  <2> HIDE DEF alive
  <2> QED BY <1>1, <1>n, <2>1, <2>3 DEF NumbersInv, alive
<1>14. CASE OpenOutput(Bg)
  <2>1. /\ UNCHANGED <<tables, level0, level1, job>> /\ pc[Bg] = "store"
        /\ nextFile' = job[Bg].num + 1 /\ files' = files \cup {job[Bg].num}
        /\ pc'[Bg] = "output"
    BY <1>14, <1>w DEF OpenOutput, StoreNumber, Goto
  <2>2. job[Bg].num = nextFile
    BY <2>1 DEF NumbersInv
  <2>3. alive' = alive
    BY <2>1 DEF Levels, Outputs
  <2>4. {tables'[x].num : x \in alive} \subseteq files'
    BY <1>3, <2>1
  <2>5. Numbers(alive)' \subseteq files'
    BY <2>3, <2>4 DEF Numbers
  <2>6. \A x \in DOMAIN tables' : tables'[x].num # nextFile
    BY <1>i, <1>n, <1>t, <2>1
  <2>7. /\ \A x \in DOMAIN tables' : tables'[x].num < nextFile'
        /\ \A x, y \in DOMAIN tables' : tables'[x].num = tables'[y].num => x = y
    <3>1. DOMAIN tables' = DOMAIN tables /\ nextFile' \in Nat /\ nextFile' >= nextFile
      BY <1>n, <2>1, <2>2
    <3> QED BY <1>1, <3>1
  <2>8. nextFile < nextFile'
    BY <1>n, <2>1, <2>2
  <2> HIDE DEF alive
  <2> QED BY <2>1, <2>2, <2>5, <2>6, <2>7, <2>8 DEF NumbersInv, alive
<1>15. CASE FinishOutput(Bg)
  <2> DEFINE x == Len(tables) + 1
  <2>1. /\ pc[Bg] = "output" /\ NewTable(Bg, Batch(job[Bg].todo))
        /\ UNCHANGED <<level0, level1, nextFile, files>>
        /\ pc'[Bg] = "merge" /\ job'[Bg].out = Append(job[Bg].out, x)
    BY <1>15, <1>w DEF FinishOutput, Goto, Job
  <2>2. DOMAIN tables' = 1..Len(tables) + 1 /\ tables'[x].num = job[Bg].num
    <3>1. Batch(job[Bg].todo) \in SUBSET Keys
      BY <1>w DEF Batch, Job
    <3>2. tables'[x] = [num |-> job[Bg].num, data |-> Batch(job[Bg].todo), refs |-> 1]
      BY <1>w, <2>1, <3>1, NewSSTable
    <3> QED BY <1>w, <2>1, <3>1, <3>2, NewSSTable
  <2>3. Outputs(Bg)' = Outputs(Bg) \cup {x} /\ Levels' = Levels
    BY <1>w, <2>1, AppendSet DEF Outputs, Levels, Job
  <2>4. job[Bg].num \in files
    BY <2>1 DEF NumbersInv
  <2>5. {tables'[y].num : y \in alive} \subseteq files'
    BY <1>3, <2>1
  <2>6. Numbers(Levels \cup Outputs(Bg))' \subseteq files'
    BY <2>1, <2>2, <2>3, <2>4, <2>5 DEF Numbers
  <2> HIDE DEF x
  <2> QED BY <1>2, <2>1, <2>2, <2>6 DEF NumbersInv, x
<1>16. CASE CompactionFail(Bg)
  <2>1. /\ UNCHANGED <<level0, level1, nextFile>> /\ pc[Bg] = "output"
        /\ files' = files \ ({job[Bg].num} \cup Numbers(Outputs(Bg)))
        /\ pc'[Bg] = AfterCompaction(Bg) /\ job'[Bg] = NoJob
        /\ DOMAIN tables' = DOMAIN tables
    BY <1>16, <1>w DEF CompactionFail, DeleteOnFail, Goto, Counted
  <2>2. Outputs(Bg)' = {} /\ Levels' = Levels
    BY <2>1 DEF Outputs, NoJob, ToSet, Levels
  <2>3. \A x \in DOMAIN tables : tables[x].num # job[Bg].num
    BY <2>1 DEF NumbersInv
  <2>4. {tables'[x].num : x \in Levels'} \subseteq files'
    <3>1. /\ Levels' \in SUBSET alive /\ Outputs(Bg) \in SUBSET DOMAIN tables
          /\ Levels' \cap Outputs(Bg) = {}
      BY <1>l, <2>2
    <3>2. files \ ({job[Bg].num} \cup Numbers(Outputs(Bg))) \subseteq files'
      BY <2>1
    <3> HIDE DEF alive
    <3> QED BY <1>4, <2>3, <3>1, <3>2
  <2>5. pc'[Bg] \in {"flush", "compact", "merge"}
    BY <2>1 DEF AfterCompaction
  <2> QED BY <1>1, <1>7, <1>n, <2>1, <2>2, <2>4, <2>5
<1>17. CASE CompactionCommit(Bg)
  <2> DEFINE gone == job[Bg].l0 \cup job[Bg].l1
  <2>1. /\ ToSet(level1') = (ToSet(level1) \ job[Bg].l1) \cup Outputs(Bg)
        /\ ToSet(level0') = {}
        /\ job[Bg].l0 = ToSet(level0) /\ job[Bg].l1 \subseteq ToSet(level1)
        /\ files' = files \ Numbers(gone) /\ UNCHANGED nextFile
        /\ pc'[Bg] = "flush" /\ job'[Bg] = NoJob
    BY <1>17, CommitEffect
  <2>2. DOMAIN tables' = DOMAIN tables
    BY <1>17 DEF CompactionCommit, Counted
  <2>3. Outputs(Bg)' = {}
    BY <2>1 DEF Outputs, NoJob, ToSet
  <2>4. Levels' = (ToSet(level1) \ job[Bg].l1) \cup Outputs(Bg)
    BY <2>1 DEF Levels
  <2>5. Levels' \subseteq alive /\ gone \subseteq DOMAIN tables /\ Levels' \cap gone = {}
    BY <1>l, <2>1, <2>4 DEF Levels
  <2>6. \A x \in DOMAIN tables : tables[x].num # nextFile
    BY <1>i, <1>n, <1>t
  <2>7. files \ ({nextFile} \cup Numbers(gone)) \subseteq files'
    BY <2>1
  <2> HIDE DEF gone, alive
  <2>8. {tables'[x].num : x \in Levels'} \subseteq files'
    BY <1>4, <2>5, <2>6, <2>7
  <2> QED BY <1>1, <1>7, <1>n, <2>1, <2>2, <2>3, <2>8
<1> QED BY <1>6, <1>8, <1>9, <1>10, <1>11, <1>12, <1>13, <1>14, <1>15, <1>16, <1>17,
           StepCases

-----------------------------------------------------------------------------
(* The invariant *)

LEMMA ContentsInit ==
  ASSUME OneWorker, Init
  PROVE  CInv
<1>1. /\ acked = <<>> /\ mem = 1 /\ imm = None /\ tables = <<>>
      /\ level0 = <<>> /\ level1 = <<>> /\ memtables = <<[data |-> {}, refs |-> 1]>>
      /\ pc[Bg] = "flush" /\ job[Bg] = NoJob
      /\ \A r \in Readers : snap[r] = NoSnap
  BY OnlyBg DEF Init
<1>2. ToSet(<<>>) = {} /\ NoJob.out = <<>> /\ NoSnap.l1 = <<>>
  BY DEF ToSet, NoJob, NoSnap
<1>3. SortedInv
  BY <1>1, <1>2 DEF SortedInv, Sorted
<1>4. AgeInv
  <2>1. Data(memtables, mem) = {} /\ Data(memtables, imm) = {}
    BY <1>1 DEF Data, None
  <2>2. KeysIn(tables, {}) = {}
    BY KeysOfOne
  <2>3. Aged(acked, {}, {}, {}, {})
    BY <1>1, <1>2 DEF Aged, Older
  <2>4. InOrder(acked, tables, level0)
    BY <1>1 DEF InOrder
  <2> QED BY <1>1, <1>2, <2>1, <2>2, <2>3, <2>4 DEF AgeInv
<1>5. ContentsInv
  BY <1>1 DEF ContentsInv, Merging
<1>6. NumbersInv
  <2>1. Levels \cup Outputs(Bg) = {}
    BY <1>1, <1>2 DEF Levels, Outputs
  <2>2. Numbers({}) \subseteq files
    BY DEF Numbers
  <2>3. DOMAIN tables = {}
    BY <1>1
  <2>4. pc[Bg] # "store" /\ pc[Bg] \notin {"build", "output"}
    BY <1>1
  <2> QED BY <2>1, <2>2, <2>3, <2>4 DEF NumbersInv
<1> QED BY <1>3, <1>4, <1>5, <1>6 DEF CInv

LEMMA ContentsInvariance ==
  ASSUME OneWorker
  PROVE  Spec => [](IInv /\ CInv)
<1>1. OneCompactor
  BY OnlyBg
<1>2. Init => IInv /\ CInv
  BY <1>1, InitInv, ContentsInit
<1>3. (IInv /\ CInv) /\ [Next]_vars => (IInv /\ CInv)'
  BY <1>1, StepInv, SortedStep, AgeStep, ContentsStep, NumbersStep DEF CInv
<1> QED BY <1>2, <1>3, PTL DEF Spec

-----------------------------------------------------------------------------
(* What reads find *)

\* The keys in what s holds.
Seen(heap, sstables, s) ==
  Data(heap, s.mem) \cup Data(heap, s.imm) \cup KeysIn(sstables, Held(s))

LEMMA FindsSeen ==
  ASSUME Shape, NEW s, s.l0 \in Seq(DOMAIN tables), s.l1 \in Seq(DOMAIN tables),
         Sorted(tables, s.l1), NEW k \in Keys
  PROVE  Finds(s, k) <=> k \in Seen(memtables, tables, s)
<1> DEFINE n == Len(s.l1)
           i == BinarySearch(s.l1, k)
<1>1. /\ n \in Nat /\ DOMAIN s.l1 = 1..n /\ \A j \in 1..n : s.l1[j] \in DOMAIN tables
      /\ k \in Nat
  BY ConstantsAssumption
<1>2. Belongs(s.l1, k, i)
  BY <1>1, SortedRanges, BisectionFinds
<1> HIDE DEF i
<1>3. /\ i \in 0..n
      /\ \A j \in 1..n : FirstKey(s.l1[j]) <= k /\ k <= LastKey(s.l1[j]) <=> j = i
  BY <1>2 DEF Belongs
<1>4. (i # None /\ k \in tables[s.l1[i]].data) <=> k \in KeysIn(tables, ToSet(s.l1))
  <2>1. ASSUME i # None, k \in tables[s.l1[i]].data
        PROVE  k \in KeysIn(tables, ToSet(s.l1))
    <3>1. i \in DOMAIN s.l1
      BY <1>1, <1>3, <2>1 DEF None
    <3> QED BY <2>1, <3>1 DEF KeysIn, ToSet
  <2>2. ASSUME k \in KeysIn(tables, ToSet(s.l1))
        PROVE  i # None /\ k \in tables[s.l1[i]].data
    <3>1. PICK j \in 1..n : k \in tables[s.l1[j]].data
      BY <1>1, <2>2 DEF KeysIn, ToSet
    <3>2. FirstKey(s.l1[j]) <= k /\ k <= LastKey(s.l1[j])
      BY <1>1, <3>1, KeyRange
    <3>3. j = i /\ j # 0
      BY <1>1, <1>3, <3>2
    <3> QED BY <3>1, <3>3 DEF None
  <2> QED BY <2>1, <2>2
<1>5. (\E j \in DOMAIN s.l0 : k \in tables[s.l0[j]].data)
        <=> k \in KeysIn(tables, ToSet(s.l0))
  BY DEF KeysIn, ToSet
<1>6. KeysIn(tables, Held(s)) = KeysIn(tables, ToSet(s.l0)) \cup KeysIn(tables, ToSet(s.l1))
  BY KeysOfUnion DEF Held
<1>7. Finds(s, k) <=> \/ InMemTable(s.mem, k) \/ InMemTable(s.imm, k)
                      \/ \E j \in DOMAIN s.l0 : k \in tables[s.l0[j]].data
                      \/ i # None /\ k \in tables[s.l1[i]].data
  BY DEF Finds, i
<1>8. \A m : InMemTable(m, k) <=> k \in Data(memtables, m)
  BY DEF InMemTable, Data
<1> QED BY <1>4, <1>5, <1>6, <1>7, <1>8 DEF Seen

LEMMA MemTablesHoldKeys ==
  ASSUME Shape, NEW m, m = None \/ m \in DOMAIN memtables
  PROVE  Data(memtables, m) \subseteq Keys
<1>1. \A x \in DOMAIN memtables : memtables[x] \in MemTables
  BY SeqElements DEF Shape, MemShape, MemTables
<1> QED BY <1>1 DEF Data, MemTables

\* The refinement mapping, without searches.
LEMMA WhatIsVisible ==
  ASSUME IInv, CInv, OneWorker
  PROVE  /\ mem # None
         /\ {k \in Keys : Finds(Current, k)} = ToSet(acked)
         /\ Visible = ToSet(acked)
         /\ Views = [r \in Readers |-> [reading |-> snap[r] # NoSnap,
                                        keys |-> Seen(memtables, tables, snap[r])]]
<1> USE DEF IInv
<1>1. mem # None
  BY DEF StagesInv, OneWorker
<1>2. {k \in Keys : Finds(Current, k)} = ToSet(acked)
  <2>1. /\ Current.mem = mem /\ Current.imm = imm
        /\ Current.l0 = level0 /\ Current.l1 = level1
    BY DEF Current
  <2>2. Seen(memtables, tables, Current) = ToSet(acked)
    <3>1. KeysIn(tables, Held(Current)) =
            KeysIn(tables, ToSet(level0)) \cup KeysIn(tables, ToSet(level1))
      BY <2>1, KeysOfUnion DEF Held
    <3> QED BY <2>1, <3>1 DEF Seen, CInv, AgeInv, Aged
  <2>3. ToSet(acked) \subseteq Keys
    BY DEF Shape, MemShape, ToSet
  <2>4. \A k \in Keys : Finds(Current, k) <=> k \in Seen(memtables, tables, Current)
    BY <2>1, FindsSeen DEF Shape, TableShape, CInv, SortedInv
  <2> QED BY <2>2, <2>3, <2>4
<1>3. ASSUME NEW r \in Readers
      PROVE  {k \in Keys : Finds(snap[r], k)} = Seen(memtables, tables, snap[r])
  <2>1. snap[r] \in Snap /\ InRange(snap[r])
    BY DEF Shape, LocalShape, SnapsInv
  <2>2. /\ snap[r].l0 \in Seq(DOMAIN tables) /\ snap[r].l1 \in Seq(DOMAIN tables)
    <3>1. ASSUME NEW s \in Seq(Nat), ToSet(s) \subseteq DOMAIN tables
          PROVE  s \in Seq(DOMAIN tables)
      <4>1. /\ Len(s) \in Nat /\ DOMAIN s = 1..Len(s)
            /\ s = [i \in 1..Len(s) |-> s[i]]
        OBVIOUS
      <4>2. \A i \in 1..Len(s) : s[i] \in DOMAIN tables
        BY <3>1, <4>1 DEF ToSet
      <4> QED BY <4>1, <4>2, SeqFromFunction
    <3> QED BY <2>1, <3>1 DEF Snap, InRange, Held
  <2>3. Sorted(tables, snap[r].l1)
    BY DEF CInv, SortedInv
  <2>4. \A k \in Keys : Finds(snap[r], k) <=> k \in Seen(memtables, tables, snap[r])
    BY <2>2, <2>3, FindsSeen
  <2>5. Seen(memtables, tables, snap[r]) \subseteq Keys
    <3>1. /\ snap[r].mem = None \/ snap[r].mem \in DOMAIN memtables
          /\ snap[r].imm = None \/ snap[r].imm \in DOMAIN memtables
      BY <2>1 DEF Snap, InRange, Shape, MemShape, None
    <3>2. \A x \in Held(snap[r]) : tables[x].data \subseteq Keys
      BY <2>1, KeyRange DEF InRange
    <3> QED BY <3>1, <3>2, MemTablesHoldKeys DEF Seen, KeysIn
  <2> QED BY <2>4, <2>5
<1> QED BY <1>1, <1>2, <1>3 DEF Visible, Views

-----------------------------------------------------------------------------
(* The properties *)

LEMMA Level1Follows ==
  ASSUME IInv, CInv
  PROVE  Level1Disjoint
<1>1. Shape /\ level1 \in Seq(DOMAIN tables) /\ Sorted(tables, level1)
  BY DEF IInv, CInv, SortedInv, Shape, TableShape
<1>2. Ranges(level1)
  BY <1>1, SortedRanges
<1>3. DOMAIN level1 = 1..Len(level1)
  BY <1>1
<1> QED BY <1>2, <1>3 DEF Ranges, Level1Disjoint

LEMMA FilesFollow ==
  ASSUME IInv, CInv, OneWorker
  PROVE  FilesMatchTables
<1> DEFINE inUse == Levels \cup UNION {Outputs(u) : u \in MergingThreads}
<1>1. MergingThreads = {Bg} /\ SyncThreads = {}
  BY OnlyBg
<1>2. inUse = Levels \cup Outputs(Bg)
  BY <1>1
<1>3. inUse \subseteq DOMAIN tables
  BY <1>2, LevelIsSet DEF IInv, MergeInv, Levels
<1>4. NumbersInv
  BY DEF CInv
<1>5. LevelFilesExist
  BY <1>4 DEF NumbersInv, Numbers, LevelFilesExist
<1>6. pc[Bg] \in {"build", "output"} => job[Bg].num \notin Numbers(inUse)
  BY <1>3, <1>4 DEF NumbersInv, Numbers
<1>7. \A x, y \in inUse : tables[x].num = tables[y].num => x = y
  BY <1>3, <1>4 DEF NumbersInv
<1>8. FileNumbersUnique
  <2> HIDE DEF inUse
  <2> SUFFICES /\ \A t \in {Bg} : pc[t] \in {"build", "output"} =>
                     job[t].num \notin Numbers(inUse)
               /\ \A x, y \in inUse : tables[x].num = tables[y].num => x = y
    BY <1>1 DEF FileNumbersUnique, inUse
  <2> QED BY <1>6, <1>7
<1> QED BY <1>5, <1>8 DEF FilesMatchTables

\* The elements of a sequence put together like Get's sources.
LEMMA Surrounded ==
  ASSUME NEW a, NEW b, NEW c, NEW f, NEW n \in Nat, f = [i \in 1..n |-> f[i]]
  PROVE  LET s == <<a, b>> \o f \o <<c>>
         IN  /\ DOMAIN s = 1..n + 3
             /\ s[1] = a /\ s[2] = b /\ s[n + 3] = c
             /\ \A i \in 1..n : s[i + 2] = f[i]
<1> DEFINE T == {a, b, c} \cup {f[i] : i \in 1..n}
<1>1. f \in Seq(T) /\ Len(f) = n
  BY SeqFromFunction
<1>2. <<a, b>> \in Seq(T) /\ <<c>> \in Seq(T)
  OBVIOUS
<1> HIDE DEF T
<1>3. PICK g : g = <<a, b>> \o f
  OBVIOUS
<1>4. /\ g \in Seq(T) /\ Len(g) = n + 2 /\ g[1] = a /\ g[2] = b
      /\ \A i \in 1..n : g[i + 2] = f[i]
  BY <1>1, <1>2, <1>3
<1>5. PICK s : s = g \o <<c>>
  OBVIOUS
<1>6. /\ DOMAIN s = 1..n + 3 /\ s[n + 3] = c
      /\ \A i \in 1..n + 2 : s[i] = g[i]
  BY <1>2, <1>4, <1>5
<1>7. s[1] = a /\ s[2] = b /\ \A i \in 1..n : s[i + 2] = f[i]
  BY <1>4, <1>6
<1> QED BY <1>3, <1>5, <1>6, <1>7

LEMMA SearchFollows ==
  ASSUME IInv, CInv
  PROVE  SearchedByAge
<1> DEFINE n == Len(level0)
           M == Data(memtables, mem)
           I == Data(memtables, imm)
           f == [i \in DOMAIN level0 |-> tables[level0[n + 1 - i]].data]
           L0 == KeysIn(tables, ToSet(level0))
           L1 == KeysIn(tables, ToSet(level1))
           sources == <<M, I>> \o f \o <<L1>>
<1>1. /\ Aged(acked, M, I, L0, L1) /\ InOrder(acked, tables, level0)
      /\ acked \in Seq(Keys)
  BY DEF CInv, AgeInv, IInv, Shape, MemShape
<1>2. n \in Nat /\ DOMAIN level0 = 1..n
  BY DEF IInv, Shape, TableShape
<1>3. /\ DOMAIN sources = 1..n + 3
      /\ sources[1] = M /\ sources[2] = I /\ sources[n + 3] = L1
      /\ \A i \in 1..n : sources[i + 2] = f[i]
  <2>1. f = [i \in 1..n |-> f[i]]
    BY <1>2
  <2> HIDE DEF f, M, I, L1, n
  <2> QED BY <1>2, <2>1, Surrounded
<1>4. \A i \in 1..n : f[i] \subseteq L0
  <2> SUFFICES ASSUME NEW i \in 1..n PROVE f[i] \subseteq L0
    OBVIOUS
  <2>1. n + 1 - i \in DOMAIN level0 /\ f[i] = tables[level0[n + 1 - i]].data
    BY <1>2
  <2> QED BY <2>1 DEF KeysIn, ToSet
<1>5. \A i, j \in 1..n : i < j => Older(acked, f[j], f[i])
  <2> SUFFICES ASSUME NEW i \in 1..n, NEW j \in 1..n, i < j
               PROVE  Older(acked, f[j], f[i])
    OBVIOUS
  <2>1. /\ n + 1 - i \in DOMAIN level0 /\ n + 1 - j \in DOMAIN level0
        /\ n + 1 - j < n + 1 - i
        /\ f[i] = tables[level0[n + 1 - i]].data
        /\ f[j] = tables[level0[n + 1 - j]].data
    BY <1>2
  <2> HIDE DEF f
  <2> QED BY <1>1, <2>1 DEF InOrder
<1> HIDE DEF M, I, f, L0, L1, n
<1>6. /\ Older(acked, I, M) /\ Older(acked, L1, L0)
      /\ \A S, T : S \subseteq L0 \cup L1 /\ T \subseteq M \cup I => Older(acked, S, T)
  BY <1>1, SameLog DEF Aged
<1>7. ASSUME NEW i \in DOMAIN sources, NEW j \in DOMAIN sources, i < j
      PROVE  Older(acked, sources[j], sources[i])
  <2> HIDE DEF sources
  <2>1. \A l \in 3..n + 2 :
          l - 2 \in 1..n /\ sources[l] = f[l - 2] /\ sources[l] \subseteq L0
    <3> SUFFICES ASSUME NEW l \in 3..n + 2
                 PROVE  l - 2 \in 1..n /\ sources[l] = f[l - 2] /\ sources[l] \subseteq L0
      OBVIOUS
    <3>1. l - 2 \in 1..n /\ (l - 2) + 2 = l
      BY <1>2
    <3> QED BY <1>3, <1>4, <3>1
  <2>2. i \in 1..n + 3 /\ j \in 1..n + 3
    BY <1>3
  <2>3. CASE i = 1 /\ j = 2
    BY <1>3, <1>6, <2>3
  <2>4. CASE i \in {1, 2} /\ j >= 3
    <3>1. sources[i] \subseteq M \cup I
      BY <1>3, <2>4
    <3>2. sources[j] \subseteq L0 \cup L1
      BY <1>2, <1>3, <2>1, <2>2, <2>4
    <3> QED BY <1>6, <3>1, <3>2
  <2>5. CASE i >= 3 /\ j = n + 3
    <3>1. i \in 3..n + 2
      BY <1>2, <1>7, <2>2, <2>5
    <3> QED BY <1>3, <1>6, <2>1, <2>5, <3>1, SameLog
  <2>6. CASE i >= 3 /\ j < n + 3
    <3>1. i \in 3..n + 2 /\ j \in 3..n + 2 /\ i - 2 < j - 2
      BY <1>2, <1>7, <2>2, <2>6
    <3> QED BY <1>5, <2>1, <3>1
  <2> QED BY <1>2, <1>7, <2>2, <2>3, <2>4, <2>5, <2>6
<1>8. \A i, j \in DOMAIN sources : i < j =>
        \A a, b \in DOMAIN acked :
          acked[a] \in sources[i] /\ acked[b] \in sources[j] => b < a
  <2> HIDE DEF sources
  <2> QED BY <1>7 DEF Older
<1> QED BY <1>8 DEF SearchedByAge, M, I, L1, f, n, KeysIn, Data

-----------------------------------------------------------------------------
(* The refinement *)

\* The views, without searches.
SeenBy(r) == Seen(memtables, tables, snap[r])
SeenViews == [r \in Readers |-> [reading |-> snap[r] # NoSnap, keys |-> SeenBy(r)]]
ViewsInv ==
  /\ mem # None /\ {k \in Keys : Finds(Current, k)} = ToSet(acked)
  /\ Visible = ToSet(acked) /\ Views = SeenViews

LEMMA ViewsFollow ==
  ASSUME IInv, CInv, OneWorker
  PROVE  ViewsInv
BY WhatIsVisible DEF ViewsInv, SeenViews, SeenBy

\* What a read that goes on holds, and the keys of it.
LEMMA HeldData ==
  ASSUME IInv, OneWorker, [Next]_vars, NEW r \in Readers, snap'[r] = snap[r]
  PROVE  /\ snap[r].mem \in DOMAIN memtables \cup {None}
         /\ snap[r].imm \in DOMAIN memtables \cup {None}
         /\ SeenBy(r)' =
              Data(memtables', snap[r].mem) \cup Data(memtables', snap[r].imm)
                \cup KeysIn(tables, Held(snap[r]))
<1>1. snap[r] \in Snap /\ InRange(snap[r])
  BY DEF IInv, Shape, LocalShape, SnapsInv
<1>2. /\ snap[r].mem \in DOMAIN memtables \cup {None}
      /\ snap[r].imm \in DOMAIN memtables \cup {None}
  BY <1>1 DEF Snap, InRange, IInv, Shape, MemShape, None
<1>3. KeysIn(tables', Held(snap[r])) = KeysIn(tables, Held(snap[r]))
  BY <1>1, TablesKept DEF InRange, KeysIn
<1>4. SeenBy(r)' =
        Data(memtables', snap'[r].mem) \cup Data(memtables', snap'[r].imm)
          \cup KeysIn(tables', Held(snap'[r]))
  BY DEF Seen, SeenBy
<1> QED BY <1>2, <1>3, <1>4

\* A step that leaves the log, the reads and the memtables' keys is invisible.
LEMMA Invisible ==
  ASSUME IInv, OneWorker, ViewsInv, ViewsInv', [Next]_vars,
         UNCHANGED <<acked, snap>>,
         \A m \in DOMAIN memtables : memtables'[m].data = memtables[m].data
  PROVE  UNCHANGED <<Visible, Views>>
<1>1. Visible' = Visible
  BY DEF ViewsInv
<1>2. ASSUME NEW r \in Readers PROVE SeenBy(r)' = SeenBy(r)
  <2>1. /\ Data(memtables', snap[r].mem) = Data(memtables, snap[r].mem)
        /\ Data(memtables', snap[r].imm) = Data(memtables, snap[r].imm)
    BY HeldData DEF Data
  <2> QED BY <2>1, HeldData DEF Seen, SeenBy
<1>3. SeenViews' = SeenViews
  BY <1>2 DEF SeenViews
<1> QED BY <1>1, <1>3 DEF ViewsInv

LEMMA KeyAdded ==
  ASSUME NEW b, NEW S, NEW k, NEW v, v = [reading |-> b, keys |-> S]
  PROVE  [v EXCEPT !.keys = @ \cup {k}] = [reading |-> b, keys |-> S \cup {k}]
OBVIOUS

\* An acknowledged key is seen by the reads that hold the memtable it went to.
LEMMA PutIsSeen ==
  ASSUME IInv, OneWorker, ViewsInv, ViewsInv', [Next]_vars,
         NEW k \in Unwritten, acked' = Append(acked, k), UNCHANGED snap,
         NEW m \in Nat \ {0},
         \A x \in DOMAIN memtables :
           memtables'[x].data = IF x = m THEN memtables[x].data \cup {k}
                                         ELSE memtables[x].data
  PROVE  Store!Next
<1> DEFINE seers == {r \in Readers : m \in {snap[r].mem, snap[r].imm}}
<1>1. Visible = ToSet(acked) /\ k \in Keys \ Visible /\ Visible' = Visible \cup {k}
  <2>1. acked \in Seq(Keys)
    BY DEF IInv, Shape, MemShape
  <2> QED BY <2>1, AppendSet DEF ViewsInv, Unwritten
<1>2. ASSUME NEW r \in Readers
      PROVE  SeenBy(r)' = IF r \in seers THEN SeenBy(r) \cup {k} ELSE SeenBy(r)
  <2>1. ASSUME NEW x \in DOMAIN memtables \cup {None}
        PROVE  Data(memtables', x) = IF x = m THEN Data(memtables, x) \cup {k}
                                              ELSE Data(memtables, x)
    BY <2>1 DEF Data, None
  <2>2. /\ snap[r].mem \in DOMAIN memtables \cup {None}
        /\ snap[r].imm \in DOMAIN memtables \cup {None}
    BY HeldData
  <2>3. SeenBy(r)' = Data(memtables', snap[r].mem) \cup Data(memtables', snap[r].imm)
                           \cup KeysIn(tables, Held(snap[r]))
    BY HeldData
  <2> QED BY <2>1, <2>2, <2>3 DEF Seen, SeenBy
<1>3. seers \in SUBSET {r \in Readers : Views[r].reading}
  <2>1. \A r \in seers : snap[r] # NoSnap
    BY DEF NoSnap, None
  <2> QED BY <2>1 DEF ViewsInv, SeenViews
<1> HIDE DEF seers
<1>4. Views' = [r \in Readers |-> IF r \in seers
                                    THEN [Views[r] EXCEPT !.keys = @ \cup {k}] ELSE Views[r]]
  <2>1. Views' = [r \in Readers |-> [reading |-> snap[r] # NoSnap, keys |-> SeenBy(r)']]
    BY DEF ViewsInv, SeenViews
  <2>2. \A r \in Readers : Views[r] = [reading |-> snap[r] # NoSnap, keys |-> SeenBy(r)]
    BY DEF ViewsInv, SeenViews
  <2>3. ASSUME NEW r \in Readers
        PROVE  [reading |-> snap[r] # NoSnap, keys |-> SeenBy(r)'] =
                 IF r \in seers THEN [Views[r] EXCEPT !.keys = @ \cup {k}] ELSE Views[r]
    <3>1. CASE r \in seers
      <4>1. SeenBy(r)' = SeenBy(r) \cup {k}
        BY <1>2, <3>1
      <4>2. (snap[r] # NoSnap) = TRUE
        BY <3>1 DEF seers, NoSnap, None
      <4>3. Views[r] = [reading |-> TRUE, keys |-> SeenBy(r)]
        BY <2>2, <4>2, Zenon
      <4>4. [Views[r] EXCEPT !.keys = @ \cup {k}] =
              [reading |-> TRUE, keys |-> SeenBy(r) \cup {k}]
        <5>1. PICK v : v = Views[r]
          OBVIOUS
        <5>2. PICK S : S = SeenBy(r)
          OBVIOUS
        <5>3. v = [reading |-> TRUE, keys |-> S]
          BY <4>3, <5>1, <5>2
        <5>4. [v EXCEPT !.keys = @ \cup {k}] = [reading |-> TRUE, keys |-> S \cup {k}]
          BY ONLY <5>3, KeyAdded
        <5> QED BY <5>1, <5>2, <5>4
      <4> QED BY <3>1, <4>1, <4>2, <4>4, Zenon
    <3>2. CASE r \notin seers
      <4>1. SeenBy(r)' = SeenBy(r)
        BY <1>2, <3>2
      <4> QED BY <2>2, <3>2, <4>1, Zenon
    <3> QED BY <3>1, <3>2
  <2> QED BY <2>1, <2>3
<1>5. Store!Put(k)
  BY <1>1, <1>3, <1>4 DEF Store!Put
<1> QED BY <1>1, <1>5 DEF Store!Next

LEMMA PutRefines ==
  ASSUME IInv, OneWorker, ViewsInv, ViewsInv', [Next]_vars,
         NEW w \in Writers, NEW k \in Unwritten, PutFast(w, k) \/ SwitchMemTable(w, k)
  PROVE  [Store!Next]_<<Visible, Views>>
<1>1. CASE PutFast(w, k)
  <2>1. CASE acked' = acked
    <3>1. \A x \in DOMAIN memtables : memtables'[x].data = memtables[x].data
      <4>1. k \notin ToSet(acked) /\ acked \in Seq(Keys)
        BY <1>1, PutEffect DEF IInv, Shape, MemShape
      <4>2. acked' # Append(acked, k)
        BY <2>1, <4>1
      <4> QED BY <1>1, <4>2, PutEffect
    <3> QED BY <1>1, <2>1, <3>1, PutEffect, Invisible
  <2>2. CASE /\ acked' = Append(acked, k)
             /\ memtables'[mem].data = memtables[mem].data \cup {k}
    <3>1. mem \in Nat \ {0}
      BY DEF ViewsInv, None, IInv, Shape, MemShape
    <3>2. \A x \in DOMAIN memtables :
            memtables'[x].data = IF x = mem THEN memtables[x].data \cup {k}
                                            ELSE memtables[x].data
      BY <1>1, <2>2, PutEffect
    <3>3. UNCHANGED snap
      BY <1>1, PutEffect
    <3>4. Store!Next
      BY <2>2, <3>1, <3>2, <3>3, PutIsSeen
    <3> QED BY <3>4
  <2> QED BY <1>1, <2>1, <2>2, PutEffect
<1>2. CASE SwitchMemTable(w, k)
  <2>1. CASE acked' = acked
    BY <1>2, <2>1, SwitchEffect, Invisible
  <2>2. CASE acked' = Append(acked, k)
    <3>1. Len(memtables) + 1 \in Nat \ {0} /\ Len(memtables) + 1 \notin DOMAIN memtables
      BY <1>2, SwitchEffect
    <3>2. \A x \in DOMAIN memtables :
            memtables'[x].data = IF x = Len(memtables) + 1 THEN memtables[x].data \cup {k}
                                                           ELSE memtables[x].data
      BY <1>2, <3>1, SwitchEffect
    <3>3. UNCHANGED snap
      BY <1>2, SwitchEffect
    <3>4. Store!Next
      BY <2>2, <3>1, <3>2, <3>3, PutIsSeen
    <3> QED BY <3>4
  <2> QED BY <1>2, <2>1, <2>2, SwitchEffect
<1> QED BY <1>1, <1>2

LEMMA ReadRefines ==
  ASSUME IInv, CInv, OneWorker, ViewsInv, ViewsInv', [Next]_vars,
         NEW q \in Readers, BeginRead(q) \/ EndRead(q)
  PROVE  [Store!Next]_<<Visible, Views>>
<1>1. /\ UNCHANGED acked
      /\ \A x \in DOMAIN memtables : memtables'[x].data = memtables[x].data
      /\ \A r \in Readers \ {q} : snap'[r] = snap[r]
  BY MemTablesKept DEF BeginRead, EndRead, IInv, Shape, LocalShape
<1>2. Visible' = Visible /\ Visible = ToSet(acked)
  BY <1>1 DEF ViewsInv
<1>3. \A r \in Readers \ {q} : SeenBy(r)' = SeenBy(r)
  <2> SUFFICES ASSUME NEW r \in Readers \ {q} PROVE SeenBy(r)' = SeenBy(r)
    OBVIOUS
  <2>1. /\ Data(memtables', snap[r].mem) = Data(memtables, snap[r].mem)
        /\ Data(memtables', snap[r].imm) = Data(memtables, snap[r].imm)
    BY <1>1, HeldData DEF Data
  <2> QED BY <1>1, <2>1, HeldData DEF Seen, SeenBy
<1>4. /\ \A r \in Readers : Views[r] = [reading |-> snap[r] # NoSnap, keys |-> SeenBy(r)]
      /\ \A r \in Readers : Views'[r] = [reading |-> snap'[r] # NoSnap, keys |-> SeenBy(r)']
      /\ Views = [r \in Readers |-> Views[r]] /\ Views' = [r \in Readers |-> Views'[r]]
  BY DEF ViewsInv, SeenViews
<1>5. \A r \in Readers \ {q} : Views'[r] = Views[r]
  BY <1>1, <1>3, <1>4
<1>6. CASE BeginRead(q)
  <2>1. snap[q] = NoSnap /\ snap'[q] = Current
    BY <1>6 DEF BeginRead, Current, IInv, Shape, LocalShape
  <2>2. Current # NoSnap
    BY DEF Current, NoSnap, ViewsInv
  <2>3. Seen(memtables, tables, Current) = ToSet(acked)
    <3>1. KeysIn(tables, Held(Current)) =
            KeysIn(tables, ToSet(level0)) \cup KeysIn(tables, ToSet(level1))
      BY KeysOfUnion DEF Held, Current
    <3> QED BY <3>1 DEF Seen, SeenBy, CInv, AgeInv, Aged, Current
  <2>4. SeenBy(q)' = Seen(memtables, tables, Current)
    <3>1. /\ UNCHANGED <<mem, imm, level0, level1>>
      BY <1>6 DEF BeginRead
    <3>2. /\ mem \in DOMAIN memtables \cup {None} /\ imm \in DOMAIN memtables \cup {None}
          /\ ToSet(level0) \cup ToSet(level1) \subseteq DOMAIN tables
      BY LevelIsSet DEF IInv, Shape, MemShape, None
    <3>3. /\ Data(memtables', mem) = Data(memtables, mem)
          /\ Data(memtables', imm) = Data(memtables, imm)
      BY <1>1, <3>2 DEF Data
    <3>4. KeysIn(tables', ToSet(level0) \cup ToSet(level1))
            = KeysIn(tables, ToSet(level0) \cup ToSet(level1))
      BY <3>2, TablesKept DEF KeysIn
    <3> QED BY <2>1, <3>3, <3>4 DEF Seen, SeenBy, Current, Held
  <2>5. Views'[q] = [reading |-> TRUE, keys |-> Visible] /\ ~Views[q].reading
    <3>1. (snap'[q] # NoSnap) = TRUE /\ (snap[q] # NoSnap) = FALSE
      BY <2>1, <2>2
    <3>2. SeenBy(q)' = Visible
      BY <1>2, <2>3, <2>4
    <3>3. /\ Views[q] = [reading |-> FALSE, keys |-> SeenBy(q)]
          /\ Views'[q] = [reading |-> TRUE, keys |-> Visible]
      BY <1>4, <3>1, <3>2, Zenon
    <3>4. Views[q].reading = FALSE
      BY <3>3
    <3> QED BY <3>3, <3>4
  <2>6. Views' = [Views EXCEPT ![q] = [reading |-> TRUE, keys |-> Visible]]
    BY <1>4, <1>5, <2>5
  <2>7. Store!BeginRead(q)
    BY <1>2, <2>5, <2>6 DEF Store!BeginRead
  <2> QED BY <2>7 DEF Store!Next
<1>7. CASE EndRead(q)
  <2>1. snap[q] # NoSnap /\ snap'[q] = NoSnap
    BY <1>7 DEF EndRead, IInv, Shape, LocalShape
  <2>2. SeenBy(q)' = {}
    <3>1. Held(NoSnap) = {} /\ NoSnap.mem = None /\ NoSnap.imm = None
      BY DEF Held, NoSnap, ToSet
    <3>2. SeenBy(q)' = Data(memtables', None) \cup Data(memtables', None)
                             \cup KeysIn(tables', Held(NoSnap))
      BY <2>1, <3>1 DEF Seen, SeenBy, Held
    <3> QED BY <3>1, <3>2 DEF KeysIn, Data
  <2>3. Views'[q] = Store!Idle /\ Views[q].reading
    <3>1. (snap'[q] # NoSnap) = FALSE /\ (snap[q] # NoSnap) = TRUE
      BY <2>1
    <3>2. /\ Views'[q] = [reading |-> FALSE, keys |-> {}]
          /\ Views[q] = [reading |-> TRUE, keys |-> SeenBy(q)]
      BY <1>4, <2>2, <3>1, Zenon
    <3>3. Views[q].reading = TRUE
      BY <3>2
    <3> QED BY <3>2, <3>3 DEF Store!Idle
  <2>4. Views' = [Views EXCEPT ![q] = Store!Idle]
    BY <1>4, <1>5, <2>3
  <2>5. Store!EndRead(q)
    BY <1>2, <2>3, <2>4 DEF Store!EndRead
  <2> QED BY <2>5 DEF Store!Next
<1> QED BY <1>6, <1>7

LEMMA StoreStep ==
  ASSUME IInv, CInv, OneWorker, ViewsInv, ViewsInv', [Next]_vars
  PROVE  [Store!Next]_<<Visible, Views>>
<1>1. CASE UNCHANGED <<acked, snap, memtables>>
  BY <1>1, Invisible
<1>2. CASE FlushCommit(Bg)
  <2>1. UNCHANGED <<acked, snap>>
    BY <1>2 DEF FlushCommit
  <2> QED BY <1>2, <2>1, MemTablesKept, Invisible
<1>3. CASE FlushFail(Bg)
  BY <1>1, <1>3 DEF FlushFail, DropUnlessBackground
<1>4. CASE \/ \E w \in Writers : MakeRoomWait(w)
           \/ FlushBegin(Bg) \/ FlushSkip(Bg)
           \/ CompactionBegin(Bg) \/ CompactionSkip(Bg)
           \/ LoadNumber(Bg) \/ OpenOutput(Bg) \/ FinishOutput(Bg)
           \/ CompactionFail(Bg) \/ CompactionCommit(Bg) \/ UNCHANGED vars
  <2>1. UNCHANGED <<acked, snap, memtables>>
    BY <1>4 DEF MakeRoomWait, FlushBegin, FlushSkip, CompactionBegin, CompactionSkip,
       LoadNumber, OpenOutput, FinishOutput, CompactionFail, CompactionCommit, vars
  <2> QED BY <1>1, <2>1
<1> QED BY <1>2, <1>3, <1>4, StepCases, PutRefines, ReadRefines

-----------------------------------------------------------------------------
(* The theorems *)

\* The tables of levels_[1] stay sorted and disjoint (Level1Disjoint): whatever
\* flushes, merges, failures and reads do, the bisection of Get may rely on it.
THEOREM Level1StaysSorted == OneWorker => (Spec => []Level1Disjoint)
<1> SUFFICES ASSUME OneWorker PROVE Spec => []Level1Disjoint
  OBVIOUS
<1> QED BY ContentsInvariance, Level1Follows, PTL

\* What Get searches later is older (SearchedByAge), in mem_, imm_, levels_[0]
\* from its end and levels_[1].
THEOREM SearchFollowsAge == OneWorker => (Spec => []SearchedByAge)
<1> SUFFICES ASSUME OneWorker PROVE Spec => []SearchedByAge
  OBVIOUS
<1> QED BY ContentsInvariance, SearchFollows, PTL

\* A Get started at any moment finds every acknowledged key and no other
\* (AckedFound), the ones in levels_[1] by bisection.
THEOREM AckedKeysAreFound == OneWorker => (Spec => []AckedFound)
<1> SUFFICES ASSUME OneWorker PROVE Spec => []AckedFound
  OBVIOUS
<1>1. ViewsInv => AckedFound
  BY DEF ViewsInv, AckedFound
<1> QED BY <1>1, ContentsInvariance, ViewsFollow, PTL

\* With one thread that flushes and merges no failed, abandoned or partly finished
\* merge leaves two tables with one number or a level with a table whose file is
\* gone (FilesMatchTables).
THEOREM FilesMatch == OneWorker => (Spec => []FilesMatchTables)
<1> SUFFICES ASSUME OneWorker PROVE Spec => []FilesMatchTables
  OBVIOUS
<1>1. IInv /\ CInv => FilesMatchTables
  BY FilesFollow
<1> QED BY <1>1, ContentsInvariance, PTL

\* Seen through Get and iterators the DB is a SnapshotStore (ImplementsStore):
\* no flush, merge or failure changes what a running or a new read finds.
THEOREM ImplementsTheStore == OneWorker => (Spec => ImplementsStore)
<1> SUFFICES ASSUME OneWorker PROVE Spec => ImplementsStore
  OBVIOUS
<1>1. IInv /\ CInv => ViewsInv
  BY ViewsFollow
<1>2. Init => Store!Init
  <2> SUFFICES ASSUME Init PROVE Store!Init
    OBVIOUS
  <2>1. IInv /\ CInv
    BY OnlyBg, InitInv, ContentsInit
  <2>2. Visible = ToSet(acked) /\ Views = SeenViews
    BY <2>1, ViewsFollow DEF ViewsInv
  <2>3. ToSet(acked) = {}
    BY DEF Init, ToSet
  <2>4. \A r \in Readers : snap[r] = NoSnap
    BY DEF Init
  <2>5. Seen(memtables, tables, NoSnap) = {}
    <3>1. Held(NoSnap) = {} /\ NoSnap.mem = None /\ NoSnap.imm = None
      BY DEF Held, NoSnap, ToSet
    <3> QED BY <3>1 DEF Seen, SeenBy, KeysIn, Data
  <2>6. Views = [r \in Readers |-> Store!Idle]
    BY <2>2, <2>4, <2>5 DEF SeenViews, SeenBy, Store!Idle
  <2> QED BY <2>2, <2>3, <2>6 DEF Store!Init
<1>3. /\ IInv /\ CInv /\ ViewsInv /\ ViewsInv' /\ [Next]_vars
      => [Store!Next]_<<Visible, Views>>
  BY StoreStep
<1> QED BY <1>1, <1>2, <1>3, ContentsInvariance, PTL DEF Spec, ImplementsStore, Store!Spec
=============================================================================
