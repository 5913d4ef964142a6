-------------------------- MODULE TableReaderProofs --------------------------
(***************************************************************************)
(* Three things about tables, for every number of threads, keys, blocks    *)
(* and failing writes.                                                     *)
(*                                                                         *)
(* Threads that share the FILE of a table read their own blocks. Between   *)
(* fseek and fread the position must not move; ReadsOwnBlock alone is not  *)
(* inductive, because it does not say who may move it. LockInv does: a     *)
(* thread between the two owns read_mutex_ alone, and before the table is  *)
(* open, when index_ is still being filled, nobody reads.                  *)
(*                                                                         *)
(* A lost write is noticed, unless a data block is in the place of the     *)
(* index, which Open does not notice. The builder's invariant, BuilderOK,  *)
(* cuts what was added into blocks, at the records c[i] and the offsets    *)
(* e[i] that the index will name, and counts the cells that failing writes *)
(* gained, where a block was written half and then again, and lost. Index, *)
(* filter and footer land where the footer says only if both counts are    *)
(* equal, and one failure alone cannot make them so unless both are 0. A   *)
(* checksum is always that of a block, at most gained or lost cells from   *)
(* its place.                                                              *)
(*                                                                         *)
(* Get and the iterators are right. With the table's own index, TableInv   *)
(* follows each of their calls from the bisection in the index to the      *)
(* record it ends at. With a data block for an index, MisledInv: whatever  *)
(* is read there, cells with a good checksum and the form of a block are a *)
(* block that was written.                                                 *)
(***************************************************************************)
EXTENDS TableReader, SequenceTheorems, FiniteSetTheorems, WellFoundedInduction, TLAPS

\* What pc can be, and where a thread has the lock.
Stages == {"idle", "lock", "seek", "read", "answered", "on", "wild"}
InRead == {"seek", "read"}

\* Who is between fseek and fread owns read_mutex_ alone; before the table is open nobody reads.
LockInv ==
  /\ pc \in [Readers -> Stages] /\ DOMAIN reader = Readers
  /\ \A r \in Readers : pc[r] \in InRead => lock = {r}
  /\ ~IsOpen => \A r \in Readers : pc[r] = "idle"

IInv == LockInv /\ ReadsOwnBlock

\* A call that reads nothing leaves the lock and the position alone.
LEMMA CallInv ==
  ASSUME IInv, NEW r \in Readers, pc[r] \notin InRead, IsOpen,
         NEW to \in Stages \ InRead, NEW after, Call(r, to, after)
  PROVE  IInv'
<1>1. /\ pc' = [pc EXCEPT ![r] = to] /\ reader' = [reader EXCEPT ![r] = after]
      /\ UNCHANGED <<lock, filePos, index, open>>
  BY DEF Call, Go, Become, tableVars
<1>2. pc' \in [Readers -> Stages] /\ DOMAIN reader' = Readers /\ IsOpen'
  BY <1>1 DEF IInv, LockInv, IsOpen
<1>3. ASSUME NEW s \in Readers, pc'[s] \in InRead
      PROVE  s # r /\ pc'[s] = pc[s] /\ reader'[s] = reader[s]
  BY <1>1, <1>3 DEF IInv, LockInv
<1>4. LockInv'
  BY <1>1, <1>2, <1>3 DEF IInv, LockInv
<1>5. ReadsOwnBlock'
  BY <1>1, <1>3 DEF IInv, ReadsOwnBlock, InRead
<1> QED
  BY <1>4, <1>5 DEF IInv

\* Who locks finds nobody between fseek and fread.
LEMMA LockReadInv ==
  ASSUME IInv, NEW r \in Readers, LockRead(r)
  PROVE  IInv'
<1>1. /\ pc[r] = "lock" /\ lock = {} /\ lock' = {r} /\ pc' = [pc EXCEPT ![r] = "seek"]
      /\ UNCHANGED <<filePos, index, open, reader>>
  BY DEF LockRead, LockFree, Go, tableVars
<1>2. \A s \in Readers : pc[s] \notin InRead
  BY <1>1 DEF IInv, LockInv
<1>3. IsOpen /\ IsOpen'
  BY <1>1 DEF IsOpen, IInv, LockInv
<1>4. LockInv'
  BY <1>1, <1>2, <1>3 DEF IInv, LockInv, Stages, InRead
<1>5. ReadsOwnBlock'
  BY <1>1, <1>2 DEF IInv, LockInv, ReadsOwnBlock, InRead
<1> QED
  BY <1>4, <1>5 DEF IInv

\* The owner of the lock moves the position to its own block.
LEMMA SeekFileInv ==
  ASSUME IInv, NEW r \in Readers, SeekFile(r)
  PROVE  IInv'
<1>1. /\ pc[r] = "seek" /\ filePos' = index[reader[r].block].offset
      /\ pc' = [pc EXCEPT ![r] = "read"]
      /\ UNCHANGED <<lock, index, open, reader>>
  BY DEF SeekFile, Go, tableVars
<1>2. lock = {r} /\ IsOpen /\ IsOpen'
  BY <1>1 DEF IInv, LockInv, InRead, IsOpen
<1>3. \A s \in Readers \ {r} : pc[s] \notin InRead
  BY <1>2 DEF IInv, LockInv
<1>4. LockInv'
  BY <1>1, <1>2, <1>3 DEF IInv, LockInv, Stages, InRead
<1>5. ReadsOwnBlock'
  BY <1>1, <1>3 DEF IInv, LockInv, ReadsOwnBlock, InRead
<1> QED
  BY <1>4, <1>5 DEF IInv

\* After fread nobody is between fseek and fread.
LEMMA ReadFileInv ==
  ASSUME IInv, NEW r \in Readers, ReadFile(r)
  PROVE  IInv'
<1>0. PICK to \in {"answered", "lock", "on", "wild"} :
        \E after : Go(r, to) /\ Become(r, after)
  BY DEF ReadFile, Scan
<1>1. PICK after : Go(r, to) /\ Become(r, after)
  BY <1>0
<1>2. /\ pc[r] = "read" /\ pc' = [pc EXCEPT ![r] = to] /\ lock' = lock \ {r}
      /\ reader' = [reader EXCEPT ![r] = after] /\ UNCHANGED <<index, open>>
  BY <1>1 DEF ReadFile, Go, Become, tableVars
<1>3. lock = {r} /\ IsOpen /\ IsOpen'
  BY <1>2 DEF IInv, LockInv, InRead, IsOpen
<1>4. \A s \in Readers \ {r} : pc[s] \notin InRead
  BY <1>3 DEF IInv, LockInv
<1>5. \A s \in Readers : pc'[s] \notin InRead
  BY <1>2, <1>4 DEF IInv, LockInv, InRead
<1>6. LockInv'
  BY <1>2, <1>3, <1>5 DEF IInv, LockInv, Stages
<1>7. ReadsOwnBlock'
  BY <1>5 DEF ReadsOwnBlock, InRead
<1> QED
  BY <1>6, <1>7 DEF IInv

\* Get, and the iterator's calls, end or start a read or need none.
LEMMA CallsInv ==
  ASSUME IInv, NEW r \in Readers,
         \/ \E k \in Keys : Get(r, k) \/ Seek(r, k)
         \/ NewIterator(r) \/ SeekToFirst(r) \/ NextRecord(r) \/ EndRead(r)
  PROVE  IInv'
<1>1. \E to \in {"answered", "lock", "on", "wild", "idle"} : \E after : Call(r, to, after)
  <2>1. CASE \E k \in Keys : Get(r, k)
    BY <2>1 DEF Get
  <2>2. CASE \E k \in Keys : Seek(r, k)
    BY <2>2 DEF Seek
  <2>3. CASE NewIterator(r)
    BY <2>3 DEF NewIterator
  <2>4. CASE SeekToFirst(r)
    BY <2>4 DEF SeekToFirst
  <2>5. CASE NextRecord(r)
    BY <2>5 DEF NextRecord
  <2>6. CASE EndRead(r)
    BY <2>6 DEF EndRead
  <2> QED
    BY <2>1, <2>2, <2>3, <2>4, <2>5, <2>6
<1>2. pc[r] \in {"idle", "on", "answered", "wild"}
  BY DEF Get, Seek, NewIterator, SeekToFirst, NextRecord, EndRead
<1>3. IsOpen
  <2>1. IsOpen \/ pc[r] # "idle"
    BY DEF Get, Seek, NewIterator, SeekToFirst, NextRecord, EndRead
  <2> QED
    BY <2>1 DEF IInv, LockInv
<1>4. PICK to \in {"answered", "lock", "on", "wild", "idle"} : \E after : Call(r, to, after)
  BY <1>1
<1>5. PICK after : Call(r, to, after)
  BY <1>4
<1>6. to \in Stages \ InRead /\ pc[r] \notin InRead
  BY <1>2 DEF Stages, InRead
<1> QED
  BY <1>3, <1>5, <1>6, CallInv

\* IInv is inductive: who is between fseek and fread owns read_mutex_.
THEOREM PositionIsOwned == Spec => []IInv
<1>1. Init => IInv
  BY DEF Init, IInv, LockInv, ReadsOwnBlock, Stages, InRead
<1>2. ASSUME IInv, [Next]_vars
      PROVE  IInv'
  <2>1. CASE Build /\ UNCHANGED <<tableVars, readVars>>
    BY <1>2, <2>1 DEF IInv, LockInv, ReadsOwnBlock, tableVars, readVars, IsOpen
  <2>2. CASE Open
    <3>1. \A r \in Readers : pc[r] = "idle" /\ pc'[r] = "idle"
      BY <1>2, <2>2 DEF Open, IInv, LockInv, readVars, IsOpen
    <3> QED
      BY <1>2, <2>2, <3>1 DEF Open, IInv, LockInv, ReadsOwnBlock, readVars, InRead, IsOpen
  <2>3. ASSUME NEW r \in Readers, Read(r)
        PROVE  IInv'
    BY <1>2, <2>3, LockReadInv, SeekFileInv, ReadFileInv, CallsInv DEF Read
  <2>4. CASE UNCHANGED vars
    BY <1>2, <2>4 DEF vars, IInv, LockInv, ReadsOwnBlock, tableVars, readVars, IsOpen
  <2> QED
    BY <1>2, <2>1, <2>2, <2>3, <2>4 DEF Next
<1> QED
  BY <1>1, <1>2, PTL DEF Spec

\* The block that a thread reads is the one that it went for, whatever the other
\* threads of the table do (sstable.cc:206).
THEOREM ReadersReadOwnBlocks == Spec => []ReadsOwnBlock
BY PositionIsOwned, PTL DEF IInv

-----------------------------------------------------------------------------
(* Numbers *)

\* The least number principle, and from it induction for a given set.
LEMMA Least ==
  ASSUME NEW S \in SUBSET Nat, S # {}
  PROVE  \E m \in S : \A k \in S : m <= k
<1> DEFINE R == OpToRel(<, Nat)
<1>1. IsWellFoundedOn(R, Nat)
  BY NatLessThanWellFounded
<1> HIDE DEF R
<1>2. PICK x \in S : \A y \in S : ~ (<<y, x>> \in R)
  BY <1>1, WFMin
<1>3. \A y \in S : ~(y < x)
  BY <1>2 DEF R, OpToRel
<1> QED BY <1>3

\* Induction, stated with the set of numbers for which it is shown.
LEMMA AllNumbers ==
  ASSUME NEW S \in SUBSET Nat, 0 \in S, \A n \in S : n + 1 \in S
  PROVE  S = Nat
<1> SUFFICES ASSUME Nat \ S # {} PROVE FALSE
  OBVIOUS
<1>1. PICK m \in Nat \ S : \A k \in Nat \ S : m <= k
  BY Least
<1>2. m # 0 /\ m - 1 \in Nat /\ m - 1 < m
  BY <1>1
<1>3. m - 1 \in S
  BY <1>1, <1>2
<1> QED BY <1>1, <1>2, <1>3

-----------------------------------------------------------------------------
(* Sequences of cells of any kind *)

\* s is a sequence, of whatever is in it.
IsSeq(s) == s \in Seq({s[i] : i \in DOMAIN s})

LEMMA SeqOfAny ==
  ASSUME NEW S, NEW s \in Seq(S)
  PROVE  IsSeq(s)
<1>1. Len(s) \in Nat /\ s \in [1..Len(s) -> S] /\ DOMAIN s = 1..Len(s)
  BY LenProperties
<1>2. s \in [1..Len(s) -> {s[i] : i \in DOMAIN s}]
  BY <1>1
<1>3. s \in Seq({s[i] : i \in DOMAIN s})
  BY <1>1, <1>2, SeqDef
<1> QED BY <1>3 DEF IsSeq

\* A sequence is the function of its elements.
LEMMA Shape ==
  ASSUME NEW s, IsSeq(s)
  PROVE  Len(s) \in Nat /\ DOMAIN s = 1..Len(s) /\ s = [i \in 1..Len(s) |-> s[i]]
BY LenProperties DEF IsSeq

LEMMA Tabulated ==
  ASSUME NEW n \in Nat, NEW s, s = [i \in 1..n |-> s[i]]
  PROVE  IsSeq(s) /\ Len(s) = n
<1>1. s \in [1..n -> {s[i] : i \in 1..n}]
  OBVIOUS
<1>2. s \in Seq({s[i] : i \in 1..n})
  BY <1>1, SeqDef
<1>3. DOMAIN s = 1..n /\ Len(s) \in Nat
  BY <1>1, <1>2
<1>4. Len(s) = n
  BY <1>2, <1>3, LenProperties
<1> QED BY <1>2, <1>4, SeqOfAny

\* Sequences that agree everywhere are the same.
LEMMA SameSeq ==
  ASSUME NEW s, NEW t, IsSeq(s), IsSeq(t), Len(s) = Len(t),
         \A i \in 1..Len(s) : s[i] = t[i]
  PROVE  s = t
<1>1. s = [i \in 1..Len(s) |-> s[i]] /\ t = [i \in 1..Len(t) |-> t[i]]
  BY Shape
<1> QED BY <1>1

LEMMA EmptyCells == IsSeq(<<>>) /\ Len(<<>>) = 0
BY EmptySeq, SeqOfAny

\* What is where in a concatenation.
LEMMA Joined ==
  ASSUME NEW s, NEW t, IsSeq(s), IsSeq(t)
  PROVE  /\ IsSeq(s \o t) /\ Len(s \o t) = Len(s) + Len(t)
         /\ \A i \in 1..Len(s) : (s \o t)[i] = s[i]
         /\ \A i \in 1..Len(t) : (s \o t)[Len(s) + i] = t[i]
         /\ \A i \in 1..Len(s) + Len(t) :
              i > Len(s) => (s \o t)[i] = t[i - Len(s)] /\ i - Len(s) \in 1..Len(t)
<1> DEFINE S == {s[i] : i \in DOMAIN s} \cup {t[i] : i \in DOMAIN t}
<1>1. s \in Seq(S) /\ t \in Seq(S)
  <2>1. s \in Seq({s[i] : i \in DOMAIN s}) /\ t \in Seq({t[i] : i \in DOMAIN t})
    BY DEF IsSeq
  <2>2. {s[i] : i \in DOMAIN s} \subseteq S /\ {t[i] : i \in DOMAIN t} \subseteq S
    OBVIOUS
  <2> HIDE DEF S
  <2> QED BY <2>1, <2>2, SeqMonotonic
<1> HIDE DEF S
<1>2. /\ s \o t \in Seq(S) /\ Len(s \o t) = Len(s) + Len(t)
      /\ \A i \in 1..Len(s) + Len(t) : (s \o t)[i] = IF i <= Len(s) THEN s[i] ELSE t[i - Len(s)]
  BY <1>1, ConcatProperties
<1>3. IsSeq(s \o t)
  BY <1>2, SeqOfAny
<1>4. Len(s) \in Nat /\ Len(t) \in Nat
  BY <1>1
<1> DEFINE j == s \o t
<1>5. j[1] = j[1]
  OBVIOUS
<1> HIDE DEF j
<1>6. /\ \A i \in 1..Len(s) : j[i] = s[i]
      /\ \A i \in 1..Len(t) : j[Len(s) + i] = t[i]
      /\ \A i \in 1..Len(s) + Len(t) :
              i > Len(s) => j[i] = t[i - Len(s)] /\ i - Len(s) \in 1..Len(t)
  <2>1. \A i \in 1..Len(s) + Len(t) : j[i] = IF i <= Len(s) THEN s[i] ELSE t[i - Len(s)]
    BY <1>2 DEF j
  <2>2. ASSUME NEW i \in 1..Len(t) PROVE j[Len(s) + i] = t[i]
    <3>1. Len(s) + i \in 1..Len(s) + Len(t) /\ ~(Len(s) + i <= Len(s)) /\ Len(s) + i - Len(s) = i
      BY <1>4
    <3> QED BY <2>1, <3>1
  <2>3. ASSUME NEW i \in 1..Len(s) PROVE j[i] = s[i]
    <3>1. i \in 1..Len(s) + Len(t) /\ i <= Len(s)
      BY <1>4
    <3> QED BY <2>1, <3>1
  <2>4. ASSUME NEW i \in 1..Len(s) + Len(t), i > Len(s)
        PROVE  j[i] = t[i - Len(s)] /\ i - Len(s) \in 1..Len(t)
    BY <1>4, <2>1, <2>4
  <2> QED BY <2>2, <2>3, <2>4
<1> QED BY <1>2, <1>3, <1>6 DEF j

LEMMA Appended ==
  ASSUME NEW s, NEW x, IsSeq(s)
  PROVE  /\ IsSeq(Append(s, x)) /\ Len(Append(s, x)) = Len(s) + 1
         /\ \A i \in 1..Len(s) : Append(s, x)[i] = s[i]
         /\ Append(s, x)[Len(s) + 1] = x
<1> DEFINE S == {s[i] : i \in DOMAIN s} \cup {x}
<1>1. s \in Seq(S) /\ x \in S
  <2>1. s \in Seq({s[i] : i \in DOMAIN s})
    BY DEF IsSeq
  <2>2. {s[i] : i \in DOMAIN s} \subseteq S /\ x \in S
    OBVIOUS
  <2> HIDE DEF S
  <2> QED BY <2>1, <2>2, SeqMonotonic
<1> HIDE DEF S
<1>2. /\ Append(s, x) \in Seq(S) /\ Len(Append(s, x)) = Len(s) + 1
      /\ \A i \in 1..Len(s) : Append(s, x)[i] = s[i]
      /\ Append(s, x)[Len(s) + 1] = x
  BY <1>1, AppendProperties
<1> QED BY <1>2, SeqOfAny

\* What ReadAt returns: n cells from offset m.
LEMMA Window ==
  ASSUME NEW f, IsSeq(f), NEW m \in Nat, NEW n \in Nat, m + n <= Len(f)
  PROVE  /\ IsSeq(ReadAt(f, m, n)) /\ Len(ReadAt(f, m, n)) = n
         /\ \A j \in 1..n : ReadAt(f, m, n)[j] = f[m + j]
<1> DEFINE S == {f[i] : i \in DOMAIN f}
<1> DEFINE c == SubSeq(f, m + 1, m + n)
<1>0. f \in Seq(S) /\ Len(f) \in Nat
  BY Shape DEF IsSeq
<1> HIDE DEF S
<1>1. m + 1 \in Int /\ m + n \in Int /\ m + n - (m + 1) + 1 = n
      /\ (IF m + 1 <= m + n THEN n ELSE 0) = n
  OBVIOUS
<1>2. \A i \in m + 1..m + n : f[i] \in S
  BY <1>0, ElementOfSeq
<1>3. c \in Seq(S) /\ Len(c) = n
  BY <1>1, <1>2, SubSeqProperties
<1>4. \A j \in 1..m + n - (m + 1) + 1 : c[j] = f[m + 1 + j - 1]
  BY <1>1, <1>2, SubSeqProperties
<1>5. \A j \in 1..n : m + 1 + j - 1 = m + j
  OBVIOUS
<1> HIDE DEF c
<1>6. \A j \in 1..n : c[j] = f[m + j]
  BY <1>1, <1>4, <1>5
<1>7. IsSeq(c)
  BY <1>3, SeqOfAny
<1> QED BY <1>3, <1>6, <1>7 DEF c, ReadAt

\* The first cells.
LEMMA Beginning ==
  ASSUME NEW f, IsSeq(f), NEW n \in Nat, n <= Len(f)
  PROVE  /\ IsSeq(SubSeq(f, 1, n)) /\ Len(SubSeq(f, 1, n)) = n
         /\ \A j \in 1..n : SubSeq(f, 1, n)[j] = f[j]
<1>1. ReadAt(f, 0, n) = SubSeq(f, 1, n)
  BY DEF ReadAt
<1>2. 0 + n <= Len(f) /\ 0 \in Nat /\ \A j \in 1..n : 0 + j = j
  OBVIOUS
<1>3. /\ IsSeq(ReadAt(f, 0, n)) /\ Len(ReadAt(f, 0, n)) = n
      /\ \A j \in 1..n : ReadAt(f, 0, n)[j] = f[0 + j]
  BY <1>2, Window
<1> QED BY <1>1, <1>2, <1>3

LEMMA WithoutLast ==
  ASSUME NEW s, IsSeq(s), Len(s) > 0
  PROVE  /\ IsSeq(Front(s)) /\ Len(Front(s)) = Len(s) - 1
         /\ \A j \in 1..Len(s) - 1 : Front(s)[j] = s[j]
<1>1. Len(s) - 1 \in Nat /\ Len(s) - 1 <= Len(s)
  BY Shape
<1> QED BY <1>1, Beginning DEF Front

-----------------------------------------------------------------------------
(* Blocks *)

\* There is at least one restart offset.
LEMMA Sizes ==
  ASSUME NEW n \in Nat \ {0}
  PROVE  CeilDiv(n, RestartInterval) \in Nat \ {0}
<1>1. RestartInterval \in Nat \ {0}
  BY FileAssumption
<1>2. n + RestartInterval - 1 >= RestartInterval /\ n + RestartInterval - 1 \in Nat
  BY <1>1
<1> DEFINE m == n + RestartInterval - 1
<1>3. m \div RestartInterval \in Nat /\ m = RestartInterval * (m \div RestartInterval) + (m % RestartInterval)
      /\ m % RestartInterval < RestartInterval
  BY <1>1, <1>2
<1>4. m \div RestartInterval # 0
  <2> HIDE DEF m
  <2>1. ASSUME NEW q \in Nat, q = 0, m = RestartInterval * q + (m % RestartInterval), m >= RestartInterval,
               m % RestartInterval < RestartInterval, m % RestartInterval \in Int
        PROVE FALSE
    BY <1>1, <2>1
  <2>2. m >= RestartInterval /\ m \in Nat
    BY <1>2 DEF m
  <2>3. m % RestartInterval \in Int
    BY <1>1, <2>2
  <2> QED BY <1>3, <2>1, <2>2, <2>3
<1> QED BY <1>3, <1>4 DEF CeilDiv

\* Records come in pairs of cells.
LEMMA DataShape ==
  ASSUME NEW ks, Len(ks) \in Nat
  PROVE  /\ IsSeq(Data(ks)) /\ Len(Data(ks)) = 2 * Len(ks)
         /\ \A i \in 1..Len(ks) : /\ 2 * i - 1 \in 1..2 * Len(ks) /\ 2 * i \in 1..2 * Len(ks)
                                  /\ Data(ks)[2 * i - 1] = <<"key", ks[i]>>
                                  /\ Data(ks)[2 * i] = <<"value", ks[i]>>
         /\ \A c \in 1..2 * Len(ks) : Data(ks)[c][1] = IF c % 2 = 1 THEN "key" ELSE "value"
<1> DEFINE D == Data(ks)
<1>1. D = [c \in 1..2 * Len(ks) |-> D[c]]
  BY DEF Data
<1>2. 2 * Len(ks) \in Nat
  OBVIOUS
<1>3. IsSeq(D) /\ Len(D) = 2 * Len(ks)
  <2> HIDE DEF D
  <2> QED BY <1>1, <1>2, Tabulated
<1>4. \A c \in 1..2 * Len(ks) :
        D[c] = IF c % 2 = 1 THEN <<"key", ks[(c + 1) \div 2]>> ELSE <<"value", ks[c \div 2]>>
  BY DEF Data
<1> HIDE DEF D
<1>5. ASSUME NEW i \in 1..Len(ks)
      PROVE  /\ 2 * i - 1 \in 1..2 * Len(ks) /\ 2 * i \in 1..2 * Len(ks)
             /\ D[2 * i - 1] = <<"key", ks[i]>> /\ D[2 * i] = <<"value", ks[i]>>
  <2>1. /\ 2 * i - 1 \in 1..2 * Len(ks) /\ 2 * i \in 1..2 * Len(ks)
        /\ (2 * i - 1) % 2 = 1 /\ (2 * i) % 2 = 0
        /\ (2 * i - 1 + 1) \div 2 = i /\ (2 * i) \div 2 = i
    OBVIOUS
  <2>2. PICK c \in 1..2 * Len(ks) : c = 2 * i - 1
    BY <2>1
  <2>3. D[c] = <<"key", ks[i]>>
    <3>1. c % 2 = 1 /\ (c + 1) \div 2 = i
      BY <2>2
    <3> QED BY <1>4, <3>1
  <2>4. PICK e \in 1..2 * Len(ks) : e = 2 * i
    BY <2>1
  <2>5. D[e] = <<"value", ks[i]>>
    <3>1. e % 2 # 1 /\ e \div 2 = i
      BY <2>4
    <3> QED BY <1>4, <3>1
  <2> QED BY <2>1, <2>2, <2>3, <2>4, <2>5
<1>6. ASSUME NEW c \in 1..2 * Len(ks) PROVE D[c][1] = IF c % 2 = 1 THEN "key" ELSE "value"
  <2>1. CASE c % 2 = 1
    <3>1. D[c] = <<"key", ks[(c + 1) \div 2]>>
      BY <1>4, <2>1
    <3> QED BY <2>1, <3>1
  <2>2. CASE c % 2 # 1
    <3>1. D[c] = <<"value", ks[c \div 2]>>
      BY <1>4, <2>2
    <3> QED BY <2>2, <3>1
  <2> QED BY <2>1, <2>2
<1> QED BY <1>3, <1>5, <1>6 DEF D

\* What is between the records and the checksum.
Counted(ks) ==
  Append([i \in 1..Restarts(ks) |-> <<"restart", 2 * RestartInterval * (i - 1)>>],
         <<"count", Restarts(ks)>>)

LEMMA CountedShape ==
  ASSUME NEW ks, Len(ks) \in Nat \ {0}
  PROVE  /\ Restarts(ks) \in Nat \ {0}
         /\ IsSeq(Counted(ks)) /\ Len(Counted(ks)) = Restarts(ks) + 1
         /\ \A i \in 1..Restarts(ks) : Counted(ks)[i][1] = "restart"
         /\ Counted(ks)[Restarts(ks) + 1] = <<"count", Restarts(ks)>>
<1> DEFINE rs == [i \in 1..Restarts(ks) |-> <<"restart", 2 * RestartInterval * (i - 1)>>]
           m == Restarts(ks)
<1>1. m \in Nat \ {0}
  BY Sizes DEF Restarts
<1>2. rs = [i \in 1..m |-> rs[i]] /\ \A i \in 1..m : rs[i][1] = "restart"
  OBVIOUS
<1> HIDE DEF rs, m
<1>3. IsSeq(rs) /\ Len(rs) = m
  BY <1>1, <1>2, Tabulated
<1>4. /\ IsSeq(Append(rs, <<"count", m>>)) /\ Len(Append(rs, <<"count", m>>)) = m + 1
      /\ \A i \in 1..m : Append(rs, <<"count", m>>)[i] = rs[i]
      /\ Append(rs, <<"count", m>>)[m + 1] = <<"count", m>>
  BY <1>3, Appended
<1>5. Counted(ks) = Append(rs, <<"count", m>>)
  BY DEF Counted, rs, m
<1> QED BY <1>1, <1>2, <1>4, <1>5 DEF m

\* A trailer has one checksum, and it is its last cell.
LEMMA TrailerShape ==
  ASSUME NEW ks, Len(ks) \in Nat \ {0}
  PROVE  /\ IsSeq(Trailer(ks)) /\ Len(Trailer(ks)) = Restarts(ks) + 2
         /\ Restarts(ks) \in Nat \ {0}
         /\ Trailer(ks) = Append(Counted(ks), Checksum(Data(ks) \o Counted(ks)))
         /\ \A i \in 1..Restarts(ks) + 1 : Trailer(ks)[i][1] # "crc" /\ Trailer(ks)[i] = Counted(ks)[i]
         /\ Trailer(ks)[Restarts(ks) + 2] = Checksum(Data(ks) \o Counted(ks))
<1>1. Trailer(ks) = Append(Counted(ks), Checksum(Data(ks) \o Counted(ks)))
  BY DEF Trailer, Counted
<1> DEFINE x == Checksum(Data(ks) \o Counted(ks))
           k == Counted(ks)
           m == Restarts(ks)
<1>2. /\ m \in Nat \ {0} /\ IsSeq(k) /\ Len(k) = m + 1
      /\ \A i \in 1..m : k[i][1] = "restart"
      /\ k[m + 1] = <<"count", m>>
  BY CountedShape
<1> HIDE DEF x, k, m
<1>3. /\ IsSeq(Append(k, x)) /\ Len(Append(k, x)) = Len(k) + 1
      /\ \A i \in 1..Len(k) : Append(k, x)[i] = k[i]
      /\ Append(k, x)[Len(k) + 1] = x
  BY <1>2, Appended
<1>4. Len(k) + 1 = m + 2 /\ Len(k) = m + 1
  BY <1>2
<1>5. ASSUME NEW i \in 1..m + 1 PROVE k[i][1] # "crc"
  <2>1. i \in 1..m \/ i = m + 1
    BY <1>2
  <2> QED BY <1>2, <2>1
<1>6. \A i \in 1..m + 1 : Append(k, x)[i][1] # "crc" /\ Append(k, x)[i] = k[i]
  BY <1>3, <1>4, <1>5
<1> QED BY <1>1, <1>2, <1>3, <1>4, <1>6 DEF x, k, m

\* A block as it should be.
Block(ks) == Data(ks) \o Trailer(ks)

\* No block is smaller than SmallestBlock, and its checksum is that of the rest.
LEMMA BlockShape ==
  ASSUME NEW ks, Len(ks) \in Nat \ {0}
  PROVE  /\ IsSeq(Block(ks)) /\ Len(Block(ks)) = BlockSize(ks)
         /\ BlockSize(ks) = 2 * Len(ks) + Restarts(ks) + 2
         /\ BlockSize(ks) \in Nat /\ BlockSize(ks) >= SmallestBlock
         /\ \A i \in 1..2 * Len(ks) : Block(ks)[i] = Data(ks)[i]
         /\ \A i \in 1..Restarts(ks) + 2 : Block(ks)[2 * Len(ks) + i] = Trailer(ks)[i]
         /\ Last(Block(ks)) = Checksum(Front(Block(ks)))
         /\ Block(ks)[BlockSize(ks) - 1] = <<"count", Restarts(ks)>>
<1> DEFINE d == Data(ks)
           t == Trailer(ks)
           l == 2 * Len(ks)
           m == Restarts(ks)
           b == Block(ks)
           k == Counted(ks)
<1>1. IsSeq(d) /\ Len(d) = l /\ l \in Nat /\ l >= 2
  BY DataShape
<1>2. /\ IsSeq(t) /\ Len(t) = m + 2 /\ m \in Nat \ {0}
      /\ t[m + 2] = Checksum(d \o k)
      /\ \A i \in 1..m + 1 : t[i] = k[i]
  BY TrailerShape
<1>3. IsSeq(k) /\ Len(k) = m + 1 /\ k[m + 1] = <<"count", m>>
  BY CountedShape
<1>4. BlockSize(ks) = Len(d) + Len(t)
  BY DEF BlockSize
<1>5. b = d \o t
  BY DEF Block
<1> HIDE DEF d, t, l, m, b, k
<1>6. /\ IsSeq(b) /\ Len(b) = l + (m + 2)
      /\ \A i \in 1..l : b[i] = d[i]
      /\ \A i \in 1..m + 2 : b[l + i] = t[i]
  <2>1. /\ IsSeq(d \o t) /\ Len(d \o t) = Len(d) + Len(t)
        /\ \A i \in 1..Len(d) : (d \o t)[i] = d[i]
        /\ \A i \in 1..Len(t) : (d \o t)[Len(d) + i] = t[i]
    <3>1. IsSeq(d) /\ IsSeq(t)
      BY <1>1, <1>2
    <3> QED BY <3>1, Joined
  <2> QED BY <1>1, <1>2, <1>5, <2>1
<1>7. /\ IsSeq(d \o k) /\ Len(d \o k) = l + (m + 1)
      /\ \A i \in 1..l : (d \o k)[i] = d[i]
      /\ \A i \in 1..m + 1 : (d \o k)[l + i] = k[i]
  <2>1. /\ IsSeq(d \o k) /\ Len(d \o k) = Len(d) + Len(k)
        /\ \A i \in 1..Len(d) : (d \o k)[i] = d[i]
        /\ \A i \in 1..Len(k) : (d \o k)[Len(d) + i] = k[i]
    BY <1>1, <1>3, Joined
  <2> QED BY <1>1, <1>3, <2>1
<1>8. IsSeq(Front(b)) /\ Len(Front(b)) = Len(b) - 1 /\ \A j \in 1..Len(b) - 1 : Front(b)[j] = b[j]
  <2>1. Len(b) > 0
    BY <1>1, <1>2, <1>6
  <2> QED BY <1>6, <2>1, WithoutLast
<1>9. Front(b) = d \o k
  <2>1. Len(Front(b)) = l + (m + 1)
    BY <1>1, <1>2, <1>6, <1>8
  <2>2. ASSUME NEW i \in 1..l + (m + 1) PROVE Front(b)[i] = (d \o k)[i]
    <3>1. i \in 1..Len(b) - 1
      BY <1>1, <1>2, <1>6
    <3>2. Front(b)[i] = b[i]
      BY <1>8, <3>1
    <3>3. CASE i <= l
      <4>1. i \in 1..l
        BY <1>1, <3>3
      <4> QED BY <1>6, <1>7, <3>2, <4>1
    <3>4. CASE ~(i <= l)
      <4>1. PICK j \in 1..m + 1 : i = l + j
        <5>1. i - l \in 1..m + 1 /\ i = l + (i - l)
          BY <1>1, <1>2, <3>4
        <5> QED BY <5>1
      <4>2. j \in 1..m + 2
        BY <1>2
      <4> QED BY <1>2, <1>6, <1>7, <3>2, <4>1, <4>2
    <3> QED BY <3>3, <3>4
  <2> QED BY <1>7, <1>8, <2>1, <2>2, SameSeq
<1>10. Last(b) = Checksum(Front(b))
  <2>1. m + 2 \in 1..m + 2
    BY <1>2
  <2> QED BY <1>2, <1>6, <1>9, <2>1 DEF Last
<1>11. b[l + (m + 2) - 1] = <<"count", m>>
  <2>1. m + 1 \in 1..m + 2 /\ m + 1 \in 1..m + 1 /\ l + (m + 2) - 1 = l + (m + 1)
    BY <1>1, <1>2
  <2> QED BY <1>2, <1>3, <1>6, <2>1
<1>12. BlockSize(ks) = l + m + 2 /\ l + m + 2 = l + (m + 2) /\ BlockSize(ks) \in Nat /\ BlockSize(ks) >= 5
  BY <1>1, <1>2, <1>4
<1> QED BY <1>6, <1>10, <1>11, <1>12, <1>1, <1>2 DEF d, t, l, m, b, SmallestBlock

\* Its records can be found again.
LEMMA BlockEntries ==
  ASSUME NEW ks, Len(ks) \in Nat \ {0}
  PROVE  Entries(Block(ks)) = Data(ks) /\ CrcMatches(Block(ks))
<1> DEFINE b == Block(ks)
           m == Restarts(ks)
           l == 2 * Len(ks)
<1>1. /\ IsSeq(b) /\ Len(b) = l + m + 2 /\ b[Len(b) - 1] = <<"count", m>>
      /\ \A i \in 1..l : b[i] = Data(ks)[i]
      /\ Last(b) = Checksum(Front(b))
  BY BlockShape
<1>2. m \in Nat /\ l \in Nat
  BY TrailerShape
<1>3. IsSeq(Data(ks)) /\ Len(Data(ks)) = l
  BY DataShape
<1> HIDE DEF b, m, l
<1>4. Len(b) - 2 - b[Len(b) - 1][2] = l /\ l <= Len(b)
  <2>1. b[Len(b) - 1][2] = m
    BY <1>1
  <2> QED BY <1>1, <1>2, <2>1
<1>5. Entries(b) = SubSeq(b, 1, l)
  BY <1>4 DEF Entries
<1>6. /\ IsSeq(SubSeq(b, 1, l)) /\ Len(SubSeq(b, 1, l)) = l
      /\ \A j \in 1..l : SubSeq(b, 1, l)[j] = b[j]
  BY <1>1, <1>2, <1>4, Beginning
<1>7. Entries(b) = Data(ks)
  BY <1>1, <1>3, <1>5, <1>6, SameSeq
<1> QED BY <1>1, <1>7 DEF b, CrcMatches

\* What a reader needs to go through it.
LEMMA BlockForm ==
  ASSUME NEW ks, Len(ks) \in Nat \ {0}
  PROVE  LET cells == Block(ks)
             n == Len(cells)
         IN  /\ n \in Nat /\ n >= SmallestTrailer
             /\ cells[n - 1][1] = "count" /\ cells[n - 1][2] <= n - SmallestTrailer
             /\ \A i \in DOMAIN Entries(cells) :
                  Entries(cells)[i][1] = IF i % 2 = 1 THEN "key" ELSE "value"
<1> DEFINE cells == Block(ks)
           n == Len(cells)
           m == Restarts(ks)
<1>1. /\ n = 2 * Len(ks) + m + 2 /\ n \in Nat /\ n >= 5 /\ cells[n - 1] = <<"count", m>>
  BY BlockShape DEF SmallestBlock
<1>2. m \in Nat
  BY TrailerShape
<1>3. Entries(cells) = Data(ks)
  BY BlockEntries
<1>4. /\ IsSeq(Data(ks)) /\ Len(Data(ks)) = 2 * Len(ks)
      /\ \A i \in 1..2 * Len(ks) : Data(ks)[i][1] = IF i % 2 = 1 THEN "key" ELSE "value"
  BY DataShape
<1>5. DOMAIN Data(ks) = 1..2 * Len(ks)
  BY <1>4, Shape
<1> HIDE DEF cells, n, m
<1>6. cells[n - 1][1] = "count" /\ cells[n - 1][2] = m
  BY <1>1
<1>7. m <= n - 2 /\ n >= 2
  BY <1>1, <1>2
<1> QED BY <1>1, <1>3, <1>4, <1>5, <1>6, <1>7 DEF cells, n, SmallestTrailer

\* The keys that a reader finds in a block are those it was made of.
LEMMA BlockKeys ==
  ASSUME NEW ks, IsSeq(ks), Len(ks) > 0
  PROVE  KeysOf(Block(ks)) = ks
<1>1. Len(ks) \in Nat \ {0}
  BY Shape
<1>2. Entries(Block(ks)) = Data(ks)
  BY <1>1, BlockEntries
<1>3. /\ Len(Data(ks)) = 2 * Len(ks)
      /\ \A i \in 1..Len(ks) : Data(ks)[2 * i - 1] = <<"key", ks[i]>>
  BY <1>1, DataShape
<1>4. Len(Data(ks)) \div 2 = Len(ks)
  BY <1>1, <1>3
<1>5. KeysOf(Block(ks)) = [i \in 1..Len(ks) |-> Data(ks)[2 * i - 1][2]]
  BY <1>2, <1>4 DEF KeysOf
<1>6. \A i \in 1..Len(ks) : Data(ks)[2 * i - 1][2] = ks[i]
  BY <1>3
<1>7. ks = [i \in 1..Len(ks) |-> ks[i]]
  BY Shape
<1> QED BY <1>5, <1>6, <1>7

\* The checksum tells which block it is.
LEMMA CrcNamesBlock ==
  ASSUME NEW ks, Len(ks) \in Nat \ {0}, NEW cells, IsSeq(cells), Len(cells) > 0,
         CrcMatches(cells), Last(cells) = Checksum(Front(Block(ks)))
  PROVE  cells = Block(ks)
<1> DEFINE b == Block(ks)
<1>1. IsSeq(b) /\ Len(b) > 0 /\ Last(b) = Checksum(Front(b))
  <2>1. IsSeq(b) /\ Len(b) = BlockSize(ks) /\ BlockSize(ks) \in Nat /\ BlockSize(ks) >= SmallestBlock
        /\ Last(b) = Checksum(Front(b))
    BY BlockShape
  <2> QED BY <2>1 DEF SmallestBlock
<1>2. Front(cells) = Front(b) /\ Last(cells) = Last(b)
  <2>1. Checksum(Front(cells)) = Checksum(Front(b))
    BY DEF CrcMatches
  <2> QED BY <1>1, <2>1 DEF Checksum
<1> HIDE DEF b
<1>3. /\ IsSeq(Front(b)) /\ Len(Front(b)) = Len(b) - 1
      /\ \A j \in 1..Len(b) - 1 : Front(b)[j] = b[j]
  BY <1>1, WithoutLast
<1>4. /\ Len(Front(cells)) = Len(cells) - 1
      /\ \A j \in 1..Len(cells) - 1 : Front(cells)[j] = cells[j]
  BY WithoutLast
<1>5. Len(b) \in Nat /\ Len(cells) \in Nat
  BY <1>1, Shape
<1>6. Len(cells) = Len(b)
  BY <1>2, <1>3, <1>4, <1>5
<1>7. ASSUME NEW i \in 1..Len(b) PROVE cells[i] = b[i]
  <2>1. CASE i = Len(b)
    BY <1>2, <1>6, <2>1 DEF Last
  <2>2. CASE i # Len(b)
    <3>1. i \in 1..Len(b) - 1 /\ i \in 1..Len(cells) - 1
      BY <1>5, <1>6, <2>2
    <3> QED BY <1>2, <1>3, <1>4, <3>1
  <2> QED BY <2>1, <2>2
<1> QED BY <1>1, <1>6, <1>7, SameSeq DEF b

-----------------------------------------------------------------------------
(* What remains of a block's end *)

\* Positions that increase do not fall behind.
LEMMA IncreasingBounds ==
  ASSUME NEW n \in Nat, NEW m \in Nat, NEW p \in Increasing(n, m), NEW i \in 1..n
  PROVE  i <= p[i]
<1>1. p \in [1..n -> 1..m] /\ \A a, b \in 1..n : a < b => p[a] < p[b]
  BY DEF Increasing
<1> DEFINE ahead == {k \in Nat : k + 1 <= n => k + 1 <= p[k + 1]}
<1>2. 0 \in ahead
  BY <1>1
<1>3. ASSUME NEW k \in ahead PROVE k + 1 \in ahead
  <2>1. SUFFICES ASSUME k + 1 + 1 <= n PROVE k + 1 + 1 <= p[k + 1 + 1]
    OBVIOUS
  <2>2. k \in Nat /\ k + 1 <= p[k + 1] /\ k + 1 \in 1..n /\ k + 1 + 1 \in 1..n /\ k + 1 < k + 1 + 1
    BY <2>1
  <2>3. p[k + 1] < p[k + 1 + 1] /\ p[k + 1] \in Nat /\ p[k + 1 + 1] \in Nat
    BY <1>1, <2>2
  <2> QED BY <2>2, <2>3
<1>4. ahead = Nat
  <2>1. ahead \in SUBSET Nat
    OBVIOUS
  <2> HIDE DEF ahead
  <2> QED BY <1>2, <1>3, <2>1, AllNumbers
<1>5. i - 1 \in Nat /\ i - 1 + 1 = i
  OBVIOUS
<1>6. i - 1 \in ahead
  BY <1>4, <1>5
<1> QED BY <1>5, <1>6

\* If there are as many as there can be, nothing is left out.
LEMMA IncreasingAll ==
  ASSUME NEW n \in Nat, NEW p \in Increasing(n, n), NEW i \in 1..n
  PROVE  p[i] = i
<1>1. p \in [1..n -> 1..n] /\ \A a, b \in 1..n : a < b => p[a] < p[b]
  BY DEF Increasing
<1> DEFINE behind == {k \in Nat : k < n => p[n - k] <= n - k}
<1>2. 0 \in behind
  BY <1>1
<1>3. ASSUME NEW k \in behind PROVE k + 1 \in behind
  <2>1. SUFFICES ASSUME k + 1 < n PROVE p[n - (k + 1)] <= n - (k + 1)
    OBVIOUS
  <2>2. k \in Nat /\ p[n - k] <= n - k /\ n - k \in 1..n /\ n - (k + 1) \in 1..n /\ n - (k + 1) < n - k
    BY <2>1
  <2>3. p[n - (k + 1)] < p[n - k] /\ p[n - k] \in Nat /\ p[n - (k + 1)] \in Nat
    BY <1>1, <2>2
  <2> QED BY <2>2, <2>3
<1>4. behind = Nat
  <2>1. behind \in SUBSET Nat
    OBVIOUS
  <2> HIDE DEF behind
  <2> QED BY <1>2, <1>3, <2>1, AllNumbers
<1>5. n - i \in behind /\ n - (n - i) = i /\ n - i < n
  BY <1>4
<1>6. p[i] <= i
  BY <1>5
<1>7. i <= p[i]
  BY IncreasingBounds
<1> QED BY <1>1, <1>6, <1>7

\* What remains of a trailer has the block's checksum at most once, as its last cell.
LEMMA RemainsShape ==
  ASSUME NEW ks, Len(ks) \in Nat \ {0}, NEW t \in Remains(Trailer(ks))
  PROVE  /\ IsSeq(t) /\ Len(t) \in 0..Restarts(ks) + 2
         /\ Len(t) = Restarts(ks) + 2 => t = Trailer(ks)
         /\ \A i \in 1..Len(t) : t[i][1] = "crc" =>
              i = Len(t) /\ t[i] = Checksum(Front(Block(ks)))
<1> DEFINE s == Trailer(ks)
           m == Restarts(ks)
<1>1. /\ IsSeq(s) /\ Len(s) = m + 2 /\ m \in Nat \ {0}
      /\ \A i \in 1..m + 1 : s[i][1] # "crc"
      /\ s[m + 2] = Checksum(Data(ks) \o Counted(ks))
  BY TrailerShape
<1>2. s[m + 2] = Checksum(Front(Block(ks)))
  <2>1. Last(Block(ks)) = Checksum(Front(Block(ks))) /\ Len(Block(ks)) = 2 * Len(ks) + m + 2
    BY BlockShape
  <2>2. \A i \in 1..m + 2 : Block(ks)[2 * Len(ks) + i] = s[i]
    BY BlockShape
  <2> HIDE DEF s, m
  <2>3. m + 2 \in 1..m + 2 /\ 2 * Len(ks) + (m + 2) = 2 * Len(ks) + m + 2
    BY <1>1
  <2>4. Block(ks)[2 * Len(ks) + (m + 2)] = s[m + 2]
    BY <2>2, <2>3
  <2> QED BY <2>1, <2>3, <2>4 DEF Last
<1> HIDE DEF s, m
<1>3. PICK n \in 0..Len(s) : t \in {[i \in 1..n |-> s[p[i]]] : p \in Increasing(n, Len(s))}
  BY DEF Remains, s
<1>4. PICK p \in Increasing(n, Len(s)) : t = [i \in 1..n |-> s[p[i]]]
  BY <1>3
<1>5. t = [i \in 1..n |-> t[i]] /\ n \in Nat /\ Len(s) \in Nat
  BY <1>1, <1>4
<1>6. IsSeq(t) /\ Len(t) = n
  BY <1>5, Tabulated
<1>7. ASSUME n = m + 2 PROVE t = s
  <2>1. \A i \in 1..n : p[i] = i
    BY <1>1, <1>5, <1>7, IncreasingAll
  <2>2. \A i \in 1..n : t[i] = s[i]
    BY <1>4, <2>1
  <2> QED BY <1>1, <1>6, <1>7, <2>2, SameSeq
<1>8. ASSUME NEW i \in 1..n, t[i][1] = "crc"
      PROVE  i = n /\ t[i] = s[m + 2]
  <2>1. p \in [1..n -> 1..m + 2] /\ \A a, b \in 1..n : a < b => p[a] < p[b]
    BY <1>1 DEF Increasing
  <2>2. p[i] \in 1..m + 2 /\ t[i] = s[p[i]]
    BY <1>4, <2>1
  <2>3. p[i] = m + 2
    BY <1>1, <1>8, <2>2
  <2>4. i = n
    <3>1. i < n => p[i] < p[n] /\ p[n] \in 1..m + 2
      BY <1>5, <2>1
    <3> QED BY <1>1, <1>5, <2>3, <3>1
  <2> QED BY <2>2, <2>3, <2>4
<1> QED BY <1>1, <1>2, <1>3, <1>6, <1>7, <1>8 DEF s, m

-----------------------------------------------------------------------------
(* The builder *)

\* Keys ascend.
KeysOK(a) ==
  /\ IsSeq(a)
  /\ \A i \in 1..Len(a) : a[i] \in Nat
  /\ \A i, j \in 1..Len(a) : i < j => a[i] < a[j]

\* Block i has the keys of a from behind c[i - 1] up to c[i].
Piece(a, c, i) == [j \in 1..c[i] - c[i - 1] |-> a[c[i - 1] + j]]

\* The keys are cut into blocks, each of which has its entry in the index; the
\* builder believes that block i ends at e[i].
CutsOK(b, a, c, e) ==
  LET n == Len(b.infos)
  IN  /\ IsSeq(b.infos) /\ c \in [0..n -> Nat] /\ e \in [0..n -> Nat]
      /\ c[0] = 0 /\ e[0] = 0
      /\ \A i, j \in 0..n : i < j => c[i] < c[j] /\ e[i] + SmallestBlock <= e[j]
      /\ \A i \in 1..n : /\ b.infos[i] = IndexEntry(a[c[i]], e[i - 1], e[i] - e[i - 1])
                         /\ e[i] - e[i - 1] = BlockSize(Piece(a, c, i))
      /\ b.size = e[n]
      /\ IsSeq(b.block) /\ c[n] + Len(b.block) = Len(a)
      /\ \A j \in 1..Len(b.block) : b.block[j] = a[c[n] + j]

\* Where the checksum of block i can be.
CrcOf(b, a, c, e, gained, lost, p, i) ==
  /\ b.file[p] = Checksum(Front(Block(Piece(a, c, i))))
  /\ e[i] <= p + lost /\ p <= e[i] + gained

\* Lost cells make the file shorter than the builder believes, those of records
\* that were not written to their end make it longer.
CellsOK(b, a, c, e, gained, lost) ==
  LET n == Len(b.infos)
  IN  /\ IsSeq(b.file) /\ b.failed \in Nat /\ gained \in Nat /\ lost \in Nat
      /\ Len(b.file) + lost = b.size + gained
      /\ lost <= b.failed /\ (gained > 0 => lost + 1 <= b.failed)
      /\ \A p \in 1..Len(b.file) :
           b.file[p][1] = "crc" => \E i \in 1..n : CrcOf(b, a, c, e, gained, lost, p, i)
      /\ gained = 0 /\ lost = 0 =>
           \A i \in 1..n : ReadAt(b.file, e[i - 1], e[i] - e[i - 1]) = Block(Piece(a, c, i))

IsBuilder(b) == b = [file |-> b.file, size |-> b.size, block |-> b.block,
                     infos |-> b.infos, failed |-> b.failed]

\* The builder b after the keys a were added.
BuilderOK(b, a, c, e, gained, lost) ==
  IsBuilder(b) /\ KeysOK(a) /\ CutsOK(b, a, c, e) /\ CellsOK(b, a, c, e, gained, lost)

\* The cuts are within what was added and within the size that is expected.
LEMMA CutFacts ==
  ASSUME NEW b, NEW a, NEW c, NEW e, CutsOK(b, a, c, e), KeysOK(a)
  PROVE  /\ Len(b.infos) \in Nat /\ Len(b.block) \in Nat /\ Len(a) \in Nat /\ b.size \in Nat
         /\ \A i \in 0..Len(b.infos) : c[i] \in 0..Len(a) /\ e[i] \in 0..b.size
         /\ \A i \in 1..Len(b.infos) :
              /\ i - 1 \in 0..Len(b.infos) /\ i \in 0..Len(b.infos)
              /\ c[i - 1] < c[i] /\ e[i - 1] < e[i]
<1> DEFINE n == Len(b.infos)
<1>1. /\ n \in Nat /\ Len(b.block) \in Nat /\ Len(a) \in Nat
  BY Shape DEF CutsOK, KeysOK
<1>2. /\ c \in [0..n -> Nat] /\ e \in [0..n -> Nat]
      /\ \A i, j \in 0..n : i < j => c[i] < c[j] /\ e[i] + SmallestBlock <= e[j]
      /\ b.size = e[n] /\ c[n] + Len(b.block) = Len(a)
  BY DEF CutsOK
<1> HIDE DEF n
<1>3. n \in 0..n /\ b.size \in Nat
  BY <1>1, <1>2
<1>4. ASSUME NEW i \in 0..n PROVE c[i] \in 0..Len(a) /\ e[i] \in 0..b.size
  <2>1. c[i] \in Nat /\ e[i] \in Nat /\ c[n] \in Nat /\ c[n] <= Len(a)
    BY <1>1, <1>2, <1>3
  <2>2. i = n \/ i < n
    BY <1>1
  <2>3. i < n => c[i] < c[n] /\ e[i] + 5 <= e[n]
    BY <1>2, <1>3 DEF SmallestBlock
  <2> QED BY <1>1, <1>2, <1>3, <2>1, <2>2, <2>3
<1>5. ASSUME NEW i \in 1..n
      PROVE  i - 1 \in 0..n /\ i \in 0..n /\ c[i - 1] < c[i] /\ e[i - 1] < e[i]
  <2>1. i - 1 \in 0..n /\ i \in 0..n /\ i - 1 < i
    BY <1>1
  <2>2. c[i - 1] < c[i] /\ e[i - 1] + 5 <= e[i] /\ e[i - 1] \in Nat /\ e[i] \in Nat
    BY <1>2, <2>1 DEF SmallestBlock
  <2> QED BY <2>1, <2>2
<1> QED BY <1>1, <1>3, <1>4, <1>5 DEF n

LEMMA PieceShape ==
  ASSUME NEW b, NEW a, NEW c, NEW e, CutsOK(b, a, c, e), KeysOK(a), NEW i \in 1..Len(b.infos)
  PROVE  /\ IsSeq(Piece(a, c, i)) /\ Len(Piece(a, c, i)) = c[i] - c[i - 1]
         /\ Len(Piece(a, c, i)) \in Nat \ {0}
         /\ \A j \in 1..c[i] - c[i - 1] : /\ Piece(a, c, i)[j] = a[c[i - 1] + j]
                                          /\ c[i - 1] + j \in 1..Len(a)
<1>1. /\ c[i - 1] \in 0..Len(a) /\ c[i] \in 0..Len(a) /\ c[i - 1] < c[i] /\ Len(a) \in Nat
  BY CutFacts
<1> DEFINE ks == Piece(a, c, i)
           m == c[i] - c[i - 1]
<1>2. m \in Nat \ {0}
  BY <1>1
<1>3. ks = [j \in 1..m |-> ks[j]] /\ \A j \in 1..m : ks[j] = a[c[i - 1] + j]
  BY DEF Piece
<1>4. \A j \in 1..m : c[i - 1] + j \in 1..Len(a)
  BY <1>1
<1> HIDE DEF ks, m
<1>5. IsSeq(ks) /\ Len(ks) = m
  BY <1>2, <1>3, Tabulated
<1> QED BY <1>2, <1>3, <1>4, <1>5 DEF ks, m

\* The pieces depend on the cuts and on the keys up to there.
LEMMA SamePiece ==
  ASSUME NEW a, NEW c, NEW a2, NEW c2, NEW i, c2[i - 1] = c[i - 1], c2[i] = c[i],
         c[i - 1] \in Nat, c[i] \in Nat, \A j \in 1..c[i] : a2[j] = a[j]
  PROVE  Piece(a2, c2, i) = Piece(a, c, i)
<1>1. \A j \in 1..c[i] - c[i - 1] : c[i - 1] + j \in 1..c[i]
  OBVIOUS
<1> QED BY <1>1 DEF Piece

\* Nothing is cut yet.
LEMMA NewBuilderOK ==
  ASSUME NEW none, none = [i \in 0..0 |-> 0]
  PROVE  BuilderOK(NewBuilder, <<>>, none, none, 0, 0)
<1>1. IsSeq(<<>>) /\ Len(<<>>) = 0
  BY EmptyCells
<1>2. KeysOK(<<>>)
  BY <1>1 DEF KeysOK
<1>3. CutsOK(NewBuilder, <<>>, none, none)
  BY <1>1 DEF CutsOK, NewBuilder
<1>4. CellsOK(NewBuilder, <<>>, none, none, 0, 0)
  BY <1>1 DEF CellsOK, NewBuilder
<1> QED BY <1>2, <1>3, <1>4 DEF BuilderOK, NewBuilder, IsBuilder

\* A key is added to the block.
LEMMA AddKeeps ==
  ASSUME NEW b, NEW a, NEW c, NEW e, NEW gained, NEW lost, BuilderOK(b, a, c, e, gained, lost),
         NEW k \in Nat, \A i \in DOMAIN a : a[i] < k
  PROVE  BuilderOK([b EXCEPT !.block = Append(@, k)], Append(a, k), c, e, gained, lost)
<1> DEFINE d == [b EXCEPT !.block = Append(@, k)]
           n == Len(b.infos)
           x == Append(a, k)
<1>1. IsBuilder(b) /\ KeysOK(a) /\ CutsOK(b, a, c, e) /\ CellsOK(b, a, c, e, gained, lost)
  BY DEF BuilderOK
<1>2. /\ d.file = b.file /\ d.size = b.size /\ d.block = Append(b.block, k)
      /\ d.infos = b.infos /\ d.failed = b.failed /\ IsBuilder(d)
  BY <1>1 DEF IsBuilder
<1>3. /\ IsSeq(x) /\ Len(x) = Len(a) + 1 /\ \A i \in 1..Len(a) : x[i] = a[i]
      /\ x[Len(a) + 1] = k
  BY <1>1, Appended DEF KeysOK
<1>4. /\ IsSeq(d.block) /\ Len(d.block) = Len(b.block) + 1
      /\ \A i \in 1..Len(b.block) : d.block[i] = b.block[i]
      /\ d.block[Len(b.block) + 1] = k
  BY <1>1, <1>2, Appended DEF CutsOK
<1>5. /\ n \in Nat /\ Len(b.block) \in Nat /\ Len(a) \in Nat
      /\ \A i \in 0..n : c[i] \in 0..Len(a)
      /\ \A i \in 1..n : i - 1 \in 0..n /\ i \in 0..n /\ c[i - 1] < c[i]
  BY <1>1, CutFacts
<1>6. KeysOK(x)
  <2>1. DOMAIN a = 1..Len(a)
    BY <1>1, Shape DEF KeysOK
  <2>2. /\ \A i \in 1..Len(a) : a[i] \in Nat /\ a[i] < k
        /\ \A i, j \in 1..Len(a) : i < j => a[i] < a[j]
    BY <1>1, <2>1 DEF KeysOK
  <2> HIDE DEF x
  <2>3. ASSUME NEW i \in 1..Len(x)
        PROVE  (i \in 1..Len(a) /\ x[i] = a[i]) \/ (i = Len(a) + 1 /\ x[i] = k)
    BY <1>3, <1>5
  <2>4. \A i \in 1..Len(x) : x[i] \in Nat
    BY <2>2, <2>3
  <2>5. ASSUME NEW i \in 1..Len(x), NEW j \in 1..Len(x), i < j PROVE x[i] < x[j]
    <3>1. i \in 1..Len(a) /\ x[i] = a[i]
      BY <1>3, <1>5, <2>5, <2>3
    <3> QED BY <2>2, <2>3, <2>5, <3>1
  <2> QED BY <1>3, <2>4, <2>5 DEF KeysOK
<1> HIDE DEF x, d, n
<1>7. ASSUME NEW i \in 1..n PROVE Piece(x, c, i) = Piece(a, c, i)
  <2>1. c[i - 1] \in Nat /\ c[i] \in Nat /\ \A j \in 1..c[i] : x[j] = a[j]
    BY <1>3, <1>5
  <2> QED BY <2>1, SamePiece
<1>8. CutsOK(d, x, c, e)
  <2>1. /\ IsSeq(b.infos) /\ c \in [0..n -> Nat] /\ e \in [0..n -> Nat]
        /\ c[0] = 0 /\ e[0] = 0
        /\ \A i, j \in 0..n : i < j => c[i] < c[j] /\ e[i] + SmallestBlock <= e[j]
        /\ b.size = e[n] /\ c[n] + Len(b.block) = Len(a)
    BY <1>1 DEF CutsOK, n
  <2>2. \A i \in 1..n : /\ b.infos[i] = IndexEntry(a[c[i]], e[i - 1], e[i] - e[i - 1])
                        /\ e[i] - e[i - 1] = BlockSize(Piece(a, c, i))
    BY <1>1 DEF CutsOK, n
  <2>3. \A j \in 1..Len(b.block) : b.block[j] = a[c[n] + j]
    BY <1>1 DEF CutsOK, n
  <2>4. ASSUME NEW i \in 1..n
        PROVE  /\ d.infos[i] = IndexEntry(x[c[i]], e[i - 1], e[i] - e[i - 1])
               /\ e[i] - e[i - 1] = BlockSize(Piece(x, c, i))
    <3>1. c[i] \in 1..Len(a)
      BY <1>5
    <3> QED BY <1>2, <1>3, <1>7, <2>2, <3>1
  <2>5. c[n] \in Nat /\ c[n] + Len(d.block) = Len(x)
    BY <1>3, <1>4, <1>5, <2>1
  <2>6. ASSUME NEW j \in 1..Len(d.block) PROVE d.block[j] = x[c[n] + j]
    <3>1. CASE j \in 1..Len(b.block)
      <4>1. c[n] + j \in 1..Len(a)
        BY <1>5, <2>1, <2>5, <3>1
      <4> QED BY <1>3, <1>4, <2>3, <3>1, <4>1
    <3>2. CASE j = Len(b.block) + 1
      <4>0. c[n] \in Nat /\ Len(b.block) \in Nat /\ c[n] + Len(b.block) = Len(a)
        BY <1>5, <2>1, <2>5
      <4>1. c[n] + j = Len(a) + 1
        BY <4>0, <3>2
      <4> QED BY <1>3, <1>4, <3>2, <4>1
    <3> QED BY <1>4, <1>5, <3>1, <3>2
  <2>7. d.size = e[n] /\ Len(d.infos) = n /\ IsSeq(d.infos)
    BY <1>2, <2>1 DEF n
  <2> QED BY <1>4, <2>1, <2>4, <2>5, <2>6, <2>7 DEF CutsOK
<1>9. CellsOK(d, x, c, e, gained, lost)
  <2>1. /\ IsSeq(b.file) /\ b.failed \in Nat /\ gained \in Nat /\ lost \in Nat
        /\ Len(b.file) + lost = b.size + gained
        /\ lost <= b.failed /\ (gained > 0 => lost + 1 <= b.failed)
    BY <1>1 DEF CellsOK
  <2>2. \A p \in 1..Len(b.file) :
           b.file[p][1] = "crc" => \E i \in 1..n : CrcOf(b, a, c, e, gained, lost, p, i)
    BY <1>1 DEF CellsOK, n
  <2>3. gained = 0 /\ lost = 0 =>
           \A i \in 1..n : ReadAt(b.file, e[i - 1], e[i] - e[i - 1]) = Block(Piece(a, c, i))
    BY <1>1 DEF CellsOK, n
  <2>4. ASSUME NEW p, NEW i \in 1..n, CrcOf(b, a, c, e, gained, lost, p, i)
        PROVE  CrcOf(d, x, c, e, gained, lost, p, i)
    BY <1>2, <1>7, <2>4 DEF CrcOf
  <2>5. \A p \in 1..Len(d.file) :
           d.file[p][1] = "crc" => \E i \in 1..n : CrcOf(d, x, c, e, gained, lost, p, i)
    BY <1>2, <2>2, <2>4
  <2>6. gained = 0 /\ lost = 0 =>
           \A i \in 1..n : ReadAt(d.file, e[i - 1], e[i] - e[i - 1]) = Block(Piece(x, c, i))
    BY <1>2, <1>7, <2>3
  <2>7. Len(d.infos) = n
    BY <1>2 DEF n
  <2> QED BY <1>2, <2>1, <2>5, <2>6, <2>7 DEF CellsOK
<1> QED BY <1>2, <1>6, <1>8, <1>9 DEF BuilderOK, d, x

LEMMA CellFacts ==
  ASSUME NEW b, NEW a, NEW c, NEW e, NEW gained, NEW lost, CellsOK(b, a, c, e, gained, lost)
  PROVE  /\ IsSeq(b.file) /\ Len(b.file) \in Nat /\ b.failed \in Nat /\ gained \in Nat /\ lost \in Nat
         /\ Len(b.file) + lost = b.size + gained
         /\ lost <= b.failed /\ (gained > 0 => lost + 1 <= b.failed)
BY Shape DEF CellsOK

\* What was written stays where it was.
LEMMA SameWindow ==
  ASSUME NEW f, NEW x, IsSeq(f), IsSeq(x), NEW m \in Nat, NEW n \in Nat, m + n <= Len(f)
  PROVE  ReadAt(f \o x, m, n) = ReadAt(f, m, n)
<1> DEFINE g == f \o x
<1>1. IsSeq(g) /\ Len(g) = Len(f) + Len(x) /\ \A i \in 1..Len(f) : g[i] = f[i]
  BY Joined
<1>2. Len(f) \in Nat /\ Len(x) \in Nat
  BY Shape
<1> HIDE DEF g
<1>3. m + n <= Len(g) /\ \A j \in 1..n : m + j \in 1..Len(f)
  BY <1>1, <1>2
<1>4. /\ IsSeq(ReadAt(g, m, n)) /\ Len(ReadAt(g, m, n)) = n
      /\ \A j \in 1..n : ReadAt(g, m, n)[j] = g[m + j]
  BY <1>1, <1>3, Window
<1>5. /\ IsSeq(ReadAt(f, m, n)) /\ Len(ReadAt(f, m, n)) = n
      /\ \A j \in 1..n : ReadAt(f, m, n)[j] = f[m + j]
  BY Window
<1>6. \A j \in 1..n : ReadAt(g, m, n)[j] = ReadAt(f, m, n)[j]
  BY <1>1, <1>3, <1>4, <1>5
<1>7. ReadAt(g, m, n) = ReadAt(f, m, n)
  BY <1>4, <1>5, <1>6, SameSeq
<1> QED BY <1>7 DEF g

\* The records of a block are not written, or not to their end.
LEMMA NotWrittenKeeps ==
  ASSUME NEW b, NEW a, NEW c, NEW e, NEW gained, NEW lost, BuilderOK(b, a, c, e, gained, lost),
         NEW f \in BlockNotWritten(b)
  PROVE  /\ \E more : BuilderOK(f, a, c, e, more, lost)
         /\ f.block = b.block /\ f.failed = b.failed + 1
<1> DEFINE n == Len(b.infos)
           d == Data(b.block)
<1>1. IsBuilder(b) /\ KeysOK(a) /\ CutsOK(b, a, c, e) /\ CellsOK(b, a, c, e, gained, lost)
  BY DEF BuilderOK
<1>2. /\ Len(b.block) \in Nat /\ n \in Nat /\ b.size \in Nat
      /\ \A i \in 0..n : e[i] \in 0..b.size
      /\ \A i \in 1..n : i - 1 \in 0..n /\ i \in 0..n /\ e[i - 1] < e[i]
  BY <1>1, CutFacts
<1>3. /\ IsSeq(d) /\ Len(d) = 2 * Len(b.block)
      /\ \A i \in 1..2 * Len(b.block) : d[i][1] = IF i % 2 = 1 THEN "key" ELSE "value"
  BY <1>2, DataShape
<1> HIDE DEF d
<1>4. PICK m \in Nat : /\ f = [b EXCEPT !.file = @ \o SubSeq(d, 1, m), !.failed = @ + 1]
                        /\ m <= Len(d)
  <2>1. PICK m \in 0..Len(d) - 1 : f = [b EXCEPT !.file = @ \o SubSeq(d, 1, m), !.failed = @ + 1]
    BY DEF BlockNotWritten, d
  <2>2. Len(d) \in Nat
    BY <1>3, Shape
  <2>3. m \in Nat /\ m <= Len(d)
    BY <2>2
  <2> QED BY <2>1, <2>3
<1> DEFINE x == SubSeq(d, 1, m)
<1>5. /\ f.file = b.file \o x /\ f.size = b.size /\ f.block = b.block
      /\ f.infos = b.infos /\ f.failed = b.failed + 1 /\ IsBuilder(f)
  BY <1>1, <1>4 DEF IsBuilder
<1>6. m \in Nat /\ m <= Len(d)
  BY <1>4
<1>7. IsSeq(x) /\ Len(x) = m /\ \A j \in 1..m : x[j] = d[j]
  BY <1>3, <1>6, Beginning
<1>8. \A j \in 1..m : x[j][1] # "crc"
  <2>1. ASSUME NEW j \in 1..m PROVE d[j][1] # "crc"
    <3>1. j \in 1..2 * Len(b.block)
      BY <1>2, <1>3, <1>6
    <3> QED BY <1>3, <3>1
  <2> QED BY <1>7, <2>1
<1> HIDE DEF x, n
<1>9. /\ IsSeq(b.file) /\ Len(b.file) \in Nat /\ b.failed \in Nat /\ gained \in Nat /\ lost \in Nat
      /\ Len(b.file) + lost = b.size + gained
      /\ lost <= b.failed /\ (gained > 0 => lost + 1 <= b.failed)
  BY <1>1, CellFacts
<1>10. /\ IsSeq(f.file) /\ Len(f.file) = Len(b.file) + m
       /\ \A i \in 1..Len(b.file) : f.file[i] = b.file[i]
       /\ \A i \in 1..Len(b.file) + m : i > Len(b.file) =>
            f.file[i] = x[i - Len(b.file)] /\ i - Len(b.file) \in 1..m
  <2>1. /\ IsSeq(b.file \o x) /\ Len(b.file \o x) = Len(b.file) + Len(x)
        /\ \A i \in 1..Len(b.file) : (b.file \o x)[i] = b.file[i]
        /\ \A i \in 1..Len(b.file) + Len(x) : i > Len(b.file) =>
             (b.file \o x)[i] = x[i - Len(b.file)] /\ i - Len(b.file) \in 1..Len(x)
    BY <1>7, <1>9, Joined
  <2> QED BY <1>5, <1>7, <2>1
<1>11. CutsOK(f, a, c, e)
  BY <1>1, <1>5 DEF CutsOK
<1>12. CellsOK(f, a, c, e, gained + m, lost)
  <2>1. ASSUME NEW p \in 1..Len(f.file), f.file[p][1] = "crc"
        PROVE  \E i \in 1..n : CrcOf(f, a, c, e, gained + m, lost, p, i)
    <3>0. Len(b.file) \in Nat /\ Len(f.file) = Len(b.file) + m
      BY <1>9, <1>10
    <3>1. p \in 1..Len(b.file)
      <4>1. CASE p > Len(b.file)
        <5>1. p \in 1..Len(b.file) + m
          BY <3>0
        <5>2. f.file[p] = x[p - Len(b.file)] /\ p - Len(b.file) \in 1..m
          BY <1>10, <4>1, <5>1
        <5> QED BY <1>8, <2>1, <5>2
      <4> QED BY <1>6, <3>0, <4>1
    <3>2. PICK i \in 1..n : CrcOf(b, a, c, e, gained, lost, p, i)
      BY <1>1, <1>10, <2>1, <3>1 DEF CellsOK, n
    <3>3. e[i] \in Nat /\ p \in Nat
      BY <1>2, <3>1
    <3>4. CrcOf(f, a, c, e, gained + m, lost, p, i)
      <4>1. e[i] <= p + lost /\ p <= e[i] + gained
        BY <3>2 DEF CrcOf
      <4>2. gained \in Nat
        BY <1>9
      <4>3. p <= e[i] + (gained + m)
        BY <1>6, <3>3, <4>1, <4>2
      <4>4. f.file[p] = b.file[p]
        BY <1>10, <3>1
      <4> QED BY <3>2, <4>1, <4>3, <4>4 DEF CrcOf
    <3> QED BY <3>4
  <2>2. ASSUME gained + m = 0, lost = 0, NEW i \in 1..n
        PROVE  ReadAt(f.file, e[i - 1], e[i] - e[i - 1]) = Block(Piece(a, c, i))
    <3>1. gained = 0
      BY <1>6, <1>9, <2>2
    <3>2. ReadAt(b.file, e[i - 1], e[i] - e[i - 1]) = Block(Piece(a, c, i))
      BY <1>1, <2>2, <3>1 DEF CellsOK, n
    <3>3. i - 1 \in 0..n /\ i \in 0..n /\ e[i - 1] < e[i]
      BY <1>2
    <3>4. /\ e[i - 1] \in 0..b.size /\ e[i] \in 0..b.size
      BY <1>2, <3>3
    <3>5. b.size = Len(b.file)
      BY <1>2, <1>9, <2>2, <3>1
    <3>6. /\ e[i - 1] \in Nat /\ e[i] - e[i - 1] \in Nat
          /\ e[i - 1] + (e[i] - e[i - 1]) <= Len(b.file)
      BY <1>2, <3>3, <3>4, <3>5
    <3> QED BY <1>5, <1>7, <1>9, <3>2, <3>6, SameWindow
  <2>3. /\ Len(f.file) + lost = f.size + (gained + m)
        /\ lost <= f.failed /\ (gained + m > 0 => lost + 1 <= f.failed)
        /\ f.failed \in Nat /\ gained + m \in Nat
    <3>1. /\ Len(b.file) \in Nat /\ b.size \in Nat /\ gained \in Nat /\ lost \in Nat
          /\ Len(b.file) + lost = b.size + gained /\ Len(f.file) = Len(b.file) + m
          /\ f.size = b.size
      BY <1>2, <1>5, <1>9, <1>10
    <3>2. Len(f.file) + lost = f.size + (gained + m) /\ gained + m \in Nat
      <4> DEFINE P == Len(b.file)
                 S == b.size
      <4>1. P \in Nat /\ S \in Nat /\ P + lost = S + gained /\ Len(f.file) = P + m /\ f.size = S
        BY <3>1
      <4> HIDE DEF P, S
      <4>2. (P + m) + lost = S + (gained + m) /\ gained + m \in Nat
        BY <1>6, <3>1, <4>1
      <4> QED BY <4>1, <4>2
    <3>3. lost \in Nat /\ b.failed \in Nat /\ lost <= b.failed /\ f.failed = b.failed + 1
      BY <1>5, <1>9
    <3>4. lost <= f.failed /\ lost + 1 <= f.failed /\ f.failed \in Nat
      BY <3>3
    <3> QED BY <3>2, <3>4
  <2>4. Len(f.infos) = n
    BY <1>5 DEF n
  <2> QED BY <1>9, <1>10, <2>1, <2>2, <2>3, <2>4 DEF CellsOK
<1> QED BY <1>1, <1>5, <1>11, <1>12 DEF BuilderOK

LEMMA PieceAt ==
  ASSUME NEW a, NEW c, NEW i, NEW from, NEW n, c[i - 1] = from, c[i] - c[i - 1] = n
  PROVE  Piece(a, c, i) = [j \in 1..n |-> a[from + j]]
BY DEF Piece

\* The cuts with one more.
With(f, n, x) == [i \in 0..n + 1 |-> IF i <= n THEN f[i] ELSE x]

\* The records of a block are written, and what remains of its end.
LEMMA WrittenKeeps ==
  ASSUME NEW b, NEW a, NEW c, NEW e, NEW gained, NEW lost, BuilderOK(b, a, c, e, gained, lost),
         b.block # <<>>, NEW f \in BlockWritten(b)
  PROVE  /\ \E c2, e2, less : BuilderOK(f, a, c2, e2, gained, less)
         /\ f.block = <<>>
<1> DEFINE n == Len(b.infos)
           ks == b.block
           d == Data(ks)
           m == Restarts(ks)
           l == 2 * Len(ks)
           size == BlockSize(ks)
           c2 == With(c, n, Len(a))
           e2 == With(e, n, b.size + size)
<1>1. IsBuilder(b) /\ KeysOK(a) /\ CutsOK(b, a, c, e) /\ CellsOK(b, a, c, e, gained, lost)
  BY DEF BuilderOK
<1>2. /\ Len(ks) \in Nat /\ n \in Nat /\ b.size \in Nat /\ Len(a) \in Nat
      /\ \A i \in 0..n : e[i] \in 0..b.size /\ c[i] \in 0..Len(a)
      /\ \A i \in 1..n : i - 1 \in 0..n /\ i \in 0..n /\ e[i - 1] < e[i] /\ c[i - 1] < c[i]
  BY <1>1, CutFacts
<1>3. Len(ks) > 0 /\ IsSeq(ks)
  <2>1. IsSeq(ks)
    BY <1>1 DEF CutsOK
  <2>2. Len(ks) = 0 => ks = <<>>
    BY <2>1, EmptyCells, SameSeq
  <2> QED BY <1>2, <2>1, <2>2
<1>4. Len(ks) \in Nat \ {0}
  BY <1>2, <1>3
<1>5. /\ IsSeq(d) /\ Len(d) = l
      /\ \A i \in 1..l : d[i][1] # "crc"
  <2>1. /\ IsSeq(d) /\ Len(d) = l
        /\ \A i \in 1..l : d[i][1] = IF i % 2 = 1 THEN "key" ELSE "value"
    BY <1>2, DataShape
  <2> HIDE DEF d, l
  <2> QED BY <2>1
<1>6. /\ size = l + m + 2 /\ size \in Nat /\ size >= 5 /\ m \in Nat \ {0} /\ l \in Nat
      /\ Len(Trailer(ks)) = m + 2
  <2>1. /\ BlockSize(ks) = 2 * Len(ks) + Restarts(ks) + 2
        /\ BlockSize(ks) \in Nat /\ BlockSize(ks) >= SmallestBlock
    BY <1>4, BlockShape
  <2>2. Len(Trailer(ks)) = Restarts(ks) + 2 /\ Restarts(ks) \in Nat \ {0}
    BY <1>4, TrailerShape
  <2>3. 2 * Len(ks) \in Nat
    BY <1>4
  <2> QED BY <2>1, <2>2, <2>3 DEF SmallestBlock
<1>7. PICK t \in Remains(Trailer(ks)) :
        f = [file |-> b.file \o d \o t, size |-> b.size + size, block |-> <<>>,
             infos |-> Append(b.infos, IndexEntry(Last(ks), b.size, size)),
             failed |-> b.failed + Len(Trailer(ks)) - Len(t)]
  BY DEF BlockWritten
<1>8. /\ IsSeq(t) /\ Len(t) \in 0..m + 2
      /\ Len(t) = m + 2 => t = Trailer(ks)
      /\ \A i \in 1..Len(t) : t[i][1] = "crc" => i = Len(t) /\ t[i] = Checksum(Front(Block(ks)))
  BY <1>4, RemainsShape
<1> DEFINE less == lost + (m + 2 - Len(t))
           entry == IndexEntry(Last(ks), b.size, size)
<1>9. /\ f.file = (b.file \o d) \o t /\ f.size = b.size + size /\ f.block = <<>>
      /\ f.infos = Append(b.infos, entry)
      /\ f.failed = b.failed + (m + 2) - Len(t) /\ IsBuilder(f)
  BY <1>6, <1>7 DEF IsBuilder
<1>10. /\ IsSeq(b.file) /\ Len(b.file) \in Nat /\ b.failed \in Nat /\ gained \in Nat /\ lost \in Nat
       /\ Len(b.file) + lost = b.size + gained
       /\ lost <= b.failed /\ (gained > 0 => lost + 1 <= b.failed)
  BY <1>1, CellFacts
<1>11. /\ IsSeq(f.infos) /\ Len(f.infos) = n + 1
       /\ \A i \in 1..n : f.infos[i] = b.infos[i]
       /\ f.infos[n + 1] = entry
  BY <1>1, <1>9, Appended DEF CutsOK
<1>12. /\ c2 \in [0..n + 1 -> Nat] /\ e2 \in [0..n + 1 -> Nat]
       /\ \A i \in 0..n : c2[i] = c[i] /\ e2[i] = e[i]
       /\ c2[n + 1] = Len(a) /\ e2[n + 1] = b.size + size
  <2>1. \A i \in 0..n + 1 : i <= n => i \in 0..n
    BY <1>2
  <2>2. b.size + size \in Nat /\ \A i \in 0..n : e[i] \in Nat /\ c[i] \in Nat
    BY <1>2, <1>6
  <2>3. /\ \A i \in 0..n : i \in 0..n + 1 /\ i <= n
        /\ n + 1 \in 0..n + 1 /\ ~(n + 1 <= n)
    BY <1>2
  <2> HIDE DEF n, size
  <2> QED BY <1>2, <2>1, <2>2, <2>3 DEF With
<1>13. /\ c[0] = 0 /\ e[0] = 0 /\ b.size = e[n] /\ c[n] + Len(ks) = Len(a)
       /\ \A i, j \in 0..n : i < j => c[i] < c[j] /\ e[i] + SmallestBlock <= e[j]
       /\ \A i \in 1..n : /\ b.infos[i] = IndexEntry(a[c[i]], e[i - 1], e[i] - e[i - 1])
                          /\ e[i] - e[i - 1] = BlockSize(Piece(a, c, i))
       /\ \A j \in 1..Len(ks) : ks[j] = a[c[n] + j]
  BY <1>1 DEF CutsOK
<1> HIDE DEF n, d, m, l, size, c2, e2, entry
<1>14. ASSUME NEW i \in 1..n PROVE Piece(a, c2, i) = Piece(a, c, i)
  <2>1. i - 1 \in 0..n /\ i \in 0..n
    BY <1>2
  <2>0. /\ \A j \in 0..n : c2[j] = c[j]
        /\ \A j \in 0..n : c[j] \in 0..Len(a)
    BY <1>2, <1>12
  <2>2. c2[i - 1] = c[i - 1] /\ c2[i] = c[i] /\ c[i - 1] \in Nat /\ c[i] \in Nat
    BY <2>0, <2>1
  <2> QED BY <2>2, SamePiece
<1>15. Piece(a, c2, n + 1) = ks
  <2>1. PICK q \in Nat : q = n + 1
    BY <1>2
  <2>2. q - 1 = n /\ n \in 0..n
    BY <1>2, <2>1
  <2>3. c2[n] = c[n] /\ c2[q] = Len(a)
    BY <1>12, <2>1, <2>2
  <2>4. Len(a) - c[n] = Len(ks)
    BY <1>2, <1>13, <2>2
  <2>5. c2[q - 1] = c[n] /\ c2[q] - c2[q - 1] = Len(ks)
    BY <2>2, <2>3, <2>4
  <2>6. Piece(a, c2, q) = [j \in 1..Len(ks) |-> a[c[n] + j]]
    BY <2>5, PieceAt
  <2>7. ks = [j \in 1..Len(ks) |-> ks[j]]
    BY <1>3, Shape
  <2> QED BY <1>13, <2>1, <2>6, <2>7
<1>16. CutsOK(f, a, c2, e2)
  <2>1. ASSUME NEW i \in 0..n + 1, NEW j \in 0..n + 1, i < j
        PROVE  c2[i] < c2[j] /\ e2[i] + SmallestBlock <= e2[j]
    <3>1. i \in 0..n
      BY <1>2, <2>1
    <3>2. CASE j \in 0..n
      BY <1>12, <1>13, <2>1, <3>1, <3>2
    <3>3. CASE j = n + 1
      <4>1. c[n] < Len(a) /\ c[n] \in Nat /\ c[i] \in Nat /\ e[i] \in Nat /\ e[i] <= b.size
        BY <1>2, <1>3, <1>13, <3>1
      <4>2. i = n \/ c[i] < c[n]
        BY <1>2, <1>13, <3>1
      <4>3. c[i] < Len(a)
        BY <1>2, <4>1, <4>2
      <4>4. e[i] + 5 <= b.size + size
        <5>1. e[i] \in Nat /\ b.size \in Nat /\ e[i] <= b.size
          BY <1>2, <4>1
        <5>2. size \in Nat /\ size >= 5
          BY <1>6
        <5> QED BY <5>1, <5>2
      <4> QED BY <1>12, <3>1, <3>3, <4>3, <4>4 DEF SmallestBlock
    <3> QED BY <1>2, <2>1, <3>2, <3>3
  <2>2. ASSUME NEW i \in 1..n + 1
        PROVE  /\ f.infos[i] = IndexEntry(a[c2[i]], e2[i - 1], e2[i] - e2[i - 1])
               /\ e2[i] - e2[i - 1] = BlockSize(Piece(a, c2, i))
    <3>1. CASE i \in 1..n
      <4>1. i - 1 \in 0..n /\ i \in 0..n
        BY <1>2, <3>1
      <4> QED BY <1>11, <1>12, <1>13, <1>14, <3>1, <4>1
    <3>2. CASE i = n + 1
      <4>1. i - 1 = n /\ n \in 0..n
        BY <1>2, <3>2
      <4>2. e2[i - 1] = b.size /\ e2[i] = b.size + size /\ e2[i] - e2[i - 1] = size
        BY <1>2, <1>6, <1>12, <1>13, <3>2, <4>1
      <4>3. Last(ks) = a[c2[i]]
        <5>1. Len(ks) \in 1..Len(ks)
          BY <1>2, <1>3
        <5> QED BY <1>12, <1>13, <3>2, <5>1 DEF Last
      <4> QED BY <1>11, <1>15, <3>2, <4>2, <4>3 DEF entry, size
    <3> QED BY <1>2, <3>1, <3>2
  <2>3. c2[0] = 0 /\ e2[0] = 0
    BY <1>2, <1>12, <1>13
  <2>4. IsSeq(f.block) /\ Len(f.block) = 0 /\ c2[n + 1] + 0 = Len(a) /\ f.size = e2[n + 1]
    BY <1>2, <1>9, <1>12, EmptyCells
  <2>5. c2[n + 1] + Len(f.block) = Len(a) /\ \A j \in 1..Len(f.block) : f.block[j] = a[c2[n + 1] + j]
    BY <2>4
  <2> QED BY <1>11, <1>12, <2>1, <2>2, <2>3, <2>4, <2>5 DEF CutsOK
<1>17. /\ IsSeq(b.file \o d) /\ Len(b.file \o d) = Len(b.file) + l
       /\ \A i \in 1..Len(b.file) : (b.file \o d)[i] = b.file[i]
       /\ \A i \in 1..l : (b.file \o d)[Len(b.file) + i] = d[i]
       /\ \A i \in 1..Len(b.file) + l : i > Len(b.file) =>
            (b.file \o d)[i] = d[i - Len(b.file)] /\ i - Len(b.file) \in 1..l
  BY <1>5, <1>10, Joined
<1> DEFINE z == b.file \o d
           P == Len(b.file)
           T == Len(t)
           S == b.size
           Z == Len(z)
           F == Len(f.file)
<1>p. /\ P \in Nat /\ S \in Nat /\ T \in Nat /\ T <= m + 2 /\ gained \in Nat /\ lost \in Nat
      /\ P + lost = S + gained
  BY <1>2, <1>6, <1>8, <1>10
<1> HIDE DEF z
<1>18. /\ IsSeq(f.file) /\ Len(f.file) = Len(z) + Len(t)
       /\ \A i \in 1..Len(z) : f.file[i] = z[i]
       /\ \A i \in 1..Len(t) : f.file[Len(z) + i] = t[i]
       /\ \A i \in 1..Len(z) + Len(t) : i > Len(z) =>
            f.file[i] = t[i - Len(z)] /\ i - Len(z) \in 1..Len(t)
  <2>1. IsSeq(z) /\ IsSeq(t) /\ f.file = z \o t
    BY <1>8, <1>9, <1>17 DEF z
  <2> QED BY <2>1, Joined
<1>19. Z = P + l /\ F = Z + T
  BY <1>17, <1>18 DEF z
<1> HIDE DEF P, T, S, Z, F
<1>n. Z \in Nat /\ F \in Nat
  BY <1>6, <1>19, <1>p
<1>20. less \in Nat /\ lost <= less /\ less = lost + (m + 2 - T)
  <2>1. less = lost + (m + 2 - T)
    BY DEF T
  <2> HIDE DEF less
  <2> QED BY <1>6, <1>p, <2>1
<1> HIDE DEF less
<1>21. ASSUME NEW p \in 1..Len(f.file), f.file[p][1] = "crc"
       PROVE  \E i \in 1..n + 1 : CrcOf(f, a, c2, e2, gained, less, p, i)
  <2>1. CASE p \in 1..Len(b.file)
    <3>1. f.file[p] = b.file[p]
      <4>1. p \in 1..Len(z)
        <5>1. p \in 1..P
          BY <2>1 DEF P
        <5>2. p \in 1..Z
          BY <1>6, <1>19, <1>p, <5>1
        <5> QED BY <5>2 DEF Z
      <4> QED BY <1>17, <1>18, <2>1, <4>1 DEF z
    <3>2. PICK i \in 1..n : CrcOf(b, a, c, e, gained, lost, p, i)
      BY <1>1, <1>21, <2>1, <3>1 DEF CellsOK, n
    <3>3. i \in 0..n /\ e[i] \in Nat /\ p \in Nat /\ i \in 1..n + 1
      BY <1>2, <2>1
    <3>4. e2[i] = e[i]
      BY <1>12, <3>3
    <3>5. e[i] <= p + less
      <4>1. e[i] <= p + lost
        BY <3>2 DEF CrcOf
      <4> QED BY <1>20, <1>p, <3>3, <4>1
    <3>6. CrcOf(f, a, c2, e2, gained, less, p, i)
      BY <1>14, <3>1, <3>2, <3>4, <3>5 DEF CrcOf
    <3> QED BY <3>3, <3>6
  <2>2. CASE p > Len(b.file) /\ p <= Len(z)
    <3>1. p \in 1..Len(b.file) + l /\ p \in 1..Len(z)
      <4>1. p > P /\ p <= Z /\ p \in 1..F
        BY <2>2 DEF P, Z, F
      <4>2. p \in 1..P + l /\ p \in 1..Z
        BY <1>6, <1>19, <1>n, <1>p, <4>1
      <4> QED BY <4>2 DEF P, Z
    <3>2. f.file[p] = d[p - Len(b.file)] /\ p - Len(b.file) \in 1..l
      BY <1>17, <1>18, <2>2, <3>1 DEF z
    <3> QED BY <1>5, <1>21, <3>2
  <2>3. CASE p > Len(z)
    <3>1. p \in 1..Len(z) + Len(t)
      BY <1>18
    <3>2. f.file[p] = t[p - Len(z)] /\ p - Len(z) \in 1..Len(t)
      BY <1>18, <2>3, <3>1
    <3>3. p - Len(z) = Len(t) /\ f.file[p] = Checksum(Front(Block(ks)))
      BY <1>8, <1>21, <3>2
    <3>4. p + less = S + size + gained
      <4>1. p - Z = T /\ p \in 1..F
        BY <3>3 DEF Z, T, F
      <4>2. p = Z + T
        BY <1>n, <1>p, <4>1
      <4>3. p + less = (P + l + T) + (lost + (m + 2 - T))
        BY <1>19, <1>20, <4>2
      <4>4. P + lost = S + gained /\ size = l + m + 2 /\ l \in Nat /\ m \in Nat
        BY <1>6, <1>p
      <4>5. P \in Nat /\ T \in Nat /\ S \in Nat /\ lost \in Nat /\ gained \in Nat
        BY <1>p
      <4>6. p + less = (P + lost) + size
        BY <4>3, <4>4, <4>5
      <4> QED BY <4>4, <4>5, <4>6
    <3>5. e2[n + 1] = S + size /\ n + 1 \in 1..n + 1
      BY <1>2, <1>12 DEF S
    <3>6. e2[n + 1] <= p + less /\ p <= e2[n + 1] + gained
      <4>1. p \in 1..F
        BY DEF F
      <4> QED BY <1>6, <1>20, <1>n, <1>p, <3>4, <3>5, <4>1
    <3>7. CrcOf(f, a, c2, e2, gained, less, p, n + 1)
      BY <1>15, <3>3, <3>6 DEF CrcOf
    <3> QED BY <3>5, <3>7
  <2> QED
    <3>1. p \in 1..F
      BY DEF F
    <3>2. p \in 1..P \/ (p > P /\ p <= Z) \/ p > Z
      BY <1>6, <1>19, <1>n, <1>p, <3>1
    <3> QED BY <2>1, <2>2, <2>3, <3>2 DEF P, Z
<1>22. ASSUME gained = 0, less = 0, NEW i \in 1..n + 1
       PROVE  ReadAt(f.file, e2[i - 1], e2[i] - e2[i - 1]) = Block(Piece(a, c2, i))
  <2>1. lost = 0 /\ T = m + 2
    BY <1>6, <1>20, <1>22, <1>p
  <2>2. S = P
    BY <1>22, <1>p, <2>1
  <2>3. CASE i \in 1..n
    <3>1. i - 1 \in 0..n /\ i \in 0..n /\ e[i - 1] < e[i]
      BY <1>2, <2>3
    <3>2. e2[i - 1] = e[i - 1] /\ e2[i] = e[i] /\ e[i - 1] \in 0..b.size /\ e[i] \in 0..b.size
      BY <1>2, <1>12, <3>1
    <3>3. /\ e[i - 1] \in Nat /\ e[i] - e[i - 1] \in Nat
          /\ e[i - 1] + (e[i] - e[i - 1]) <= Len(b.file)
          /\ e[i - 1] + (e[i] - e[i - 1]) <= Len(z)
      <4>1. e[i - 1] \in 0..P /\ e[i] \in 0..P /\ e[i - 1] < e[i]
        BY <2>2, <3>1, <3>2 DEF S
      <4>2. /\ e[i - 1] \in Nat /\ e[i] - e[i - 1] \in Nat
            /\ e[i - 1] + (e[i] - e[i - 1]) <= P
            /\ e[i - 1] + (e[i] - e[i - 1]) <= Z
        BY <1>6, <1>19, <1>p, <4>1
      <4> QED BY <4>2 DEF P, Z
    <3>4. ReadAt(b.file, e[i - 1], e[i] - e[i - 1]) = Block(Piece(a, c, i))
      BY <1>1, <1>22, <2>1, <2>3 DEF CellsOK, n
    <3>5. ReadAt(z, e[i - 1], e[i] - e[i - 1]) = ReadAt(b.file, e[i - 1], e[i] - e[i - 1])
      BY <1>5, <1>10, <3>3, SameWindow DEF z
    <3>6. ReadAt(f.file, e[i - 1], e[i] - e[i - 1]) = ReadAt(z, e[i - 1], e[i] - e[i - 1])
      <4>1. IsSeq(z) /\ IsSeq(t) /\ f.file = z \o t
        BY <1>8, <1>9, <1>17 DEF z
      <4> QED BY <3>3, <4>1, SameWindow
    <3> QED BY <1>14, <2>3, <3>2, <3>4, <3>5, <3>6
  <2>4. CASE i = n + 1
    <3>1. i - 1 = n /\ n \in 0..n
      BY <1>2, <2>4
    <3>2. e2[i - 1] = Len(b.file) /\ e2[i] - e2[i - 1] = size
      <4>1. e2[i - 1] = S /\ e2[i] = S + size
        BY <1>12, <1>13, <2>4, <3>1 DEF S
      <4>2. e2[i] - e2[i - 1] = size
        BY <1>6, <1>p, <4>1
      <4> QED BY <2>2, <4>1, <4>2 DEF P
    <3>3. t = Trailer(ks)
      BY <1>8, <2>1 DEF T
    <3>4. Len(b.file) + size <= Len(f.file) /\ Len(b.file) \in Nat
      <4>1. P + size <= F
        BY <1>6, <1>19, <1>p, <2>1
      <4> QED BY <1>p, <4>1 DEF P, F
    <3> DEFINE w == ReadAt(f.file, Len(b.file), size)
               k == Block(ks)
    <3>5. IsSeq(w) /\ Len(w) = size /\ \A j \in 1..size : w[j] = f.file[Len(b.file) + j]
      <4>1. IsSeq(f.file) /\ size \in Nat
        BY <1>6, <1>18
      <4> QED BY <3>4, <4>1, Window
    <3>6. /\ IsSeq(k) /\ Len(k) = size
          /\ \A j \in 1..l : k[j] = d[j]
          /\ \A j \in 1..m + 2 : k[l + j] = Trailer(ks)[j]
      BY <1>4, BlockShape DEF l, m, d, size
    <3> HIDE DEF w, k
    <3>7. ASSUME NEW j \in 1..size PROVE w[j] = k[j]
      <4>1. CASE j \in 1..l
        <5>1. Len(b.file) + j \in 1..Len(z)
          <6>1. P + j \in 1..Z
            BY <1>6, <1>19, <1>p, <4>1
          <6> QED BY <6>1 DEF P, Z
        <5>2. f.file[Len(b.file) + j] = d[j]
          BY <1>17, <1>18, <4>1, <5>1 DEF z
        <5> QED BY <3>5, <3>6, <4>1, <5>2
      <4>2. CASE j > l
        <5>1. PICK q \in 1..m + 2 : j = l + q
          <6>1. j - l \in 1..m + 2 /\ j = l + (j - l)
            BY <1>6, <4>2
          <6> QED BY <6>1
        <5>2. Len(b.file) + j = Len(z) + q /\ q \in 1..Len(t)
          <6>1. P + j = Z + q /\ q \in 1..T
            BY <1>6, <1>19, <1>p, <2>1, <5>1
          <6> QED BY <6>1 DEF P, Z, T
        <5>3. f.file[Len(b.file) + j] = t[q]
          BY <1>18, <5>2
        <5> QED BY <3>3, <3>5, <3>6, <5>1, <5>3
      <4> QED BY <1>6, <4>1, <4>2
    <3>8. w = k
      BY <3>5, <3>6, <3>7, SameSeq
    <3> QED BY <1>15, <2>4, <3>2, <3>8 DEF w, k
  <2> QED BY <1>2, <2>3, <2>4
<1>23. CellsOK(f, a, c2, e2, gained, less)
  <2>1. Len(f.file) + less = f.size + gained
    <3>1. F + less = (S + size) + gained
      BY <1>6, <1>19, <1>20, <1>p
    <3> QED BY <1>9, <3>1 DEF F, S
  <2>2. less <= f.failed /\ (gained > 0 => less + 1 <= f.failed) /\ f.failed \in Nat
    <3>1. /\ f.failed = b.failed + (m + 2) - T
          /\ b.failed \in Nat /\ lost <= b.failed /\ (gained > 0 => lost + 1 <= b.failed)
      BY <1>9, <1>10 DEF T
    <3> QED BY <1>6, <1>20, <1>p, <3>1
  <2> QED BY <1>10, <1>11, <1>18, <1>20, <1>21, <1>22, <2>1, <2>2 DEF CellsOK
<1>24. BuilderOK(f, a, c2, e2, gained, less)
  BY <1>1, <1>9, <1>16, <1>23 DEF BuilderOK
<1> QED BY <1>9, <1>24

-----------------------------------------------------------------------------
(* Index and filter *)

LEMMA OneCellShape ==
  ASSUME NEW x
  PROVE  IsSeq(<<x>>) /\ Len(<<x>>) = 1 /\ <<x>>[1] = x
<1>1. <<x>> \in Seq({x}) /\ Len(<<x>>) = 1 /\ <<x>>[1] = x
  OBVIOUS
<1> QED BY <1>1, SeqOfAny

LEMMA TwoCellsShape ==
  ASSUME NEW x, NEW y
  PROVE  IsSeq(<<x, y>>) /\ Len(<<x, y>>) = 2 /\ <<x, y>>[1] = x /\ <<x, y>>[2] = y
<1>1. <<x, y>> \in Seq({x, y}) /\ Len(<<x, y>>) = 2 /\ <<x, y>>[1] = x /\ <<x, y>>[2] = y
  OBVIOUS
<1> QED BY <1>1, SeqOfAny

\* What is appended last is what comes after the front.
LEMMA FrontOfAppended ==
  ASSUME NEW s, NEW x, IsSeq(s)
  PROVE  Front(Append(s, x)) = s /\ Last(Append(s, x)) = x
<1> DEFINE t == Append(s, x)
<1>1. /\ IsSeq(t) /\ Len(t) = Len(s) + 1 /\ t[Len(s) + 1] = x
      /\ \A i \in 1..Len(s) : t[i] = s[i]
  BY Appended
<1>2. Len(s) \in Nat
  BY Shape
<1> HIDE DEF t
<1>4. Len(t) > 0 /\ Len(t) - 1 = Len(s)
  BY <1>1, <1>2
<1>3. IsSeq(Front(t)) /\ Len(Front(t)) = Len(t) - 1 /\ \A j \in 1..Len(t) - 1 : Front(t)[j] = t[j]
  BY <1>1, <1>4, WithoutLast
<1>5. Front(t) = s
  BY <1>1, <1>3, <1>4, SameSeq
<1> QED BY <1>1, <1>5 DEF Last, t

\* The index has its infos and one checksum, in its last cell.
LEMMA IndexShape ==
  ASSUME NEW infos, IsSeq(infos), \A i \in 1..Len(infos) : infos[i][1] = "entry"
  PROVE  /\ IsSeq(Index(infos)) /\ CrcMatches(Index(infos)) /\ Entries(Index(infos)) = infos
         /\ Len(Index(infos)) \in Nat /\ Len(Index(infos)) >= 2
         /\ Len(Index(infos)) = 2 => Len(infos) = 0
         /\ \A j \in 1..Len(Index(infos)) - 1 : Index(infos)[j][1] # "crc"
<1> DEFINE n == Len(infos)
           counted == IF infos = <<>> THEN <<<<"count", 0>>>>
                      ELSE infos \o <<<<"restart", 0>>, <<"count", 1>>>>
           x == Checksum(counted)
           index0 == Append(counted, x)
<1>1. Index(infos) = index0
  BY DEF Index
<1>2. n \in Nat /\ (n = 0 <=> infos = <<>>)
  BY Shape, EmptyCells, SameSeq
<1>3. /\ IsSeq(counted) /\ Len(counted) = (IF n = 0 THEN 1 ELSE n + 2)
      /\ \A j \in 1..Len(counted) : counted[j][1] # "crc"
      /\ counted[Len(counted)] = <<"count", IF n = 0 THEN 0 ELSE 1>>
      /\ \A j \in 1..n : counted[j] = infos[j]
  <2>1. CASE n = 0
    <3>1. counted = <<<<"count", 0>>>>
      BY <1>2, <2>1
    <3>2. IsSeq(<<<<"count", 0>>>>) /\ Len(<<<<"count", 0>>>>) = 1 /\ <<<<"count", 0>>>>[1] = <<"count", 0>>
      BY OneCellShape
    <3> HIDE DEF counted
    <3>3. \A j \in 1..1 : j = 1
      OBVIOUS
    <3> QED BY <2>1, <3>1, <3>2, <3>3
  <2>2. CASE n # 0
    <3> DEFINE more == <<<<"restart", 0>>, <<"count", 1>>>>
    <3>1. counted = infos \o more
      BY <1>2, <2>2
    <3>2. IsSeq(more) /\ Len(more) = 2 /\ more[1] = <<"restart", 0>> /\ more[2] = <<"count", 1>>
      BY TwoCellsShape
    <3> HIDE DEF more, counted
    <3>3. /\ IsSeq(infos \o more) /\ Len(infos \o more) = n + Len(more)
          /\ \A i \in 1..n : (infos \o more)[i] = infos[i]
          /\ \A i \in 1..Len(more) : (infos \o more)[n + i] = more[i]
      <4>1. IsSeq(infos) /\ IsSeq(more)
        BY <3>2
      <4> HIDE DEF n
      <4>2. /\ IsSeq(infos \o more) /\ Len(infos \o more) = Len(infos) + Len(more)
            /\ \A i \in 1..Len(infos) : (infos \o more)[i] = infos[i]
            /\ \A i \in 1..Len(more) : (infos \o more)[Len(infos) + i] = more[i]
        BY <4>1, Joined
      <4> QED BY <4>2 DEF n
    <3>4. /\ Len(counted) = n + 2 /\ counted[n + 1] = <<"restart", 0>>
          /\ counted[n + 2] = <<"count", 1>> /\ \A i \in 1..n : counted[i] = infos[i]
      BY <3>1, <3>2, <3>3
    <3> HIDE DEF n
    <3>5. ASSUME NEW j \in 1..n + 2 PROVE counted[j][1] # "crc"
      <4>1. j \in 1..n \/ j = n + 1 \/ j = n + 2
        BY <1>2
      <4>2. j \in 1..n => infos[j][1] = "entry"
        BY DEF n
      <4> QED BY <3>4, <4>1, <4>2
    <3> QED BY <2>2, <3>1, <3>3, <3>4, <3>5
  <2> QED BY <2>1, <2>2
<1> HIDE DEF counted, x
<1>4. /\ IsSeq(index0) /\ Len(index0) = Len(counted) + 1
      /\ \A i \in 1..Len(counted) : index0[i] = counted[i]
      /\ index0[Len(counted) + 1] = x
      /\ Front(index0) = counted /\ Last(index0) = x
  BY <1>3, Appended, FrontOfAppended
<1>5. CrcMatches(index0)
  BY <1>4 DEF CrcMatches, x
<1>6. Len(counted) \in Nat /\ Len(counted) >= 1 /\ Len(index0) - 1 = Len(counted)
  BY <1>2, <1>3, <1>4
<1>7. \A j \in 1..Len(index0) - 1 : index0[j][1] # "crc"
  BY <1>3, <1>4, <1>6
<1>8. Len(index0) \in Nat /\ Len(index0) >= 2 /\ (Len(index0) = 2 => n = 0)
  BY <1>2, <1>3, <1>6
<1>9. index0[Len(index0) - 1] = <<"count", IF n = 0 THEN 0 ELSE 1>>
  <2>1. Len(counted) \in 1..Len(counted)
    BY <1>6
  <2> QED BY <1>3, <1>4, <1>6, <2>1
<1> HIDE DEF index0
<1>10. Len(index0) - 2 - index0[Len(index0) - 1][2] = n
  <2>1. index0[Len(index0) - 1][2] = IF n = 0 THEN 0 ELSE 1
    BY <1>9
  <2>2. Len(index0) = IF n = 0 THEN 2 ELSE n + 3
    BY <1>2, <1>3, <1>4
  <2> HIDE DEF n
  <2> QED BY <1>2, <2>1, <2>2
<1>11. n <= Len(index0) /\ n <= Len(counted)
  BY <1>2, <1>3, <1>4
<1>12. /\ IsSeq(SubSeq(index0, 1, n)) /\ Len(SubSeq(index0, 1, n)) = n
       /\ \A j \in 1..n : SubSeq(index0, 1, n)[j] = index0[j]
  BY <1>2, <1>4, <1>11, Beginning
<1>13. \A j \in 1..n : index0[j] = infos[j]
  BY <1>2, <1>3, <1>4, <1>6, <1>11
<1>14. SubSeq(index0, 1, n) = infos
  BY <1>12, <1>13, SameSeq
<1>15. Entries(index0) = infos
  BY <1>10, <1>14 DEF Entries
<1> QED BY <1>1, <1>4, <1>5, <1>7, <1>8, <1>15

LEMMA FilterShape ==
  ASSUME NEW a
  PROVE  /\ IsSeq(Filter(a)) /\ Len(Filter(a)) = 2 /\ CrcMatches(Filter(a))
         /\ Filter(a)[1] = <<"filter", ToSet(a)>>
         /\ Filter(a)[2] = Checksum(<<<<"filter", ToSet(a)>>>>)
<1> DEFINE x == <<"filter", ToSet(a)>>
           bits == <<x>>
<1>1. IsSeq(bits) /\ Len(bits) = 1 /\ bits[1] = x
  BY OneCellShape
<1>2. Filter(a) = Append(bits, Checksum(bits))
  BY DEF Filter
<1> HIDE DEF x
<1> DEFINE y == Checksum(bits)
<1> HIDE DEF bits, y
<1>3. /\ IsSeq(Append(bits, y)) /\ Len(Append(bits, y)) = Len(bits) + 1
      /\ \A i \in 1..Len(bits) : Append(bits, y)[i] = bits[i]
      /\ Append(bits, y)[Len(bits) + 1] = y
      /\ Front(Append(bits, y)) = bits /\ Last(Append(bits, y)) = y
  BY <1>1, Appended, FrontOfAppended
<1>4. Filter(a) = Append(bits, y)
  BY <1>2 DEF y
<1>5. CrcMatches(Filter(a))
  BY <1>3, <1>4 DEF CrcMatches, y
<1>6. Len(Filter(a)) = 2 /\ Filter(a)[1] = x /\ Filter(a)[2] = y /\ IsSeq(Filter(a))
  <2>1. 1 \in 1..Len(bits)
    BY <1>1
  <2> QED BY <1>1, <1>3, <1>4, <2>1
<1> QED BY <1>5, <1>6 DEF x, y, bits

-----------------------------------------------------------------------------
(* Building *)

\* What Finish makes of a builder b, to which the keys a were added.
Finished(b, a) ==
  /\ builder = [b EXCEPT !.file = @ \o Index(b.infos) \o Filter(a)
                      \o <<Footer(b.size, Len(Index(b.infos)), Len(Filter(a)))>>]
  /\ b.failed = 0 => b.block = <<>>

\* What a state of the builder comes from.
FileInv ==
  /\ KeysOK(added) /\ \A i \in 1..Len(added) : added[i] \in Keys
  /\ status = "building" => \E c, e, gained, lost : BuilderOK(builder, added, c, e, gained, lost)
  /\ status = "finished" =>
       \E b, c, e, gained, lost : BuilderOK(b, added, c, e, gained, lost) /\ Finished(b, added)

\* FlushBlock, whether it wrote the block or not.
LEMMA FlushKeeps ==
  ASSUME NEW b, NEW a, NEW c, NEW e, NEW gained, NEW lost, BuilderOK(b, a, c, e, gained, lost),
         b.block # <<>>, NEW f \in FlushBlock(b)
  PROVE  /\ \E c2, e2, more, less : BuilderOK(f, a, c2, e2, more, less)
         /\ f.failed = 0 => f.block = <<>>
<1>1. CASE f \in BlockNotWritten(b)
  <2>1. /\ \E more : BuilderOK(f, a, c, e, more, lost)
        /\ f.failed = b.failed + 1
    BY <1>1, NotWrittenKeeps
  <2>2. b.failed \in Nat
    BY DEF BuilderOK, CellsOK
  <2>3. f.failed # 0
    BY <2>1, <2>2
  <2> QED BY <2>1, <2>3
<1>2. CASE f \in BlockWritten(b)
  BY <1>2, WrittenKeeps
<1> QED BY <1>1, <1>2 DEF FlushBlock

\* Add, Finish, and all that the builder does keep FileInv.
LEMMA AddInv ==
  ASSUME FileInv, NEW k \in Keys, Add(k)
  PROVE  FileInv'
<1>1. /\ status = "building" /\ status' = status /\ added' = Append(added, k)
      /\ \A i \in DOMAIN added : added[i] < k
  BY DEF Add
<1>2. PICK c, e, gained, lost : BuilderOK(builder, added, c, e, gained, lost)
  BY <1>1 DEF FileInv
<1>0. PICK full \in BlockRecords :
        \E b \in IF Len(builder.block) >= full THEN FlushBlock(builder) ELSE {builder} :
          builder' = [b EXCEPT !.block = Append(@, k)]
  BY DEF Add
<1>3. PICK b \in IF Len(builder.block) >= full THEN FlushBlock(builder) ELSE {builder} :
        builder' = [b EXCEPT !.block = Append(@, k)]
  BY <1>0
<1>4. \E c2, e2, more, less : BuilderOK(b, added, c2, e2, more, less)
  <2>1. CASE Len(builder.block) >= full
    <3>1. builder.block # <<>>
      <4>1. full \in Nat \ {0}
        BY FileAssumption
      <4> QED BY <2>1, <4>1, EmptyCells
    <3> QED BY <1>2, <1>3, <2>1, <3>1, FlushKeeps
  <2>2. CASE ~(Len(builder.block) >= full)
    BY <1>2, <1>3, <2>2
  <2> QED BY <2>1, <2>2
<1>5. PICK c2, e2, more, less : BuilderOK(b, added, c2, e2, more, less)
  BY <1>4
<1>6. k \in Nat
  BY FileAssumption
<1>7. BuilderOK(builder', added', c2, e2, more, less)
  BY <1>1, <1>3, <1>5, <1>6, AddKeeps
<1>8. KeysOK(added')
  BY <1>7 DEF BuilderOK
<1>9. \A i \in 1..Len(added') : added'[i] \in Keys
  <2>1. IsSeq(added) /\ \A i \in 1..Len(added) : added[i] \in Keys
    BY DEF FileInv, KeysOK
  <2>2. /\ Len(added') = Len(added) + 1 /\ \A i \in 1..Len(added) : added'[i] = added[i]
        /\ added'[Len(added) + 1] = k
    BY <1>1, <2>1, Appended
  <2>3. Len(added) \in Nat
    BY <2>1, Shape
  <2>4. ASSUME NEW i \in 1..Len(added') PROVE added'[i] \in Keys
    <3>1. i \in 1..Len(added) \/ i = Len(added) + 1
      BY <2>2, <2>3
    <3> QED BY <2>1, <2>2, <3>1
  <2> QED BY <2>4
<1> QED BY <1>1, <1>7, <1>8, <1>9 DEF FileInv

LEMMA FinishInv ==
  ASSUME FileInv, Finish
  PROVE  FileInv'
<1>1. status = "building" /\ status' = "finished" /\ added' = added
  BY DEF Finish
<1>2. PICK c, e, gained, lost : BuilderOK(builder, added, c, e, gained, lost)
  BY <1>1 DEF FileInv
<1>3. PICK b \in LastFlushed :
        builder' = [b EXCEPT !.file = @ \o Index(b.infos) \o Filter(added)
                      \o <<Footer(b.size, Len(Index(b.infos)), Len(Filter(added)))>>]
  BY DEF Finish
<1>4. /\ \E c2, e2, more, less : BuilderOK(b, added, c2, e2, more, less)
      /\ b.failed = 0 => b.block = <<>>
  BY <1>2, <1>3, FlushKeeps DEF LastFlushed
<1>5. Finished(b, added)'
  BY <1>1, <1>3, <1>4 DEF Finished
<1>6. KeysOK(added') /\ \A i \in 1..Len(added') : added'[i] \in Keys
  BY <1>1 DEF FileInv
<1>7. \E c2, e2, more, less : BuilderOK(b, added', c2, e2, more, less)
  BY <1>1, <1>4
<1> QED BY <1>1, <1>5, <1>6, <1>7 DEF FileInv

LEMMA BuildInv ==
  ASSUME FileInv, Build
  PROVE  FileInv'
<1>1. CASE \E k \in Keys : Add(k)
  BY <1>1, AddInv
<1>2. CASE Finish
  BY <1>2, FinishInv
<1>3. CASE FinishFails \/ Abandon
  <2>1. status' \in {"failed", "gone"} /\ added' = added
    BY <1>3 DEF FinishFails, Abandon
  <2> QED BY <2>1 DEF FileInv
<1> QED BY <1>1, <1>2, <1>3 DEF Build

LEMMA FileInit0 == FileInit => FileInv
<1> SUFFICES ASSUME FileInit PROVE FileInv
  OBVIOUS
<1>1. builder = NewBuilder /\ added = <<>> /\ status = "building"
  BY DEF FileInit
<1>2. PICK none : none = [i \in 0..0 |-> 0]
  OBVIOUS
<1>3. BuilderOK(builder, added, none, none, 0, 0)
  BY <1>1, <1>2, NewBuilderOK
<1>4. KeysOK(added)
  BY <1>3 DEF BuilderOK
<1>5. \A i \in 1..Len(added) : added[i] \in Keys
  BY <1>1, EmptyCells
<1> QED BY <1>1, <1>3, <1>4, <1>5 DEF FileInv

-----------------------------------------------------------------------------
(* Opening *)

LEMMA EntryKind ==
  ASSUME NEW x, NEW k, NEW offset, NEW size, x = IndexEntry(k, offset, size)
  PROVE  x[1] = "entry"
BY DEF IndexEntry

LEMMA EntryFields ==
  ASSUME NEW x, NEW k, NEW offset, NEW size, x = IndexEntry(k, offset, size)
  PROVE  x[2].last = k /\ x[2].offset = offset /\ x[2].size = size
BY DEF IndexEntry

LEMMA InfosShape ==
  ASSUME NEW b, NEW a, NEW c, NEW e, NEW gained, NEW lost, BuilderOK(b, a, c, e, gained, lost)
  PROVE  IsSeq(b.infos) /\ \A i \in 1..Len(b.infos) : b.infos[i][1] = "entry"
<1>1. CutsOK(b, a, c, e)
  BY DEF BuilderOK
<1>2. IsSeq(b.infos) /\ \A i \in 1..Len(b.infos) : b.infos[i] = IndexEntry(a[c[i]], e[i - 1], e[i] - e[i - 1])
  BY <1>1 DEF CutsOK
<1>3. ASSUME NEW i \in 1..Len(b.infos) PROVE b.infos[i][1] = "entry"
  <2>1. b.infos[i] = IndexEntry(a[c[i]], e[i - 1], e[i] - e[i - 1])
    BY <1>2
  <2> QED BY <2>1, EntryKind
<1> QED BY <1>2, <1>3

\* Where the parts of a finished file are.
LEMMA FinishedFile ==
  ASSUME NEW b, NEW a, NEW c, NEW e, NEW gained, NEW lost, BuilderOK(b, a, c, e, gained, lost),
         Finished(b, a)
  PROVE  LET f == builder.file
             p == Len(b.file)
             n == Len(Index(b.infos))
         IN  /\ IsSeq(f) /\ Len(f) = p + n + 3 /\ p \in Nat /\ n \in Nat
             /\ \A i \in 1..p : f[i] = b.file[i]
             /\ \A i \in 1..n : f[p + i] = Index(b.infos)[i]
             /\ f[p + n + 1] = Filter(a)[1] /\ f[p + n + 2] = Filter(a)[2]
             /\ Last(f) = Footer(b.size, n, 2) /\ f[p + n + 3] = Last(f)
             /\ builder.failed = b.failed /\ builder.block = b.block
<1> DEFINE x == Index(b.infos)
           y == Filter(a)
           z == Footer(b.size, Len(x), Len(y))
           p == Len(b.file)
           n == Len(x)
           f == builder.file
<1>1. IsBuilder(b) /\ IsSeq(b.file) /\ IsSeq(b.infos)
      /\ \A i \in 1..Len(b.infos) : b.infos[i][1] = "entry"
  <2>1. IsBuilder(b) /\ CutsOK(b, a, c, e) /\ CellsOK(b, a, c, e, gained, lost)
    BY DEF BuilderOK
  <2>2. IsSeq(b.file)
    BY <2>1 DEF CellsOK
  <2>3. IsSeq(b.infos) /\ \A i \in 1..Len(b.infos) : b.infos[i][1] = "entry"
    BY InfosShape
  <2> QED BY <2>1, <2>2, <2>3
<1>2. /\ f = ((b.file \o x) \o y) \o <<z>>
      /\ builder.failed = b.failed /\ builder.block = b.block
  BY <1>1 DEF Finished, IsBuilder
<1>3. IsSeq(x) /\ n \in Nat
  BY <1>1, IndexShape
<1>4. IsSeq(y) /\ Len(y) = 2
  BY FilterShape
<1>5. IsSeq(<<z>>) /\ Len(<<z>>) = 1 /\ <<z>>[1] = z
  BY OneCellShape
<1>6. p \in Nat
  BY <1>1, Shape
<1> DEFINE s == b.file \o x
           t == s \o y
           w == <<z>>
<1> HIDE DEF x, y, z, n, f, w
<1>7. /\ IsSeq(s) /\ Len(s) = p + Len(x)
      /\ \A i \in 1..p : s[i] = b.file[i]
      /\ \A i \in 1..Len(x) : s[p + i] = x[i]
  <2>1. /\ IsSeq(b.file \o x) /\ Len(b.file \o x) = Len(b.file) + Len(x)
        /\ \A i \in 1..Len(b.file) : (b.file \o x)[i] = b.file[i]
        /\ \A i \in 1..Len(x) : (b.file \o x)[Len(b.file) + i] = x[i]
    BY <1>1, <1>3, Joined
  <2> QED BY <2>1
<1> HIDE DEF s, p
<1>8. /\ IsSeq(t) /\ Len(t) = Len(s) + Len(y)
      /\ \A i \in 1..Len(s) : t[i] = s[i]
      /\ \A i \in 1..Len(y) : t[Len(s) + i] = y[i]
  <2>1. IsSeq(s) /\ IsSeq(y)
    BY <1>4, <1>7
  <2> QED BY <2>1, Joined
<1> HIDE DEF t
<1>9. /\ IsSeq(f) /\ Len(f) = Len(t) + Len(w)
      /\ \A i \in 1..Len(t) : f[i] = t[i]
      /\ \A i \in 1..Len(w) : f[Len(t) + i] = w[i]
  <2>1. IsSeq(t) /\ IsSeq(w) /\ f = t \o w
    BY <1>2, <1>5, <1>8 DEF s, t, w
  <2> QED BY <2>1, Joined
<1>10. Len(s) = p + n /\ Len(t) = p + n + 2 /\ Len(f) = p + n + 3
  <2>1. Len(w) = 1 /\ n \in Nat /\ p \in Nat /\ Len(s) = p + n
    BY <1>3, <1>5, <1>6, <1>7 DEF w, n
  <2>2. Len(t) = p + n + 2
    BY <1>4, <1>8, <2>1
  <2> QED BY <1>9, <2>1, <2>2
<1>11. n \in Nat /\ p \in Nat
  BY <1>3, <1>6
<1>12. \A i \in 1..p : f[i] = b.file[i]
  BY <1>7, <1>8, <1>9, <1>10, <1>11
<1>13. \A i \in 1..n : f[p + i] = x[i]
  <2>1. ASSUME NEW i \in 1..n PROVE f[p + i] = x[i]
    <3>1. p + i \in 1..Len(s) /\ p + i \in 1..Len(t) /\ i \in 1..Len(x)
      BY <1>10, <1>11 DEF n
    <3> QED BY <1>7, <1>8, <1>9, <3>1
  <2> QED BY <2>1
<1>14. f[p + n + 1] = y[1] /\ f[p + n + 2] = y[2]
  <2>0. /\ \A i \in 1..Len(t) : f[i] = t[i]
        /\ \A i \in 1..Len(y) : t[Len(s) + i] = y[i]
    BY <1>8, <1>9
  <2>1. p + n + 1 \in 1..Len(t) /\ p + n + 2 \in 1..Len(t) /\ 1 \in 1..Len(y) /\ 2 \in 1..Len(y)
        /\ p + n + 1 = Len(s) + 1 /\ p + n + 2 = Len(s) + 2
    BY <1>4, <1>10, <1>11
  <2>2. f[p + n + 1] = t[Len(s) + 1] /\ f[p + n + 2] = t[Len(s) + 2]
    BY <2>0, <2>1
  <2>3. t[Len(s) + 1] = y[1] /\ t[Len(s) + 2] = y[2]
    BY <2>0, <2>1
  <2> QED BY <2>2, <2>3
<1>15. f[p + n + 3] = z /\ Last(f) = z
  <2>1. 1 \in 1..Len(w) /\ w[1] = z /\ Len(t) + 1 = p + n + 3
    BY <1>5, <1>10, <1>11 DEF w
  <2> QED BY <1>9, <1>10, <2>1 DEF Last
<1>16. z = Footer(b.size, n, 2)
  BY <1>4 DEF z, n
<1> HIDE DEF s
<1> QED BY <1>2, <1>9, <1>10, <1>11, <1>12, <1>13, <1>14, <1>15, <1>16 DEF x, y, n, p, f

LEMMA FooterFields ==
  ASSUME NEW f, NEW offset, NEW n, NEW m, Last(f) = Footer(offset, n, m)
  PROVE  /\ FooterOf(f).index = offset /\ FooterOf(f).indexSize = n
         /\ FooterOf(f).bloom = offset + n /\ FooterOf(f).bloomSize = m
BY DEF FooterOf, Footer

\* If the builder is where it believes to be, the table opens with its own index.
LEMMA IndexInPlace ==
  ASSUME NEW b, NEW a, NEW c, NEW e, NEW gained, NEW lost, BuilderOK(b, a, c, e, gained, lost),
         Finished(b, a), Len(b.file) = b.size
  PROVE  /\ Opens(builder.file) /\ IndexBlock(builder.file) = Index(b.infos)
         /\ ~Garbled(builder.file) /\ FilterOf(builder.file) = {ToSet(a)}
<1> DEFINE f == builder.file
           p == Len(b.file)
           x == Index(b.infos)
           y == Filter(a)
           n == Len(x)
<1>1. /\ IsSeq(f) /\ Len(f) = p + n + 3 /\ p \in Nat /\ n \in Nat
      /\ \A i \in 1..n : f[p + i] = x[i]
      /\ f[p + n + 1] = y[1] /\ f[p + n + 2] = y[2]
      /\ Last(f) = Footer(b.size, n, 2)
  BY FinishedFile
<1>2. /\ FooterOf(f).index = p /\ FooterOf(f).indexSize = n
      /\ FooterOf(f).bloom = p + n /\ FooterOf(f).bloomSize = 2
  BY <1>1, FooterFields
<1>3. IsSeq(x) /\ CrcMatches(x)
  <2>1. IsSeq(b.infos) /\ \A i \in 1..Len(b.infos) : b.infos[i][1] = "entry"
    BY InfosShape
  <2> QED BY <2>1, IndexShape
<1>4. /\ IsSeq(y) /\ Len(y) = 2 /\ CrcMatches(y) /\ y[1] = <<"filter", ToSet(a)>>
  BY FilterShape
<1> HIDE DEF f, p, x, y, n
<1>5. p + n <= Len(f) /\ (p + n) + 2 <= Len(f) /\ Len(f) >= 1 /\ p + n \in Nat
  BY <1>1
<1>6. /\ IsSeq(ReadAt(f, p, n)) /\ Len(ReadAt(f, p, n)) = n
      /\ \A j \in 1..n : ReadAt(f, p, n)[j] = f[p + j]
  BY <1>1, <1>5, Window
<1>7. ReadAt(f, p, n) = x
  BY <1>1, <1>3, <1>6, SameSeq DEF n
<1>8. IndexBlock(f) = x
  BY <1>2, <1>7 DEF IndexBlock
<1>9. Opens(f)
  BY <1>2, <1>3, <1>5, <1>8 DEF Opens, Inside, FooterSize
<1> DEFINE w == ReadAt(f, p + n, 2)
<1>10. IsSeq(w) /\ Len(w) = 2 /\ \A j \in 1..2 : w[j] = f[(p + n) + j]
  <2> DEFINE q == p + n
  <2>1. q \in Nat /\ q + 2 <= Len(f) /\ IsSeq(f) /\ 2 \in Nat
    BY <1>1, <1>5
  <2> HIDE DEF q
  <2>2. /\ IsSeq(ReadAt(f, q, 2)) /\ Len(ReadAt(f, q, 2)) = 2
        /\ \A j \in 1..2 : ReadAt(f, q, 2)[j] = f[q + j]
    BY <2>1, Window
  <2> QED BY <2>2 DEF q
<1> HIDE DEF w
<1>11. w = y
  <2>1. w[1] = y[1] /\ w[2] = y[2]
    BY <1>1, <1>10
  <2>2. \A j \in 1..2 : w[j] = y[j]
    BY <2>1
  <2> QED BY <1>4, <1>10, <2>2, SameSeq
<1>12. FilterOf(f) = {ToSet(a)}
  <2>1. ReadAt(f, FooterOf(f).bloom, FooterOf(f).bloomSize) = y
    BY <1>2, <1>11 DEF w
  <2>2. Inside(f, FooterOf(f).bloom, FooterOf(f).bloomSize)
    BY <1>2, <1>5 DEF Inside
  <2>3. y[1][2] = ToSet(a)
    BY <1>4
  <2> QED BY <1>4, <2>1, <2>2, <2>3 DEF FilterOf
<1>13. ~Garbled(f)
  <2>1. IsSeq(b.infos) /\ \A i \in 1..Len(b.infos) : b.infos[i][1] = "entry"
    BY InfosShape
  <2>2. Entries(x) = b.infos /\ DOMAIN b.infos = 1..Len(b.infos)
    BY <2>1, IndexShape, Shape DEF x
  <2> QED BY <1>8, <2>1, <2>2 DEF Garbled
<1> QED BY <1>8, <1>9, <1>12, <1>13 DEF f, x

\* Otherwise what is found where the footer says that the index is, is damaged or
\* is a data block, in front of the index.
LEMMA IndexDisplaced ==
  ASSUME NEW b, NEW a, NEW c, NEW e, NEW gained, NEW lost, BuilderOK(b, a, c, e, gained, lost),
         Finished(b, a), Opens(builder.file)
  PROVE  \/ Len(b.file) = b.size
         \/ /\ Garbled(builder.file) /\ EndsBeforeIndex(builder.file)
            /\ \E l \in 1..Len(b.infos) : IndexBlock(builder.file) = Block(Piece(a, c, l))
<1> DEFINE f == builder.file
           p == Len(b.file)
           x == Index(b.infos)
           y == Filter(a)
           n == Len(x)
           s == b.size
           w == IndexBlock(f)
<1>1. /\ IsSeq(f) /\ Len(f) = p + n + 3 /\ p \in Nat /\ n \in Nat
      /\ \A i \in 1..p : f[i] = b.file[i]
      /\ \A i \in 1..n : f[p + i] = x[i]
      /\ f[p + n + 1] = y[1] /\ f[p + n + 2] = y[2]
      /\ Last(f) = Footer(s, n, 2) /\ f[p + n + 3] = Last(f)
  BY FinishedFile
<1>2. FooterOf(f).index = s /\ FooterOf(f).indexSize = n /\ FooterOf(f).bloomSize = 2
  BY <1>1, FooterFields
<1>3. /\ n >= 2 /\ (n = 2 => Len(b.infos) = 0)
      /\ \A j \in 1..n - 1 : x[j][1] # "crc"
  <2>1. IsSeq(b.infos) /\ \A i \in 1..Len(b.infos) : b.infos[i][1] = "entry"
    BY InfosShape
  <2> QED BY <2>1, IndexShape
<1>4. y[1][1] # "crc" /\ y[2] = Checksum(<<<<"filter", ToSet(a)>>>>)
  <2>1. y[1] = <<"filter", ToSet(a)>> /\ y[2] = Checksum(<<<<"filter", ToSet(a)>>>>)
    BY FilterShape
  <2> HIDE DEF y
  <2> QED BY <2>1
<1>5. CutsOK(b, a, c, e) /\ KeysOK(a) /\ CellsOK(b, a, c, e, gained, lost)
  BY DEF BuilderOK
<1>6. s \in Nat /\ (Len(b.infos) = 0 => s = 0)
  <2>1. s \in Nat
    BY <1>5, CutFacts
  <2>2. s = e[Len(b.infos)] /\ e[0] = 0
    BY <1>5 DEF CutsOK
  <2> QED BY <2>1, <2>2
<1>7. s + n <= Len(f) /\ CrcMatches(w) /\ w = ReadAt(f, s, n)
  <2>1. Inside(f, FooterOf(f).index, FooterOf(f).indexSize) /\ CrcMatches(w)
    BY DEF Opens
  <2> HIDE DEF f, n, s
  <2>2. s + n <= Len(f)
    BY <1>2, <2>1 DEF Inside
  <2> QED BY <1>2, <2>1, <2>2 DEF IndexBlock
<1> HIDE DEF f, p, x, y, n, s, w
<1>8. IsSeq(w) /\ Len(w) = n /\ \A j \in 1..n : w[j] = f[s + j]
  BY <1>1, <1>6, <1>7, Window
<1>9. /\ Last(w) = f[s + n] /\ f[s + n] = Checksum(Front(w)) /\ f[s + n][1] = "crc"
      /\ Len(w) > 0 /\ Len(Front(w)) = n - 1
  <2>1. n \in 1..n /\ Len(w) > 0
    BY <1>1, <1>3, <1>8
  <2>2. Last(w) = f[s + n]
    BY <1>8, <2>1 DEF Last
  <2>3. f[s + n] = Checksum(Front(w))
    BY <1>7, <2>2 DEF CrcMatches
  <2>4. f[s + n][1] = "crc"
    BY <2>3 DEF Checksum
  <2> QED BY <1>8, <2>1, <2>2, <2>3, <2>4, WithoutLast
<1>10. CASE s + n <= p
  <2>1. s + n \in 1..p
    BY <1>1, <1>3, <1>6, <1>10
  <2>2. f[s + n] = b.file[s + n]
    BY <1>1, <2>1
  <2>3. PICK i \in 1..Len(b.infos) : CrcOf(b, a, c, e, gained, lost, s + n, i)
    BY <1>5, <1>9, <2>1, <2>2 DEF CellsOK, p
  <2> DEFINE ks == Piece(a, c, i)
  <2>4. Len(ks) \in Nat \ {0}
    BY <1>5, PieceShape
  <2> HIDE DEF ks
  <2>5. Last(w) = Checksum(Front(Block(ks)))
    BY <1>9, <2>2, <2>3 DEF CrcOf, ks
  <2>6. w = Block(ks)
    BY <1>7, <1>8, <1>9, <2>4, <2>5, CrcNamesBlock
  <2>7. Entries(w) = Data(ks)
    BY <2>4, <2>6, BlockEntries
  <2>8. 1 \in DOMAIN Data(ks) /\ Data(ks)[1][1] = "key"
    <3>1. IsSeq(Data(ks)) /\ Len(Data(ks)) = 2 * Len(ks)
          /\ \A j \in 1..2 * Len(ks) : Data(ks)[j][1] = IF j % 2 = 1 THEN "key" ELSE "value"
      BY <2>4, DataShape
    <3>2. 1 \in 1..2 * Len(ks) /\ 1 % 2 = 1
      BY <2>4
    <3>3. DOMAIN Data(ks) = 1..2 * Len(ks)
      BY <3>1, Shape
    <3> QED BY <3>1, <3>2, <3>3
  <2>9. Garbled(f)
    BY <2>7, <2>8 DEF Garbled, w
  <2>10. s + n + n + 2 + FooterSize <= Len(f)
    BY <1>1, <1>6, <1>10 DEF FooterSize
  <2>11. EndsBeforeIndex(f)
    BY <1>2, <2>10 DEF EndsBeforeIndex
  <2> QED BY <2>6, <2>9, <2>11 DEF f, w, ks
<1>11. CASE s + n > p /\ s + n < p + n
  <2>1. s + n - p \in 1..n - 1 /\ s + n - p \in 1..n /\ p + (s + n - p) = s + n
    BY <1>1, <1>3, <1>6, <1>11
  <2>2. f[s + n] = x[s + n - p]
    BY <1>1, <2>1
  <2> QED BY <1>3, <1>9, <2>1, <2>2
<1>12. CASE s + n = p + n
  <2>1. s = p
    BY <1>1, <1>6, <1>12
  <2> QED BY <2>1 DEF s, p
<1>13. CASE s + n = p + n + 1
  BY <1>1, <1>4, <1>9, <1>13
<1>14. CASE s + n = p + n + 2
  <2> DEFINE bits == <<<<"filter", ToSet(a)>>>>
  <2>1. Len(bits) = 1
    BY OneCellShape
  <2>2. Checksum(Front(w)) = Checksum(bits)
    BY <1>1, <1>4, <1>9, <1>14
  <2> HIDE DEF bits
  <2>3. Front(w) = bits
    BY <2>2 DEF Checksum
  <2>4. n = 2
    <3>1. n - 1 = 1 /\ n \in Nat
      BY <1>1, <1>9, <2>1, <2>3
    <3> QED BY <3>1
  <2> QED BY <1>1, <1>3, <1>6, <1>14, <2>4
<1>15. CASE s + n = p + n + 3
  BY <1>1, <1>9, <1>15 DEF Footer
<1>16. \/ s + n <= p \/ (s + n > p /\ s + n < p + n) \/ s + n = p + n
       \/ s + n = p + n + 1 \/ s + n = p + n + 2 \/ s + n = p + n + 3
  BY <1>1, <1>6, <1>7
<1> QED BY <1>10, <1>11, <1>12, <1>13, <1>14, <1>15, <1>16

-----------------------------------------------------------------------------
(* One failure *)

LEMMA OddOrEven ==
  ASSUME NEW n \in Nat, NEW q \in 1..2 * n
  PROVE  \E i \in 1..n : q = 2 * i - 1 \/ q = 2 * i
<1>1. CASE q % 2 = 1
  <2>1. (q + 1) \div 2 \in 1..n /\ q = 2 * ((q + 1) \div 2) - 1
    BY <1>1
  <2> QED BY <2>1
<1>2. CASE q % 2 # 1
  <2>1. q \div 2 \in 1..n /\ q = 2 * (q \div 2)
    BY <1>2
  <2> QED BY <2>1
<1> QED BY <1>1, <1>2

\* The records of two lists of keys are those of one and then those of the other.
LEMMA DataOfJoined ==
  ASSUME NEW s, NEW t, IsSeq(s), IsSeq(t)
  PROVE  Data(s \o t) = Data(s) \o Data(t)
<1> DEFINE l == Len(s)
           m == Len(t)
           j == s \o t
           x == Data(s)
           y == Data(t)
           z == x \o y
           d == Data(j)
<1>1. /\ Len(j) = l + m /\ l \in Nat /\ m \in Nat
      /\ \A i \in 1..l : j[i] = s[i]
      /\ \A i \in 1..m : j[l + i] = t[i]
  BY Joined, Shape
<1>2. /\ IsSeq(x) /\ Len(x) = 2 * l
      /\ \A i \in 1..l : x[2 * i - 1] = <<"key", s[i]>> /\ x[2 * i] = <<"value", s[i]>>
  BY <1>1, DataShape
<1>3. /\ IsSeq(y) /\ Len(y) = 2 * m
      /\ \A i \in 1..m : y[2 * i - 1] = <<"key", t[i]>> /\ y[2 * i] = <<"value", t[i]>>
  BY <1>1, DataShape
<1>4. /\ IsSeq(d) /\ Len(d) = 2 * (l + m)
      /\ \A i \in 1..l + m : d[2 * i - 1] = <<"key", j[i]>> /\ d[2 * i] = <<"value", j[i]>>
  <2>1. Len(j) \in Nat
    BY <1>1
  <2>2. /\ IsSeq(d) /\ Len(d) = 2 * Len(j)
        /\ \A i \in 1..Len(j) : d[2 * i - 1] = <<"key", j[i]>> /\ d[2 * i] = <<"value", j[i]>>
    BY <2>1, DataShape
  <2> QED BY <1>1, <2>2
<1> HIDE DEF l, m, j, x, y, d
<1>5. /\ IsSeq(z) /\ Len(z) = 2 * l + 2 * m
      /\ \A i \in 1..2 * l : z[i] = x[i]
      /\ \A i \in 1..2 * m : z[2 * l + i] = y[i]
  <2>1. /\ IsSeq(x \o y) /\ Len(x \o y) = Len(x) + Len(y)
        /\ \A i \in 1..Len(x) : (x \o y)[i] = x[i]
        /\ \A i \in 1..Len(y) : (x \o y)[Len(x) + i] = y[i]
    BY <1>2, <1>3, Joined
  <2> QED BY <1>2, <1>3, <2>1
<1> HIDE DEF z
<1>6. ASSUME NEW q \in 1..2 * (l + m) PROVE d[q] = z[q]
  <2>1. PICK i \in 1..l + m : q = 2 * i - 1 \/ q = 2 * i
    <3>1. l + m \in Nat
      BY <1>1
    <3> QED BY <3>1, OddOrEven
  <2>2. CASE i \in 1..l
    <3>1. 2 * i - 1 \in 1..2 * l /\ 2 * i \in 1..2 * l
      BY <1>1, <2>2
    <3>2. z[2 * i - 1] = <<"key", j[i]>> /\ z[2 * i] = <<"value", j[i]>>
      BY <1>1, <1>2, <1>5, <2>2, <3>1
    <3> QED BY <1>4, <2>1, <3>2
  <2>3. CASE i > l
    <3>1. PICK k \in 1..m : i = l + k
      <4>1. i - l \in 1..m /\ i = l + (i - l)
        BY <1>1, <2>3
      <4> QED BY <4>1
    <3>2. /\ 2 * k - 1 \in 1..2 * m /\ 2 * k \in 1..2 * m
          /\ 2 * i - 1 = 2 * l + (2 * k - 1) /\ 2 * i = 2 * l + 2 * k
      BY <1>1, <3>1
    <3>3. z[2 * l + (2 * k - 1)] = <<"key", j[i]>> /\ z[2 * l + 2 * k] = <<"value", j[i]>>
      BY <1>1, <1>3, <1>5, <3>1, <3>2
    <3> QED BY <1>4, <2>1, <3>2, <3>3
  <2> QED BY <1>1, <2>2, <2>3
<1>7. 2 * (l + m) = 2 * l + 2 * m
  BY <1>1
<1>8. d = z
  BY <1>4, <1>5, <1>6, <1>7, SameSeq
<1> QED BY <1>8 DEF d, z, j, x, y

\* One step of the recursion of FlattenSeq.
FlattenStep(seqs, g) == [i \in 1..Len(seqs) |-> IF i = 1 THEN seqs[i] ELSE g[i - 1] \o seqs[i]]

\* What g accumulates is what FlattenSeq ends with.
LEMMA FlattenEnds ==
  ASSUME NEW seqs, NEW g, NEW n \in Nat \ {0}, Len(seqs) = n, g[1] = seqs[1],
         \A i \in 1..n : i > 1 => g[i] = g[i - 1] \o seqs[i]
  PROVE  FlattenSeq(seqs) = g[n]
<1> DEFINE h == [i \in 1..n |-> g[i]]
           k == CHOOSE f : f = FlattenStep(seqs, f)
<1>1. h = FlattenStep(seqs, h)
  <2>1. ASSUME NEW i \in 1..n PROVE g[i] = IF i = 1 THEN seqs[i] ELSE h[i - 1] \o seqs[i]
    <3>1. CASE i = 1
      BY <3>1
    <3>2. CASE i # 1
      <4>1. i > 1 /\ i - 1 \in 1..n
        BY <3>2
      <4>2. h[i - 1] = g[i - 1]
        BY <4>1
      <4> QED BY <3>2, <4>1, <4>2
    <3> QED BY <3>1, <3>2
  <2> HIDE DEF h
  <2>2. FlattenStep(seqs, h) = [i \in 1..n |-> IF i = 1 THEN seqs[i] ELSE h[i - 1] \o seqs[i]]
    BY DEF FlattenStep
  <2>3. h = [i \in 1..n |-> g[i]]
    BY DEF h
  <2> QED BY <2>1, <2>2, <2>3
<1>2. k = FlattenStep(seqs, k)
  BY <1>1
<1>3. FlattenSeq(seqs) = k[n]
  BY DEF FlattenSeq, FlattenStep
<1> HIDE DEF h, k
<1>4. \A i \in 1..n : k[i] = IF i = 1 THEN seqs[i] ELSE k[i - 1] \o seqs[i]
  BY <1>2 DEF FlattenStep
<1> DEFINE same == {m \in Nat : m + 1 <= n => k[m + 1] = g[m + 1]}
<1>5. 0 \in same
  BY <1>4
<1>6. ASSUME NEW m \in same PROVE m + 1 \in same
  <2>1. SUFFICES ASSUME m + 1 + 1 <= n PROVE k[m + 1 + 1] = g[m + 1 + 1]
    OBVIOUS
  <2>2. PICK q \in 1..n : q = m + 1 + 1 /\ q > 1 /\ q - 1 = m + 1
    BY <2>1
  <2>3. k[q - 1] = g[q - 1]
    BY <2>1, <2>2
  <2>4. k[q] = g[q]
    BY <1>4, <2>2, <2>3
  <2> QED BY <2>2, <2>4
<1>7. same = Nat
  <2>1. same \in SUBSET Nat
    OBVIOUS
  <2> HIDE DEF same
  <2> QED BY <1>5, <1>6, <2>1, AllNumbers
<1>8. n - 1 \in Nat /\ n - 1 + 1 = n
  OBVIOUS
<1>9. k[n] = g[n]
  <2>1. n - 1 \in same
    BY <1>7, <1>8
  <2>2. n - 1 + 1 <= n => k[n - 1 + 1] = g[n - 1 + 1]
    BY <2>1
  <2> QED BY <1>8, <2>2
<1> QED BY <1>3, <1>9

\* If no cell is lost or gained.
LEMMA NothingMoved ==
  ASSUME NEW b, NEW a, NEW c, NEW e, NEW gained, NEW lost, BuilderOK(b, a, c, e, gained, lost),
         Finished(b, a), Len(b.file) = b.size, builder.failed <= 1
  PROVE  gained = 0 /\ lost = 0
<1>1. /\ b.failed \in Nat /\ gained \in Nat /\ lost \in Nat /\ Len(b.file) \in Nat
      /\ Len(b.file) + lost = b.size + gained
      /\ lost <= b.failed /\ (gained > 0 => lost + 1 <= b.failed)
  BY CellFacts DEF BuilderOK
<1>2. builder.failed = b.failed
  BY FinishedFile
<1>3. lost = gained
  BY <1>1
<1> QED BY <1>1, <1>2, <1>3

\* If no write failed the file is as long as the builder thinks.
LEMMA NoFailure ==
  ASSUME NEW b, NEW a, NEW c, NEW e, NEW gained, NEW lost, BuilderOK(b, a, c, e, gained, lost),
         b.failed = 0
  PROVE  Len(b.file) = b.size
<1>1. /\ gained \in Nat /\ lost \in Nat /\ Len(b.file) \in Nat
      /\ Len(b.file) + lost = b.size + gained
      /\ lost <= b.failed /\ (gained > 0 => lost + 1 <= b.failed)
  BY CellFacts DEF BuilderOK
<1>2. b.size \in Nat
  BY CutFacts DEF BuilderOK
<1>3. lost = 0 /\ gained = 0
  BY <1>1
<1> QED BY <1>1, <1>2, <1>3

\* What is read where the builder wrote.
LEMMA ReadFinished ==
  ASSUME NEW b, NEW a, NEW c, NEW e, NEW gained, NEW lost, BuilderOK(b, a, c, e, gained, lost),
         Finished(b, a), Len(b.file) = b.size, NEW i \in 1..Len(b.infos)
  PROVE  LET w == ReadAt(builder.file, e[i - 1], e[i] - e[i - 1])
         IN  /\ Inside(builder.file, e[i - 1], e[i] - e[i - 1])
             /\ w = ReadAt(b.file, e[i - 1], e[i] - e[i - 1])
             /\ IsSeq(w) /\ Len(w) = e[i] - e[i - 1] /\ Len(w) > 0
             /\ e[i - 1] \in Nat /\ e[i] \in 1..Len(b.file) /\ Last(w) = b.file[e[i]]
<1> DEFINE f == builder.file
           p == Len(b.file)
           x == e[i - 1]
           n == e[i] - e[i - 1]
<1>1. CutsOK(b, a, c, e) /\ KeysOK(a) /\ IsSeq(b.file)
  BY CellFacts DEF BuilderOK
<1>2. e[i - 1] \in 0..b.size /\ e[i] \in 0..b.size /\ e[i - 1] < e[i]
  BY <1>1, CutFacts
<1>3. p \in Nat /\ IsSeq(f) /\ \A j \in 1..p : f[j] = b.file[j]
  BY FinishedFile
<1>4. p <= Len(f) /\ Len(f) \in Nat
  <2>1. Len(f) = p + Len(Index(b.infos)) + 3 /\ Len(Index(b.infos)) \in Nat
    BY FinishedFile
  <2> QED BY <1>3, <2>1
<1>5. x \in Nat /\ n \in Nat /\ n > 0 /\ x + n <= p /\ e[i] = x + n /\ e[i] \in 1..p
  BY <1>2, <1>3
<1> HIDE DEF f, p, x, n
<1>6. /\ IsSeq(ReadAt(f, x, n)) /\ Len(ReadAt(f, x, n)) = n
      /\ \A j \in 1..n : ReadAt(f, x, n)[j] = f[x + j]
  <2>1. x + n <= Len(f)
    BY <1>3, <1>4, <1>5
  <2> QED BY <1>3, <1>5, <2>1, Window
<1>7. /\ IsSeq(ReadAt(b.file, x, n)) /\ Len(ReadAt(b.file, x, n)) = n
      /\ \A j \in 1..n : ReadAt(b.file, x, n)[j] = b.file[x + j]
  BY <1>1, <1>5, Window DEF p
<1>8. \A j \in 1..n : x + j \in 1..p
  BY <1>3, <1>5
<1>9. ReadAt(f, x, n) = ReadAt(b.file, x, n)
  BY <1>3, <1>6, <1>7, <1>8, SameSeq
<1>10. Last(ReadAt(f, x, n)) = b.file[e[i]]
  <2>1. n \in 1..n
    BY <1>5
  <2> QED BY <1>5, <1>7, <1>9, <2>1 DEF Last
<1>11. Inside(f, x, n)
  BY <1>3, <1>4, <1>5 DEF Inside
<1> QED BY <1>5, <1>6, <1>9, <1>10, <1>11 DEF f, x, n, p

\* What Open keeps of an index that is in its place.
LEMMA IndexRead ==
  ASSUME NEW b, NEW a, NEW c, NEW e, NEW gained, NEW lost, BuilderOK(b, a, c, e, gained, lost),
         Finished(b, a), Len(b.file) = b.size
  PROVE  LET x == IndexOf(builder.file)
             n == Len(b.infos)
         IN  /\ n \in Nat /\ IsSeq(x) /\ Len(x) = n /\ DOMAIN x = 1..n /\ (x = <<>> => n = 0)
             /\ \A i \in 1..n : /\ x[i].last = a[c[i]] /\ x[i].offset = e[i - 1]
                                /\ x[i].size = e[i] - e[i - 1]
<1> DEFINE x == IndexOf(builder.file)
           n == Len(b.infos)
<1>1. IsSeq(b.infos) /\ \A i \in 1..n : b.infos[i][1] = "entry"
  BY InfosShape
<1>2. Entries(Index(b.infos)) = b.infos
  BY <1>1, IndexShape
<1>3. IndexBlock(builder.file) = Index(b.infos)
  BY IndexInPlace
<1>4. n \in Nat /\ DOMAIN b.infos = 1..n
  BY <1>1, Shape
<1>5. x = [i \in 1..n |-> b.infos[i][2]]
  BY <1>2, <1>3, <1>4 DEF IndexOf
<1>6. ASSUME NEW i \in 1..n
      PROVE  x[i].last = a[c[i]] /\ x[i].offset = e[i - 1] /\ x[i].size = e[i] - e[i - 1]
  <2>1. b.infos[i] = IndexEntry(a[c[i]], e[i - 1], e[i] - e[i - 1])
    BY DEF BuilderOK, CutsOK
  <2>2. x[i] = b.infos[i][2]
    BY <1>5
  <2> QED BY <2>1, <2>2, EntryFields
<1> HIDE DEF x, n
<1>7. x = [i \in 1..n |-> x[i]]
  BY <1>5
<1>8. IsSeq(x) /\ Len(x) = n
  BY <1>4, <1>7, Tabulated
<1>9. x = <<>> => n = 0
  BY <1>8, EmptyCells
<1> QED BY <1>4, <1>5, <1>6, <1>8, <1>9 DEF x, n

\* Stored is what the blocks of the index were made of.
LEMMA StoredShape ==
  ASSUME NEW b, NEW c, NEW e, NEW gained, NEW lost, BuilderOK(b, added, c, e, gained, lost),
         Finished(b, added)
  PROVE  LET m == c[Len(b.infos)]
         IN  /\ m \in Nat /\ m <= Len(added) /\ Stored = SubSeq(added, 1, m)
             /\ IsSeq(Stored) /\ Len(Stored) = m /\ DOMAIN Stored = 1..m
             /\ \A j \in 1..m : Stored[j] = added[j]
<1> DEFINE m == c[Len(b.infos)]
<1>1. Len(b.infos) \in Nat /\ Len(b.block) \in Nat /\ Len(added) \in Nat /\ m \in 0..Len(added)
  <2>1. Len(b.infos) \in Nat /\ Len(b.block) \in Nat /\ Len(added) \in Nat
    BY CutFacts DEF BuilderOK
  <2>2. Len(b.infos) \in 0..Len(b.infos)
    BY <2>1
  <2>3. \A i \in 0..Len(b.infos) : c[i] \in 0..Len(added)
    BY CutFacts DEF BuilderOK
  <2> QED BY <2>1, <2>2, <2>3
<1>2. m + Len(b.block) = Len(added)
  BY DEF BuilderOK, CutsOK
<1>3. builder.block = b.block
  BY FinishedFile
<1>4. IsSeq(added)
  BY DEF BuilderOK, KeysOK
<1>5. Len(added) - Len(builder.block) = m
  BY <1>1, <1>2, <1>3
<1>6. Stored = SubSeq(added, 1, m)
  BY <1>5 DEF Stored
<1> HIDE DEF m
<1>7. m \in Nat /\ m <= Len(added)
  BY <1>1
<1>8. IsSeq(Stored) /\ Len(Stored) = m /\ \A j \in 1..m : Stored[j] = added[j]
  BY <1>4, <1>6, <1>7, Beginning
<1>9. DOMAIN Stored = 1..m
  BY <1>8, Shape
<1> QED BY <1>6, <1>7, <1>8, <1>9 DEF m

\* A cut and the piece before it.
LEMMA PieceJoined ==
  ASSUME NEW b, NEW a, NEW c, NEW e, CutsOK(b, a, c, e), KeysOK(a), NEW i \in 1..Len(b.infos)
  PROVE  /\ IsSeq(SubSeq(a, 1, c[i - 1])) /\ IsSeq(SubSeq(a, 1, c[i]))
         /\ SubSeq(a, 1, c[i]) = SubSeq(a, 1, c[i - 1]) \o Piece(a, c, i)
<1> DEFINE from == c[i - 1]
           to == c[i]
           d == Piece(a, c, i)
           s == SubSeq(a, 1, from)
           t == SubSeq(a, 1, to)
<1>1. from \in Nat /\ to \in Nat /\ from < to /\ from <= Len(a) /\ to <= Len(a) /\ Len(a) \in Nat
  BY CutFacts
<1>2. IsSeq(d) /\ Len(d) = to - from /\ \A j \in 1..to - from : d[j] = a[from + j]
  BY PieceShape
<1>3. IsSeq(a)
  BY DEF KeysOK
<1> HIDE DEF from, to, d
<1>4. IsSeq(s) /\ Len(s) = from /\ \A j \in 1..from : s[j] = a[j]
  BY <1>1, <1>3, Beginning
<1>5. IsSeq(t) /\ Len(t) = to /\ \A j \in 1..to : t[j] = a[j]
  BY <1>1, <1>3, Beginning
<1> HIDE DEF s, t
<1>6. IsSeq(s) /\ IsSeq(d)
  BY <1>2, <1>4
<1>7. /\ IsSeq(s \o d) /\ Len(s \o d) = Len(s) + Len(d)
      /\ \A j \in 1..Len(s) : (s \o d)[j] = s[j]
      /\ \A j \in 1..Len(s) + Len(d) :
           j > Len(s) => (s \o d)[j] = d[j - Len(s)] /\ j - Len(s) \in 1..Len(d)
  BY <1>6, Joined
<1>8. Len(s \o d) = to
  BY <1>1, <1>2, <1>4, <1>7
<1>9. ASSUME NEW j \in 1..to PROVE (s \o d)[j] = t[j]
  <2>1. CASE j <= from
    BY <1>1, <1>4, <1>5, <1>7, <2>1
  <2>2. CASE j > from
    <3>1. j - from \in 1..to - from /\ from + (j - from) = j
      BY <1>1, <2>2
    <3>2. (s \o d)[j] = d[j - from]
      <4>1. j \in 1..Len(s) + Len(d) /\ j > Len(s)
        BY <1>1, <1>2, <1>4, <2>2
      <4> QED BY <1>4, <1>7, <4>1
    <3>3. d[j - from] = a[j]
      BY <1>2, <3>1
    <3> QED BY <1>5, <3>2, <3>3
  <2>3. j <= from \/ j > from
    BY <1>1
  <2> QED BY <2>1, <2>2, <2>3
<1>10. s \o d = t
  BY <1>5, <1>7, <1>8, <1>9, SameSeq
<1> QED BY <1>4, <1>5, <1>10 DEF s, t, from, to, d

\* A block that nothing moved is what was written.
LEMMA BlockInPlace ==
  ASSUME NEW b, NEW a, NEW c, NEW e, BuilderOK(b, a, c, e, 0, 0),
         Finished(b, a), Len(b.file) = b.size, NEW i \in 1..Len(b.infos)
  PROVE  /\ Inside(builder.file, e[i - 1], e[i] - e[i - 1])
         /\ ReadAt(builder.file, e[i - 1], e[i] - e[i - 1]) = Block(Piece(a, c, i))
<1>1. ReadAt(b.file, e[i - 1], e[i] - e[i - 1]) = Block(Piece(a, c, i))
  BY DEF BuilderOK, CellsOK
<1> QED BY <1>1, ReadFinished

\* With no cell lost or gained, a table that opens has all that is stored.
LEMMA NothingLacks ==
  ASSUME NEW b, NEW c, NEW e, BuilderOK(b, added, c, e, 0, 0),
         Finished(b, added), Len(b.file) = b.size
  PROVE  Complete(builder.file)
<1> DEFINE f == builder.file
           x == IndexOf(f)
           n == Len(b.infos)
           seqs == [i \in 1..n |-> Data(Piece(added, c, i))]
           g == [i \in 1..n |-> Data(SubSeq(added, 1, c[i]))]
<1>1. /\ n \in Nat /\ DOMAIN x = 1..n
      /\ \A i \in 1..n : x[i].offset = e[i - 1] /\ x[i].size = e[i] - e[i - 1]
  BY IndexRead
<1>2. CutsOK(b, added, c, e) /\ KeysOK(added)
  BY DEF BuilderOK
<1>3. ASSUME NEW i \in 1..n
      PROVE  /\ Inside(f, x[i].offset, x[i].size) /\ CrcMatches(BlockIn(f, x[i]))
             /\ Entries(BlockIn(f, x[i])) = Data(Piece(added, c, i))
  <2>1. /\ Inside(f, e[i - 1], e[i] - e[i - 1])
        /\ ReadAt(f, e[i - 1], e[i] - e[i - 1]) = Block(Piece(added, c, i))
    BY BlockInPlace
  <2>2. Len(Piece(added, c, i)) \in Nat \ {0}
    BY <1>2, PieceShape
  <2>3. BlockIn(f, x[i]) = Block(Piece(added, c, i))
    BY <1>1, <2>1 DEF BlockIn
  <2>4. Entries(Block(Piece(added, c, i))) = Data(Piece(added, c, i)) /\ CrcMatches(Block(Piece(added, c, i)))
    BY <2>2, BlockEntries
  <2> QED BY <1>1, <2>1, <2>3, <2>4
<1>4. [i \in DOMAIN x |-> Entries(BlockIn(f, x[i]))] = seqs
  BY <1>1, <1>3
<1>5. Stored = SubSeq(added, 1, c[n]) /\ IsSeq(Stored) /\ Len(Stored) = c[n]
  BY StoredShape
<1>6. FlattenSeq(seqs) = Data(Stored)
  <2>1. CASE n = 0
    <3>1. IsSeq(seqs) /\ Len(seqs) = 0
      <4>1. seqs = [i \in 1..n |-> seqs[i]]
        OBVIOUS
      <4> HIDE DEF seqs
      <4> QED BY <1>1, <2>1, <4>1, Tabulated
    <3>2. c[0] = 0
      BY <1>2 DEF CutsOK
    <3>3. Len(Stored) = 0
      BY <1>5, <2>1, <3>2
    <3>4. IsSeq(Data(Stored)) /\ Len(Data(Stored)) = 0
      <4>1. Len(Stored) \in Nat
        BY <3>3
      <4>2. IsSeq(Data(Stored)) /\ Len(Data(Stored)) = 2 * Len(Stored)
        BY <4>1, DataShape
      <4> QED BY <3>3, <4>2
    <3>5. seqs = <<>> /\ Data(Stored) = <<>>
      <4> HIDE DEF seqs
      <4>1. IsSeq(<<>>) /\ Len(<<>>) = 0
        BY EmptyCells
      <4>2. seqs = <<>>
        BY <3>1, <4>1, SameSeq
      <4>3. Data(Stored) = <<>>
        BY <3>4, <4>1, SameSeq
      <4> QED BY <4>2, <4>3
    <3>6. FlattenSeq(<<>>) = <<>>
      BY EmptyCells DEF FlattenSeq
    <3> QED BY <3>5, <3>6
  <2>2. CASE n # 0
    <3>1. n \in Nat \ {0} /\ Len(seqs) = n
      <4>1. seqs = [i \in 1..n |-> seqs[i]]
        OBVIOUS
      <4> HIDE DEF seqs
      <4> QED BY <1>1, <2>2, <4>1, Tabulated
    <3>2. ASSUME NEW i \in 1..n
          PROVE  Data(SubSeq(added, 1, c[i]))
                   = Data(SubSeq(added, 1, c[i - 1])) \o Data(Piece(added, c, i))
      <4> DEFINE s == SubSeq(added, 1, c[i - 1])
                 d == Piece(added, c, i)
      <4>1. IsSeq(s)
        BY <1>2, PieceJoined
      <4>2. IsSeq(d)
        BY <1>2, PieceShape
      <4>3. SubSeq(added, 1, c[i]) = s \o d
        BY <1>2, PieceJoined
      <4> HIDE DEF s, d
      <4>4. Data(s \o d) = Data(s) \o Data(d)
        BY <4>1, <4>2, DataOfJoined
      <4> QED BY <4>3, <4>4 DEF s, d
    <3>3. g[1] = seqs[1]
      <4>1. 1 \in 1..n
        BY <3>1
      <4>2. c[1 - 1] = 0
        BY <1>2 DEF CutsOK
      <4>3. IsSeq(SubSeq(added, 1, c[1 - 1])) /\ IsSeq(Piece(added, c, 1))
        BY <1>2, <4>1, PieceJoined, PieceShape
      <4>4. SubSeq(added, 1, 0) = <<>>
        <5>1. IsSeq(added) /\ Len(added) \in Nat /\ 0 <= Len(added)
          BY <1>2, CutFacts DEF KeysOK
        <5>2. IsSeq(SubSeq(added, 1, 0)) /\ Len(SubSeq(added, 1, 0)) = 0
          BY <5>1, Beginning
        <5> QED BY <5>2, EmptyCells, SameSeq
      <4>5. SubSeq(added, 1, c[1]) = <<>> \o Piece(added, c, 1)
        BY <1>2, <4>1, <4>2, <4>4, PieceJoined
      <4>6. <<>> \o Piece(added, c, 1) = Piece(added, c, 1)
        <5> DEFINE d == Piece(added, c, 1)
        <5>1. IsSeq(d)
          BY <4>3
        <5> HIDE DEF d
        <5>2. d \in Seq({d[i] : i \in DOMAIN d})
          BY <5>1 DEF IsSeq
        <5>3. <<>> \o d = d
          BY <5>2, ConcatEmptySeq
        <5> QED BY <5>3 DEF d
      <4>7. g[1] = Data(SubSeq(added, 1, c[1])) /\ seqs[1] = Data(Piece(added, c, 1))
        BY <4>1
      <4> QED BY <4>5, <4>6, <4>7
    <3>4. ASSUME NEW i \in 1..n, i > 1 PROVE g[i] = g[i - 1] \o seqs[i]
      <4>1. i - 1 \in 1..n
        BY <1>1, <3>4
      <4> QED BY <3>2, <4>1
    <3>5. FlattenSeq(seqs) = g[n]
      <4>1. \A i \in 1..n : i > 1 => g[i] = g[i - 1] \o seqs[i]
        BY <3>4
      <4> HIDE DEF seqs, g, n
      <4>2. n \in Nat \ {0}
        BY <3>1
      <4>3. PICK ss, gg, m : ss = seqs /\ gg = g /\ m = n
        OBVIOUS
      <4>4. m \in Nat \ {0} /\ Len(ss) = m /\ gg[1] = ss[1]
        BY <3>1, <3>3, <4>2, <4>3
      <4>5. \A i \in 1..m : i > 1 => gg[i] = gg[i - 1] \o ss[i]
        BY <4>1, <4>3
      <4>6. FlattenSeq(ss) = gg[m]
        BY <4>4, <4>5, FlattenEnds
      <4> QED BY <4>3, <4>6
    <3>6. g[n] = Data(SubSeq(added, 1, c[n]))
      BY <3>1
    <3> QED BY <1>5, <3>5, <3>6
  <2> QED BY <2>1, <2>2
<1>7. \A i \in DOMAIN x : Inside(f, x[i].offset, x[i].size) /\ CrcMatches(BlockIn(f, x[i]))
  BY <1>1, <1>3
<1> QED BY <1>4, <1>6, <1>7 DEF Complete

\* The file invariant is enough for what OneFailureIsNoticed says.
LEMMA NoticedFromFileInv == FileInv => OneFailureIsNoticed
<1>1. SUFFICES ASSUME FileInv, status = "finished"
               PROVE  /\ builder.failed = 0 =>
                           Opens(builder.file) /\ ~Garbled(builder.file) /\ Stored = added
                      /\ builder.failed <= 1 /\ Opens(builder.file) =>
                           \/ ~Garbled(builder.file) /\ Complete(builder.file)
                           \/ Garbled(builder.file) /\ EndsBeforeIndex(builder.file)
  BY DEF OneFailureIsNoticed
<1>2. PICK b, c, e, gained, lost : BuilderOK(b, added, c, e, gained, lost) /\ Finished(b, added)
  BY <1>1 DEF FileInv
<1>3. builder.failed = b.failed /\ builder.block = b.block
  BY <1>2, FinishedFile
<1>4. ASSUME builder.failed = 0
      PROVE  Opens(builder.file) /\ ~Garbled(builder.file) /\ Stored = added
  <2>1. Len(b.file) = b.size
    BY <1>2, <1>3, <1>4, NoFailure
  <2>2. b.block = <<>>
    BY <1>2, <1>3, <1>4 DEF Finished
  <2>3. c[Len(b.infos)] + Len(b.block) = Len(added) /\ IsSeq(added)
    BY <1>2 DEF BuilderOK, CutsOK, KeysOK
  <2>4. /\ IsSeq(Stored) /\ Len(Stored) = c[Len(b.infos)] /\ c[Len(b.infos)] \in Nat
        /\ \A j \in 1..c[Len(b.infos)] : Stored[j] = added[j]
    BY <1>2, StoredShape
  <2>5. Len(Stored) = Len(added)
    BY <2>2, <2>3, <2>4, EmptyCells
  <2>6. Stored = added
    BY <2>3, <2>4, <2>5, SameSeq
  <2> QED BY <1>2, <2>1, <2>6, IndexInPlace
<1>5. ASSUME builder.failed <= 1, Opens(builder.file)
      PROVE  \/ ~Garbled(builder.file) /\ Complete(builder.file)
             \/ Garbled(builder.file) /\ EndsBeforeIndex(builder.file)
  <2>1. CASE Len(b.file) = b.size
    <3>1. gained = 0 /\ lost = 0
      BY <1>2, <1>5, <2>1, NothingMoved
    <3>2. Complete(builder.file)
      BY <1>2, <2>1, <3>1, NothingLacks
    <3>3. ~Garbled(builder.file)
      BY <1>2, <2>1, IndexInPlace
    <3> QED BY <3>2, <3>3
  <2>2. CASE Len(b.file) # b.size
    BY <1>2, <1>5, <2>2, IndexDisplaced
  <2> QED BY <2>1, <2>2
<1> QED BY <1>4, <1>5

\* FileInv is inductive: whatever FlushBlock loses or writes twice
\* (sstable_builder.cc:161-187), the cells are those of the cuts, moved by what was gained or lost.
THEOREM BuilderWritesWhatItSays == Spec => []FileInv
<1>1. Init => FileInv
  BY FileInit0 DEF Init
<1>2. ASSUME FileInv, [Next]_vars PROVE FileInv'
  <2>1. CASE Build
    BY <1>2, <2>1, BuildInv
  <2>2. CASE UNCHANGED fileVars
    BY <1>2, <2>2 DEF fileVars, FileInv, Finished
  <2>3. CASE Open
    BY <2>2, <2>3 DEF Open
  <2>4. ASSUME NEW r \in Readers, Read(r) PROVE FileInv'
    <3>1. UNCHANGED fileVars
      BY <2>4 DEF Read, LockRead, SeekFile, ReadFile, Get, Seek, NewIterator, SeekToFirst,
                  NextRecord, EndRead, Call
    <3> QED BY <2>2, <3>1
  <2>5. CASE UNCHANGED vars
    BY <2>2, <2>5 DEF vars
  <2> QED BY <1>2, <2>1, <2>3, <2>4, <2>5 DEF Next
<1> QED BY <1>1, <1>2, PTL DEF Spec

\* A table opens and has everything if no write failed; if one failed, it does not
\* open, or lacks no stored record, or was opened by a data block that ends in front of
\* its index (sstable_builder.cc:96), for every size of blocks and every number of keys.
THEOREM LostWritesAreNoticed == Spec => []OneFailureIsNoticed
BY BuilderWritesWhatItSays, NoticedFromFileInv, PTL

-----------------------------------------------------------------------------
(* The block that a key leads to *)

\* One step of the bisection, which goes on with search.
Halved(k, search, left, right) ==
  LET mid == (left + right) \div 2
  IN  IF left >= right THEN left
      ELSE IF Before(mid, k) THEN search[<<mid + 1, right>>]
      ELSE search[<<left, mid>>]

SearchIndex(k, n, search) ==
  [range \in (1..n) \X (1..n) |-> Halved(k, search, range[1], range[2])]

LEMMA Middle ==
  ASSUME NEW n \in Nat, NEW l \in 1..n, NEW r \in 1..n, l < r
  PROVE  LET mid == (l + r) \div 2
         IN  mid \in l..r - 1 /\ mid \in 1..n /\ mid + 1 \in 1..n
OBVIOUS

\* The recursion has a solution, since the range shrinks.
LEMMA BisectionExists ==
  ASSUME NEW n \in Nat, NEW k
  PROVE  \E search : search = SearchIndex(k, n, search)
<1> DEFINE D == (1..n) \X (1..n)
           table(g) == [p \in D |-> Halved(k, g, p[1], p[2])]
           solves(g, m) == \A l, r \in 1..n : r - l <= m => g[<<l, r>>] = Halved(k, g, l, r)
           reached == {m \in Nat : \E g : solves(g, m)}
           agree(g, h, len) == \A i, j \in 1..n : j - i < len => g[<<i, j>>] = h[<<i, j>>]
<1>0. ASSUME NEW g, NEW l \in 1..n, NEW r \in 1..n
      PROVE  table(g)[<<l, r>>] = Halved(k, g, l, r)
  OBVIOUS
<1>a. ASSUME NEW g, NEW h, NEW l \in 1..n, NEW r \in 1..n, agree(g, h, r - l)
      PROVE  Halved(k, g, l, r) = Halved(k, h, l, r)
  <2>1. CASE l >= r
    BY <2>1 DEF Halved
  <2>2. CASE l < r
    <3>1. PICK mid : mid = (l + r) \div 2
      OBVIOUS
    <3>2. mid \in l..r - 1 /\ mid \in 1..n /\ mid + 1 \in 1..n
      BY <2>2, <3>1, Middle
    <3>3. g[<<l, mid>>] = h[<<l, mid>>] /\ g[<<mid + 1, r>>] = h[<<mid + 1, r>>]
      BY <1>a, <3>2
    <3> QED BY <3>1, <3>3 DEF Halved
  <2> QED BY <2>1, <2>2
<1> HIDE DEF D, table, agree
<1>1. 0 \in reached
  <2>1. PICK g : g = [p \in D |-> p[1]]
    OBVIOUS
  <2>2. ASSUME NEW l \in 1..n, NEW r \in 1..n, r - l <= 0
        PROVE  g[<<l, r>>] = Halved(k, g, l, r)
    <3>1. g[<<l, r>>] = l
      BY <2>1 DEF D
    <3>2. l >= r
      BY <2>2
    <3> QED BY <3>1, <3>2 DEF Halved
  <2>3. solves(g, 0)
    BY <2>2
  <2> HIDE DEF solves
  <2> QED BY <2>3
<1>2. ASSUME NEW m \in reached PROVE m + 1 \in reached
  <2>1. PICK g : solves(g, m)
    OBVIOUS
  <2>2. PICK h : h = table(g)
    OBVIOUS
  <2>3. \A l, r \in 1..n : h[<<l, r>>] = Halved(k, g, l, r)
    BY <1>0, <2>2
  <2>4. ASSUME NEW l \in 1..n, NEW r \in 1..n, r - l <= m + 1
        PROVE  h[<<l, r>>] = Halved(k, h, l, r)
    <3>1. ASSUME NEW i \in 1..n, NEW j \in 1..n, j - i < r - l
          PROVE  g[<<i, j>>] = h[<<i, j>>]
      <4>1. j - i <= m
        BY <2>4, <3>1
      <4> QED BY <2>1, <2>3, <4>1
    <3>2. agree(g, h, r - l)
      BY <3>1 DEF agree
    <3>3. Halved(k, g, l, r) = Halved(k, h, l, r)
      BY <1>a, <3>2
    <3> QED BY <2>3, <3>3
  <2>5. solves(h, m + 1)
    BY <2>4
  <2> HIDE DEF solves
  <2> QED BY <2>5
<1>3. reached = Nat
  <2>1. reached \in SUBSET Nat
    OBVIOUS
  <2> HIDE DEF reached
  <2> QED BY <1>1, <1>2, <2>1, AllNumbers
<1>4. PICK g : solves(g, n)
  BY <1>3
<1>5. ASSUME NEW l \in 1..n, NEW r \in 1..n
      PROVE  g[<<l, r>>] = Halved(k, g, l, r)
  <2>1. r - l <= n
    OBVIOUS
  <2> QED BY <1>4, <2>1
<1>6. PICK h : h = table(g)
  OBVIOUS
<1>7. \A l, r \in 1..n : h[<<l, r>>] = g[<<l, r>>]
  BY <1>0, <1>5, <1>6
<1>8. ASSUME NEW p \in D PROVE Halved(k, g, p[1], p[2]) = Halved(k, h, p[1], p[2])
  <2>1. p[1] \in 1..n /\ p[2] \in 1..n
    BY DEF D
  <2>2. agree(g, h, p[2] - p[1])
    BY <1>7 DEF agree
  <2> QED BY <1>a, <2>1, <2>2
<1>9. h = [p \in D |-> Halved(k, h, p[1], p[2])]
  BY <1>6, <1>8 DEF table
<1> QED BY <1>9 DEF D, SearchIndex

\* i is the first block of those that are not before k, or the last one.
Towards(k, i) ==
  /\ i \in 1..Len(index)
  /\ \A j \in 1..Len(index) : j < i => Before(j, k)
  /\ i < Len(index) => ~Before(i, k)

\* The last keys of the blocks ascend.
Ascending == \A i, j \in 1..Len(index) : i < j => /\ index[i].last \in Nat /\ index[j].last \in Nat
                                                   /\ index[i].last < index[j].last

\* The block that k leads to is between l and r.
Between(k, l, r) ==
  /\ l <= r /\ \A j \in 1..Len(index) : j < l => Before(j, k)
  /\ r < Len(index) => ~Before(r, k)

\* A step of the bisection is right if the ones it goes on with are.
LEMMA HalvedLeads ==
  ASSUME NEW k \in Nat, Ascending, Len(index) \in Nat, NEW search,
         NEW l \in 1..Len(index), NEW r \in 1..Len(index), Between(k, l, r),
         \A i, j \in 1..Len(index) :
           j - i < r - l /\ Between(k, i, j) => Towards(k, search[<<i, j>>])
  PROVE  Towards(k, Halved(k, search, l, r))
<1> DEFINE step == Halved(k, search, l, r)
           n == Len(index)
<1>1. CASE l >= r
  <2>1. step = l /\ l = r
    BY <1>1 DEF Halved, Between
  <2> QED BY <2>1 DEF Between, Towards
<1>2. CASE l < r
  <2>1. PICK mid : mid = (l + r) \div 2
    OBVIOUS
  <2>2. mid \in l..r - 1 /\ mid \in 1..n /\ mid + 1 \in 1..n
    BY <1>2, <2>1, Middle
  <2>3. CASE Before(mid, k)
    <3>1. step = search[<<mid + 1, r>>]
      BY <1>2, <2>1, <2>3 DEF Halved
    <3>2. ASSUME NEW j \in 1..n, j < mid + 1 PROVE Before(j, k)
      <4>1. j = mid \/ j < mid
        BY <2>2, <3>2
      <4>2. CASE j < mid
        <5>1. /\ index[j].last \in Nat /\ index[mid].last \in Nat
              /\ index[j].last < index[mid].last
          BY <2>2, <4>2 DEF Ascending
        <5> QED BY <2>3, <5>1 DEF Before
      <4> QED BY <2>3, <4>1, <4>2
    <3>3. mid + 1 <= r /\ r - (mid + 1) < r - l
      BY <2>2
    <3>4. Between(k, mid + 1, r)
      BY <3>2, <3>3 DEF Between
    <3> QED BY <2>2, <3>1, <3>3, <3>4
  <2>4. CASE ~Before(mid, k)
    <3>1. step = search[<<l, mid>>]
      BY <1>2, <2>1, <2>4 DEF Halved
    <3>2. l <= mid /\ mid - l < r - l
      BY <2>2
    <3>3. Between(k, l, mid)
      BY <2>4, <3>2 DEF Between
    <3> QED BY <2>2, <3>1, <3>2, <3>3
  <2> QED BY <2>3, <2>4
<1> QED BY <1>1, <1>2

\* The bisection in the index (sstable.cc) ends at the block that k leads to.
LEMMA BisectLeads ==
  ASSUME NEW k \in Nat, Ascending, Len(index) \in Nat \ {0}
  PROVE  Towards(k, Bisect(k))
<1> DEFINE n == Len(index)
           search == CHOOSE g : g = SearchIndex(k, n, g)
<1>1. Bisect(k) = search[<<1, n>>]
  BY DEF Bisect, Halved, SearchIndex
<1>2. search = SearchIndex(k, n, search)
  BY BisectionExists
<1> HIDE DEF search
<1>3. ASSUME NEW l \in 1..n, NEW r \in 1..n
      PROVE  search[<<l, r>>] = Halved(k, search, l, r)
  <2>1. SearchIndex(k, n, search)[<<l, r>>] = Halved(k, search, l, r)
    BY DEF SearchIndex
  <2> QED BY <1>2, <2>1
<1> DEFINE reached == {m \in Nat : \A l, r \in 1..n :
                         r - l < m /\ Between(k, l, r) => Towards(k, search[<<l, r>>])}
<1>4. 0 \in reached
  <2>1. ASSUME NEW l \in 1..n, NEW r \in 1..n, r - l < 0, Between(k, l, r) PROVE FALSE
    BY <2>1 DEF Between
  <2> QED BY <2>1
<1>5. ASSUME NEW m \in reached PROVE m + 1 \in reached
  <2>1. ASSUME NEW l \in 1..n, NEW r \in 1..n, r - l < m + 1, Between(k, l, r)
        PROVE  Towards(k, search[<<l, r>>])
    <3>1. m \in Nat
      OBVIOUS
    <3>2. ASSUME NEW i \in 1..n, NEW j \in 1..n, j - i < r - l, Between(k, i, j)
          PROVE  Towards(k, search[<<i, j>>])
      <4>1. j - i < m
        BY <2>1, <3>1, <3>2
      <4> QED BY <3>2, <4>1
    <3>3. Towards(k, Halved(k, search, l, r))
      BY <2>1, <3>2, HalvedLeads
    <3> QED BY <1>3, <3>3
  <2> QED BY <2>1
<1>6. reached = Nat
  <2>1. reached \in SUBSET Nat
    OBVIOUS
  <2> HIDE DEF reached
  <2> QED BY <1>4, <1>5, <2>1, AllNumbers
<1>7. 1 \in 1..n /\ n \in 1..n /\ n \in Nat /\ n - 1 < n
  OBVIOUS
<1>8. Between(k, 1, n)
  BY <1>7 DEF Between
<1>9. n \in reached
  BY <1>6, <1>7
<1>10. Towards(k, search[<<1, n>>])
  BY <1>7, <1>8, <1>9
<1> QED BY <1>1, <1>10

-----------------------------------------------------------------------------
(* The table that is open *)

\* What is open is the file that the builder finished, with the index in its place.
TableOK(b, c, e, gained, lost) ==
  /\ status = "finished" /\ BuilderOK(b, added, c, e, gained, lost) /\ Finished(b, added)
  /\ Len(b.file) = b.size
  /\ index = IndexOf(builder.file) /\ filter = {ToSet(added)}
  /\ ends = <<FirstKeyOf(builder.file, index), LastKeyOf(index)>>

\* The cuts are where the blocks of the index end.
CutsOfIndex(c) ==
  LET n == Len(index)
  IN  /\ n \in Nat /\ c[0] = 0
      /\ \A i \in 0..n : c[i] \in Nat /\ c[i] <= Len(added)
      /\ \A i, j \in 0..n : i < j => c[i] < c[j]
      /\ \A i \in 1..n : index[i].last = added[c[i]]

\* What Open read is the index that the builder wrote.
LEMMA IndexFacts ==
  ASSUME NEW b, NEW c, NEW e, NEW gained, NEW lost, TableOK(b, c, e, gained, lost)
  PROVE  /\ Len(index) = Len(b.infos) /\ (index = <<>> <=> Len(index) = 0)
         /\ KeysOK(added) /\ Len(added) \in Nat /\ CutsOfIndex(c) /\ Ascending
         /\ \A i \in 1..Len(index) : /\ index[i].offset = e[i - 1]
                                     /\ index[i].size = e[i] - e[i - 1]
<1> DEFINE n == Len(index)
<1>1. /\ IsSeq(index) /\ n = Len(b.infos) /\ n \in Nat
      /\ \A i \in 1..n : /\ index[i].last = added[c[i]] /\ index[i].offset = e[i - 1]
                         /\ index[i].size = e[i] - e[i - 1]
  <2> DEFINE x == IndexOf(builder.file)
  <2>1. /\ Len(b.infos) \in Nat /\ IsSeq(x) /\ Len(x) = Len(b.infos)
        /\ \A i \in 1..Len(b.infos) : /\ x[i].last = added[c[i]] /\ x[i].offset = e[i - 1]
                                      /\ x[i].size = e[i] - e[i - 1]
    BY IndexRead DEF TableOK
  <2>2. index = x
    BY DEF TableOK
  <2> QED BY <2>1, <2>2
<1>2. index = <<>> <=> n = 0
  BY <1>1, EmptyCells, SameSeq
<1>3. KeysOK(added) /\ CutsOK(b, added, c, e)
  BY DEF TableOK, BuilderOK
<1>4. Len(added) \in Nat /\ \A i \in 0..n : c[i] \in Nat /\ c[i] <= Len(added)
  BY <1>1, <1>3, CutFacts
<1>5. c[0] = 0 /\ \A i, j \in 0..n : i < j => c[i] < c[j]
  BY <1>1, <1>3 DEF CutsOK
<1>6. CutsOfIndex(c)
  BY <1>1, <1>4, <1>5 DEF CutsOfIndex
<1>7. ASSUME NEW i \in 1..n, NEW j \in 1..n, i < j
      PROVE  /\ index[i].last \in Nat /\ index[j].last \in Nat /\ index[i].last < index[j].last
  <2>1. i \in 0..n /\ j \in 0..n /\ 0 \in 0..n
    BY <1>1
  <2>2. c[i] \in 1..Len(added) /\ c[j] \in 1..Len(added) /\ c[i] < c[j]
    <3>1. c[0] < c[i] /\ c[0] < c[j] /\ c[i] < c[j]
      BY <1>5, <1>7, <2>1
    <3> QED BY <1>4, <1>5, <2>1, <3>1
  <2>3. added[c[i]] \in Nat /\ added[c[j]] \in Nat /\ added[c[i]] < added[c[j]]
    BY <1>3, <2>2 DEF KeysOK
  <2> QED BY <1>1, <2>3
<1>8. Ascending
  BY <1>7 DEF Ascending
<1> QED BY <1>1, <1>2, <1>3, <1>4, <1>6, <1>8

LEMMA StoredFacts ==
  ASSUME NEW b, NEW c, NEW e, NEW gained, NEW lost, TableOK(b, c, e, gained, lost)
  PROVE  /\ Len(Stored) = c[Len(index)] /\ DOMAIN Stored = 1..c[Len(index)]
         /\ \A j \in 1..c[Len(index)] : Stored[j] = added[j]
<1>1. Len(index) = Len(b.infos)
  BY IndexFacts
<1> QED BY <1>1, StoredShape DEF TableOK

LEMMA PieceFacts ==
  ASSUME NEW b, NEW c, NEW e, NEW gained, NEW lost, TableOK(b, c, e, gained, lost),
         NEW i \in 1..Len(index)
  PROVE  /\ c[i - 1] \in Nat /\ c[i] \in Nat /\ c[i - 1] < c[i] /\ c[i] <= c[Len(index)]
         /\ c[Len(index)] \in Nat /\ c[Len(index)] <= Len(added)
         /\ IsSeq(Piece(added, c, i)) /\ Len(Piece(added, c, i)) = c[i] - c[i - 1]
         /\ DOMAIN Piece(added, c, i) = 1..c[i] - c[i - 1]
         /\ \A j \in 1..c[i] - c[i - 1] : Piece(added, c, i)[j] = added[c[i - 1] + j]
<1> DEFINE n == Len(index)
<1>1. n = Len(b.infos) /\ CutsOfIndex(c)
  BY IndexFacts
<1>2. n \in Nat /\ i - 1 \in 0..n /\ i \in 0..n /\ n \in 0..n
  BY <1>1 DEF CutsOfIndex
<1>3. /\ c[i - 1] \in Nat /\ c[i] \in Nat /\ c[i - 1] < c[i]
      /\ c[n] \in Nat /\ c[n] <= Len(added) /\ (i < n => c[i] < c[n])
  BY <1>1, <1>2 DEF CutsOfIndex
<1>4. c[i] <= c[n]
  <2>1. i = n \/ i < n
    BY <1>2
  <2> QED BY <1>3, <2>1
<1>5. /\ IsSeq(Piece(added, c, i)) /\ Len(Piece(added, c, i)) = c[i] - c[i - 1]
      /\ \A j \in 1..c[i] - c[i - 1] : Piece(added, c, i)[j] = added[c[i - 1] + j]
  BY <1>1, PieceShape DEF TableOK, BuilderOK
<1>6. DOMAIN Piece(added, c, i) = 1..c[i] - c[i - 1]
  BY <1>5, Shape
<1> QED BY <1>3, <1>4, <1>5, <1>6

\* Every record that is stored is in a block.
LEMMA InSomePiece ==
  ASSUME NEW c, CutsOfIndex(c), NEW j \in 1..c[Len(index)]
  PROVE  \E i \in 1..Len(index) : c[i - 1] < j /\ j <= c[i]
<1> DEFINE n == Len(index)
           S == {i \in 0..n : j <= c[i]}
<1>1. n \in Nat /\ c[0] = 0 /\ \A i \in 0..n : c[i] \in Nat
  BY DEF CutsOfIndex
<1>2. n \in 0..n /\ c[n] \in Nat
  BY <1>1
<1>3. S \in SUBSET Nat /\ S # {}
  BY <1>1, <1>2
<1>4. PICK m \in S : \A i \in S : m <= i
  BY <1>3, Least
<1>5. m \in 0..n /\ j <= c[m]
  OBVIOUS
<1>6. m # 0
  BY <1>1, <1>5
<1>7. m \in 1..n /\ m - 1 \in 0..n /\ ~(m <= m - 1)
  BY <1>1, <1>5, <1>6
<1>8. ~(j <= c[m - 1])
  BY <1>4, <1>7
<1>9. c[m - 1] \in Nat
  BY <1>1, <1>7
<1>10. c[m - 1] < j
  BY <1>2, <1>8, <1>9
<1> QED BY <1>5, <1>7, <1>10

\* The block that a key leads to is the only one that can hold it.
LEMMA TowardsHolds ==
  ASSUME NEW b, NEW c, NEW e, NEW gained, NEW lost, TableOK(b, c, e, gained, lost),
         NEW k \in Nat, NEW i, Towards(k, i), NEW j \in 1..c[Len(index)], added[j] = k
  PROVE  i \in 1..Len(index) /\ c[i - 1] < j /\ j <= c[i]
<1> DEFINE n == Len(index)
<1>1. CutsOfIndex(c) /\ KeysOK(added)
  BY IndexFacts
<1>2. i \in 1..n /\ n \in Nat
  BY <1>1 DEF Towards, CutsOfIndex
<1>3. PICK q \in 1..n : c[q - 1] < j /\ j <= c[q]
  BY <1>1, InSomePiece
<1>4. /\ c[q] \in Nat /\ c[i] \in Nat /\ c[q - 1] \in Nat /\ c[i] > 0 /\ c[q] > 0
      /\ c[q] <= Len(added) /\ c[i] <= Len(added)
      /\ index[q].last = added[c[q]] /\ index[i].last = added[c[i]] /\ Len(added) \in Nat
  <2>1. /\ c[q] \in Nat /\ c[q - 1] \in Nat /\ c[q - 1] < c[q] /\ c[q] <= c[n] /\ c[n] <= Len(added)
        /\ c[n] \in Nat
    BY PieceFacts
  <2>2. c[i] \in Nat /\ c[i - 1] \in Nat /\ c[i - 1] < c[i] /\ c[i] <= c[n]
    BY <1>2, PieceFacts
  <2>3. Len(added) \in Nat
    BY IndexFacts
  <2>4. index[q].last = added[c[q]] /\ index[i].last = added[c[i]]
    BY <1>1, <1>2 DEF CutsOfIndex
  <2>5. c[q] > 0 /\ c[q] <= Len(added)
    BY <2>1, <2>3
  <2>6. c[i] > 0 /\ c[i] <= Len(added)
    <3>1. c[n] \in Nat /\ c[n] <= Len(added)
      BY <2>1
    <3> QED BY <2>2, <2>3, <3>1
  <2> QED BY <2>1, <2>2, <2>3, <2>4, <2>5, <2>6
<1>5. c[q] \in 1..Len(added) /\ c[i] \in 1..Len(added) /\ j \in 1..Len(added)
  BY <1>3, <1>4
<1>6. /\ added[c[q]] \in Nat /\ added[c[i]] \in Nat
      /\ j < c[q] => k < added[c[q]]
      /\ c[i] < j => added[c[i]] < k
  BY <1>1, <1>5 DEF KeysOK
<1>7. ~(q < i)
  <2>1. SUFFICES ASSUME q < i PROVE FALSE
    OBVIOUS
  <2>2. index[q].last < k
    BY <2>1 DEF Towards, Before
  <2>3. k <= added[c[q]]
    <3>1. j < c[q] \/ j = c[q]
      BY <1>3, <1>4
    <3> QED BY <1>6, <3>1
  <2> QED BY <1>4, <1>6, <2>2, <2>3
<1>8. ~(i < q)
  <2>1. SUFFICES ASSUME i < q PROVE FALSE
    OBVIOUS
  <2>2. ~(index[i].last < k)
    <3>1. i < n
      BY <1>2, <2>1
    <3> QED BY <3>1 DEF Towards, Before
  <2>3. c[i] < j
    <3>1. i = q - 1 \/ i < q - 1
      BY <1>2, <2>1
    <3>2. i < q - 1 => c[i] < c[q - 1]
      <4>1. i \in 0..n /\ q - 1 \in 0..n
        BY <1>2
      <4> QED BY <1>1, <4>1 DEF CutsOfIndex
    <3> QED BY <1>3, <1>4, <3>1, <3>2
  <2> QED BY <1>4, <1>6, <2>2, <2>3
<1>9. q = i
  BY <1>2, <1>7, <1>8
<1> QED BY <1>2, <1>3, <1>9

-----------------------------------------------------------------------------
(* What is made of a block *)

\* A block whose checksum matches is one that was written, though not always the
\* one that is looked for; it is, if fewer cells are missing than it has.
LEMMA BlockRead ==
  ASSUME NEW b, NEW c, NEW e, NEW gained, NEW lost, TableOK(b, c, e, gained, lost),
         NEW i \in 1..Len(index)
  PROVE  LET cells == ReadAt(builder.file, index[i].offset, index[i].size)
         IN  /\ Inside(builder.file, index[i].offset, index[i].size)
             /\ Len(cells) = index[i].size /\ index[i].size \in Nat
             /\ index[i].size >= SmallestBlock
             /\ builder.failed <= 1 => CrcMatches(cells)
             /\ CrcMatches(cells) =>
                  \E l \in 1..Len(index) : /\ cells = Block(Piece(added, c, l))
                                           /\ KeysOf(cells) = Piece(added, c, l)
                                           /\ builder.failed <= SmallestBlock => l = i
<1> DEFINE n == Len(index)
           cells == ReadAt(builder.file, index[i].offset, index[i].size)
           from == e[i - 1]
           size == e[i] - e[i - 1]
<1>1. n = Len(b.infos) /\ index[i].offset = from /\ index[i].size = size
  BY IndexFacts
<1>2. /\ BuilderOK(b, added, c, e, gained, lost) /\ Finished(b, added) /\ Len(b.file) = b.size
      /\ i \in 1..Len(b.infos)
  BY <1>1 DEF TableOK
<1>3. /\ Inside(builder.file, from, size)
      /\ IsSeq(ReadAt(builder.file, from, size)) /\ Len(ReadAt(builder.file, from, size)) > 0
      /\ e[i] \in 1..Len(b.file) /\ Last(ReadAt(builder.file, from, size)) = b.file[e[i]]
      /\ Len(ReadAt(builder.file, from, size)) = size
  BY <1>2, ReadFinished
<1>4. /\ Inside(builder.file, index[i].offset, index[i].size)
      /\ IsSeq(cells) /\ Len(cells) > 0 /\ Last(cells) = b.file[e[i]]
      /\ Len(cells) = index[i].size
  BY <1>1, <1>3
<1>7. size \in Nat /\ size >= SmallestBlock
  <2>1. Len(Piece(added, c, i)) \in Nat \ {0}
    BY <1>2, PieceShape DEF BuilderOK
  <2>2. size = BlockSize(Piece(added, c, i))
    BY <1>2 DEF BuilderOK, CutsOK
  <2> QED BY <2>1, <2>2, BlockShape
<1>5. ASSUME builder.failed <= 1 PROVE CrcMatches(cells)
  <2>1. gained = 0 /\ lost = 0
    BY <1>2, <1>5, NothingMoved
  <2>2. ReadAt(builder.file, from, size) = Block(Piece(added, c, i))
    BY <1>2, <2>1, BlockInPlace
  <2>3. Len(Piece(added, c, i)) \in Nat \ {0}
    BY <1>2, PieceShape DEF BuilderOK
  <2>4. CrcMatches(Block(Piece(added, c, i)))
    BY <2>3, BlockEntries
  <2> QED BY <1>1, <2>2, <2>4
<1>6. ASSUME CrcMatches(cells)
      PROVE  \E l \in 1..n : /\ cells = Block(Piece(added, c, l))
                             /\ KeysOf(cells) = Piece(added, c, l)
                             /\ builder.failed <= SmallestBlock => l = i
  <2>1. b.file[e[i]] = Checksum(Front(cells))
    BY <1>4, <1>6 DEF CrcMatches
  <2>2. b.file[e[i]][1] = "crc"
    BY <2>1 DEF Checksum
  <2>3. PICK l \in 1..n : CrcOf(b, added, c, e, gained, lost, e[i], l)
    BY <1>1, <1>2, <1>3, <2>2 DEF BuilderOK, CellsOK
  <2>4. IsSeq(Piece(added, c, l)) /\ Len(Piece(added, c, l)) \in Nat \ {0}
    BY <1>1, <1>2, PieceShape DEF BuilderOK
  <2>5. cells = Block(Piece(added, c, l))
    <3>1. Last(cells) = Checksum(Front(Block(Piece(added, c, l))))
      BY <1>4, <2>3 DEF CrcOf
    <3> HIDE DEF cells
    <3> QED BY <1>4, <1>6, <2>4, <3>1, CrcNamesBlock
  <2>6. KeysOf(cells) = Piece(added, c, l)
    <3>1. Len(Piece(added, c, l)) > 0
      BY <2>4
    <3>2. KeysOf(Block(Piece(added, c, l))) = Piece(added, c, l)
      BY <2>4, <3>1, BlockKeys
    <3> QED BY <2>5, <3>2
  <2>7. ASSUME builder.failed <= SmallestBlock PROVE l = i
    <3>1. /\ gained \in Nat /\ lost \in Nat /\ b.failed \in Nat /\ gained = lost
          /\ lost <= b.failed /\ (gained > 0 => lost + 1 <= b.failed)
      <4>1. /\ gained \in Nat /\ lost \in Nat /\ b.failed \in Nat /\ Len(b.file) \in Nat
            /\ Len(b.file) + lost = b.size + gained
            /\ lost <= b.failed /\ (gained > 0 => lost + 1 <= b.failed)
        BY <1>2, CellFacts DEF BuilderOK
      <4> QED BY <1>2, <4>1
    <3>2. b.failed <= 5
      BY <1>2, <2>7, FinishedFile DEF SmallestBlock
    <3>3. gained < 5 /\ lost < 5
      BY <3>1, <3>2
    <3>4. e[l] <= e[i] + lost /\ e[i] <= e[l] + gained
      BY <2>3 DEF CrcOf
    <3>5. l \in 0..Len(b.infos) /\ i \in 0..Len(b.infos) /\ l \in Nat /\ i \in Nat
      BY <1>1
    <3>6. e[l] \in Nat /\ e[i] \in Nat /\ (l < i => e[l] + 5 <= e[i]) /\ (i < l => e[i] + 5 <= e[l])
      BY <1>2, <3>5 DEF BuilderOK, CutsOK, SmallestBlock
    <3>7. ~(l < i) /\ ~(i < l)
      BY <3>1, <3>3, <3>4, <3>6
    <3> QED BY <3>5, <3>7
  <2> QED BY <2>5, <2>6, <2>7
<1> QED BY <1>1, <1>4, <1>5, <1>6, <1>7

\* What a call of Get may have found.
Answered(it) ==
  LET held == it.target \in ToSet(Stored)
  IN  /\ it.answer = "value" => held
      /\ it.answer = "notFound" /\ builder.failed <= SmallestBlock => ~held
      /\ it.answer \in {"corruption", "ioError"} => builder.failed > 1
      /\ it.answer # "undefined"

LEMMA FailedIsNat ==
  ASSUME NEW b, NEW c, NEW e, NEW gained, NEW lost, TableOK(b, c, e, gained, lost)
  PROVE  builder.failed \in Nat
<1>1. builder.failed = b.failed
  BY FinishedFile DEF TableOK
<1>2. b.failed \in Nat
  BY CellFacts DEF TableOK, BuilderOK
<1> QED BY <1>1, <1>2

\* What Get makes of the block it was led to is no lie.
LEMMA LookupAnswers ==
  ASSUME NEW b, NEW c, NEW e, NEW gained, NEW lost, TableOK(b, c, e, gained, lost),
         NEW it, it.target \in Nat, Towards(it.target, it.block),
         filePos = index[it.block].offset, it.answer = Lookup(index[it.block].size, it.target)
  PROVE  Answered(it)
<1> DEFINE n == Len(index)
           i == it.block
           k == it.target
           cells == ReadAt(builder.file, filePos, index[i].size)
           answer == Lookup(index[i].size, k)
<1>1. i \in 1..n
  BY DEF Towards
<1>2. /\ Inside(builder.file, filePos, index[i].size)
      /\ Len(cells) = index[i].size /\ index[i].size \in Nat
      /\ index[i].size >= SmallestBlock
      /\ builder.failed <= 1 => CrcMatches(cells)
      /\ CrcMatches(cells) =>
           \E l \in 1..n : /\ cells = Block(Piece(added, c, l))
                           /\ KeysOf(cells) = Piece(added, c, l)
                           /\ builder.failed <= SmallestBlock => l = i
  BY <1>1, BlockRead
<1>9. ~(index[i].size < SmallestTrailer)
  BY <1>2 DEF SmallestBlock, SmallestTrailer
<1>10. CrcMatches(cells) => HasForm(index[i].size)
  <2>1. SUFFICES ASSUME CrcMatches(cells) PROVE HasForm(index[i].size)
    OBVIOUS
  <2>2. PICK l \in 1..n : cells = Block(Piece(added, c, l))
    BY <1>2, <2>1
  <2>3. Len(Piece(added, c, l)) \in Nat \ {0}
    BY PieceShape, IndexFacts DEF TableOK, BuilderOK
  <2>4. /\ cells[Len(cells) - 1][1] = "count"
        /\ cells[Len(cells) - 1][2] <= Len(cells) - SmallestTrailer
        /\ \A q \in DOMAIN Entries(cells) :
             Entries(cells)[q][1] = IF q % 2 = 1 THEN "key" ELSE "value"
    BY <2>2, <2>3, BlockForm
  <2> QED BY <1>2, <2>4 DEF HasForm
<1>3. answer = IF ~CrcMatches(cells) THEN "corruption"
               ELSE IF k \in ToSet(KeysOf(cells)) THEN "value" ELSE "notFound"
  BY <1>2, <1>9, <1>10 DEF Lookup, KeysRead
<1>4. ~CrcMatches(cells) => builder.failed > 1
  BY <1>2, FailedIsNat
<1>5. DOMAIN Stored = 1..c[n] /\ \A j \in 1..c[n] : Stored[j] = added[j]
  BY StoredFacts
<1>6. ASSUME CrcMatches(cells), k \in ToSet(KeysOf(cells)) PROVE k \in ToSet(Stored)
  <2>1. PICK l \in 1..n : KeysOf(cells) = Piece(added, c, l)
    BY <1>2, <1>6
  <2>2. /\ c[l - 1] \in Nat /\ c[l] \in Nat /\ c[l] <= c[n] /\ c[n] \in Nat
        /\ DOMAIN Piece(added, c, l) = 1..c[l] - c[l - 1]
        /\ \A j \in 1..c[l] - c[l - 1] : Piece(added, c, l)[j] = added[c[l - 1] + j]
    BY PieceFacts
  <2>3. PICK j \in 1..c[l] - c[l - 1] : Piece(added, c, l)[j] = k
    BY <1>6, <2>1, <2>2 DEF ToSet
  <2>4. c[l - 1] + j \in 1..c[n] /\ added[c[l - 1] + j] = k
    BY <2>2, <2>3
  <2>5. Stored[c[l - 1] + j] = k
    BY <1>5, <2>4
  <2> QED BY <1>5, <2>4, <2>5 DEF ToSet
<1>7. ASSUME CrcMatches(cells), k \notin ToSet(KeysOf(cells)), builder.failed <= SmallestBlock,
             k \in ToSet(Stored)
      PROVE  FALSE
  <2>1. KeysOf(cells) = Piece(added, c, i)
    BY <1>2, <1>7
  <2>2. PICK j \in 1..c[n] : added[j] = k
    BY <1>5, <1>7 DEF ToSet
  <2>3. c[i - 1] < j /\ j <= c[i]
    BY <2>2, TowardsHolds
  <2>4. /\ c[i - 1] \in Nat /\ c[i] \in Nat
        /\ DOMAIN Piece(added, c, i) = 1..c[i] - c[i - 1]
        /\ \A q \in 1..c[i] - c[i - 1] : Piece(added, c, i)[q] = added[c[i - 1] + q]
    BY <1>1, PieceFacts, SMTT(30)
  <2>5. PICK q \in 1..c[i] - c[i - 1] : c[i - 1] + q = j
    <3>1. PICK from, to \in Nat : from = c[i - 1] /\ to = c[i]
      BY <2>4
    <3>2. j - from \in 1..to - from /\ from + (j - from) = j
      BY <2>3, <3>1
    <3> QED BY <3>1, <3>2
  <2>6. Piece(added, c, i)[q] = k
    BY <2>2, <2>4, <2>5
  <2>7. k \in ToSet(Piece(added, c, i))
    BY <2>4, <2>5, <2>6 DEF ToSet
  <2> QED BY <1>7, <2>1, <2>7
<1> HIDE DEF answer
<1>8. it.answer = answer
  BY DEF answer
<1> HIDE DEF cells
<1> QED BY <1>3, <1>4, <1>6, <1>7, <1>8 DEF Answered

\* Without the block: the filter lacks the key, or there is no block.
LEMMA NotInFilter ==
  ASSUME NEW b, NEW c, NEW e, NEW gained, NEW lost, TableOK(b, c, e, gained, lost),
         NEW k, MayDeny(k) \/ index = <<>>
  PROVE  k \notin ToSet(Stored)
<1>1. SUFFICES ASSUME k \in ToSet(Stored) PROVE FALSE
  OBVIOUS
<1>2. PICK j \in 1..c[Len(index)] : added[j] = k
  BY <1>1, StoredFacts DEF ToSet
<1>3. CutsOfIndex(c) /\ KeysOK(added) /\ (index = <<>> <=> Len(index) = 0)
  BY IndexFacts
<1>4. index # <<>>
  BY <1>2, <1>3 DEF CutsOfIndex
<1>5. j \in 1..Len(added) /\ DOMAIN added = 1..Len(added)
  <2>1. Len(index) \in 0..Len(index) /\ Len(added) \in Nat
    BY <1>3, IndexFacts DEF CutsOfIndex
  <2>2. c[Len(index)] \in Nat /\ c[Len(index)] <= Len(added)
    BY <1>3, <2>1 DEF CutsOfIndex
  <2>3. DOMAIN added = 1..Len(added)
    BY <1>3, Shape DEF KeysOK
  <2> QED BY <2>1, <2>2, <2>3
<1>6. k \in ToSet(added)
  BY <1>2, <1>5 DEF ToSet
<1>7. filter = {ToSet(added)}
  BY DEF TableOK
<1> QED BY <1>4, <1>6, <1>7 DEF MayDeny

-----------------------------------------------------------------------------
(* Readers *)

\* it has the fields of a reader.
IsReader(it) ==
  it = [op |-> it.op, target |-> it.target, block |-> it.block, records |-> it.records,
        at |-> it.at, want |-> it.want, answer |-> it.answer]

\* What a thread that reads a block wants of it.
Sought(it, c) ==
  \/ /\ it.op \in {"get", "seek"} /\ it.target \in Nat /\ Towards(it.target, it.block)
     /\ it.op = "seek" => it.want = Wanted(it.target)
  \/ /\ it.op = "first" /\ it.block \in 1..Len(index)
     /\ builder.failed <= 1 => it.want = c[it.block - 1] + 1

\* Where an iterator is.
Placed(it, c) ==
  /\ it.at # 0 => it.block \in 1..Len(index)
  /\ builder.failed <= 1 =>
       \/ it.at = 0 /\ it.want \in Nat /\ it.want > c[Len(index)]
       \/ /\ it.at # 0 /\ it.records = Piece(added, c, it.block)
          /\ it.at \in 1..c[it.block] - c[it.block - 1] /\ it.want = c[it.block - 1] + it.at

\* A reader at a stage of its call.
ReaderOK(it, stage, c) ==
  /\ IsReader(it)
  /\ stage \in {"lock", "seek", "read"} => Sought(it, c)
  /\ stage = "on" => Placed(it, c)
  /\ stage = "answered" => Answered(it)

\* If the stored keys below k are the first p, Seek wants the next.
LEMMA WantedIs ==
  ASSUME NEW b, NEW c, NEW e, NEW gained, NEW lost, TableOK(b, c, e, gained, lost),
         NEW k, NEW p \in Nat, p <= c[Len(index)], c[Len(index)] \in Nat,
         \A j \in 1..c[Len(index)] : added[j] < k <=> j <= p
  PROVE  Wanted(k) = p + 1
<1> DEFINE m == c[Len(index)]
<1>1. DOMAIN Stored = 1..m /\ \A j \in 1..m : Stored[j] = added[j]
  BY StoredFacts
<1>2. {i \in DOMAIN Stored : Stored[i] < k} = {i \in 1..m : i <= p}
  BY <1>1
<1> HIDE DEF m
<1>3. m \in Nat /\ p <= m
  BY DEF m
<1>4. {i \in 1..m : i <= p} = 1..p
  BY <1>3
<1>5. Cardinality(1..p) = p
  <2>1. 1 \in Int /\ p \in Int
    OBVIOUS
  <2>2. Cardinality(1..p) = IF 1 > p THEN 0 ELSE p - 1 + 1
    BY <2>1, FS_Interval
  <2> QED BY <2>2
<1> QED BY <1>2, <1>4, <1>5 DEF Wanted

LEMMA Minimum ==
  ASSUME NEW S \in SUBSET Nat, S # {}
  PROVE  Min(S) \in S /\ \A x \in S : Min(S) <= x
<1>1. \E m \in S : \A k \in S : m <= k
  BY Least
<1> QED BY <1>1 DEF Min

\* The keys ascend from one block to the next.
LEMMA AcrossPieces ==
  ASSUME NEW b, NEW c, NEW e, NEW gained, NEW lost, TableOK(b, c, e, gained, lost),
         NEW i \in 1..Len(index), NEW k \in Nat, Towards(k, i)
  PROVE  /\ \A j \in 1..c[Len(index)] : j <= c[i - 1] => added[j] < k
         /\ i < Len(index) => ~(added[c[i]] < k)
<1> DEFINE n == Len(index)
<1>1. CutsOfIndex(c) /\ KeysOK(added)
  BY IndexFacts
<1>2. i < n => ~(added[c[i]] < k)
  BY <1>1 DEF CutsOfIndex, Towards, Before
<1>3. ASSUME NEW j \in 1..c[n], j <= c[i - 1] PROVE added[j] < k
  <2>1. c[i - 1] \in Nat /\ c[n] \in Nat /\ c[n] <= Len(added) /\ c[i - 1] < c[i] /\ c[i] <= c[n]
        /\ c[i] \in Nat
    BY PieceFacts
  <2>2. i # 1
    BY <1>1, <1>3, <2>1 DEF CutsOfIndex
  <2>3. i - 1 \in 1..n /\ i - 1 < i
    BY <2>2
  <2>4. added[c[i - 1]] < k
    BY <1>1, <2>3 DEF CutsOfIndex, Towards, Before
  <2>5. j \in 1..Len(added) /\ c[i - 1] \in 1..Len(added)
    <3>1. Len(added) \in Nat
      BY IndexFacts
    <3> HIDE DEF n
    <3>2. PICK from, to, last \in Nat : from = c[i - 1] /\ to = c[i] /\ last = c[n]
      BY <2>1
    <3>3. j \in Nat /\ 1 <= j /\ j <= from /\ from < to /\ to <= last /\ last <= Len(added)
      BY <1>3, <2>1, <3>2
    <3>4. j \in 1..Len(added) /\ from \in 1..Len(added)
      BY <3>1, <3>2, <3>3
    <3> QED BY <3>2, <3>4
  <2>6. added[j] \in Nat /\ added[c[i - 1]] \in Nat /\ (j < c[i - 1] => added[j] < added[c[i - 1]])
    BY <1>1, <2>5 DEF KeysOK
  <2>7. j = c[i - 1] \/ j < c[i - 1]
    BY <1>3, <2>1
  <2> QED BY <2>4, <2>6, <2>7
<1> QED BY <1>2, <1>3

\* An iterator that finds in its block what it came for stands where it should.
LEMMA ScanFinds ==
  ASSUME NEW b, NEW c, NEW e, NEW gained, NEW lost, TableOK(b, c, e, gained, lost),
         NEW it, it.op \in {"first", "seek"}, Sought(it, c), builder.failed <= 1,
         NEW ks, ks = Piece(added, c, it.block), Reaches(it, ks) # {}
  PROVE  /\ Min(Reaches(it, ks)) \in 1..c[it.block] - c[it.block - 1]
         /\ it.want = c[it.block - 1] + Min(Reaches(it, ks))
<1> DEFINE i == it.block
           n == Len(index)
           S == Reaches(it, ks)
           m == Min(S)
           d == c[i] - c[i - 1]
<1>1. i \in 1..n
  BY DEF Sought, Towards
<1>2. /\ c[i - 1] \in Nat /\ c[i] \in Nat /\ c[i - 1] < c[i] /\ c[i] <= c[n] /\ c[n] \in Nat
      /\ c[n] <= Len(added) /\ DOMAIN ks = 1..d /\ \A j \in 1..d : ks[j] = added[c[i - 1] + j]
  BY <1>1, PieceFacts, SMTT(30)
<1>3. S \in SUBSET Nat /\ S = {j \in 1..d : it.op = "first" \/ ks[j] >= it.target}
  BY <1>2 DEF Reaches
<1>4. m \in S /\ \A x \in S : m <= x
  <2> HIDE DEF S
  <2>1. S # {}
    BY DEF S
  <2> QED BY <1>3, <2>1, Minimum
<1>5. m \in 1..d
  BY <1>3, <1>4
<1>6. CASE it.op = "first"
  <2>1. 1 \in S
    BY <1>2, <1>3, <1>6
  <2>2. m = 1
    <3> HIDE DEF S, m, d
    <3>1. m <= 1 /\ m >= 1 /\ m \in Nat
      BY <1>4, <1>5, <2>1, <1>2 DEF d
    <3> QED BY <3>1
  <2>3. it.want = c[i - 1] + 1
    BY <1>6 DEF Sought
  <2> QED BY <1>5, <2>2, <2>3
<1>7. CASE it.op = "seek"
  <2> DEFINE k == it.target
  <2>1. k \in Nat /\ Towards(k, i) /\ it.want = Wanted(k)
    BY <1>7 DEF Sought
  <2>2. KeysOK(added) /\ Len(added) \in Nat
    BY IndexFacts
  <2> HIDE DEF S, m, d, k
  <2>3. PICK from, to, last \in Nat : from = c[i - 1] /\ to = c[i] /\ last = c[n]
    BY <1>2
  <2>4. /\ from < to /\ to <= last /\ last <= Len(added) /\ d = to - from
        /\ m \in 1..d /\ m \in Nat
    BY <1>2, <1>5, <2>3 DEF d
  <2>5. from + m \in 1..Len(added) /\ from + m \in 1..last
    BY <2>2, <2>3, <2>4, SMTT(30)
  <2>6. ks[m] = added[from + m] /\ ks[m] >= k
    <3>1. ks[m] = added[from + m]
      BY <1>2, <1>5, <2>3 DEF d
    <3>2. ks[m] >= k
      BY <1>3, <1>4, <1>7 DEF k
    <3> QED BY <3>1, <3>2
  <2>7. ASSUME NEW j \in 1..last PROVE added[j] < k <=> j < from + m
    <3>1. j \in 1..Len(added) /\ added[j] \in Nat /\ added[from + m] \in Nat
      <4>1. j \in 1..Len(added)
        BY <2>2, <2>3, <2>4
      <4> QED BY <2>2, <2>5, <4>1 DEF KeysOK
    <3>2. CASE j <= from
      <4>1. added[j] < k
        BY <1>1, <2>1, <2>3, <3>2, AcrossPieces
      <4>2. j < from + m
        BY <2>3, <2>4, <3>2
      <4> QED BY <4>1, <4>2
    <3>3. CASE j > from /\ j < from + m
      <4>1. PICK q \in 1..d : j = from + q /\ q < m
        <5>1. PICK q \in Nat : j = from + q
          <6>1. j - from \in Nat /\ j = from + (j - from)
            BY <2>3, <3>3
          <6> QED BY <6>1
        <5>2. q < m /\ q >= 1
          BY <2>3, <2>4, <3>3, <5>1
        <5>3. q \in 1..d
          BY <2>3, <2>4, <5>2
        <5> QED BY <5>1, <5>2, <5>3
      <4>2. q \notin S
        BY <1>4, <2>4, <4>1
      <4>3. ~(ks[q] >= k) /\ ks[q] = added[j]
        <5>1. ~(ks[q] >= k)
          BY <1>3, <4>1, <4>2 DEF k
        <5>2. ks[q] = added[from + q]
          BY <1>2, <2>3, <4>1 DEF d
        <5> QED BY <4>1, <5>1, <5>2
      <4> QED BY <2>1, <3>1, <3>3, <4>3
    <3>4. CASE j >= from + m
      <4>1. j = from + m \/ from + m < j
        BY <2>3, <2>4, <3>4
      <4>2. from + m < j => added[from + m] < added[j]
        BY <2>2, <2>5, <3>1 DEF KeysOK
      <4>3. added[from + m] >= k
        BY <2>6
      <4>4. ~(added[j] < k)
        BY <2>1, <3>1, <4>1, <4>2, <4>3
      <4>5. ~(j < from + m)
        BY <2>3, <2>4, <3>4
      <4> QED BY <4>4, <4>5
    <3> QED BY <2>3, <2>4, <3>2, <3>3, <3>4
  <2>8. PICK p \in Nat : p + 1 = from + m
    <3>1. from + m - 1 \in Nat /\ from + m - 1 + 1 = from + m
      BY <2>3, <2>4, SMTT(30)
    <3> QED BY <3>1
  <2>9. p <= last /\ \A j \in 1..last : added[j] < k <=> j <= p
    <3>1. ASSUME NEW j \in 1..last PROVE j < from + m <=> j <= p
      BY <2>8
    <3>2. p <= last
      BY <2>5, <2>8
    <3> QED BY <2>7, <3>1, <3>2
  <2>10. Wanted(k) = p + 1
    <3>1. p <= c[n] /\ c[n] \in Nat /\ \A j \in 1..c[n] : added[j] < k <=> j <= p
      BY <2>3, <2>9
    <3> QED BY <3>1, WantedIs
  <2>11. it.want = c[i - 1] + m
    BY <2>1, <2>3, <2>8, <2>10
  <2> QED BY <1>5, <2>11 DEF m, S, d
<1> QED BY <1>6, <1>7

\* One that does not is behind the last record.
LEMMA ScanEnds ==
  ASSUME NEW b, NEW c, NEW e, NEW gained, NEW lost, TableOK(b, c, e, gained, lost),
         NEW it, it.op \in {"first", "seek"}, Sought(it, c), builder.failed <= 1,
         NEW ks, ks = Piece(added, c, it.block), Reaches(it, ks) = {}
  PROVE  it.block = Len(index) /\ it.want \in Nat /\ it.want > c[Len(index)]
<1> DEFINE i == it.block
           n == Len(index)
           d == c[i] - c[i - 1]
           k == it.target
<1>1. i \in 1..n
  BY DEF Sought, Towards
<1>2. /\ c[i - 1] \in Nat /\ c[i] \in Nat /\ c[i - 1] < c[i] /\ c[i] <= c[n] /\ c[n] \in Nat
      /\ c[n] <= Len(added) /\ DOMAIN ks = 1..d /\ \A j \in 1..d : ks[j] = added[c[i - 1] + j]
  BY <1>1, PieceFacts
<1>3. 1 \in 1..d /\ d \in 1..d /\ c[i - 1] + d = c[i]
  BY <1>2
<1>4. it.op = "seek" /\ \A j \in 1..d : ~(ks[j] >= k)
  BY <1>2, <1>3 DEF Reaches
<1>5. k \in Nat /\ Towards(k, i) /\ it.want = Wanted(k)
  BY <1>4 DEF Sought
<1>6. KeysOK(added) /\ Len(added) \in Nat
  BY IndexFacts
<1> HIDE DEF d, k
<1>7. \A j \in 1..d : added[c[i - 1] + j] < k
  <2>1. ASSUME NEW j \in 1..d PROVE added[c[i - 1] + j] < k
    <3>1. ~(ks[j] >= k) /\ ks[j] = added[c[i - 1] + j]
      BY <1>2, <1>4 DEF d
    <3>2. c[i - 1] + j \in 1..Len(added)
      <4>1. PICK from, to, last \in Nat : from = c[i - 1] /\ to = c[i] /\ last = c[n]
        BY <1>2
      <4>2. from + j \in 1..Len(added)
        BY <1>2, <1>6, <4>1 DEF d
      <4> QED BY <4>1, <4>2
    <3>3. added[c[i - 1] + j] \in Nat
      BY <1>6, <3>2 DEF KeysOK
    <3> QED BY <1>5, <3>1, <3>3
  <2> QED BY <2>1
<1>8. i = n
  <2>1. added[c[i]] < k
    <3>1. added[c[i - 1] + d] < k
      BY <1>3, <1>7 DEF d
    <3> QED BY <1>3, <3>1 DEF d
  <2>2. ~(i < n)
    BY <1>1, <1>5, <2>1, AcrossPieces
  <2>3. n \in Nat
    BY IndexFacts DEF CutsOfIndex
  <2> QED BY <1>1, <2>2, <2>3
<1>9. ASSUME NEW j \in 1..c[n] PROVE added[j] < k <=> j <= c[n]
  <2>1. j <= c[n]
    BY <1>2
  <2>2. added[j] < k
    <3>1. CASE j <= c[i - 1]
      BY <1>1, <1>5, <3>1, AcrossPieces
    <3>2. CASE j > c[i - 1]
      <4>1. PICK from, last \in Nat : from = c[i - 1] /\ last = c[n] /\ d = last - from
        BY <1>2, <1>8 DEF d
      <4>2. j - from \in 1..d /\ from + (j - from) = j
        BY <3>2, <4>1, SMTT(30)
      <4>3. added[from + (j - from)] < k
        BY <1>7, <4>1, <4>2
      <4> QED BY <4>2, <4>3
    <3> QED BY <1>2, <3>1, <3>2
  <2> QED BY <2>1, <2>2
<1>10. Wanted(k) = c[n] + 1
  <2>1. c[n] <= c[n] /\ c[n] \in Nat
    BY <1>2
  <2> QED BY <1>9, <2>1, WantedIs
<1> QED BY <1>2, <1>5, <1>8, <1>10

\* While the table is open with its own index, every reader is where its call should
\* have led it.
TableInv ==
  /\ ~IsOpen => \A r \in Readers : IsReader(reader[r])
  /\ open = "yes" =>
       \E b, c, e, gained, lost :
         /\ TableOK(b, c, e, gained, lost)
         /\ \A r \in Readers : ReaderOK(reader[r], pc[r], c)

\* Nothing of this depends on what the other readers do.
LEMMA SameTable ==
  ASSUME NEW b, NEW c, NEW e, NEW gained, NEW lost, TableOK(b, c, e, gained, lost),
         UNCHANGED <<fileVars, tableVars>>
  PROVE  TableOK(b, c, e, gained, lost)'
BY DEF TableOK, Finished, fileVars, tableVars

LEMMA SameReader ==
  ASSUME NEW it, NEW stage, NEW c, ReaderOK(it, stage, c), UNCHANGED <<fileVars, tableVars>>
  PROVE  ReaderOK(it, stage, c)'
<1>1. UNCHANGED <<builder, added, index, open>>
  BY DEF fileVars, tableVars
<1>2. Sought(it, c) => Sought(it, c)'
  BY <1>1 DEF Sought, Towards, Before, Wanted, Stored
<1>3. Placed(it, c) => Placed(it, c)'
  BY <1>1 DEF Placed, Piece
<1>4. Answered(it) => Answered(it)'
  BY <1>1 DEF Answered, Stored
<1> QED BY <1>2, <1>3, <1>4 DEF ReaderOK

\* A step of a reader to a good state keeps the others where they are.
LEMMA StepInv ==
  ASSUME TableInv, open = "yes", NEW r \in Readers, NEW to, NEW after,
         pc'[r] = to /\ reader'[r] = after,
         \A s \in Readers : s # r => pc'[s] = pc[s] /\ reader'[s] = reader[s],
         UNCHANGED <<fileVars, tableVars>>, IsReader(after),
         \A b, c, e, gained, lost :
           TableOK(b, c, e, gained, lost) /\ ReaderOK(reader[r], pc[r], c) => ReaderOK(after, to, c)
  PROVE  TableInv'
<1>1. PICK b, c, e, gained, lost : /\ TableOK(b, c, e, gained, lost)
                                   /\ \A s \in Readers : ReaderOK(reader[s], pc[s], c)
  BY DEF TableInv
<1>2. TableOK(b, c, e, gained, lost)'
  BY <1>1, SameTable
<1>3. ASSUME NEW s \in Readers
      PROVE  IsReader(reader'[s]) /\ ReaderOK(reader[s], pc[s], c)'
  <2>1. CASE s = r
    <3>1. ReaderOK(after, to, c)
      BY <1>1
    <3>2. ReaderOK(after, to, c)'
      BY <3>1, SameReader
    <3> QED BY <2>1, <3>2 DEF ReaderOK, Sought, Placed, Answered
  <2>2. CASE s # r
    <3>1. PICK it, stage : it = reader[s] /\ stage = pc[s]
      OBVIOUS
    <3>2. ReaderOK(it, stage, c)
      BY <1>1, <3>1
    <3>3. ReaderOK(it, stage, c)'
      BY <3>2, SameReader
    <3>4. reader'[s] = it /\ pc'[s] = stage
      BY <2>2, <3>1
    <3>5. IsReader(it)
      BY <3>2 DEF ReaderOK
    <3> QED BY <3>3, <3>4, <3>5 DEF ReaderOK, Sought, Placed, Answered
  <2> QED BY <2>1, <2>2
<1>4. open' = "yes"
  BY DEF tableVars
<1> QED BY <1>2, <1>3, <1>4 DEF TableInv, IsOpen

\* A call, the same.
LEMMA CallTableInv ==
  ASSUME TableInv, IInv, open = "yes", NEW r \in Readers, NEW to, NEW after,
         Call(r, to, after), IsReader(after),
         \A b, c, e, gained, lost :
           TableOK(b, c, e, gained, lost) /\ ReaderOK(reader[r], pc[r], c) => ReaderOK(after, to, c)
  PROVE  TableInv'
<1>1. /\ pc' = [pc EXCEPT ![r] = to] /\ reader' = [reader EXCEPT ![r] = after]
      /\ UNCHANGED <<fileVars, tableVars>>
  BY DEF Call, Go, Become
<1>2. DOMAIN pc = Readers /\ DOMAIN reader = Readers
  BY DEF IInv, LockInv
<1>3. /\ pc'[r] = to /\ reader'[r] = after
      /\ \A s \in Readers : s # r => pc'[s] = pc[s] /\ reader'[s] = reader[s]
  BY <1>1, <1>2
<1> QED BY <1>1, <1>3, StepInv

-----------------------------------------------------------------------------
(* The calls *)

LEMMA KeysAreNat == \A k \in Keys : k \in Nat
BY FileAssumption

\* Get, with or without a block to read.
LEMMA GetTableInv ==
  ASSUME TableInv, IInv, open = "yes", NEW r \in Readers, NEW k \in Keys, Get(r, k)
  PROVE  TableInv'
<1>1. k \in Nat
  BY KeysAreNat
<1>2. CASE (MayDeny(k) \/ index = <<>>)
           /\ Call(r, "answered", [NoReader EXCEPT !.op = "get", !.target = k, !.answer = "notFound"])
  <2>1. PICK it : it = [NoReader EXCEPT !.op = "get", !.target = k, !.answer = "notFound"]
    OBVIOUS
  <2>2. IsReader(it) /\ it.target = k /\ it.answer = "notFound"
    BY <2>1 DEF NoReader, IsReader
  <2>3. ASSUME NEW b, NEW c, NEW e, NEW gained, NEW lost, TableOK(b, c, e, gained, lost)
        PROVE  ReaderOK(it, "answered", c)
    <3>1. k \notin ToSet(Stored)
      BY <1>2, <2>3, NotInFilter
    <3> QED BY <2>2, <3>1 DEF ReaderOK, Answered
  <2> QED BY <1>1, <1>2, <2>1, <2>2, <2>3, CallTableInv
<1>3. CASE index # <<>>
           /\ Call(r, "lock", [NoReader EXCEPT !.op = "get", !.target = k, !.block = Bisect(k)])
  <2>1. PICK it : it = [NoReader EXCEPT !.op = "get", !.target = k, !.block = Bisect(k)]
    OBVIOUS
  <2>2. IsReader(it) /\ it.target = k /\ it.op = "get" /\ it.block = Bisect(k)
    BY <2>1 DEF NoReader, IsReader
  <2>3. ASSUME NEW b, NEW c, NEW e, NEW gained, NEW lost, TableOK(b, c, e, gained, lost)
        PROVE  ReaderOK(it, "lock", c)
    <3>1. Ascending /\ Len(index) \in Nat \ {0}
      BY <1>3, <2>3, IndexFacts DEF CutsOfIndex
    <3>2. Towards(k, Bisect(k))
      BY <1>1, <3>1, BisectLeads
    <3> QED BY <1>1, <2>2, <3>2 DEF ReaderOK, Sought
  <2> QED BY <1>1, <1>3, <2>1, <2>2, <2>3, CallTableInv
<1>4. \/ /\ MayDeny(k) \/ index = <<>>
         /\ Call(r, "answered", [NoReader EXCEPT !.op = "get", !.target = k, !.answer = "notFound"])
      \/ /\ index # <<>>
         /\ Call(r, "lock", [NoReader EXCEPT !.op = "get", !.target = k, !.block = Bisect(k)])
  BY DEF Get
<1> QED BY <1>2, <1>3, <1>4

\* An iterator that goes to the first record, or has none to go to.
LEMMA FirstTableInv ==
  ASSUME TableInv, IInv, NEW r \in Readers, open = "yes", NEW it, IsReader(it), it.want = 1,
         \/ index = <<>> /\ it.at = 0 /\ Call(r, "on", it)
         \/ index # <<>> /\ it.op = "first" /\ it.block = 1 /\ Call(r, "lock", it)
  PROVE  TableInv'
<1>1. CASE index = <<>> /\ it.at = 0 /\ Call(r, "on", it)
  <2>1. ASSUME NEW b, NEW c, NEW e, NEW gained, NEW lost, TableOK(b, c, e, gained, lost)
        PROVE  ReaderOK(it, "on", c)
    <3>1. c[Len(index)] = 0
      BY <1>1, <2>1, IndexFacts DEF CutsOfIndex
    <3> QED BY <1>1, <3>1 DEF ReaderOK, Placed
  <2> QED BY <1>1, <2>1, CallTableInv
<1>2. CASE index # <<>> /\ it.op = "first" /\ it.block = 1 /\ Call(r, "lock", it)
  <2>1. ASSUME NEW b, NEW c, NEW e, NEW gained, NEW lost, TableOK(b, c, e, gained, lost)
        PROVE  ReaderOK(it, "lock", c)
    <3>1. Len(index) \in Nat /\ Len(index) # 0 /\ c[0] = 0
      BY <1>2, <2>1, IndexFacts DEF CutsOfIndex
    <3>2. it.block \in 1..Len(index) /\ it.want = c[it.block - 1] + 1
      BY <1>2, <3>1
    <3> QED BY <1>2, <3>2 DEF ReaderOK, Sought
  <2> QED BY <1>2, <2>1, CallTableInv
<1> QED BY <1>1, <1>2

LEMMA NewIteratorTableInv ==
  ASSUME TableInv, IInv, open = "yes", NEW r \in Readers, NewIterator(r)
  PROVE  TableInv'
<1>1. PICK it : it = [NoReader EXCEPT !.op = "first", !.block = 1, !.want = 1]
  OBVIOUS
<1>2. IsReader(it) /\ it.op = "first" /\ it.block = 1 /\ it.want = 1 /\ it.at = 0
  BY <1>1 DEF NoReader, IsReader
<1>3. \/ index = <<>> /\ Call(r, "on", it)
      \/ index # <<>> /\ Call(r, "lock", it)
  <2>1. \/ /\ index = <<>>
           /\ Call(r, "on", [NoReader EXCEPT !.op = "first", !.block = 1, !.want = 1])
        \/ /\ index # <<>>
           /\ Call(r, "lock", [NoReader EXCEPT !.op = "first", !.block = 1, !.want = 1])
    BY DEF NewIterator
  <2> QED BY <1>1, <2>1
<1> QED BY <1>2, <1>3, FirstTableInv

LEMMA SeekToFirstTableInv ==
  ASSUME TableInv, IInv, open = "yes", NEW r \in Readers, SeekToFirst(r)
  PROVE  TableInv'
<1>1. PICK it : it = [reader[r] EXCEPT !.op = "first", !.block = 1, !.want = 1]
  OBVIOUS
<1>2. IsReader(reader[r])
  BY DEF TableInv, ReaderOK
<1>3. IsReader(it) /\ it.op = "first" /\ it.block = 1 /\ it.want = 1
  BY <1>1, <1>2 DEF IsReader
<1>4. index # <<>> /\ Call(r, "lock", it)
  BY <1>1 DEF SeekToFirst
<1> QED BY <1>3, <1>4, FirstTableInv

\* Seek goes to the block that the bisection leads to.
LEMMA SeekTableInv ==
  ASSUME TableInv, IInv, open = "yes", NEW r \in Readers, NEW k \in Keys, Seek(r, k)
  PROVE  TableInv'
<1>1. k \in Nat
  BY KeysAreNat
<1>3. IsReader(reader[r])
  BY DEF TableInv, ReaderOK
<1>4. PICK it : it = [reader[r] EXCEPT !.op = "seek", !.target = k, !.want = Wanted(k)]
  OBVIOUS
<1>5. IsReader(it) /\ it.op = "seek" /\ it.target = k /\ it.want = Wanted(k)
  BY <1>3, <1>4 DEF IsReader
<1>6. \/ index = <<>> /\ Call(r, "wild", it)
      \/ index # <<>> /\ Call(r, "lock", [it EXCEPT !.block = Bisect(k)])
  BY <1>4 DEF Seek
<1>7. CASE index = <<>> /\ Call(r, "wild", it)
  <2>1. \A c : ReaderOK(it, "wild", c)
    BY <1>5 DEF ReaderOK
  <2> QED BY <1>5, <1>7, <2>1, CallTableInv
<1>8. CASE index # <<>> /\ Call(r, "lock", [it EXCEPT !.block = Bisect(k)])
  <2>1. PICK to : to = [it EXCEPT !.block = Bisect(k)]
    OBVIOUS
  <2>2. /\ IsReader(to) /\ to.op = "seek" /\ to.target = k /\ to.want = Wanted(k)
        /\ to.block = Bisect(k)
    BY <1>5, <2>1 DEF IsReader
  <2>3. ASSUME NEW b, NEW c, NEW e, NEW gained, NEW lost, TableOK(b, c, e, gained, lost)
        PROVE  ReaderOK(to, "lock", c)
    <3>1. Ascending /\ Len(index) \in Nat \ {0}
      BY <1>8, <2>3, IndexFacts DEF CutsOfIndex
    <3>2. Towards(k, Bisect(k))
      BY <1>1, <3>1, BisectLeads
    <3> QED BY <1>1, <2>2, <3>2 DEF ReaderOK, Sought
  <2> QED BY <1>8, <2>1, <2>2, <2>3, CallTableInv
<1> QED BY <1>6, <1>7, <1>8

\* Next stays in the block, goes to the next one or ends.
LEMMA NextRecordTableInv ==
  ASSUME TableInv, IInv, open = "yes", NEW r \in Readers, NextRecord(r)
  PROVE  TableInv'
<1> DEFINE it == reader[r]
           d(c) == c[it.block] - c[it.block - 1]
<1>1. pc[r] = "on" /\ it.at # 0
  BY DEF NextRecord
<1>2. IsReader(it)
  BY DEF TableInv, ReaderOK
<1>3. PICK next : next = [it EXCEPT !.want = @ + 1]
  OBVIOUS
<1>4. /\ IsReader(next) /\ next.at = it.at /\ next.records = it.records /\ next.block = it.block
      /\ next.want = it.want + 1
  BY <1>2, <1>3 DEF IsReader
<1>5. \/ next.at # Len(next.records) /\ Call(r, "on", [next EXCEPT !.at = @ + 1])
      \/ next.at = Len(next.records) /\ MoreBlocks(next) /\ Call(r, "lock", NextBlock(next))
      \/ next.at = Len(next.records) /\ ~MoreBlocks(next) /\ Call(r, "on", AtEnd(next))
  BY <1>3 DEF NextRecord
<1>6. ASSUME NEW b, NEW c, NEW e, NEW gained, NEW lost, TableOK(b, c, e, gained, lost),
             ReaderOK(it, pc[r], c)
      PROVE  /\ it.block \in 1..Len(index) /\ Len(index) \in Nat
             /\ builder.failed <= 1 =>
                  /\ c[it.block - 1] \in Nat /\ c[it.block] \in Nat
                  /\ it.records = Piece(added, c, it.block) /\ Len(it.records) = d(c)
                  /\ it.at \in 1..d(c) /\ it.want = c[it.block - 1] + it.at
  <2>1. Placed(it, c)
    BY <1>1, <1>6 DEF ReaderOK
  <2>2. it.block \in 1..Len(index) /\ Len(index) \in Nat
    BY <1>1, <1>6, <2>1, IndexFacts DEF Placed, CutsOfIndex
  <2>3. /\ c[it.block - 1] \in Nat /\ c[it.block] \in Nat
        /\ Len(Piece(added, c, it.block)) = d(c)
    BY <1>6, <2>2, PieceFacts
  <2>4. builder.failed <= 1 =>
          /\ it.records = Piece(added, c, it.block)
          /\ it.at \in 1..d(c) /\ it.want = c[it.block - 1] + it.at
    BY <1>1, <2>1 DEF Placed
  <2> QED BY <2>2, <2>3, <2>4
<1> HIDE DEF it
<1>7. CASE next.at # Len(next.records) /\ Call(r, "on", [next EXCEPT !.at = @ + 1])
  <2>1. PICK after : after = [next EXCEPT !.at = @ + 1]
    OBVIOUS
  <2>2. /\ IsReader(after) /\ after.at = it.at + 1 /\ after.records = it.records
        /\ after.block = it.block /\ after.want = it.want + 1
    BY <1>4, <2>1 DEF IsReader
  <2>3. ASSUME NEW b, NEW c, NEW e, NEW gained, NEW lost, TableOK(b, c, e, gained, lost),
               ReaderOK(it, pc[r], c)
        PROVE  ReaderOK(after, "on", c)
    <3>1. after.block \in 1..Len(index)
      BY <1>6, <2>2, <2>3
    <3>2. ASSUME builder.failed <= 1
          PROVE  /\ after.at # 0 /\ after.records = Piece(added, c, after.block)
                 /\ after.at \in 1..c[after.block] - c[after.block - 1]
                 /\ after.want = c[after.block - 1] + after.at
      <4>1. /\ c[it.block - 1] \in Nat /\ c[it.block] \in Nat
            /\ it.records = Piece(added, c, it.block) /\ Len(it.records) = d(c)
            /\ it.at \in 1..d(c) /\ it.want = c[it.block - 1] + it.at
        BY <1>6, <2>3, <3>2
      <4>2. it.at # d(c)
        BY <1>4, <1>7, <4>1
      <4>3. PICK from, to \in Nat : from = c[it.block - 1] /\ to = c[it.block]
        BY <4>1
      <4>4. it.at + 1 \in 1..to - from /\ it.at + 1 # 0 /\ it.want + 1 = from + (it.at + 1)
        BY <4>1, <4>2, <4>3
      <4> QED BY <2>2, <4>1, <4>3, <4>4
    <3>3. Placed(after, c)
      BY <3>1, <3>2 DEF Placed
    <3> QED BY <2>2, <3>3 DEF ReaderOK
  <2> QED BY <1>2, <1>7, <2>1, <2>2, <2>3, CallTableInv DEF it
<1>8. CASE next.at = Len(next.records) /\ MoreBlocks(next) /\ Call(r, "lock", NextBlock(next))
  <2>1. PICK after : after = NextBlock(next)
    OBVIOUS
  <2>2. /\ IsReader(after) /\ after.op = "first"
        /\ after.block = it.block + 1 /\ after.want = it.want + 1
    BY <1>4, <2>1 DEF IsReader, NextBlock
  <2>3. ASSUME NEW b, NEW c, NEW e, NEW gained, NEW lost, TableOK(b, c, e, gained, lost),
               ReaderOK(it, pc[r], c)
        PROVE  ReaderOK(after, "lock", c)
    <3>1. it.block \in 1..Len(index) /\ it.block < Len(index) /\ Len(index) \in Nat
      BY <1>4, <1>6, <1>8, <2>3 DEF MoreBlocks
    <3>2. after.block \in 1..Len(index) /\ after.block - 1 = it.block
      BY <2>2, <3>1
    <3>3. ASSUME builder.failed <= 1 PROVE after.want = c[after.block - 1] + 1
      <4>1. /\ c[it.block - 1] \in Nat /\ c[it.block] \in Nat /\ Len(it.records) = d(c)
            /\ it.at \in 1..d(c) /\ it.want = c[it.block - 1] + it.at
        BY <1>6, <2>3, <3>3
      <4>2. it.at = d(c)
        BY <1>4, <1>8, <4>1
      <4>3. it.want = c[it.block]
        BY <4>1, <4>2
      <4> QED BY <2>2, <3>2, <4>3
    <3>4. Sought(after, c)
      BY <2>2, <3>2, <3>3 DEF Sought
    <3> QED BY <2>2, <3>4 DEF ReaderOK
  <2> QED BY <1>2, <1>8, <2>1, <2>2, <2>3, CallTableInv DEF it
<1>9. CASE next.at = Len(next.records) /\ ~MoreBlocks(next) /\ Call(r, "on", AtEnd(next))
  <2>1. PICK after : after = AtEnd(next)
    OBVIOUS
  <2>2. IsReader(after) /\ after.at = 0 /\ after.want = it.want + 1
    BY <1>4, <2>1 DEF IsReader, AtEnd
  <2>3. ASSUME NEW b, NEW c, NEW e, NEW gained, NEW lost, TableOK(b, c, e, gained, lost),
               ReaderOK(it, pc[r], c)
        PROVE  ReaderOK(after, "on", c)
    <3>1. it.block = Len(index)
      <4>1. it.block \in 1..Len(index) /\ ~(it.block < Len(index)) /\ Len(index) \in Nat
        BY <1>4, <1>6, <1>9, <2>3 DEF MoreBlocks
      <4> QED BY <4>1
    <3>2. ASSUME builder.failed <= 1 PROVE after.want \in Nat /\ after.want > c[Len(index)]
      <4>1. /\ c[it.block - 1] \in Nat /\ c[it.block] \in Nat /\ Len(it.records) = d(c)
            /\ it.at \in 1..d(c) /\ it.want = c[it.block - 1] + it.at
        BY <1>6, <2>3, <3>2
      <4>2. it.at = d(c)
        BY <1>4, <1>9, <4>1
      <4>3. it.want = c[it.block]
        BY <4>1, <4>2
      <4> QED BY <2>2, <3>1, <4>1, <4>3
    <3>3. Placed(after, c)
      BY <2>2, <3>2 DEF Placed
    <3> QED BY <2>2, <3>3 DEF ReaderOK
  <2> QED BY <1>2, <1>9, <2>1, <2>2, <2>3, CallTableInv DEF it
<1> QED BY <1>5, <1>7, <1>8, <1>9

LEMMA EndReadTableInv ==
  ASSUME TableInv, IInv, open = "yes", NEW r \in Readers, EndRead(r)
  PROVE  TableInv'
<1>1. pc[r] \in {"answered", "on", "wild"} /\ Call(r, "idle", NoReader)
  BY DEF EndRead
<1>3. IsReader(NoReader) /\ \A c : ReaderOK(NoReader, "idle", c)
  BY DEF IsReader, NoReader, ReaderOK
<1>4. PICK it : it = NoReader
  OBVIOUS
<1> QED BY <1>1, <1>3, <1>4, CallTableInv

LEMMA LockTableInv ==
  ASSUME TableInv, IInv, open = "yes", NEW r \in Readers, LockRead(r) \/ SeekFile(r)
  PROVE  TableInv'
<1>1. PICK to \in {"seek", "read"} : pc' = [pc EXCEPT ![r] = to]
  BY DEF LockRead, SeekFile, Go
<1>2. pc[r] \in {"lock", "seek"} /\ UNCHANGED <<fileVars, tableVars, reader>>
  BY DEF LockRead, SeekFile
<1>3. DOMAIN pc = Readers /\ IsReader(reader[r])
  BY DEF IInv, LockInv, TableInv, ReaderOK
<1>4. PICK it : it = reader[r]
  OBVIOUS
<1>5. \A c : ReaderOK(it, pc[r], c) => ReaderOK(it, to, c)
  BY <1>1, <1>2 DEF ReaderOK
<1>6. /\ pc'[r] = to /\ reader'[r] = it
      /\ \A s \in Readers : s # r => pc'[s] = pc[s] /\ reader'[s] = reader[s]
  BY <1>1, <1>2, <1>3, <1>4
<1> QED BY <1>2, <1>3, <1>4, <1>5, <1>6, StepInv

\* What an iterator makes of a block leaves it in a good state.
LEMMA ScanKeeps ==
  ASSUME NEW b, NEW c, NEW e, NEW gained, NEW lost, TableOK(b, c, e, gained, lost),
         NEW it, IsReader(it), it.op \in {"first", "seek"}, Sought(it, c),
         NEW ks, builder.failed <= 1 => ks = Piece(added, c, it.block),
         NEW loaded, loaded = [it EXCEPT !.records = ks]
  PROVE  /\ Reaches(it, ks) # {} => ReaderOK([loaded EXCEPT !.at = Min(Reaches(it, ks))], "on", c)
         /\ Reaches(it, ks) = {} /\ MoreBlocks(it) => ReaderOK(NextBlock(loaded), "lock", c)
         /\ Reaches(it, ks) = {} => ReaderOK(AtEnd(loaded), "on", c)
<1>1. /\ IsReader(loaded) /\ loaded.records = ks /\ loaded.block = it.block
      /\ loaded.want = it.want
  BY DEF IsReader
<1>2. it.block \in 1..Len(index) /\ Len(index) \in Nat
  BY IndexFacts DEF Sought, Towards, CutsOfIndex
<1>3. ASSUME Reaches(it, ks) # {}
      PROVE  ReaderOK([loaded EXCEPT !.at = Min(Reaches(it, ks))], "on", c)
  <2>1. PICK m, after : m = Min(Reaches(it, ks)) /\ after = [loaded EXCEPT !.at = m]
    OBVIOUS
  <2>2. /\ IsReader(after) /\ after.at = m /\ after.records = ks /\ after.block = it.block
        /\ after.want = it.want
    BY <1>1, <2>1 DEF IsReader
  <2>3. ASSUME builder.failed <= 1
        PROVE  /\ m \in 1..c[it.block] - c[it.block - 1] /\ it.want = c[it.block - 1] + m
               /\ ks = Piece(added, c, it.block)
    <3>1. ks = Piece(added, c, it.block)
      BY <2>3
    <3> QED BY <1>3, <2>1, <2>3, <3>1, ScanFinds
  <2>4. builder.failed <= 1 => m # 0
    BY <2>3
  <2>5. Placed(after, c)
    BY <1>2, <2>2, <2>3, <2>4 DEF Placed
  <2> QED BY <2>1, <2>2, <2>5 DEF ReaderOK
<1>4. ASSUME Reaches(it, ks) = {}, MoreBlocks(it)
      PROVE  ReaderOK(NextBlock(loaded), "lock", c)
  <2>1. PICK after : after = NextBlock(loaded)
    OBVIOUS
  <2>2. IsReader(after) /\ after.op = "first" /\ after.block = it.block + 1
    BY <1>1, <2>1 DEF IsReader, NextBlock
  <2>3. it.block < Len(index)
    BY <1>4 DEF MoreBlocks
  <2>4. ~(builder.failed <= 1)
    <3>1. SUFFICES ASSUME builder.failed <= 1 PROVE FALSE
      OBVIOUS
    <3>2. it.block = Len(index)
      BY <1>4, <3>1, ScanEnds
    <3> QED BY <1>2, <2>3, <3>2
  <2>5. after.block \in 1..Len(index)
    BY <1>2, <2>2, <2>3
  <2>6. Sought(after, c)
    BY <2>2, <2>4, <2>5 DEF Sought
  <2> QED BY <2>1, <2>2, <2>6 DEF ReaderOK
<1>5. ASSUME Reaches(it, ks) = {}
      PROVE  ReaderOK(AtEnd(loaded), "on", c)
  <2>1. PICK after : after = AtEnd(loaded)
    OBVIOUS
  <2>2. IsReader(after) /\ after.at = 0 /\ after.want = it.want
    BY <1>1, <2>1 DEF IsReader, AtEnd
  <2>3. ASSUME builder.failed <= 1 PROVE it.want \in Nat /\ it.want > c[Len(index)]
    BY <1>5, <2>3, ScanEnds
  <2>4. Placed(after, c)
    BY <2>2, <2>3 DEF Placed
  <2> QED BY <2>1, <2>2, <2>4 DEF ReaderOK
<1> QED BY <1>3, <1>4, <1>5

\* The block that was read is the reader's own, by ReadsOwnBlock.
LEMMA ReadFileTableInv ==
  ASSUME TableInv, IInv, open = "yes", NEW r \in Readers, ReadFile(r)
  PROVE  TableInv'
<1> DEFINE n == index[reader[r].block].size
           ks == KeysRead(n)
<1>1. pc[r] = "read" /\ UNCHANGED <<fileVars, tableVars>>
  BY DEF ReadFile
<1>2. /\ DOMAIN pc = Readers /\ DOMAIN reader = Readers
      /\ filePos = index[reader[r].block].offset
  BY <1>1 DEF IInv, LockInv, ReadsOwnBlock, InRead
<1>3. PICK it : it = reader[r]
  OBVIOUS
<1>4. IsReader(it)
  BY <1>3 DEF TableInv, ReaderOK
<1>5. ASSUME NEW to, NEW after, Go(r, to), Become(r, after), IsReader(after),
             \A b, c, e, gained, lost :
               TableOK(b, c, e, gained, lost) /\ Sought(it, c) => ReaderOK(after, to, c)
      PROVE  TableInv'
  <2>1. /\ pc'[r] = to /\ reader'[r] = after
        /\ \A s \in Readers : s # r => pc'[s] = pc[s] /\ reader'[s] = reader[s]
    BY <1>2, <1>5 DEF Go, Become
  <2>2. \A c : ReaderOK(reader[r], pc[r], c) => Sought(it, c)
    BY <1>1, <1>3 DEF ReaderOK
  <2>3. \A b, c, e, gained, lost :
          TableOK(b, c, e, gained, lost) /\ ReaderOK(reader[r], pc[r], c) => ReaderOK(after, to, c)
    BY <1>5, <2>2
  <2> QED BY <1>1, <1>2, <1>5, <2>1, <2>3, StepInv
<1>6. CASE it.op = "get" /\ Go(r, "answered")
           /\ Become(r, [it EXCEPT !.answer = Lookup(n, it.target)])
  <2>1. PICK after : after = [it EXCEPT !.answer = Lookup(n, it.target)]
    OBVIOUS
  <2>2. /\ IsReader(after) /\ after.target = it.target /\ after.block = it.block
        /\ after.answer = Lookup(n, it.target)
    BY <1>4, <2>1 DEF IsReader
  <2>3. ASSUME NEW b, NEW c, NEW e, NEW gained, NEW lost, TableOK(b, c, e, gained, lost),
               Sought(it, c)
        PROVE  ReaderOK(after, "answered", c)
    <3>1. it.target \in Nat /\ Towards(it.target, it.block)
      BY <1>6, <2>3 DEF Sought
    <3>2. after.answer = Lookup(index[after.block].size, after.target)
      BY <1>3, <2>2
    <3>3. /\ after.target \in Nat /\ Towards(after.target, after.block)
          /\ filePos = index[after.block].offset
      BY <1>2, <1>3, <2>2, <3>1
    <3>4. Answered(after)
      BY <2>3, <3>2, <3>3, LookupAnswers
    <3> QED BY <2>2, <3>4 DEF ReaderOK
  <2> QED BY <1>5, <1>6, <2>1, <2>2, <2>3
<1>7. CASE it.op # "get" /\ HasForm(n) /\ Scan(r, it, ks)
  <2>1. PICK loaded : loaded = [it EXCEPT !.records = ks]
    OBVIOUS
  <2>2. \E to, after : /\ Go(r, to) /\ Become(r, after)
                       /\ \/ /\ Reaches(it, ks) # {} /\ to = "on"
                             /\ after = [loaded EXCEPT !.at = Min(Reaches(it, ks))]
                          \/ /\ Reaches(it, ks) = {} /\ MoreBlocks(it) /\ to = "lock"
                             /\ after = NextBlock(loaded)
                          \/ /\ Reaches(it, ks) = {} /\ to = "on"
                             /\ after = AtEnd(loaded)
    BY <1>7, <2>1 DEF Scan
  <2>3. PICK to, after : /\ Go(r, to) /\ Become(r, after)
                         /\ \/ /\ Reaches(it, ks) # {} /\ to = "on"
                               /\ after = [loaded EXCEPT !.at = Min(Reaches(it, ks))]
                            \/ /\ Reaches(it, ks) = {} /\ MoreBlocks(it) /\ to = "lock"
                               /\ after = NextBlock(loaded)
                            \/ /\ Reaches(it, ks) = {} /\ to = "on"
                               /\ after = AtEnd(loaded)
    BY <2>2
  <2>4. IsReader(after)
    <3>1. IsReader(loaded)
      BY <1>4, <2>1 DEF IsReader
    <3> QED BY <2>3, <3>1 DEF IsReader, NextBlock, AtEnd
  <2>5. ASSUME NEW b, NEW c, NEW e, NEW gained, NEW lost, TableOK(b, c, e, gained, lost),
               Sought(it, c)
        PROVE  ReaderOK(after, to, c)
    <3>1. it.op \in {"first", "seek"} /\ it.block \in 1..Len(index)
      BY <1>7, <2>5 DEF Sought, Towards
    <3>2. ASSUME builder.failed <= 1 PROVE ks = Piece(added, c, it.block)
      <4>1. filePos = index[it.block].offset /\ n = index[it.block].size
        BY <1>2, <1>3
      <4>2. LET cells == ReadAt(builder.file, index[it.block].offset, index[it.block].size)
            IN  /\ index[it.block].size \in Nat /\ index[it.block].size >= SmallestBlock
                /\ builder.failed <= 1 => CrcMatches(cells)
                /\ CrcMatches(cells) =>
                     \E l \in 1..Len(index) : /\ KeysOf(cells) = Piece(added, c, l)
                                              /\ builder.failed <= SmallestBlock => l = it.block
        BY <2>5, <3>1, BlockRead
      <4>3. builder.failed \in Nat
        BY <2>5, FailedIsNat
      <4>4. builder.failed <= SmallestBlock
        BY <3>2, <4>3 DEF SmallestBlock
      <4>5. ks = KeysOf(ReadAt(builder.file, index[it.block].offset, index[it.block].size))
        <5>1. ~(n < SmallestTrailer)
          BY <4>1, <4>2 DEF SmallestBlock, SmallestTrailer
        <5> QED BY <4>1, <5>1 DEF KeysRead
      <4> QED BY <3>2, <4>1, <4>2, <4>4, <4>5
    <3> HIDE DEF ks
    <3>3. /\ Reaches(it, ks) # {} => ReaderOK([loaded EXCEPT !.at = Min(Reaches(it, ks))], "on", c)
          /\ Reaches(it, ks) = {} /\ MoreBlocks(it) => ReaderOK(NextBlock(loaded), "lock", c)
          /\ Reaches(it, ks) = {} => ReaderOK(AtEnd(loaded), "on", c)
      BY <1>4, <2>1, <2>5, <3>1, <3>2, ScanKeeps
    <3> QED BY <2>3, <3>3
  <2> QED BY <1>5, <2>3, <2>4, <2>5
<1>8. CASE Go(r, "wild") /\ Become(r, it)
  <2>1. \A c : ReaderOK(it, "wild", c)
    BY <1>4 DEF ReaderOK
  <2> QED BY <1>4, <1>5, <1>8, <2>1
<1>9. \/ /\ it.op = "get" /\ Go(r, "answered")
         /\ Become(r, [it EXCEPT !.answer = Lookup(n, it.target)])
      \/ it.op # "get" /\ HasForm(n) /\ Scan(r, it, ks)
      \/ Go(r, "wild") /\ Become(r, it)
  BY <1>3 DEF ReadFile
<1> QED BY <1>6, <1>7, <1>8, <1>9

\* A table that opens, and is not garbled, has its index in its place.
LEMMA OpenTableInv ==
  ASSUME TableInv, IInv, FileInv, Open
  PROVE  TableInv'
<1> DEFINE f == builder.file
<1>1. /\ status = "finished" /\ open = "no" /\ UNCHANGED <<fileVars, pc, reader>>
      /\ open' = "yes" =>
           /\ Opens(f) /\ ~Garbled(f) /\ index' = IndexOf(f) /\ filter' = FilterOf(f)
           /\ ends' = <<FirstKeyOf(f, index'), LastKeyOf(index')>>
  BY DEF Open, readVars
<1>2. \A r \in Readers : pc'[r] = "idle" /\ reader'[r] = reader[r] /\ IsReader(reader[r])
  BY <1>1 DEF IInv, LockInv, TableInv, IsOpen
<1>3. ASSUME open' = "yes"
      PROVE  \E b, c, e, gained, lost :
               /\ TableOK(b, c, e, gained, lost)'
               /\ \A r \in Readers : ReaderOK(reader[r], pc[r], c)'
  <2>1. PICK b, c, e, gained, lost : BuilderOK(b, added, c, e, gained, lost) /\ Finished(b, added)
    BY <1>1 DEF FileInv
  <2>2. Len(b.file) = b.size
    BY <1>1, <1>3, <2>1, IndexDisplaced
  <2>3. FilterOf(builder.file) = {ToSet(added)}
    BY <2>1, <2>2, IndexInPlace
  <2>4. /\ index' = IndexOf(builder.file) /\ filter' = {ToSet(added)}
        /\ ends' = <<FirstKeyOf(builder.file, index'), LastKeyOf(index')>>
    BY <1>1, <1>3, <2>3
  <2>5. UNCHANGED <<builder, added, status>>
    BY <1>1 DEF fileVars
  <2>6. TableOK(b, c, e, gained, lost)'
    BY <1>1, <2>1, <2>2, <2>4, <2>5 DEF TableOK, Finished
  <2>7. \A r \in Readers : ReaderOK(reader[r], pc[r], c)'
    BY <1>2 DEF ReaderOK
  <2> QED BY <2>6, <2>7
<1> QED BY <1>2, <1>3 DEF TableInv

\* Before the table is open nobody reads.
LEMMA ReadersAreLetIn ==
  ASSUME IInv, NEW r \in Readers, Read(r)
  PROVE  IsOpen /\ UNCHANGED <<fileVars, tableVars>>
<1>1. IsOpen \/ pc[r] # "idle"
  BY DEF Read, LockRead, SeekFile, ReadFile, Get, Seek, NewIterator, SeekToFirst, NextRecord,
         EndRead
<1>2. UNCHANGED <<fileVars, tableVars>>
  BY DEF Read, LockRead, SeekFile, ReadFile, Get, Seek, NewIterator, SeekToFirst, NextRecord,
         EndRead, Call
<1> QED BY <1>1, <1>2 DEF IInv, LockInv

\* The builder is done before the table is open.
LEMMA BuildTableInv ==
  ASSUME TableInv, Build, UNCHANGED <<tableVars, readVars>>
  PROVE  TableInv'
<1>1. UNCHANGED <<open, pc, reader>>
  BY DEF tableVars, readVars
<1>2. status # "finished"
  BY DEF Build, Add, Finish, FinishFails, Abandon
<1>3. open # "yes"
  BY <1>2 DEF TableInv, TableOK
<1> QED BY <1>1, <1>3 DEF TableInv, IsOpen

LEMMA NextTableInv ==
  ASSUME TableInv, IInv, FileInv, [Next]_vars
  PROVE  TableInv'
<1>1. CASE Build /\ UNCHANGED <<tableVars, readVars>>
  BY <1>1, BuildTableInv
<1>2. CASE Open
  BY <1>2, OpenTableInv
<1>3. ASSUME NEW r \in Readers, Read(r)
      PROVE  TableInv'
  <2>1. IsOpen /\ open' = open
    BY <1>3, ReadersAreLetIn DEF tableVars
  <2>2. CASE open = "yes"
    BY <1>3, <2>2, LockTableInv, ReadFileTableInv, GetTableInv, SeekTableInv,
       NewIteratorTableInv, SeekToFirstTableInv, NextRecordTableInv, EndReadTableInv DEF Read
  <2> QED BY <2>1, <2>2 DEF TableInv, IsOpen
<1>4. CASE UNCHANGED vars
  <2>1. UNCHANGED <<fileVars, tableVars, open, pc, reader>>
    BY <1>4 DEF vars, tableVars, readVars
  <2>2. ASSUME open = "yes"
        PROVE  \E b, c, e, gained, lost :
                 /\ TableOK(b, c, e, gained, lost)'
                 /\ \A r \in Readers : ReaderOK(reader[r], pc[r], c)'
    <3>1. PICK b, c, e, gained, lost : /\ TableOK(b, c, e, gained, lost)
                                       /\ \A s \in Readers : ReaderOK(reader[s], pc[s], c)
      BY <2>2 DEF TableInv
    <3>2. TableOK(b, c, e, gained, lost)'
      BY <2>1, <3>1, SameTable
    <3>3. ASSUME NEW s \in Readers PROVE ReaderOK(reader[s], pc[s], c)'
      <4>1. PICK it, stage : it = reader[s] /\ stage = pc[s]
        OBVIOUS
      <4>2. ReaderOK(it, stage, c)'
        BY <2>1, <3>1, <4>1, SameReader
      <4>3. reader'[s] = it /\ pc'[s] = stage
        BY <2>1, <4>1
      <4> QED BY <4>2, <4>3 DEF ReaderOK, Sought, Placed, Answered
    <3> QED BY <3>2, <3>3
  <2> QED BY <2>1, <2>2 DEF TableInv, IsOpen
<1> QED BY <1>1, <1>2, <1>3, <1>4 DEF Next

-----------------------------------------------------------------------------
(* A data block for an index *)

\* What is misread of a block has its keys, in order, and handles that are numbers.
MisreadOK ==
  /\ status = "finished"
  /\ Len(index) \in Nat /\ (index = <<>> <=> Len(index) = 0) /\ Ascending
  /\ \A i \in 1..Len(index) : index[i].offset \in Nat /\ index[i].size \in Nat

\* Of a reader of such a table: where a Get reads, and that what it finds is stored.
MisledOK(it, stage) ==
  /\ IsReader(it)
  /\ stage \in {"lock", "seek", "read"} /\ it.op = "get" => it.block \in 1..Len(index)
  /\ stage = "answered" /\ it.answer = "value" => it.target \in ToSet(Stored)

\* While the table is open with a data block for an index, Get finds nothing that is not
\* stored.
MisledInv ==
  open = "garbled" => MisreadOK /\ \A r \in Readers : MisledOK(reader[r], pc[r])

\* The checksum tells what was written.
LEMMA CrcNamesCells ==
  ASSUME NEW s, IsSeq(s), Len(s) > 0, CrcMatches(s),
         NEW cells, IsSeq(cells), Len(cells) > 0, CrcMatches(cells), Last(cells) = Last(s)
  PROVE  cells = s
<1>1. Front(cells) = Front(s)
  BY DEF CrcMatches, Checksum
<1>2. /\ Len(Front(s)) = Len(s) - 1 /\ \A j \in 1..Len(s) - 1 : Front(s)[j] = s[j]
  BY WithoutLast
<1>3. /\ Len(Front(cells)) = Len(cells) - 1
      /\ \A j \in 1..Len(cells) - 1 : Front(cells)[j] = cells[j]
  BY WithoutLast
<1>4. Len(s) \in Nat /\ Len(cells) \in Nat
  BY Shape
<1>5. Len(cells) = Len(s)
  BY <1>1, <1>2, <1>3, <1>4
<1>6. ASSUME NEW i \in 1..Len(s) PROVE cells[i] = s[i]
  <2>1. CASE i = Len(s)
    BY <1>5, <2>1 DEF Last
  <2>2. CASE i # Len(s)
    <3>1. i \in 1..Len(s) - 1 /\ i \in 1..Len(cells) - 1
      BY <1>4, <1>5, <2>2
    <3> QED BY <1>1, <1>2, <1>3, <3>1
  <2> QED BY <2>1, <2>2
<1> QED BY <1>5, <1>6, SameSeq

\* Wherever a reader looks, cells with a good checksum and the form of a block are a
\* block that was written, or have no records.
LEMMA KeysAnywhere ==
  ASSUME NEW b, NEW a, NEW c, NEW e, NEW gained, NEW lost, BuilderOK(b, a, c, e, gained, lost),
         Finished(b, a), NEW from \in Nat, NEW m \in Nat, m >= SmallestTrailer,
         Inside(builder.file, from, m),
         NEW w, w = ReadAt(builder.file, from, m), CrcMatches(w), w[m - 1][1] = "count",
         \A i \in DOMAIN Entries(w) : Entries(w)[i][1] = IF i % 2 = 1 THEN "key" ELSE "value"
  PROVE  \/ \E l \in 1..Len(b.infos) : KeysOf(w) = Piece(a, c, l)
         \/ DOMAIN KeysOf(w) = {}
<1> DEFINE f == builder.file
           p == Len(b.file)
           x == Index(b.infos)
           y == Filter(a)
           n == Len(x)
<1>1. /\ IsSeq(f) /\ Len(f) = p + n + 3 /\ p \in Nat /\ n \in Nat
      /\ \A i \in 1..p : f[i] = b.file[i]
      /\ \A i \in 1..n : f[p + i] = x[i]
      /\ f[p + n + 1] = y[1] /\ f[p + n + 2] = y[2]
      /\ Last(f) = Footer(b.size, n, 2) /\ f[p + n + 3] = Last(f)
  BY FinishedFile
<1>2. IsSeq(b.infos) /\ \A i \in 1..Len(b.infos) : b.infos[i][1] = "entry"
  BY InfosShape
<1>3. /\ IsSeq(x) /\ CrcMatches(x) /\ Entries(x) = b.infos /\ n >= 2
      /\ \A j \in 1..n - 1 : x[j][1] # "crc"
  BY <1>2, IndexShape
<1>4. /\ IsSeq(y) /\ Len(y) = 2 /\ CrcMatches(y) /\ y[1] = <<"filter", ToSet(a)>>
  BY FilterShape
<1>5. CutsOK(b, a, c, e) /\ KeysOK(a) /\ CellsOK(b, a, c, e, gained, lost)
  BY DEF BuilderOK
<1>6. from + m <= Len(f) /\ m >= 2
  BY DEF Inside, SmallestTrailer
<1>16. w = ReadAt(f, from, m)
  OBVIOUS
<1> HIDE DEF f, p, x, y, n
<1>7. IsSeq(w) /\ Len(w) = m /\ \A j \in 1..m : w[j] = f[from + j]
  <2>1. IsSeq(f) /\ from + m <= Len(f)
    BY <1>1, <1>6
  <2>2. /\ IsSeq(ReadAt(f, from, m)) /\ Len(ReadAt(f, from, m)) = m
        /\ \A j \in 1..m : ReadAt(f, from, m)[j] = f[from + j]
    BY <2>1, Window
  <2> QED BY <1>16, <2>2
<1>8. /\ Last(w) = f[from + m] /\ f[from + m] = Checksum(Front(w)) /\ f[from + m][1] = "crc"
      /\ Len(w) > 0
  <2>1. m \in 1..m /\ Len(w) > 0
    BY <1>6, <1>7
  <2>2. Last(w) = f[from + m]
    BY <1>7, <2>1 DEF Last
  <2>3. f[from + m] = Checksum(Front(w))
    BY <2>2 DEF CrcMatches
  <2>4. f[from + m][1] = "crc"
    BY <2>3 DEF Checksum
  <2> QED BY <2>1, <2>2, <2>3, <2>4
<1>9. CASE from + m <= p
  <2>1. from + m \in 1..p
    BY <1>1, <1>6, <1>9
  <2>2. PICK l \in 1..Len(b.infos) : CrcOf(b, a, c, e, gained, lost, from + m, l)
    BY <1>1, <1>5, <1>8, <2>1 DEF CellsOK, p
  <2>3. IsSeq(Piece(a, c, l)) /\ Len(Piece(a, c, l)) \in Nat \ {0}
    BY <1>5, PieceShape
  <2>4. Last(w) = Checksum(Front(Block(Piece(a, c, l))))
    BY <1>1, <1>8, <2>1, <2>2 DEF CrcOf
  <2>5. w = Block(Piece(a, c, l))
    BY <1>7, <1>8, <2>3, <2>4, CrcNamesBlock
  <2>6. KeysOf(w) = Piece(a, c, l)
    <3>1. Len(Piece(a, c, l)) > 0
      BY <2>3
    <3> QED BY <2>3, <2>5, <3>1, BlockKeys
  <2> QED BY <2>6
<1>10. CASE from + m > p /\ from + m < p + n
  <2>1. from + m - p \in 1..n - 1 /\ from + m - p \in 1..n /\ p + (from + m - p) = from + m
    BY <1>1, <1>3, <1>6, <1>10
  <2>2. f[from + m] = x[from + m - p]
    BY <1>1, <2>1
  <2> QED BY <1>3, <1>8, <2>1, <2>2
<1>11. CASE from + m = p + n
  <2>1. n \in 1..n /\ Len(x) > 0
    BY <1>1, <1>3 DEF n
  <2>2. Last(w) = Last(x)
    BY <1>1, <1>8, <1>11, <2>1 DEF Last, n
  <2>3. w = x
    BY <1>3, <1>7, <1>8, <2>1, <2>2, CrcNamesCells
  <2>4. Entries(w) = b.infos /\ Len(b.infos) \in Nat /\ DOMAIN b.infos = 1..Len(b.infos)
    BY <1>2, <1>3, <2>3, Shape
  <2>5. Len(b.infos) = 0
    <3>1. SUFFICES ASSUME Len(b.infos) # 0 PROVE FALSE
      OBVIOUS
    <3>2. 1 \in 1..Len(b.infos) /\ 1 % 2 = 1
      BY <2>4, <3>1
    <3>3. Entries(w)[1][1] = "key"
      BY <2>4, <3>2
    <3>4. Entries(w)[1][1] = "entry"
      BY <1>2, <2>4, <3>2
    <3> QED BY <3>3, <3>4
  <2>6. DOMAIN KeysOf(w) = 1..Len(Entries(w)) \div 2
    BY DEF KeysOf
  <2>7. Len(Entries(w)) = 0
    BY <2>4, <2>5
  <2>8. DOMAIN KeysOf(w) = {}
    BY <2>6, <2>7
  <2> QED BY <2>8
<1>12. CASE from + m = p + n + 1
  BY <1>1, <1>4, <1>8, <1>12
<1>13. CASE from + m = p + n + 2
  <2>1. Last(y) = y[2] /\ Len(y) > 0
    BY <1>4 DEF Last
  <2>2. Last(w) = Last(y)
    BY <1>1, <1>8, <1>13, <2>1
  <2>3. w = y
    BY <1>4, <1>7, <1>8, <2>1, <2>2, CrcNamesCells
  <2>4. m = 2 /\ w[1] = <<"filter", ToSet(a)>>
    BY <1>4, <1>7, <2>3
  <2>5. w[m - 1] = <<"filter", ToSet(a)>>
    BY <2>4
  <2>6. w[m - 1][1] = "filter"
    BY <2>5
  <2> QED BY <2>6
<1>14. CASE from + m = p + n + 3
  <2>1. f[from + m] = Footer(b.size, n, 2)
    BY <1>1, <1>14
  <2>2. f[from + m][1] = "footer"
    BY <2>1 DEF Footer
  <2> QED BY <1>8, <2>2
<1>15. \/ from + m <= p \/ (from + m > p /\ from + m < p + n) \/ from + m = p + n
       \/ from + m = p + n + 1 \/ from + m = p + n + 2 \/ from + m = p + n + 3
  BY <1>1, <1>6
<1> QED BY <1>9, <1>10, <1>11, <1>12, <1>13, <1>14, <1>15

\* So a key that is found is one that is stored.
LEMMA FoundIsStored ==
  ASSUME FileInv, status = "finished", NEW m \in Nat, filePos \in Nat, NEW k,
         Lookup(m, k) = "value"
  PROVE  k \in ToSet(Stored)
<1> DEFINE w == ReadAt(builder.file, filePos, m)
<1>1. PICK b, c, e, gained, lost : BuilderOK(b, added, c, e, gained, lost) /\ Finished(b, added)
  BY DEF FileInv
<1>2. /\ Inside(builder.file, filePos, m) /\ ~(m < SmallestTrailer) /\ CrcMatches(w)
      /\ HasForm(m) /\ k \in ToSet(KeysOf(w))
  BY DEF Lookup, KeysRead
<1>3. m >= SmallestTrailer
  BY <1>2 DEF SmallestTrailer
<1>4. /\ w[m - 1][1] = "count"
      /\ \A i \in DOMAIN Entries(w) : Entries(w)[i][1] = IF i % 2 = 1 THEN "key" ELSE "value"
  BY <1>2, <1>3 DEF HasForm
<1> HIDE DEF w
<1>5. DOMAIN KeysOf(w) # {}
  BY <1>2 DEF ToSet
<1>6. PICK l \in 1..Len(b.infos) : KeysOf(w) = Piece(added, c, l)
  BY <1>1, <1>2, <1>3, <1>4, <1>5, KeysAnywhere DEF w
<1>7. CutsOK(b, added, c, e) /\ KeysOK(added)
  BY <1>1 DEF BuilderOK
<1> DEFINE ks == Piece(added, c, l)
<1>8. /\ IsSeq(ks) /\ Len(ks) = c[l] - c[l - 1]
      /\ \A j \in 1..c[l] - c[l - 1] : ks[j] = added[c[l - 1] + j]
  BY <1>7, PieceShape
<1>9. DOMAIN ks = 1..c[l] - c[l - 1]
  BY <1>8, Shape
<1> HIDE DEF ks
<1>10. PICK j \in 1..c[l] - c[l - 1] : added[c[l - 1] + j] = k
  BY <1>2, <1>6, <1>8, <1>9 DEF ToSet, ks
<1>11. /\ DOMAIN Stored = 1..c[Len(b.infos)]
       /\ \A q \in 1..c[Len(b.infos)] : Stored[q] = added[q]
  BY <1>1, StoredShape
<1>12. c[l - 1] + j \in 1..c[Len(b.infos)]
  <2>1. /\ Len(b.infos) \in Nat /\ l - 1 \in 0..Len(b.infos) /\ l \in 0..Len(b.infos)
        /\ c[l - 1] \in 0..Len(added) /\ c[l] \in 0..Len(added) /\ Len(added) \in Nat
    BY <1>7, CutFacts
  <2>2. Len(b.infos) \in 0..Len(b.infos)
    BY <2>1
  <2>3. c[Len(b.infos)] \in 0..Len(added) /\ (l < Len(b.infos) => c[l] < c[Len(b.infos)])
    BY <1>7, <2>1, <2>2, CutFacts DEF CutsOK
  <2>4. PICK x, y, z : x = c[l - 1] /\ y = c[l] /\ z = c[Len(b.infos)]
    OBVIOUS
  <2>5. y <= z
    <3>1. l = Len(b.infos) \/ l < Len(b.infos)
      BY <2>1
    <3> QED BY <2>1, <2>3, <2>4, <3>1
  <2>6. x + j \in 1..z
    BY <2>1, <2>3, <2>4, <2>5
  <2> QED BY <2>4, <2>6
<1> QED BY <1>10, <1>11, <1>12 DEF ToSet

\* What Open makes of a block that it takes for the index.
LEMMA MisreadShape ==
  ASSUME FileInv, status = "finished", Opens(builder.file), Garbled(builder.file),
         NEW ix, ix \in Misread(builder.file)
  PROVE  /\ Len(ix) \in Nat /\ (ix = <<>> <=> Len(ix) = 0)
         /\ \A i \in 1..Len(ix) : /\ ix[i].last \in Nat /\ ix[i].offset \in Nat
                                  /\ ix[i].size \in Nat
         /\ \A i, j \in 1..Len(ix) : i < j => ix[i].last < ix[j].last
<1>1. PICK b, c, e, gained, lost : BuilderOK(b, added, c, e, gained, lost) /\ Finished(b, added)
  BY DEF FileInv
<1>2. Len(b.file) # b.size
  BY <1>1, IndexInPlace
<1>3. PICK l \in 1..Len(b.infos) : IndexBlock(builder.file) = Block(Piece(added, c, l))
  BY <1>1, <1>2, IndexDisplaced
<1>4. CutsOK(b, added, c, e) /\ KeysOK(added)
  BY <1>1 DEF BuilderOK
<1> DEFINE ks == Piece(added, c, l)
           from == c[l - 1]
           n == Len(ks)
<1>15. from \in Nat
  <2>1. l - 1 \in 0..Len(b.infos)
    BY <1>4, CutFacts
  <2>2. \A i \in 0..Len(b.infos) : c[i] \in 0..Len(added)
    BY <1>4, CutFacts
  <2> QED BY <2>1, <2>2
<1>5. /\ IsSeq(ks) /\ n = c[l] - from /\ n \in Nat \ {0}
      /\ \A j \in 1..c[l] - from : ks[j] = added[from + j] /\ from + j \in 1..Len(added)
      /\ from \in Nat
  BY <1>4, <1>15, PieceShape
<1>6. DOMAIN ks = 1..n
  BY <1>5, Shape
<1>7. KeysOf(IndexBlock(builder.file)) = ks
  <2>1. n > 0
    BY <1>5
  <2> QED BY <1>3, <1>5, <2>1, BlockKeys
<1> HIDE DEF ks, from, n
<1>8. PICK h \in [1..n -> Handles] :
        ix = [i \in 1..n |-> [last |-> ks[i], offset |-> h[i][1], size |-> h[i][2]]]
  BY <1>6, <1>7 DEF Misread
<1>9. ASSUME NEW i \in 1..n
      PROVE  ix[i].last = ks[i] /\ ix[i].offset \in Nat /\ ix[i].size \in Nat
  <2>1. h[i] \in Nat \X Nat
    BY FileAssumption
  <2>2. ix[i] = [last |-> ks[i], offset |-> h[i][1], size |-> h[i][2]]
    BY <1>8
  <2> QED BY <2>1, <2>2
<1>10. IsSeq(ix) /\ Len(ix) = n
  <2>1. ix = [i \in 1..n |-> ix[i]]
    BY <1>8
  <2> QED BY <1>5, <2>1, Tabulated
<1>11. ix = <<>> <=> Len(ix) = 0
  BY <1>10, EmptyCells, SameSeq
<1>12. \A i \in 1..n : ks[i] = added[from + i] /\ from + i \in 1..Len(added)
  BY <1>5
<1>13. ASSUME NEW i \in 1..n PROVE ks[i] \in Nat
  BY <1>4, <1>12 DEF KeysOK
<1>14. ASSUME NEW i \in 1..n, NEW j \in 1..n, i < j PROVE ks[i] < ks[j]
  <2>1. from + i < from + j
    BY <1>5, <1>14
  <2> QED BY <1>4, <1>12, <2>1 DEF KeysOK
<1> QED BY <1>5, <1>9, <1>10, <1>11, <1>13, <1>14

LEMMA OpenMisledInv ==
  ASSUME TableInv, IInv, FileInv, Open
  PROVE  MisledInv'
<1>1. /\ status = "finished" /\ open = "no" /\ UNCHANGED <<fileVars, pc, reader>>
      /\ open' = "garbled" =>
           Opens(builder.file) /\ Garbled(builder.file) /\ index' \in Misread(builder.file)
  BY DEF Open, readVars
<1>2. \A r \in Readers : pc'[r] = "idle" /\ reader'[r] = reader[r] /\ IsReader(reader[r])
  BY <1>1 DEF IInv, LockInv, TableInv, IsOpen
<1>3. \A r \in Readers : MisledOK(reader[r], pc[r])'
  BY <1>2 DEF MisledOK
<1>4. ASSUME open' = "garbled" PROVE MisreadOK'
  <2>1. PICK ix : ix = index'
    OBVIOUS
  <2>2. /\ Len(ix) \in Nat /\ (ix = <<>> <=> Len(ix) = 0)
        /\ \A i \in 1..Len(ix) : ix[i].last \in Nat /\ ix[i].offset \in Nat /\ ix[i].size \in Nat
        /\ \A i, j \in 1..Len(ix) : i < j => ix[i].last < ix[j].last
    BY <1>1, <1>4, <2>1, MisreadShape
  <2>3. status' = "finished"
    BY <1>1 DEF fileVars
  <2> QED BY <2>1, <2>2, <2>3 DEF MisreadOK, Ascending
<1> QED BY <1>3, <1>4 DEF MisledInv

\* A step of a reader to a good state.
LEMMA MisledStep ==
  ASSUME MisledInv, IInv, open = "garbled", NEW r \in Readers, NEW to, NEW after,
         pc'[r] = to /\ reader'[r] = after,
         \A s \in Readers : s # r => pc'[s] = pc[s] /\ reader'[s] = reader[s],
         UNCHANGED <<fileVars, tableVars>>, MisledOK(after, to)
  PROVE  MisledInv'
<1>2. UNCHANGED <<builder, added, status, index>>
  BY DEF fileVars, tableVars
<1>3. ASSUME NEW s \in Readers PROVE MisledOK(reader[s], pc[s])'
  <2>1. PICK it, stage : it = reader'[s] /\ stage = pc'[s]
    OBVIOUS
  <2>2. MisledOK(it, stage)
    <3>1. CASE s = r
      BY <2>1, <3>1
    <3>2. CASE s # r
      BY <2>1, <3>2 DEF MisledInv
    <3> QED BY <3>1, <3>2
  <2> QED BY <1>2, <2>1, <2>2 DEF MisledOK, Stored
<1>4. MisreadOK'
  BY <1>2 DEF MisledInv, MisreadOK, Ascending
<1> QED BY <1>3, <1>4 DEF MisledInv

\* The calls that read nothing, and the iterator's.
LEMMA MisledCall ==
  ASSUME MisledInv, IInv, open = "garbled", NEW r \in Readers, NEW to, NEW after,
         Call(r, to, after), MisledOK(after, to)
  PROVE  MisledInv'
<1>1. DOMAIN pc = Readers /\ DOMAIN reader = Readers
  BY DEF IInv, LockInv
<1>2. /\ pc'[r] = to /\ reader'[r] = after /\ UNCHANGED <<fileVars, tableVars>>
      /\ \A s \in Readers : s # r => pc'[s] = pc[s] /\ reader'[s] = reader[s]
  BY <1>1 DEF Call, Go, Become
<1> QED BY <1>2, MisledStep

LEMMA MisledCalls ==
  ASSUME MisledInv, IInv, open = "garbled", NEW r \in Readers,
         \/ \E k \in Keys : Get(r, k) \/ Seek(r, k)
         \/ NewIterator(r) \/ SeekToFirst(r) \/ NextRecord(r) \/ EndRead(r)
  PROVE  MisledInv'
<1>1. IsReader(reader[r]) /\ MisreadOK
  BY DEF MisledInv, MisledOK
<1>2. IsReader(NoReader)
  BY DEF IsReader, NoReader
<1>3. ASSUME NEW k \in Keys, Get(r, k) PROVE MisledInv'
  <2>1. PICK none : none = [NoReader EXCEPT !.op = "get", !.target = k, !.answer = "notFound"]
    OBVIOUS
  <2>2. PICK it : it = [NoReader EXCEPT !.op = "get", !.target = k, !.block = Bisect(k)]
    OBVIOUS
  <2>3. IsReader(none) /\ none.answer = "notFound" /\ IsReader(it) /\ it.block = Bisect(k)
    BY <2>1, <2>2 DEF IsReader, NoReader
  <2>4. \/ Call(r, "answered", none)
        \/ index # <<>> /\ Call(r, "lock", it)
    BY <1>3, <2>1, <2>2 DEF Get
  <2>5. MisledOK(none, "answered")
    BY <2>3 DEF MisledOK
  <2>6. ASSUME index # <<>> PROVE MisledOK(it, "lock")
    <3>1. Ascending /\ Len(index) \in Nat \ {0} /\ k \in Nat
      BY <1>1, <2>6, KeysAreNat DEF MisreadOK
    <3>2. Bisect(k) \in 1..Len(index)
      BY <3>1, BisectLeads DEF Towards
    <3> QED BY <2>3, <3>2 DEF MisledOK
  <2> QED BY <2>4, <2>5, <2>6, MisledCall
<1>4. ASSUME NEW to \in {"on", "lock", "wild", "idle"}, NEW after, Call(r, to, after),
             IsReader(after), after.op # "get"
      PROVE  MisledInv'
  BY <1>4, MisledCall DEF MisledOK
<1>5. ASSUME NEW k \in Keys, Seek(r, k) PROVE MisledInv'
  <2>1. PICK it : it = [reader[r] EXCEPT !.op = "seek", !.target = k, !.want = Wanted(k)]
    OBVIOUS
  <2>2. PICK at : at = [it EXCEPT !.block = Bisect(k)]
    OBVIOUS
  <2>3. IsReader(it) /\ it.op = "seek"
    BY <1>1, <2>1 DEF IsReader
  <2>4. IsReader(at) /\ at.op = "seek"
    BY <2>2, <2>3 DEF IsReader
  <2>5. Call(r, "wild", it) \/ Call(r, "lock", at)
    BY <1>5, <2>1, <2>2 DEF Seek
  <2> QED BY <1>4, <2>3, <2>4, <2>5
<1>6. ASSUME NewIterator(r) \/ SeekToFirst(r) PROVE MisledInv'
  <2>1. PICK new : new = [NoReader EXCEPT !.op = "first", !.block = 1, !.want = 1]
    OBVIOUS
  <2>2. PICK it : it = [reader[r] EXCEPT !.op = "first", !.block = 1, !.want = 1]
    OBVIOUS
  <2>3. IsReader(new) /\ new.op = "first" /\ IsReader(it) /\ it.op = "first"
    BY <1>1, <1>2, <2>1, <2>2 DEF IsReader
  <2>4. Call(r, "on", new) \/ Call(r, "lock", new) \/ Call(r, "lock", it)
    BY <1>6, <2>1, <2>2 DEF NewIterator, SeekToFirst
  <2> QED BY <1>4, <2>3, <2>4
<1>7. ASSUME NextRecord(r) PROVE MisledInv'
  <2>1. PICK it : it = [reader[r] EXCEPT !.want = @ + 1]
    OBVIOUS
  <2>2. PICK on, next, end : on = [it EXCEPT !.at = @ + 1] /\ next = NextBlock(it) /\ end = AtEnd(it)
    OBVIOUS
  <2>3. IsReader(it)
    BY <1>1, <2>1 DEF IsReader
  <2>4. IsReader(on) /\ IsReader(next) /\ next.op = "first" /\ IsReader(end)
    BY <2>2, <2>3 DEF IsReader, NextBlock, AtEnd
  <2>5. Call(r, "on", on) \/ Call(r, "lock", next) \/ Call(r, "on", end)
    BY <1>7, <2>1, <2>2 DEF NextRecord
  <2>6. MisledOK(on, "on") /\ MisledOK(end, "on") /\ MisledOK(next, "lock")
    BY <2>4 DEF MisledOK
  <2> QED BY <2>5, <2>6, MisledCall
<1>8. ASSUME EndRead(r) PROVE MisledInv'
  <2>1. MisledOK(NoReader, "idle")
    BY <1>2 DEF MisledOK
  <2> QED BY <1>8, <2>1, MisledCall DEF EndRead
<1> QED BY <1>3, <1>5, <1>6, <1>7, <1>8

LEMMA MisledRead ==
  ASSUME MisledInv, IInv, FileInv, open = "garbled", NEW r \in Readers,
         LockRead(r) \/ SeekFile(r) \/ ReadFile(r)
  PROVE  MisledInv'
<1>1. PICK it : it = reader[r]
  OBVIOUS
<1>2. MisledOK(it, pc[r]) /\ MisreadOK
  BY <1>1 DEF MisledInv
<1>3. DOMAIN reader = Readers /\ DOMAIN pc = Readers
  BY DEF IInv, LockInv
<1>4. UNCHANGED <<fileVars, tableVars>>
  BY DEF LockRead, SeekFile, ReadFile
<1>5. CASE LockRead(r) \/ SeekFile(r)
  <2>1. PICK to \in {"seek", "read"} : pc' = [pc EXCEPT ![r] = to]
    BY <1>5 DEF LockRead, SeekFile, Go
  <2>2. pc[r] \in {"lock", "seek"} /\ reader' = reader
    BY <1>5 DEF LockRead, SeekFile
  <2>3. /\ pc'[r] = to /\ reader'[r] = it
        /\ \A s \in Readers : s # r => pc'[s] = pc[s] /\ reader'[s] = reader[s]
    BY <1>1, <1>3, <2>1, <2>2
  <2>4. MisledOK(it, to)
    BY <1>2, <2>1, <2>2 DEF MisledOK
  <2> QED BY <1>4, <2>3, <2>4, MisledStep
<1>6. CASE ReadFile(r)
  <2> DEFINE n == index[it.block].size
             ks == KeysRead(n)
  <2>1. pc[r] = "read" /\ filePos = index[it.block].offset
    BY <1>1, <1>6 DEF ReadFile, IInv, ReadsOwnBlock
  <2>2. IsReader(it)
    BY <1>2 DEF MisledOK
  <2>3. ASSUME NEW to, NEW after, Go(r, to), Become(r, after), MisledOK(after, to)
        PROVE  MisledInv'
    <3>1. /\ pc'[r] = to /\ reader'[r] = after
          /\ \A s \in Readers : s # r => pc'[s] = pc[s] /\ reader'[s] = reader[s]
      BY <1>3, <2>3 DEF Go, Become
    <3> QED BY <1>4, <2>3, <3>1, MisledStep
  <2>4. CASE it.op = "get" /\ Go(r, "answered")
             /\ Become(r, [it EXCEPT !.answer = Lookup(n, it.target)])
    <3>1. PICK after : after = [it EXCEPT !.answer = Lookup(n, it.target)]
      OBVIOUS
    <3>2. IsReader(after) /\ after.target = it.target /\ after.answer = Lookup(n, it.target)
      BY <2>2, <3>1 DEF IsReader
    <3>3. it.block \in 1..Len(index)
      BY <1>2, <2>1, <2>4 DEF MisledOK
    <3>4. n \in Nat /\ filePos \in Nat /\ status = "finished"
      BY <1>2, <2>1, <3>3 DEF MisreadOK
    <3>5. after.answer = "value" => after.target \in ToSet(Stored)
      BY <3>2, <3>4, FoundIsStored
    <3>6. MisledOK(after, "answered")
      BY <3>2, <3>5 DEF MisledOK
    <3> QED BY <2>3, <2>4, <3>1, <3>6
  <2>5. CASE it.op # "get" /\ Scan(r, it, ks)
    <3>1. PICK loaded : loaded = [it EXCEPT !.records = ks]
      OBVIOUS
    <3>2. PICK on, next, end : /\ on = [loaded EXCEPT !.at = Min(Reaches(it, ks))]
                               /\ next = NextBlock(loaded) /\ end = AtEnd(loaded)
      OBVIOUS
    <3>3. IsReader(loaded)
      BY <2>2, <3>1 DEF IsReader
    <3>4. IsReader(on) /\ IsReader(next) /\ next.op = "first" /\ IsReader(end)
      BY <3>2, <3>3 DEF IsReader, NextBlock, AtEnd
    <3>5. MisledOK(on, "on") /\ MisledOK(end, "on") /\ MisledOK(next, "lock")
      BY <3>4 DEF MisledOK
    <3>6. \/ Go(r, "on") /\ Become(r, on)
          \/ Go(r, "lock") /\ Become(r, next)
          \/ Go(r, "on") /\ Become(r, end)
      BY <2>5, <3>1, <3>2 DEF Scan
    <3> QED BY <2>3, <3>5, <3>6
  <2>6. CASE Go(r, "wild") /\ Become(r, it)
    <3>1. MisledOK(it, "wild")
      BY <2>2 DEF MisledOK
    <3> QED BY <2>3, <2>6, <3>1
  <2>7. \/ /\ it.op = "get" /\ Go(r, "answered")
           /\ Become(r, [it EXCEPT !.answer = Lookup(n, it.target)])
        \/ it.op # "get" /\ Scan(r, it, ks)
        \/ Go(r, "wild") /\ Become(r, it)
    BY <1>1, <1>6 DEF ReadFile
  <2> QED BY <2>4, <2>5, <2>6, <2>7
<1> QED BY <1>5, <1>6

LEMMA NextMisledInv ==
  ASSUME TableInv, MisledInv, IInv, FileInv, [Next]_vars
  PROVE  MisledInv'
<1>1. CASE Build /\ UNCHANGED <<tableVars, readVars>>
  <2>1. status # "finished" /\ open' = open
    BY <1>1 DEF Build, Add, Finish, FinishFails, Abandon, tableVars
  <2>2. open # "garbled"
    BY <2>1 DEF MisledInv, MisreadOK
  <2> QED BY <2>1, <2>2 DEF MisledInv
<1>2. CASE Open
  BY <1>2, OpenMisledInv
<1>3. ASSUME NEW r \in Readers, Read(r)
      PROVE  MisledInv'
  <2>1. open' = open
    BY <1>3, ReadersAreLetIn DEF tableVars
  <2>2. CASE open = "garbled"
    BY <1>3, <2>2, MisledCalls, MisledRead DEF Read
  <2> QED BY <2>1, <2>2 DEF MisledInv
<1>4. CASE UNCHANGED vars
  <2>1. UNCHANGED <<builder, added, status, open, index, pc, reader>>
    BY <1>4 DEF vars, fileVars, tableVars, readVars
  <2> QED BY <2>1 DEF MisledInv, MisreadOK, Ascending, MisledOK, Stored
<1> QED BY <1>1, <1>2, <1>3, <1>4 DEF Next

\* TableInv and MisledInv hold in every reachable state: threads that share the FILE and
\* the lock, iterators over all blocks, and Get by bisection in the index (sstable.cc,
\* iterator.cc).
THEOREM ReadersAreWhereTheyShouldBe == Spec => [](TableInv /\ MisledInv)
<1>1. Init => TableInv /\ MisledInv
  BY DEF Init, TableInv, MisledInv, IsReader, NoReader
<1>2. TableInv /\ MisledInv /\ IInv /\ FileInv /\ [Next]_vars => (TableInv /\ MisledInv)'
  BY NextTableInv, NextMisledInv
<1> QED BY <1>1, <1>2, PositionIsOwned, BuilderWritesWhatItSays, PTL DEF Spec

LEMMA NeverLies ==
  ASSUME TableInv, MisledInv, IInv
  PROVE  GetNeverLies
<1>1. SUFFICES ASSUME NEW r \in Readers, pc[r] = "answered"
               PROVE  /\ reader[r].answer = "value" => reader[r].target \in ToSet(Stored)
                      /\ open = "yes" => Answered(reader[r])
  BY DEF GetNeverLies, Answered
<1>2. IsOpen
  BY <1>1 DEF IInv, LockInv
<1>3. CASE open = "yes"
  BY <1>1, <1>3 DEF TableInv, ReaderOK, Answered
<1>4. CASE open = "garbled"
  BY <1>1, <1>4 DEF MisledInv, MisledOK
<1> QED BY <1>2, <1>3, <1>4 DEF IsOpen

\* first_key_ and last_key_ are what the builder added first and last, of what it wrote.
LEMMA EndsAreKeys ==
  ASSUME NEW b, NEW c, NEW e, NEW gained, NEW lost, TableOK(b, c, e, gained, lost),
         builder.failed <= 1
  PROVE  ends = IF Stored = <<>> THEN <<NoKey, NoKey>> ELSE <<Stored[1], Last(Stored)>>
<1> DEFINE f == builder.file
           n == Len(index)
<1>1. /\ n \in Nat /\ (index = <<>> <=> n = 0) /\ c[0] = 0 /\ n = Len(b.infos)
      /\ \A i \in 1..n : index[i].offset = e[i - 1] /\ index[i].last = added[c[i]]
  BY IndexFacts DEF CutsOfIndex
<1>2. /\ IsSeq(Stored) /\ Len(Stored) = c[n] /\ \A j \in 1..c[n] : Stored[j] = added[j]
  BY <1>1, StoredShape DEF TableOK
<1>3. ends = <<FirstKeyOf(f, index), LastKeyOf(index)>>
  BY DEF TableOK
<1>4. CASE n = 0
  <2>1. Stored = <<>>
    BY <1>1, <1>2, <1>4, EmptyCells, SameSeq
  <2>2. FirstKeyOf(f, index) = NoKey /\ LastKeyOf(index) = NoKey
    BY <1>1, <1>4 DEF FirstKeyOf, LastKeyOf
  <2> QED BY <1>3, <2>1, <2>2
<1>5. CASE n # 0
  <2>1. 1 \in 1..n /\ n \in 1..n /\ index # <<>>
    BY <1>1, <1>5
  <2> DEFINE ks == Piece(added, c, 1)
  <2>2. /\ c[1 - 1] = 0 /\ c[1] \in Nat /\ c[1 - 1] < c[1] /\ c[1] <= c[n] /\ c[n] \in Nat
        /\ IsSeq(ks) /\ Len(ks) = c[1] - c[1 - 1]
        /\ \A j \in 1..c[1] - c[1 - 1] : ks[j] = added[c[1 - 1] + j]
    BY <1>1, <2>1, PieceFacts
  <2>3. /\ Inside(f, index[1].offset, index[1].size)
        /\ Len(ReadAt(f, index[1].offset, index[1].size)) = index[1].size
        /\ index[1].size \in Nat /\ index[1].size >= SmallestBlock
        /\ ReadAt(f, index[1].offset, index[1].size) = Block(ks)
    <3>1. LET cells == ReadAt(f, index[1].offset, index[1].size)
          IN  /\ Inside(f, index[1].offset, index[1].size)
              /\ Len(cells) = index[1].size /\ index[1].size \in Nat
              /\ index[1].size >= SmallestBlock
              /\ builder.failed <= 1 => CrcMatches(cells)
              /\ CrcMatches(cells) =>
                   \E l \in 1..n : /\ cells = Block(Piece(added, c, l))
                                   /\ KeysOf(cells) = Piece(added, c, l)
                                   /\ builder.failed <= SmallestBlock => l = 1
      BY <2>1, BlockRead
    <3>2. builder.failed <= SmallestBlock
      BY FailedIsNat DEF SmallestBlock
    <3> QED BY <3>1, <3>2
  <2>4. Len(ks) \in Nat \ {0} /\ ks[1] = added[1]
    <3>1. Len(ks) = c[1] /\ c[1] > 0 /\ 1 \in 1..c[1] - c[1 - 1] /\ c[1 - 1] + 1 = 1
      BY <2>2
    <3> QED BY <2>2, <3>1
  <2>5. Block(ks)[1] = <<"key", added[1]>>
    <3> HIDE DEF ks
    <3>1. 1 \in 1..2 * Len(ks) /\ 1 \in 1..Len(ks) /\ 2 * 1 - 1 = 1
      BY <2>4
    <3>2. Block(ks)[1] = Data(ks)[1]
      BY <2>4, <3>1, BlockShape
    <3>3. Data(ks)[2 * 1 - 1] = <<"key", ks[1]>>
      BY <2>4, <3>1, DataShape
    <3> QED BY <2>4, <3>1, <3>2, <3>3
  <2> HIDE DEF ks
  <2>6. index[1].offset = 0
    BY <1>1, <2>1 DEF TableOK, BuilderOK, CutsOK
  <2>7. f[0 + 1] = <<"key", added[1]>>
    <3>1. ReadAt(f, 0, index[1].size)[1] = f[0 + 1]
      <4>1. IsSeq(f) /\ Len(f) \in Nat
        BY FinishedFile, Shape DEF TableOK
      <4>2. 0 + index[1].size <= Len(f)
        BY <2>3, <2>6 DEF Inside
      <4>3. 1 \in 1..index[1].size
        BY <2>3 DEF SmallestBlock
      <4> HIDE DEF f
      <4>4. \A j \in 1..index[1].size : ReadAt(f, 0, index[1].size)[j] = f[0 + j]
        <5>1. PICK m : m = index[1].size
          OBVIOUS
        <5>2. m \in Nat /\ 0 + m <= Len(f) /\ 0 \in Nat
          BY <2>3, <4>2, <5>1
        <5>3. \A j \in 1..m : ReadAt(f, 0, m)[j] = f[0 + j]
          BY <4>1, <5>2, Window
        <5> QED BY <5>1, <5>3
      <4> QED BY <4>3, <4>4
    <3> QED BY <2>3, <2>5, <2>6, <3>1
  <2>8. FirstKeyOf(f, index) = added[1]
    <3>1. ~(index[1].size < 2)
      BY <2>3 DEF SmallestBlock
    <3>2. f[index[1].offset + 1][1] = "key" /\ f[index[1].offset + 1][2] = added[1]
      BY <2>6, <2>7
    <3> QED BY <2>1, <2>3, <3>1, <3>2 DEF FirstKeyOf
  <2>9. 1 \in 1..c[n] /\ c[n] \in 1..c[n]
    BY <2>2
  <2>10. Stored # <<>> /\ Stored[1] = added[1] /\ Last(Stored) = added[c[n]]
    <3>1. Stored # <<>>
      BY <1>2, <2>9, EmptyCells
    <3> QED BY <1>2, <2>9, <3>1 DEF Last
  <2>11. LastKeyOf(index) = added[c[n]]
    BY <1>1, <2>1 DEF LastKeyOf, Last
  <2> QED BY <1>3, <2>8, <2>10, <2>11
<1> QED BY <1>4, <1>5

\* An iterator that is on a record is on the one that is wanted.
LEMMA IteratorIsPlaced ==
  ASSUME TableInv, open = "yes", builder.failed <= 1, NEW r \in Readers, pc[r] = "on"
  PROVE  IF reader[r].want <= Len(Stored)
           THEN reader[r].at # 0 /\ reader[r].records[reader[r].at] = Stored[reader[r].want]
           ELSE reader[r].at = 0
<1>2. PICK it : it = reader[r]
  OBVIOUS
<1>3. PICK b, c, e, gained, lost : TableOK(b, c, e, gained, lost) /\ ReaderOK(it, "on", c)
  BY <1>2 DEF TableInv
<1>4. Placed(it, c)
  BY <1>3 DEF ReaderOK
<1>5. Len(Stored) = c[Len(index)] /\ \A j \in 1..c[Len(index)] : Stored[j] = added[j]
  BY <1>3, StoredFacts
<1>6. CASE it.at = 0
  <2>1. it.want \in Nat /\ it.want > c[Len(index)]
    BY <1>4, <1>6 DEF Placed
  <2>2. c[Len(index)] \in Nat
    <3>1. CutsOfIndex(c)
      BY <1>3, IndexFacts
    <3>2. Len(index) \in 0..Len(index)
      BY <3>1 DEF CutsOfIndex
    <3> QED BY <3>1, <3>2 DEF CutsOfIndex
  <2>3. ~(it.want <= Len(Stored))
    BY <1>5, <2>1, <2>2
  <2> QED BY <1>2, <1>6, <2>3
<1>7. CASE it.at # 0
  <2>1. /\ it.block \in 1..Len(index) /\ it.records = Piece(added, c, it.block)
        /\ it.at \in 1..c[it.block] - c[it.block - 1] /\ it.want = c[it.block - 1] + it.at
    BY <1>4, <1>7 DEF Placed
  <2>2. /\ c[it.block - 1] \in Nat /\ c[it.block] \in Nat /\ c[it.block] <= c[Len(index)]
        /\ c[Len(index)] \in Nat
        /\ \A j \in 1..c[it.block] - c[it.block - 1] :
             Piece(added, c, it.block)[j] = added[c[it.block - 1] + j]
    BY <1>3, <2>1, PieceFacts, SMTT(30)
  <2>3. it.want \in 1..c[Len(index)]
    BY <2>1, <2>2
  <2>4. it.records[it.at] = added[it.want]
    BY <2>1, <2>2
  <2>5. it.want <= Len(Stored)
    BY <1>5, <2>2, <2>3
  <2>6. Stored[it.want] = added[it.want]
    BY <1>5, <2>3
  <2> QED BY <1>2, <1>7, <2>4, <2>5, <2>6
<1> QED BY <1>6, <1>7

LEMMA Follows ==
  ASSUME TableInv
  PROVE  IteratorFollows
<1>1. SUFFICES ASSUME open = "yes", builder.failed <= 1
               PROVE  /\ \A r \in Readers : pc[r] = "on" =>
                           IF reader[r].want <= Len(Stored)
                             THEN /\ reader[r].at # 0
                                  /\ reader[r].records[reader[r].at] = Stored[reader[r].want]
                             ELSE reader[r].at = 0
                      /\ ends = IF Stored = <<>> THEN <<NoKey, NoKey>>
                                ELSE <<Stored[1], Last(Stored)>>
  BY DEF IteratorFollows
<1>2. PICK b, c, e, gained, lost : TableOK(b, c, e, gained, lost)
  BY <1>1 DEF TableInv
<1>3. ends = IF Stored = <<>> THEN <<NoKey, NoKey>> ELSE <<Stored[1], Last(Stored)>>
  BY <1>1, <1>2, EndsAreKeys
<1> QED BY <1>1, <1>3, IteratorIsPlaced

\* Get finds only what the table holds. With its own index it misses none of it unless
\* more than SmallestBlock writes failed, and reports damage only if two did; a table
\* that Open was misled about may deny what it holds (sstable.cc, Open and Get). For
\* every size of blocks, every number of readers, keys and failures.
THEOREM GetsDoNotLie == Spec => []GetNeverLies
BY ReadersAreWhereTheyShouldBe, PositionIsOwned, NeverLies, PTL

\* In a table with its own index, after at most one failure, an iterator stands on the
\* record that its calls amount to, and first_key_ and last_key_ are the first and the
\* last key, over every number of blocks and beside every number of readers (iterator.cc,
\* SSTableIterator; sstable.cc:153-181).
THEOREM IteratorsFollow == Spec => []IteratorFollows
BY ReadersAreWhereTheyShouldBe, PositionIsOwned, Follows, PTL
=============================================================================
