--------------------------- MODULE SkipListProofs ---------------------------
(***************************************************************************)
(* Proofs about the skip list and the arena its nodes are cut from, for    *)
(* every block size, alignment and sequence of requests, every set of keys *)
(* and readers, every height and both orders of stores.                    *)
(***************************************************************************)
EXTENDS SkipList, TLAPS

-----------------------------------------------------------------------------
(* The arena *)

\* Where alloc_ptr_ stands: the current block is cut up to offset and no
\* further, a piece ends there, and the rest of the block is what remains.
PointerInv ==
  /\ blocks \in Seq(Nat)
  /\ offset \in Nat /\ remaining \in Nat
  /\ current \in 0..Len(blocks)
  /\ current = 0 => offset = 0 /\ remaining = 0
  /\ current # 0 => /\ blocks[current] = BlockSize
                    /\ offset + remaining = BlockSize
                    /\ \E p \in pieces : p.block = current /\ p.to = offset
  /\ pieces \subseteq [block : 1..Len(blocks), from : Nat, to : Nat, aligned : BOOLEAN]
  /\ \A p \in pieces : p.block = current => p.to <= offset
  /\ \A p \in pieces : p.from < p.to

AInv == PointerInv /\ PiecesDisjoint /\ NodesAligned /\ BlocksWellUsed

USE ArenaAssumption DEF ArenaAssumption

\* Padding brings an offset to the next multiple of the alignment.
LEMMA PaddingAligns ==
  ASSUME offset \in Nat
  PROVE  Padding \in Nat /\ (offset + Padding) % Align = 0
<1> DEFINE d == offset \div Align
           r == offset % Align
<1>1. d \in Nat /\ r \in 0..Align - 1 /\ offset = Align * d + r
  OBVIOUS
<1>2. CASE r = 0
  BY <1>1, <1>2 DEF Padding, Misalign
<1>3. CASE r # 0
  <2>1. Padding = Align - r
    BY <1>3 DEF Padding, Misalign
  <2>2. offset + Padding = Align * (d + 1)
    BY <2>1, <1>1
  <2>3. \A m \in Nat : (Align * m) % Align = 0
    OBVIOUS
  <2>4. (Align * (d + 1)) % Align = 0
    <3> HIDE DEF d
    <3> QED BY <2>3, <1>1
  <2>5. Padding \in Nat
    BY <2>1, <1>1
  <2> QED BY <2>2, <2>4, <2>5
<1> QED BY <1>2, <1>3

-----------------------------------------------------------------------------
\* A piece cut from the current block.
LEMMA CutInv ==
  ASSUME AInv, NEW skip \in Nat, NEW n \in Nat \ {0}, NEW aligned \in BOOLEAN,
         skip + n <= remaining, Cut(skip, n, aligned),
         aligned => (offset + skip) % Align = 0
  PROVE  AInv'
<1> DEFINE new == Piece(current, offset + skip, n, aligned)
<1>0. /\ PointerInv /\ PiecesDisjoint /\ NodesAligned /\ BlocksWellUsed
      /\ current \in 1..Len(blocks) /\ blocks[current] = BlockSize
      /\ offset \in Nat /\ remaining \in Nat
      /\ offset + remaining = BlockSize
      /\ pieces' = pieces \cup {new} /\ UNCHANGED <<blocks, current>>
      /\ offset' = offset + skip + n /\ remaining' = remaining - (skip + n)
  BY DEF AInv, PointerInv, Cut
<1>1. /\ new.block = current /\ new.from = offset + skip
      /\ new.to = offset + skip + n /\ new.aligned = aligned
  BY DEF Piece
<1>2. PointerInv'
  <2>1. pieces' \subseteq [block : 1..Len(blocks), from : Nat, to : Nat, aligned : BOOLEAN]
    BY <1>0 DEF PointerInv, Piece
  <2>2. \A p \in pieces' : p.block = current => p.to <= offset'
    <3>1. \A p \in pieces : p.block = current => p.to \in Nat /\ p.to <= offset
      BY <1>0 DEF PointerInv
    <3> QED BY <3>1, <1>0, <1>1
  <2>3. \A p \in pieces' : p.from < p.to
    BY <1>0, <1>1 DEF PointerInv
  <2>4. \E p \in pieces' : p.block = current /\ p.to = offset'
    BY <1>0, <1>1
  <2> QED BY <2>1, <2>2, <2>3, <2>4, <1>0 DEF PointerInv
<1>3. PiecesDisjoint'
  <2>1. \A p \in pieces' : p.block \in DOMAIN blocks /\ p.to <= blocks[p.block]
    BY <1>0, <1>1 DEF PiecesDisjoint, PointerInv
  <2>2. \A p \in pieces : p.block = current => p.to <= new.from
    <3>1. \A p \in pieces : p.block = current => p.to \in Nat /\ p.to <= offset
      BY <1>0 DEF PointerInv
    <3> QED BY <3>1, <1>0, <1>1
  <2> QED BY <2>1, <2>2, <1>0, <1>1 DEF PiecesDisjoint
<1>4. NodesAligned'
  BY <1>0, <1>1 DEF NodesAligned
<1>5. BlocksWellUsed'
  BY <1>0 DEF BlocksWellUsed, FullEnough
<1> QED BY <1>2, <1>3, <1>4, <1>5 DEF AInv

\* A piece at the start of a new block: of one that is all its own, or of the
\* next current block.
LEMMA FallbackInv ==
  ASSUME AInv, NEW n \in Nat \ {0}, NEW aligned \in BOOLEAN,
         n > remaining \/ Padding + n > remaining,
         AllocateFallback(n, aligned)
  PROVE  AInv'
<1> DEFINE b == Len(blocks) + 1
           new == Piece(b, 0, n, aligned)
<1>0. /\ PointerInv /\ PiecesDisjoint /\ NodesAligned /\ BlocksWellUsed
      /\ blocks \in Seq(Nat) /\ Len(blocks) \in Nat
      /\ pieces' = pieces \cup {new}
      /\ \A p \in pieces : p \in [block : 1..Len(blocks), from : Nat, to : Nat,
                                  aligned : BOOLEAN]
  BY DEF AInv, PointerInv, AllocateFallback, LargePiece, NewCurrentBlock
<1>1. new.block = b /\ new.from = 0 /\ new.to = n /\ new.aligned = aligned
  BY DEF Piece
<1>2. NodesAligned'
  BY <1>0, <1>1 DEF NodesAligned
<1>3. ASSUME NEW size \in Nat, blocks' = Append(blocks, size), n <= size
      PROVE  PiecesDisjoint'
  <2>1. /\ DOMAIN blocks' = 1..b /\ DOMAIN blocks = 1..Len(blocks)
        /\ blocks'[b] = size
        /\ \A i \in 1..Len(blocks) : blocks'[i] = blocks[i]
    BY <1>0, <1>3
  <2>2. \A p \in pieces' : p.block \in DOMAIN blocks' /\ p.to <= blocks'[p.block]
    BY <2>1, <1>0, <1>1, <1>3 DEF PiecesDisjoint
  <2>3. \A p \in pieces : p.block # b
    BY <1>0
  <2> QED BY <2>2, <2>3, <1>0, <1>1 DEF PiecesDisjoint
<1>4. ASSUME NEW size \in Nat, blocks' = Append(blocks, size)
      PROVE  /\ blocks' \in Seq(Nat) /\ Len(blocks') = b /\ b \in Nat
             /\ blocks'[b] = size
             /\ \A i \in 1..Len(blocks) : blocks'[i] = blocks[i]
             /\ \A p \in pieces' : p \in [block : 1..b, from : Nat, to : Nat,
                                          aligned : BOOLEAN]
             /\ \A p \in pieces' : p.from < p.to
  <2>1. /\ blocks' \in Seq(Nat) /\ Len(blocks') = b /\ b \in Nat /\ blocks'[b] = size
        /\ \A i \in 1..Len(blocks) : blocks'[i] = blocks[i]
    BY <1>0, <1>4
  <2>2. new \in [block : 1..b, from : Nat, to : Nat, aligned : BOOLEAN]
    BY <1>0 DEF Piece
  <2>3. \A p \in pieces : p \in [block : 1..b, from : Nat, to : Nat, aligned : BOOLEAN]
    BY <1>0
  <2>4. \A p \in pieces : p.from < p.to
    BY <1>0 DEF PointerInv
  <2> QED BY <2>1, <2>2, <2>3, <2>4, <1>0, <1>1
<1>5. CASE LargePiece(n, aligned)
  <2>0. blocks' = Append(blocks, n) /\ UNCHANGED <<current, offset, remaining>>
    BY <1>5 DEF LargePiece
  <2>1. PiecesDisjoint'
    BY <1>3, <2>0
  <2>2. PointerInv'
    <3>1. \A p \in pieces' : p.block = current => p.to <= offset
      BY <1>0, <1>1 DEF PointerInv
    <3>2. current # 0 => /\ blocks'[current] = BlockSize
                         /\ \E p \in pieces' : p.block = current /\ p.to = offset
      BY <1>4, <2>0, <1>0 DEF PointerInv
    <3>3. /\ blocks' \in Seq(Nat) /\ Len(blocks') = Len(blocks) + 1
          /\ current' = current /\ offset' = offset /\ remaining' = remaining
          /\ pieces' \subseteq [block : 1..Len(blocks'), from : Nat, to : Nat,
                                 aligned : BOOLEAN]
          /\ \A p \in pieces' : p.from < p.to
      BY <1>4, <2>0
    <3>4. /\ offset \in Nat /\ remaining \in Nat /\ current \in 0..Len(blocks')
          /\ current = 0 => offset = 0 /\ remaining = 0
          /\ current # 0 => offset + remaining = BlockSize
      BY <3>3, <1>0 DEF PointerInv
    <3> QED BY <3>1, <3>2, <3>3, <3>4 DEF PointerInv
  <2>3. BlocksWellUsed'
    <3>1. \A i \in 1..Len(blocks) : FullEnough(i) => FullEnough(i)'
      BY <1>4, <2>0, <1>0 DEF FullEnough
    <3>2. new \in pieces' /\ blocks'[b] < new.to + Quarter + Align
      BY <1>4, <2>0, <1>0, <1>1 DEF Quarter
    <3> QED BY <3>1, <3>2, <1>1, <1>4, <2>0, <1>0 DEF BlocksWellUsed, FullEnough
  <2> QED BY <2>1, <2>2, <2>3, <1>2 DEF AInv
<1>6. CASE NewCurrentBlock(n, aligned)
  <2>0. /\ blocks' = Append(blocks, BlockSize) /\ current' = b
        /\ offset' = n /\ remaining' = BlockSize - n /\ n <= Quarter
    BY <1>6 DEF NewCurrentBlock
  <2>a. n <= BlockSize /\ Quarter \in Nat
    BY <2>0 DEF Quarter
  <2>1. PiecesDisjoint'
    BY <1>3, <2>0, <2>a
  <2>2. PointerInv'
    <3>1. \A p \in pieces' : p.block = b => p.to <= n
      BY <1>0, <1>1
    <3>2. \E p \in pieces' : p.block = b /\ p.to = n
      BY <1>0, <1>1
    <3> QED BY <3>1, <3>2, <1>4, <2>0, <2>a, <1>0 DEF PointerInv
  <2>3. BlocksWellUsed'
    <3>1. \A i \in 1..Len(blocks) : FullEnough(i) => FullEnough(i)'
      BY <1>4, <2>0, <1>0 DEF FullEnough
    <3>2. current # 0 => FullEnough(current)
      <4> SUFFICES ASSUME current # 0 PROVE FullEnough(current)
        OBVIOUS
      <4>1. PICK p \in pieces : p.block = current /\ p.to = offset
        BY <1>0 DEF PointerInv
      <4>2. Padding \in Nat /\ Padding < Align
        BY <1>0 DEF PointerInv, Padding, Misalign
      <4>3. remaining < Quarter + Align
        BY <4>2, <2>0, <2>a, <1>0 DEF PointerInv
      <4>4. blocks[current] < p.to + BlockSize \div 4 + Align
        BY <4>1, <4>3, <2>a, <1>0 DEF PointerInv, Quarter
      <4> QED BY <4>1, <4>4 DEF FullEnough
    <3>3. \A i \in 1..Len(blocks) : FullEnough(i)
      BY <3>2, <1>0 DEF BlocksWellUsed
    <3>4. \A i \in DOMAIN blocks' : i # current' => i \in 1..Len(blocks)
      BY <1>4, <2>0, <1>0
    <3> QED BY <3>1, <3>3, <3>4 DEF BlocksWellUsed
  <2> QED BY <2>1, <2>2, <2>3, <1>2 DEF AInv
<1> QED BY <1>5, <1>6 DEF AllocateFallback

\* Every request keeps the invariant.
LEMMA ArenaStep == AInv /\ [ArenaNext]_arenaVars => AInv'
<1> SUFFICES ASSUME AInv, [ArenaNext]_arenaVars PROVE AInv'
  OBVIOUS
<1>0. offset \in Nat /\ remaining \in Nat
  BY DEF AInv, PointerInv
<1>1. ASSUME UNCHANGED arenaVars PROVE AInv'
  BY <1>1 DEF arenaVars, AInv, PointerInv, PiecesDisjoint, NodesAligned,
              BlocksWellUsed, FullEnough
<1>2. ASSUME NEW n \in Nat, Allocate(n) PROVE AInv'
  <2>1. CASE n = 0 /\ UNCHANGED arenaVars
    BY <2>1, <1>1
  <2>2. CASE n > 0 /\ n <= remaining /\ Cut(0, n, FALSE)
    <3>1. n \in Nat \ {0} /\ 0 \in Nat /\ 0 + n <= remaining
      BY <2>2
    <3>2. FALSE \in BOOLEAN /\ (FALSE => (offset + 0) % Align = 0)
      OBVIOUS
    <3> QED BY <2>2, <3>1, <3>2, CutInv, Zenon
  <2>3. CASE n > remaining /\ AllocateFallback(n, FALSE)
    <3>1. n \in Nat \ {0} /\ FALSE \in BOOLEAN
      BY <2>3, <1>0
    <3> QED BY <2>3, <3>1, FallbackInv, Zenon
  <2> QED BY <2>1, <2>2, <2>3, <1>2 DEF Allocate
<1>3. ASSUME NEW n \in Nat, AllocateAligned(n) PROVE AInv'
  <2>1. CASE Padding + n <= remaining /\ Cut(Padding, n, TRUE)
    <3>1. n \in Nat \ {0} /\ TRUE \in BOOLEAN
      BY <1>3 DEF AllocateAligned
    <3> QED BY <2>1, <3>1, <1>0, CutInv, PaddingAligns, Zenon
  <2>2. CASE Padding + n > remaining /\ AllocateFallback(n, TRUE)
    <3>1. n \in Nat \ {0} /\ TRUE \in BOOLEAN
      BY <1>3 DEF AllocateAligned
    <3> QED BY <2>2, <3>1, FallbackInv, Zenon
  <2> QED BY <2>1, <2>2, <1>3 DEF AllocateAligned
<1> QED BY <1>1, <1>2, <1>3 DEF ArenaNext

\* The invariant holds in every behaviour of the arena.
THEOREM ArenaInvariance == ArenaSpec => []AInv
<1>1. ArenaInit => AInv
  BY DEF ArenaInit, AInv, PointerInv, PiecesDisjoint, NodesAligned,
         BlocksWellUsed, FullEnough
<1> QED BY <1>1, ArenaStep, PTL DEF ArenaSpec

\* For every block size, every alignment and every sequence of requests: pieces
\* never overlap, so that what is copied into one leaves the nodes and keys that
\* readers walk over alone; nodes are aligned as their pointers need it; at most
\* a quarter of a block and one padding is wasted when it is given up.
THEOREM ArenaIsSound == ArenaSpec => []MemorySound
BY ArenaInvariance, PTL DEF AInv, MemorySound

-----------------------------------------------------------------------------
(* The skip list *)

\* The keys of finished insertions on level i.
Old(i) == {k \in inserted : height[k] > i}

\* The search of Insert has passed n on level i and will link after it.
Before(i, n) ==
  n \in Old(i) \cup {HeadNode} /\ n < writer.key /\ writer.key < next[i][n]

Inserting == {"search", "node", "key", "value", "store"}
WriterInv ==
  /\ writer.pc \in Inserting => writer.key \in Keys \ inserted
  /\ writer.pc = "search" =>
       /\ writer.at \in Old(writer.level) \cup {HeadNode} /\ writer.at < writer.key
       /\ \A i \in Levels : i > writer.level => Before(i, writer.prev[i])
  /\ writer.pc \in {"node", "key", "value"} =>
       \A i \in Levels : Before(i, writer.prev[i])
  /\ writer.pc = "store" =>
       /\ writer.todo \subseteq Stores(height[writer.key])
       /\ \A i \in Levels :
         /\ writer.prev[i] \in Old(i) \cup {HeadNode} /\ writer.prev[i] < writer.key
         /\ IsSuccessor(Old(i), writer.prev[i], writer.succ[i])
         /\ writer.key < writer.succ[i]

\* The new node hangs on level i: its predecessor points to it.
Hung(i) == /\ writer.pc = "store" /\ i < height[writer.key]
           /\ LinkPrev(i) \notin writer.todo

\* Whatever is visible of an insertion, the rest of each level is a sorted list.
ListInv ==
  \A i \in Levels :
    /\ \A n \in Old(i) \cup {HeadNode} :
         IF Hung(i) /\ n = writer.prev[i] THEN next[i][n] = writer.key
         ELSE IsSuccessor(Old(i), n, next[i][n])
    /\ writer.pc = "store" /\ i < height[writer.key] /\ LinkNext(i) \notin writer.todo =>
         next[i][writer.key] = writer.succ[i]

\* What program order adds: a node is filled and leads on before it is hung on a
\* level, and hangs on the lower levels first.
OrderInv ==
  /\ inserted \subseteq whole
  /\ writer.pc = "store" /\ Fill \notin writer.todo => writer.key \in whole
  /\ ~reorders => \A i \in Levels : Hung(i) =>
       /\ Fill \notin writer.todo /\ LinkNext(i) \notin writer.todo
       /\ \A j \in Levels : j < i => Hung(j)

\* No part of an insertion is visible out of order.
Orderly ==
  \/ ~reorders \/ writer.pc # "store"
  \/ writer.todo = Stores(height[writer.key])

\* A walk stands on the level it is on, before its target.
WalkInv(r) ==
  /\ reader[r].pc # "idle" => reader[r].known \subseteq inserted
  /\ reader[r].pc = "search" =>
       /\ reader[r].target \in Keys /\ reader[r].at \in Nodes
       /\ reader[r].at < reader[r].target
  /\ reader[r].pc # "idle" /\ Undisturbed(r) =>
       /\ Orderly
       /\ reader[r].pc # "wild"
       /\ reader[r].pc = "search" => reader[r].at \in Linked(reader[r].level) \cup {HeadNode}
       /\ reader[r].pc = "iterate" => reader[r].at \in Linked(0) \cup {Nil}
FoundLeast(r) ==
  reader[r].pc = "found" /\ Undisturbed(r) =>
    /\ reader[r].target <= reader[r].at
    /\ \A k \in reader[r].known : reader[r].target <= k => reader[r].at <= k
    /\ reader[r].at \in Linked(0) \cup {Nil}
YieldedAll(r) ==
  reader[r].pc = "iterate" /\ Undisturbed(r) =>
    /\ \A k \in reader[r].known : k <= reader[r].at => k \in reader[r].seen
    /\ \A k \in reader[r].seen : k <= reader[r].at
    /\ reader[r].seen \subseteq Linked(0)
ReadInv(r) == WalkInv(r) /\ FoundLeast(r) /\ YieldedAll(r)

WriterSide == TypeOK /\ WriterInv /\ ListInv /\ OrderInv
IInv == WriterSide /\ \A r \in Readers : ReadInv(r)

USE SkipListAssumption DEF SkipListAssumption

-----------------------------------------------------------------------------
\* Every step of the list is one of its arena's, or none.
LEMMA StepsArena == [Next]_vars => [ArenaNext]_arenaVars
<1> SUFFICES ASSUME [Next]_vars PROVE [ArenaNext]_arenaVars
  OBVIOUS
<1>1. \A h \in 1..MaxHeight : NodeBytes(h) \in Nat
  BY DEF NodeBytes
<1>2. CASE \E n \in Nat : Allocate(n) \/ AllocateAligned(n)
  BY <1>2 DEF ArenaNext
<1>3. CASE UNCHANGED arenaVars
  BY <1>3
<1>4. CASE WriterStep
  <2>1. CASE Create
    BY <2>1, <1>1, <1>2 DEF Create, CreateHead, CreateHeadData
  <2>2. CASE \E h \in 1..MaxHeight : NewNode(h)
    BY <2>2, <1>1, <1>2 DEF NewNode
  <2>3. CASE NewKey \/ \E n \in ValueSizes : NewValue(n)
    BY <2>3, <1>2 DEF NewKey, NewValue
  <2>4. CASE \/ \E k \in Keys : BeginInsert(k)
             \/ SearchPrev \/ EndInsert
             \/ \E s \in Stores(MaxHeight) : Store(s)
    BY <2>4, <1>3 DEF BeginInsert, SearchPrev, EndInsert, Store
  <2> QED BY <1>4, <2>1, <2>2, <2>3, <2>4 DEF WriterStep
<1>5. CASE \E r \in Readers : ReaderStep(r)
  BY <1>5, <1>3 DEF ReaderStep, BeginSearch, Search, BeginIterator, IteratorNext,
                    EndRead, Begin, Step
<1>6. CASE UNCHANGED vars
  BY <1>6, <1>3 DEF vars
<1> QED BY <1>4, <1>5, <1>6 DEF Next

\* The memory of a skip list is never cut twice, nor its nodes misaligned.
THEOREM MemoryIsSound == Spec => []MemorySound
<1>1. Init => ArenaInit
  BY DEF Init
<1>2. Spec => ArenaSpec
  BY <1>1, StepsArena, PTL DEF Spec, ArenaSpec
<1>3. AInv => MemorySound
  BY DEF AInv, MemorySound
<1> QED BY <1>2, <1>3, ArenaInvariance, PTL

-----------------------------------------------------------------------------
(* What the invariant says of the lists *)

LEMMA LevelFacts ==
  /\ Levels \subseteq Nat /\ 0 \in Levels /\ MaxHeight - 1 \in Levels
  /\ \A i \in Levels : i > 0 => i - 1 \in Levels
  /\ Keys \subseteq Nat /\ Nodes \subseteq Nat /\ HeadNode \in Nodes /\ Nil \in Nat
  /\ HeadNode < Nil /\ \A k \in Keys : HeadNode < k /\ k < Nil
BY DEF Levels, Nodes, HeadNode

\* The stores of an insertion are all different.
LEMMA StoreFacts ==
  \A i, j \in Levels :
    /\ LinkNext(i) # Fill /\ LinkPrev(i) # Fill /\ LinkNext(i) # LinkPrev(j)
    /\ LinkNext(i) = LinkNext(j) => i = j
    /\ LinkPrev(i) = LinkPrev(j) => i = j
BY LevelFacts DEF LinkNext, LinkPrev, Fill

LEMMA StoresOfLevel ==
  ASSUME NEW h \in 1..MaxHeight, NEW i \in Levels
  PROVE  /\ LinkNext(i) \in Stores(h) <=> i < h
         /\ LinkPrev(i) \in Stores(h) <=> i < h
         /\ Fill \in Stores(h)
         /\ Stores(h) \subseteq Stores(MaxHeight)
<1>1. \A j \in 0..h - 1 : j \in Levels
  BY DEF Levels
<1>2. i < h <=> i \in 0..h - 1
  BY DEF Levels
<1> QED BY <1>1, <1>2, StoreFacts DEF Stores

LEMMA LinkedIs ==
  ASSUME NEW i \in Levels, TypeOK, WriterInv
  PROVE  Linked(i) = IF Hung(i) THEN Old(i) \cup {writer.key} ELSE Old(i)
<1>1. CASE writer.pc # "store"
  BY <1>1 DEF Linked, Hung, Old
<1>2. CASE writer.pc = "store"
  <2>1. writer.key \in Keys
    BY <1>2 DEF WriterInv, Inserting
  <2>2. height \in [Keys -> 1..MaxHeight]
    BY DEF TypeOK
  <2>3. height[writer.key] \in 1..MaxHeight
    BY <2>1, <2>2
  <2>4. i \in Nat
    BY LevelFacts
  <2> QED BY <1>2, <2>1, <2>3, <2>4 DEF Linked, Hung, Old
<1> QED BY <1>1, <1>2

\* With a new node that hangs on level i and leads on, the level is a list again.
LEMMA HungLevel ==
  ASSUME TypeOK, WriterInv, ListInv, NEW i \in Levels, Hung(i), LinkNext(i) \notin writer.todo,
         NEW n \in Old(i) \cup {writer.key, HeadNode}
  PROVE  IsSuccessor(Old(i) \cup {writer.key}, n, next[i][n])
<1> DEFINE key == writer.key
           prev == writer.prev[i]
           succ == writer.succ[i]
<1>1. /\ key \in Nat /\ prev \in Nat /\ succ \in Nat /\ Old(i) \subseteq Nat
      /\ HeadNode \in Nat /\ \A k \in Old(i) : HeadNode < k
  BY LevelFacts DEF WriterInv, Inserting, Hung, TypeOK, WriterStates, Old
<1>2. /\ prev \in Old(i) \cup {HeadNode} /\ prev < key
      /\ IsSuccessor(Old(i), prev, succ) /\ key < succ /\ key \notin Old(i)
      /\ key \in Keys
  BY DEF Hung, WriterInv, Inserting, Old
<1>3. next[i][prev] = key /\ next[i][key] = succ
  BY <1>2 DEF ListInv, Hung
<1>4. HeadNode < key
  BY <1>2, LevelFacts
<1>5. CASE n = prev
  BY <1>1, <1>2, <1>3, <1>5 DEF IsSuccessor
<1>6. CASE n = key
  BY <1>1, <1>2, <1>3, <1>6 DEF IsSuccessor
<1>7. CASE n # prev /\ n # key
  <2>1. n \in Old(i) \cup {HeadNode}
    BY <1>7
  <2>2. IsSuccessor(Old(i), n, next[i][n])
    BY <1>7, <2>1 DEF ListInv
  <2>3. n < key => next[i][n] <= prev
    <3>1. SUFFICES ASSUME n < key PROVE next[i][n] <= prev
      OBVIOUS
    <3>2. ~(prev < n)
      BY <1>1, <1>2, <1>4, <2>1, <3>1 DEF IsSuccessor
    <3>3. n < prev /\ prev \in Old(i)
      BY <1>1, <1>2, <1>7, <2>1, <3>2
    <3> QED BY <2>2, <3>3 DEF IsSuccessor
  <2>4. next[i][n] \in Nat
    BY <1>1, <2>2, LevelFacts DEF IsSuccessor
  <2> QED BY <1>1, <1>2, <2>1, <2>2, <2>3, <2>4 DEF IsSuccessor
<1> QED BY <1>5, <1>6, <1>7

\* Of an insertion in program order, what can be seen is always lists.
LEMMA OrderlyLists ==
  ASSUME WriterSide, Orderly, NEW i \in Levels
  PROVE  /\ \A n \in Linked(i) \cup {HeadNode} : IsSuccessor(Linked(i), n, next[i][n])
         /\ Linked(i) \subseteq whole
         /\ i > 0 => Linked(i) \subseteq Linked(i - 1)
<1> USE DEF WriterSide
<1>1. Linked(i) = IF Hung(i) THEN Old(i) \cup {writer.key} ELSE Old(i)
  BY LinkedIs
<1>2. i > 0 => Old(i) \subseteq Old(i - 1)
  <2>1. \A k \in inserted : height[k] \in Nat
    BY DEF TypeOK
  <2> QED BY <2>1, LevelFacts DEF Old
<1>3. Old(i) \subseteq whole
  BY DEF Old, OrderInv
<1>4. CASE Hung(i)
  <2>1. writer.key \in Keys /\ height[writer.key] \in 1..MaxHeight
    BY <1>4 DEF Hung, WriterInv, Inserting, TypeOK
  <2>2. LinkPrev(i) \in Stores(height[writer.key]) \ writer.todo
    BY <1>4, <2>1, StoresOfLevel DEF Hung
  <2>3. ~reorders
    BY <1>4, <2>2 DEF Orderly, Hung
  <2>4. LinkNext(i) \notin writer.todo /\ Fill \notin writer.todo
    BY <1>4, <2>3 DEF OrderInv
  <2>5. writer.key \in whole
    BY <1>4, <2>4 DEF OrderInv, Hung
  <2>6. i > 0 => Hung(i - 1)
    BY <1>4, <2>3, LevelFacts DEF OrderInv
  <2>7. i > 0 => Linked(i - 1) = Old(i - 1) \cup {writer.key}
    BY <2>6, LinkedIs, LevelFacts
  <2>8. \A n \in Linked(i) \cup {HeadNode} : IsSuccessor(Linked(i), n, next[i][n])
    BY <1>1, <1>4, <2>4, HungLevel
  <2> QED BY <1>1, <1>2, <1>3, <1>4, <2>5, <2>7, <2>8
<1>5. CASE ~Hung(i)
  <2>1. \A n \in Linked(i) \cup {HeadNode} : IsSuccessor(Linked(i), n, next[i][n])
    BY <1>1, <1>5 DEF ListInv
  <2>2. i > 0 => Old(i - 1) \subseteq Linked(i - 1)
    BY LinkedIs, LevelFacts
  <2> QED BY <1>1, <1>2, <1>3, <1>5, <2>1, <2>2
<1> QED BY <1>4, <1>5

-----------------------------------------------------------------------------
(* The readers, beside a step of the writer *)

LEMMA OldIsLinked == ASSUME WriterSide, NEW i \in Levels PROVE Old(i) \subseteq Linked(i)
BY LinkedIs DEF WriterSide

\* All that is inserted hangs on level 0.
LEMMA InsertedIsOld == ASSUME TypeOK PROVE Old(0) = inserted
<1>1. \A k \in inserted : height[k] \in 1..MaxHeight
  BY DEF TypeOK
<1> QED BY <1>1 DEF Old

\* The writer takes no key from a level, and every reader it may confuse counts
\* as raced: the walks go on as they were.
LEMMA ReadersGoOn ==
  ASSUME IInv, NEW r \in Readers,
         reader' = reader, reorders' = reorders, raced \subseteq raced',
         inserted \subseteq inserted',
         \A i \in Levels : Linked(i) \subseteq Linked(i)',
         Orderly' \/ (reader[r].pc # "idle" => r \in raced' /\ reorders)
  PROVE  ReadInv(r)'
<1>1. ReadInv(r)
  BY DEF IInv
<1>2. Undisturbed(r)' => Undisturbed(r)
  BY DEF Undisturbed
<1>3. reader[r].pc # "idle" /\ Undisturbed(r)' => Orderly'
  BY DEF Undisturbed
<1>4. Linked(0) \subseteq Linked(0)'
  BY LevelFacts
<1>5. reader[r].level \in Levels
  BY DEF IInv, WriterSide, TypeOK, ReaderStates
<1>6. Linked(reader[r].level) \subseteq Linked(reader[r].level)'
  BY <1>5
<1>7. WalkInv(r)'
  BY <1>1, <1>2, <1>3, <1>4, <1>6 DEF ReadInv, WalkInv
<1>8. FoundLeast(r)'
  BY <1>1, <1>2, <1>4 DEF ReadInv, FoundLeast
<1>9. YieldedAll(r)'
  BY <1>1, <1>2, <1>4 DEF ReadInv, YieldedAll
<1> QED BY <1>7, <1>8, <1>9 DEF ReadInv

\* A step of the writer outside its stores changes no level.
LEMMA QuietWriter ==
  ASSUME IInv, WriterSide', next' = next, inserted' = inserted,
         \A k \in inserted : height'[k] = height[k],
         reader' = reader, reorders' = reorders, raced' = raced,
         writer.pc # "store",
         writer'.pc = "store" => writer'.todo = Stores(height'[writer'.key])
  PROVE  \A r \in Readers : ReadInv(r)'
<1>1. Orderly'
  BY DEF Orderly
<1>2. \A i \in Levels : Linked(i) \subseteq Linked(i)'
  BY DEF Linked
<1> QED BY <1>1, <1>2, ReadersGoOn

-----------------------------------------------------------------------------
(* The writer *)

LEMMA CreateInv == ASSUME IInv, Create PROVE IInv'
<1> USE DEF IInv, WriterSide
<1>1. /\ writer.pc \notin Inserting
      /\ writer' \in [pc : {writer'.pc}, key : {writer.key}, level : {writer.level},
                      at : {writer.at}, prev : {writer.prev}, succ : {writer.succ},
                      todo : {writer.todo}]
      /\ writer'.pc \in {"headKey", "headValue", "idle"}
      /\ UNCHANGED <<reorders, next, height, whole, inserted, reader, raced>>
  BY DEF Create, CreateHead, CreateHeadData, TypeOK, WriterStates, Inserting
<1>2. writer.pc # "store" /\ writer'.pc \notin Inserting
  BY <1>1 DEF Inserting
<1>3. TypeOK'
  BY <1>1 DEF TypeOK, WriterStates
<1>4. WriterInv'
  BY <1>1, <1>2 DEF WriterInv, Inserting
<1>5. ListInv'
  BY <1>1, <1>2 DEF ListInv, Hung, Old, IsSuccessor, Inserting
<1>6. OrderInv'
  BY <1>1, <1>2 DEF OrderInv, Hung, Inserting
<1> QED BY <1>1, <1>2, <1>3, <1>4, <1>5, <1>6, QuietWriter DEF Inserting

LEMMA BeginInsertInv == ASSUME IInv, NEW k \in Keys, BeginInsert(k) PROVE IInv'
<1> USE DEF IInv, WriterSide
<1>1. /\ writer.pc = "idle" /\ k \notin inserted
      /\ writer' = [NoInsert("search") EXCEPT !.key = k, !.level = MaxHeight - 1]
      /\ UNCHANGED <<reorders, next, height, whole, inserted, reader, raced>>
  BY DEF BeginInsert
<1>2. /\ writer'.pc = "search" /\ writer'.key = k /\ writer'.level = MaxHeight - 1
      /\ writer'.at = HeadNode
      /\ writer' \in WriterStates
  BY <1>1, LevelFacts DEF NoInsert, WriterStates
<1>3. TypeOK'
  BY <1>1, <1>2 DEF TypeOK
<1>4. WriterInv'
  <2>1. \A i \in Levels : ~(i > MaxHeight - 1)
    BY DEF Levels
  <2> QED BY <1>1, <1>2, <2>1, LevelFacts DEF WriterInv, Inserting
<1>5. ListInv'
  BY <1>1, <1>2 DEF ListInv, Hung, Old, IsSuccessor
<1>6. OrderInv'
  BY <1>1, <1>2 DEF OrderInv, Hung
<1> QED BY <1>1, <1>2, <1>3, <1>4, <1>5, <1>6, QuietWriter

\* The search leaves a predecessor behind on each level it comes down from.
LEMMA SearchPrevInv == ASSUME IInv, SearchPrev PROVE IInv'
<1> USE DEF IInv, WriterSide
<1> DEFINE i == writer.level
           x == writer.at
           y == next[i][x]
<1>1. /\ writer.pc = "search" /\ i \in Levels /\ x \in Nodes
      /\ UNCHANGED <<reorders, next, height, whole, inserted, reader, raced>>
  BY DEF SearchPrev, TypeOK, WriterStates
<1>2. /\ writer.key \in Keys \ inserted
      /\ x \in Old(i) \cup {HeadNode} /\ x < writer.key
      /\ \A j \in Levels : j > i => Before(j, writer.prev[j])
  BY <1>1 DEF WriterInv, Inserting
<1>3. IsSuccessor(Old(i), x, y)
  BY <1>1, <1>2 DEF ListInv, Hung
<1>4. Old(i) \subseteq inserted /\ inserted \subseteq Keys
  BY DEF Old, TypeOK
<1>5. y \in Nat /\ writer.key \in Nat /\ y # writer.key /\ i \in Nat
  <2>1. y \in inserted \cup {Nil}
    BY <1>3, <1>4 DEF IsSuccessor
  <2>2. Keys \subseteq Nat /\ Nil \in Nat /\ Nil \notin Keys
    OBVIOUS
  <2>3. i \in Nat
    BY <1>1, LevelFacts
  <2> QED BY <1>2, <1>4, <2>1, <2>2, <2>3
<1>6. /\ TypeOK' /\ WriterInv'
      /\ writer'.pc \in {"search", "node"}
  <2>1. CASE GoesRight(i, x, writer.key)
    <3>1. writer' = [writer EXCEPT !.at = y]
      BY <2>1 DEF SearchPrev, NextAt
    <3>2. y < writer.key
      BY <2>1 DEF GoesRight, NextAt
    <3>3. y \in Old(i) /\ y \in Nodes
      BY <1>2, <1>3, <1>4, <1>5, <3>2, LevelFacts DEF IsSuccessor, Nodes
    <3>4. /\ writer' \in WriterStates /\ writer'.pc = "search" /\ writer'.at = y
          /\ writer'.key = writer.key /\ writer'.level = i /\ writer'.prev = writer.prev
      BY <1>1, <3>1, <3>3 DEF TypeOK, WriterStates
    <3>5. TypeOK'
      BY <1>1, <3>4 DEF TypeOK
    <3>6. WriterInv'
      BY <1>1, <1>2, <3>2, <3>3, <3>4 DEF WriterInv, Inserting, Old, Before
    <3> QED BY <3>4, <3>5, <3>6
  <2>2. CASE ~GoesRight(i, x, writer.key)
    <3>1. Before(i, x)
      BY <1>2, <1>5, <2>2 DEF Before, GoesRight, NextAt
    <3>2. CASE i = 0
      <4>1. writer' = [writer EXCEPT !.prev[0] = x, !.pc = "node"]
        BY <2>2, <3>2 DEF SearchPrev
      <4>2. /\ writer' \in WriterStates /\ writer'.pc = "node"
            /\ writer'.key = writer.key
            /\ writer'.prev = [writer.prev EXCEPT ![i] = x]
        BY <1>1, <3>2, <4>1 DEF TypeOK, WriterStates
      <4>3. TypeOK'
        BY <1>1, <4>2 DEF TypeOK
      <4>4. \A j \in Levels : Before(j, writer'.prev[j])
        <5>1. \A j \in Levels : j # i => j > i
          BY <3>2, LevelFacts
        <5>2. writer.prev \in [Levels -> Nodes]
          BY DEF TypeOK, WriterStates
        <5> QED BY <1>2, <3>1, <4>2, <5>1, <5>2
      <4>5. WriterInv'
        BY <1>1, <1>2, <4>2, <4>4 DEF WriterInv, Inserting, Old, Before
      <4> QED BY <4>2, <4>3, <4>5
    <3>3. CASE i # 0
      <4>1. writer' = [writer EXCEPT !.prev[i] = x, !.level = i - 1]
        BY <2>2, <3>3 DEF SearchPrev
      <4>2. i > 0 /\ i - 1 \in Levels
        <5>1. i > 0
          BY <1>5, <3>3
        <5> QED BY <1>1, <5>1, LevelFacts
      <4>3. /\ writer' \in WriterStates /\ writer'.pc = "search"
            /\ writer'.key = writer.key /\ writer'.level = i - 1 /\ writer'.at = x
            /\ writer'.prev = [writer.prev EXCEPT ![i] = x]
        BY <1>1, <4>1, <4>2 DEF TypeOK, WriterStates
      <4>4. TypeOK'
        BY <1>1, <4>3 DEF TypeOK
      <4>5. \A j \in Levels : j > i - 1 => Before(j, writer'.prev[j])
        <5>1. \A j \in Levels : j > i - 1 /\ j # i => j > i
          <6>1. \A j \in Nat : j > i - 1 /\ j # i => j > i
            BY <1>5
          <6> QED BY <6>1, LevelFacts
        <5>2. writer.prev \in [Levels -> Nodes]
          BY DEF TypeOK, WriterStates
        <5> QED BY <1>1, <1>2, <3>1, <4>3, <5>1, <5>2
      <4>6. x \in Old(i - 1) \cup {HeadNode}
        <5>1. \A n \in inserted : height[n] \in 1..MaxHeight
          BY DEF TypeOK
        <5>2. \A n \in inserted : height[n] > i => height[n] > i - 1
          BY <1>5, <5>1
        <5> QED BY <1>2, <5>2 DEF Old
      <4>7. WriterInv'
        BY <1>1, <1>2, <4>3, <4>5, <4>6 DEF WriterInv, Inserting, Old, Before
      <4> QED BY <4>3, <4>4, <4>7
    <3> QED BY <3>2, <3>3
  <2> QED BY <2>1, <2>2
<1>7. ListInv'
  BY <1>1, <1>6 DEF ListInv, Hung, Old, IsSuccessor
<1>8. OrderInv'
  BY <1>1, <1>6 DEF OrderInv, Hung
<1> QED BY <1>1, <1>6, <1>7, <1>8, QuietWriter

LEMMA NewNodeInv ==
  ASSUME IInv, NEW h \in 1..MaxHeight, NewNode(h) \/ NewKey
  PROVE  IInv'
<1> USE DEF IInv, WriterSide
<1>1. /\ writer.pc \in {"node", "key"} /\ writer'.pc \in {"key", "value"}
      /\ writer' = [writer EXCEPT !.pc = writer'.pc]
      /\ height' = height \/ height' = [height EXCEPT ![writer.key] = h]
      /\ UNCHANGED <<reorders, next, whole, inserted, reader, raced>>
  BY DEF NewNode, NewKey, TypeOK, WriterStates
<1>2. /\ writer.key \in Keys \ inserted
      /\ writer'.key = writer.key /\ writer'.prev = writer.prev
      /\ writer' \in WriterStates
  BY <1>1 DEF WriterInv, Inserting, TypeOK, WriterStates
<1>3. /\ height' \in [Keys -> 1..MaxHeight]
      /\ \A k \in inserted : height'[k] = height[k]
  BY <1>1, <1>2 DEF TypeOK
<1>4. \A i \in Levels : Old(i)' = Old(i)
  BY <1>1, <1>3 DEF Old
<1>5. TypeOK'
  BY <1>1, <1>2, <1>3 DEF TypeOK
<1>6. WriterInv'
  <2>1. \A i \in Levels : Before(i, writer.prev[i])
    BY <1>1 DEF WriterInv
  <2>2. \A i \in Levels : Before(i, writer.prev[i])'
    BY <1>1, <1>2, <1>4, <2>1 DEF Before
  <2> QED BY <1>1, <1>2, <2>2 DEF WriterInv, Inserting
<1>7. ListInv'
  BY <1>1, <1>4 DEF ListInv, Hung, IsSuccessor
<1>8. OrderInv'
  BY <1>1 DEF OrderInv, Hung
<1> QED BY <1>1, <1>2, <1>3, <1>5, <1>6, <1>7, <1>8, QuietWriter

\* The successors are read before the first store: nothing hangs yet.
LEMMA NewValueInv == ASSUME IInv, NEW n \in ValueSizes, NewValue(n) PROVE IInv'
<1> USE DEF IInv, WriterSide
<1> DEFINE succ == [i \in Levels |-> next[i][writer.prev[i]]]
           todo == Stores(height[writer.key])
<1>1. /\ writer.pc = "value"
      /\ writer' = [writer EXCEPT !.pc = "store", !.todo = todo, !.succ = succ]
      /\ UNCHANGED <<reorders, next, height, whole, inserted, reader, raced>>
  BY DEF NewValue, NextAt
<1>2. /\ writer.key \in Keys \ inserted /\ height[writer.key] \in 1..MaxHeight
      /\ \A i \in Levels : Before(i, writer.prev[i])
  BY <1>1 DEF WriterInv, Inserting, TypeOK
<1>3. succ \in [Levels -> Keys \cup {Nil}]
  BY DEF TypeOK, WriterStates
<1>4. todo \subseteq Stores(MaxHeight)
  BY <1>2, StoresOfLevel, LevelFacts
<1> HIDE DEF succ, todo
<1>5. /\ writer' \in WriterStates /\ writer'.pc = "store" /\ writer'.todo = todo
      /\ writer'.succ = succ /\ writer'.prev = writer.prev /\ writer'.key = writer.key
  BY <1>1, <1>3, <1>4 DEF TypeOK, WriterStates
<1>6. TypeOK'
  BY <1>1, <1>5 DEF TypeOK
<1>7. \A i \in Levels : Old(i)' = Old(i)
  BY <1>1 DEF Old
<1>8. ASSUME NEW i \in Levels
      PROVE  /\ writer.prev[i] \in Old(i) \cup {HeadNode} /\ writer.prev[i] < writer.key
             /\ IsSuccessor(Old(i), writer.prev[i], succ[i])
             /\ writer.key < succ[i]
  BY <1>1, <1>2 DEF Before, ListInv, Hung, succ
<1>9. WriterInv'
  <2>1. writer'.key \in Keys \ inserted
    BY <1>2, <1>5
  <2>2. writer'.todo \subseteq Stores(height'[writer'.key])
    BY <1>1, <1>5 DEF todo
  <2>3. ASSUME NEW i \in Levels
        PROVE  /\ writer'.prev[i] \in Old(i)' \cup {HeadNode} /\ writer'.prev[i] < writer'.key
               /\ IsSuccessor(Old(i)', writer'.prev[i], writer'.succ[i])
               /\ writer'.key < writer'.succ[i]
    BY <1>5, <1>7, <1>8
  <2> QED BY <1>1, <1>5, <2>1, <2>2, <2>3 DEF WriterInv, Inserting, IsSuccessor
<1>10. \A i \in Levels : i < height[writer.key] => LinkNext(i) \in todo /\ LinkPrev(i) \in todo
  BY <1>2, StoresOfLevel DEF todo
<1>11. ASSUME NEW i \in Levels
       PROVE  /\ ~Hung(i)' /\ ~Hung(i)
              /\ i < height[writer.key] => LinkNext(i) \in todo
  BY <1>1, <1>5, <1>10 DEF Hung
<1>12. ListInv'
  BY <1>1, <1>5, <1>7, <1>11 DEF ListInv, IsSuccessor
<1>13. OrderInv'
  <2>1. Fill \in todo
    BY <1>2, StoresOfLevel, LevelFacts DEF todo
  <2> QED BY <1>1, <1>5, <1>11, <2>1 DEF OrderInv
<1>14. writer'.todo = Stores(height'[writer'.key])
  BY <1>1, <1>5 DEF todo
<1> QED BY <1>1, <1>6, <1>9, <1>12, <1>13, <1>14, QuietWriter

-----------------------------------------------------------------------------
(* The stores of an insertion *)

\* What a store does to writer and readers, whichever it is.
LEMMA StoreFrame ==
  ASSUME IInv, NEW s, Store(s)
  PROVE  /\ writer.pc = "store" /\ s \in writer.todo
         /\ writer' = [writer EXCEPT !.todo = writer.todo \ {s}]
         /\ writer' \in WriterStates
         /\ writer.key \in Keys \ inserted /\ writer.key # HeadNode
         /\ height[writer.key] \in 1..MaxHeight
         /\ UNCHANGED <<reorders, height, inserted, reader>>
         /\ raced' = raced \cup {r \in Readers : reader[r].pc # "idle"}
         /\ \A i \in Levels : Old(i)' = Old(i) /\ writer.key \notin Old(i) \cup {HeadNode}
         /\ WriterInv'
<1> USE DEF IInv, WriterSide
<1>1. /\ writer.pc = "store" /\ s \in writer.todo
      /\ writer' = [writer EXCEPT !.todo = writer.todo \ {s}]
      /\ UNCHANGED <<reorders, height, inserted, reader>>
      /\ raced' = raced \cup {r \in Readers : reader[r].pc # "idle"}
  BY DEF Store
<1>2. writer.key \in Keys \ inserted /\ writer.key # HeadNode
  BY <1>1, LevelFacts DEF WriterInv, Inserting
<1>3. height[writer.key] \in 1..MaxHeight
  BY <1>2 DEF TypeOK
<1>4. /\ writer' \in WriterStates
      /\ writer'.pc = "store" /\ writer'.key = writer.key /\ writer'.prev = writer.prev
      /\ writer'.succ = writer.succ /\ writer'.todo = writer.todo \ {s}
  BY <1>1 DEF TypeOK, WriterStates
<1>5. \A i \in Levels : Old(i)' = Old(i) /\ writer.key \notin Old(i) \cup {HeadNode}
  BY <1>1, <1>2 DEF Old
<1>6. WriterInv'
  BY <1>1, <1>4, <1>5 DEF WriterInv, Inserting, IsSuccessor
<1> QED BY <1>1, <1>2, <1>3, <1>4, <1>5, <1>6

\* A store that does not hang the node on level i leaves that as it was.
LEMMA FillInv == ASSUME IInv, Store(Fill) PROVE WriterSide'
<1> USE DEF IInv, WriterSide
<1>1. /\ next' = next /\ whole' = whole \cup {writer.key}
      /\ writer'.todo = writer.todo \ {Fill}
      /\ writer'.pc = "store" /\ writer'.key = writer.key /\ writer'.prev = writer.prev
      /\ writer'.succ = writer.succ
  BY StoreFacts, StoreFrame DEF Store, TypeOK, WriterStates
<1>2. \A i \in Levels : /\ Hung(i)' <=> Hung(i)
                        /\ LinkNext(i) \in writer'.todo <=> LinkNext(i) \in writer.todo
  BY <1>1, StoreFacts, StoreFrame DEF Hung
<1>3. TypeOK'
  BY <1>1, StoreFrame DEF TypeOK
<1>4. ListInv'
  BY <1>1, <1>2, StoreFrame DEF ListInv, IsSuccessor
<1>5. OrderInv'
  BY <1>1, <1>2, StoreFrame DEF OrderInv
<1> QED BY <1>3, <1>4, <1>5, StoreFrame

LEMMA LinkNextInv ==
  ASSUME IInv, NEW i \in Levels, Store(LinkNext(i))
  PROVE  WriterSide'
<1> USE DEF IInv, WriterSide
<1>1. /\ next' = [next EXCEPT ![i][writer.key] = writer.succ[i]]
      /\ whole' = whole
      /\ writer'.todo = writer.todo \ {LinkNext(i)}
      /\ writer'.pc = "store" /\ writer'.key = writer.key /\ writer'.prev = writer.prev
      /\ writer'.succ = writer.succ
  BY StoreFacts, StoreFrame DEF Store, TypeOK, WriterStates
<1>2. \A j \in Levels : Hung(j)' <=> Hung(j)
  BY <1>1, StoreFacts, StoreFrame DEF Hung
<1>3. /\ writer.key \in Nodes
      /\ \A j \in Levels : \A n \in Old(j) \cup {HeadNode} : n \in Nodes
  BY StoreFrame DEF Nodes, Old, TypeOK
<1>4. /\ next' \in [Levels -> [Nodes -> Keys \cup {Nil}]]
      /\ next'[i][writer.key] = writer.succ[i]
      /\ \A j \in Levels, n \in Nodes : j # i \/ n # writer.key => next'[j][n] = next[j][n]
  BY <1>1, <1>3 DEF TypeOK, WriterStates
<1>5. TypeOK'
  BY <1>1, <1>4, StoreFrame DEF TypeOK
<1>6. ListInv'
  <2>1. ASSUME NEW j \in Levels, NEW n \in Old(j) \cup {HeadNode}
        PROVE  IF Hung(j)' /\ n = writer'.prev[j] THEN next'[j][n] = writer'.key
               ELSE IsSuccessor(Old(j)', n, next'[j][n])
    <3>1. next'[j][n] = next[j][n]
      BY <1>3, <1>4, StoreFrame
    <3> QED BY <1>1, <1>2, <3>1, StoreFrame DEF ListInv
  <2>2. ASSUME NEW j \in Levels, j < height[writer.key], LinkNext(j) \notin writer'.todo
        PROVE  next'[j][writer.key] = writer.succ[j]
    <3>1. CASE j = i
      BY <1>4, <3>1
    <3>2. CASE j # i
      <4>1. LinkNext(j) \notin writer.todo
        BY <1>1, <2>2, <3>2, StoreFacts
      <4> QED BY <1>3, <1>4, <2>2, <3>2, <4>1, StoreFrame DEF ListInv
    <3> QED BY <3>1, <3>2
  <2> QED BY <1>1, <2>1, <2>2, StoreFrame DEF ListInv, IsSuccessor
<1>7. OrderInv'
  BY <1>1, <1>2, StoreFacts, StoreFrame DEF OrderInv
<1> QED BY <1>5, <1>6, <1>7, StoreFrame

\* With its store the node hangs on level i, and in program order on all below.
LEMMA LinkPrevInv ==
  ASSUME IInv, NEW i \in Levels, Store(LinkPrev(i))
  PROVE  WriterSide' /\ Hung(i)' /\ \A j \in Levels : j # i => (Hung(j)' <=> Hung(j))
<1> USE DEF IInv, WriterSide
<1>1. /\ next' = [next EXCEPT ![i][writer.prev[i]] = writer.key]
      /\ whole' = whole
      /\ writer'.todo = writer.todo \ {LinkPrev(i)}
      /\ writer'.pc = "store" /\ writer'.key = writer.key /\ writer'.prev = writer.prev
      /\ writer'.succ = writer.succ
  BY StoreFacts, StoreFrame DEF Store, TypeOK, WriterStates
<1>2. \A j \in Levels : j # i => (Hung(j)' <=> Hung(j))
  BY <1>1, StoreFacts, StoreFrame DEF Hung
<1>3. i < height[writer.key]
  BY StoreFrame, StoresOfLevel DEF WriterInv
<1>4. Hung(i)'
  BY <1>1, <1>3, StoreFrame DEF Hung
<1>5. /\ writer.key \in Nodes /\ writer.prev[i] \in Nodes /\ writer.prev[i] # writer.key
      /\ \A j \in Levels : \A n \in Old(j) \cup {HeadNode} : n \in Nodes
  BY StoreFrame DEF Nodes, Old, TypeOK, WriterInv
<1>6. /\ next' \in [Levels -> [Nodes -> Keys \cup {Nil}]]
      /\ next'[i][writer.prev[i]] = writer.key
      /\ \A j \in Levels, n \in Nodes : j # i \/ n # writer.prev[i] => next'[j][n] = next[j][n]
  BY <1>1, <1>5, StoreFrame DEF TypeOK, WriterStates
<1>7. TypeOK'
  BY <1>1, <1>6, StoreFrame DEF TypeOK
<1>8. ListInv'
  <2>1. ASSUME NEW j \in Levels, NEW n \in Old(j) \cup {HeadNode}
        PROVE  IF Hung(j)' /\ n = writer'.prev[j] THEN next'[j][n] = writer'.key
               ELSE IsSuccessor(Old(j)', n, next'[j][n])
    <3>1. CASE j = i /\ n = writer.prev[i]
      BY <1>1, <1>4, <1>6, <3>1
    <3>2. CASE ~(j = i /\ n = writer.prev[i])
      <4>1. next'[j][n] = next[j][n]
        BY <1>5, <1>6, <3>2
      <4>2. Hung(j)' /\ n = writer'.prev[j] <=> Hung(j) /\ n = writer.prev[j]
        BY <1>1, <1>2, <1>4, <3>2 DEF Hung
      <4> QED BY <1>1, <4>1, <4>2, StoreFrame DEF ListInv
    <3> QED BY <3>1, <3>2
  <2>2. ASSUME NEW j \in Levels, j < height[writer.key], LinkNext(j) \notin writer'.todo
        PROVE  next'[j][writer.key] = writer.succ[j]
    <3>1. LinkNext(j) \notin writer.todo
      BY <1>1, <2>2, StoreFacts
    <3>2. next'[j][writer.key] = next[j][writer.key]
      BY <1>5, <1>6
    <3> QED BY <2>2, <3>1, <3>2, StoreFrame DEF ListInv
  <2> QED BY <1>1, <2>1, <2>2, StoreFrame DEF ListInv, IsSuccessor
<1>9. OrderInv'
  <2>1. ASSUME ~reorders
        PROVE  /\ Fill \notin writer.todo /\ LinkNext(i) \notin writer.todo
               /\ \A j \in Levels : j < i => Hung(j)
    <3>1. \A u \in writer.todo : LinkPrev(i) <= u
      BY <2>1 DEF Store
    <3>2. i \in Nat
      BY LevelFacts
    <3>3. ~(LinkPrev(i) <= Fill) /\ ~(LinkPrev(i) <= LinkNext(i))
      BY <3>2 DEF LinkPrev, LinkNext, Fill
    <3>4. \A j \in Nat : j < i => ~(LinkPrev(i) <= LinkPrev(j))
      BY <3>2 DEF LinkPrev
    <3>5. \A j \in Levels : j < i => j < height[writer.key]
      BY <1>3, <3>2, LevelFacts, StoreFrame
    <3> QED BY <3>1, <3>3, <3>4, <3>5, LevelFacts, StoreFrame DEF Hung
  <2>2. writer'.todo \subseteq writer.todo
    BY <1>1
  <2>3. Fill \notin writer'.todo => writer.key \in whole
    BY <1>1, StoreFacts, StoreFrame DEF OrderInv
  <2>4. ASSUME ~reorders, NEW k \in Levels, Hung(k)'
        PROVE  /\ Fill \notin writer'.todo /\ LinkNext(k) \notin writer'.todo
               /\ \A j \in Levels : j < k => Hung(j)'
    BY <1>2, <1>4, <2>1, <2>2, <2>4 DEF OrderInv
  <2> QED BY <1>1, <2>3, <2>4, StoreFrame DEF OrderInv
<1> QED BY <1>2, <1>4, <1>7, <1>8, <1>9, StoreFrame

LEMMA StoreInv == ASSUME IInv, NEW s \in Stores(MaxHeight), Store(s) PROVE IInv'
<1>1. WriterSide'
  <2>1. s = Fill \/ \E i \in Levels : s = LinkNext(i) \/ s = LinkPrev(i)
    BY DEF Store
  <2> QED BY <2>1, FillInv, LinkNextInv, LinkPrevInv
<1>2. \A i \in Levels : Linked(i) \subseteq Linked(i)'
  BY StoreFrame DEF Linked, TypeOK, WriterStates, IInv, WriterSide
<1>3. /\ reader' = reader /\ reorders' = reorders /\ inserted' = inserted
      /\ \A r \in Readers : reader[r].pc # "idle" => r \in raced'
      /\ raced \subseteq raced'
  BY StoreFrame
<1>4. reorders \/ Orderly'
  BY <1>3 DEF Orderly
<1>5. reorders \in BOOLEAN
  BY DEF IInv, WriterSide, TypeOK
<1>6. \A r \in Readers : ReadInv(r)'
  BY <1>2, <1>3, <1>4, <1>5, ReadersGoOn
<1> QED BY <1>1, <1>6 DEF IInv

\* After the last store every level is a list, and the new key an old one.
LEMMA EndInsertInv == ASSUME IInv, EndInsert PROVE IInv'
<1> USE DEF IInv, WriterSide
<1>1. /\ writer.pc = "store" /\ writer.todo = {}
      /\ inserted' = inserted \cup {writer.key}
      /\ writer' = NoInsert("idle")
      /\ UNCHANGED <<reorders, next, height, whole, reader, raced>>
  BY DEF EndInsert
<1>2. /\ writer.key \in Keys \ inserted /\ height[writer.key] \in 1..MaxHeight
  BY <1>1 DEF WriterInv, Inserting, TypeOK
<1>3. writer'.pc = "idle" /\ writer' \in WriterStates
  BY <1>1, LevelFacts DEF NoInsert, WriterStates, Nodes
<1>4. TypeOK'
  BY <1>1, <1>2, <1>3 DEF TypeOK
<1>5. WriterInv'
  BY <1>3 DEF WriterInv, Inserting
<1>6. \A i \in Levels : Hung(i) <=> i < height[writer.key]
  BY <1>1 DEF Hung
<1>7. \A i \in Levels : Old(i)' = IF Hung(i) THEN Old(i) \cup {writer.key} ELSE Old(i)
  <2>1. \A i \in Levels : i < height[writer.key] <=> height[writer.key] > i
    OBVIOUS
  <2> QED BY <1>1, <1>6, <2>1 DEF Old
<1>8. ListInv'
  <2>1. ASSUME NEW i \in Levels, NEW n \in Old(i)' \cup {HeadNode}
        PROVE  IsSuccessor(Old(i)', n, next[i][n])
    <3>1. CASE Hung(i)
      <4>1. LinkNext(i) \notin writer.todo
        BY <1>1
      <4>2. Old(i)' = Old(i) \cup {writer.key}
        BY <1>7, <3>1
      <4> QED BY <2>1, <3>1, <4>1, <4>2, HungLevel
    <3>2. CASE ~Hung(i)
      BY <1>7, <2>1, <3>2 DEF ListInv
    <3> QED BY <3>1, <3>2
  <2> QED BY <1>1, <1>3, <2>1 DEF ListInv, Hung, IsSuccessor
<1>9. OrderInv'
  BY <1>1, <1>3 DEF OrderInv, Hung
<1>10. \A i \in Levels : Linked(i) \subseteq Linked(i)'
  <2>1. \A i \in Levels : Linked(i) = Old(i)'
    BY <1>7, LinkedIs
  <2>2. \A i \in Levels : Old(i)' \subseteq Linked(i)'
    BY DEF Old, Linked
  <2> QED BY <2>1, <2>2
<1>11. Orderly'
  BY <1>3 DEF Orderly
<1>12. \A r \in Readers : ReadInv(r)'
  BY <1>1, <1>10, <1>11, ReadersGoOn
<1> QED BY <1>4, <1>5, <1>8, <1>9, <1>12

LEMMA InitInv == ASSUME Init PROVE IInv
<1> USE DEF Init
<1>1. writer.pc = "head" /\ writer \in WriterStates
  BY LevelFacts DEF NoInsert, WriterStates, Nodes
<1>2. \A r \in Readers : reader[r].pc = "idle" /\ reader[r] \in ReaderStates
  BY LevelFacts DEF NoRead, ReaderStates, Nodes
<1>3. reader \in [Readers -> ReaderStates]
  BY <1>2
<1>4. TypeOK
  BY <1>1, <1>2, <1>3 DEF TypeOK
<1>5. WriterInv
  BY <1>1 DEF WriterInv, Inserting
<1>6. ListInv
  <2>1. \A i \in Levels : Old(i) = {}
    BY DEF Old
  <2>2. \A i \in Levels : next[i][HeadNode] = Nil
    BY LevelFacts
  <2> QED BY <1>1, <2>1, <2>2, LevelFacts DEF ListInv, Hung, IsSuccessor
<1>7. OrderInv
  BY <1>1 DEF OrderInv, Hung
<1>8. \A r \in Readers : ReadInv(r)
  BY <1>2 DEF ReadInv, WalkInv, FoundLeast, YieldedAll
<1> QED BY <1>4, <1>5, <1>6, <1>7, <1>8 DEF IInv, WriterSide

-----------------------------------------------------------------------------
(* The readers *)

\* A step of reader r changes nothing of the writer's, nor of another reader's.
LEMMA ReaderFrame ==
  ASSUME IInv, NEW r \in Readers, NEW read \in ReaderStates,
         reader' = [reader EXCEPT ![r] = read],
         UNCHANGED <<reorders, next, height, whole, inserted, writer>>,
         raced' = raced \/ raced' = raced \ {r},
         read.pc = "wild" => reorders,
         ReadInv(r)'
  PROVE  IInv'
<1> USE DEF IInv, WriterSide
<1>1. /\ reader'[r] = read
      /\ \A q \in Readers : q # r => reader'[q] = reader[q] /\ (q \in raced' <=> q \in raced)
      /\ reader' \in [Readers -> ReaderStates] /\ raced' \subseteq Readers
  BY DEF TypeOK
<1>2. TypeOK'
  BY <1>1 DEF TypeOK
<1>3. WriterInv'
  BY DEF WriterInv, Old, Before, IsSuccessor
<1>4. ListInv'
  BY DEF ListInv, Hung, Old, IsSuccessor
<1>5. OrderInv'
  BY DEF OrderInv, Hung
<1>6. \A i \in Levels : Linked(i) \subseteq Linked(i)'
  BY DEF Linked
<1>7. Orderly' <=> Orderly
  BY DEF Orderly
<1>8. ASSUME NEW q \in Readers, q # r
      PROVE  ReadInv(q)'
  <2>1. Undisturbed(q)' <=> Undisturbed(q)
    BY <1>1, <1>8 DEF Undisturbed
  <2>2. reader'[q] = reader[q] /\ reader[q].level \in Levels
    BY <1>1, <1>8 DEF TypeOK, ReaderStates
  <2>3. ReadInv(q)
    BY <1>8
  <2>4. Linked(0) \subseteq Linked(0)'
        /\ Linked(reader[q].level) \subseteq Linked(reader[q].level)'
    BY <1>6, <2>2, LevelFacts
  <2>5. WalkInv(q)'
    BY <1>7, <2>1, <2>2, <2>3, <2>4 DEF ReadInv, WalkInv
  <2>6. FoundLeast(q)'
    BY <2>1, <2>2, <2>3, <2>4 DEF ReadInv, FoundLeast
  <2>7. YieldedAll(q)'
    BY <2>1, <2>2, <2>3, <2>4 DEF ReadInv, YieldedAll
  <2> QED BY <2>5, <2>6, <2>7 DEF ReadInv
<1> QED BY <1>2, <1>3, <1>4, <1>5, <1>8

LEMMA BeginSearchInv ==
  ASSUME IInv, NEW r \in Readers, NEW t \in Keys, BeginSearch(r, t)
  PROVE  IInv'
<1> DEFINE read == [NoRead EXCEPT !.pc = "search", !.target = t, !.level = MaxHeight - 1,
                                  !.known = inserted]
<1>1. /\ writer.pc = "idle" /\ reader' = [reader EXCEPT ![r] = read]
      /\ raced' = raced \ {r}
      /\ UNCHANGED <<reorders, next, height, whole, inserted, writer>>
  BY DEF BeginSearch, Begin
<1>2. /\ read \in ReaderStates /\ read.pc = "search" /\ read.target = t
      /\ read.at = HeadNode /\ read.known = inserted /\ HeadNode < t /\ HeadNode \in Nodes
  BY LevelFacts DEF NoRead, ReaderStates, IInv, WriterSide, TypeOK
<1> HIDE DEF read
<1>3. reader'[r] = read
  BY <1>1 DEF IInv, WriterSide, TypeOK
<1>4. Orderly'
  BY <1>1 DEF Orderly
<1>5. ReadInv(r)'
  BY <1>1, <1>2, <1>3, <1>4 DEF ReadInv, WalkInv, FoundLeast, YieldedAll
<1> QED BY <1>1, <1>2, <1>5, ReaderFrame

\* Between insertions the first node is the least of all.
LEMMA BeginIteratorInv ==
  ASSUME IInv, NEW r \in Readers, BeginIterator(r)
  PROVE  IInv'
<1> USE DEF IInv, WriterSide
<1> DEFINE x == next[0][HeadNode]
           read == Yield([NoRead EXCEPT !.pc = "iterate", !.known = inserted], x)
<1>1. /\ writer.pc = "idle" /\ reader' = [reader EXCEPT ![r] = read]
      /\ raced' = raced \ {r}
      /\ UNCHANGED <<reorders, next, height, whole, inserted, writer>>
  BY DEF BeginIterator, Begin, NextAt
<1>2. x \in Keys \cup {Nil} /\ x \in Nodes \cup {Nil}
  BY LevelFacts DEF TypeOK, Nodes
<1>3. /\ read \in ReaderStates /\ read.pc = "iterate" /\ read.at = x
      /\ read.known = inserted /\ read.seen = {x} \ {Nil}
  BY <1>2, LevelFacts DEF Yield, NoRead, ReaderStates, TypeOK
<1> HIDE DEF read, x
<1>4. Orderly /\ Orderly'
  BY <1>1 DEF Orderly
<1>5. Linked(0) = inserted /\ Linked(0)' = inserted
  <2>1. Linked(0) = Old(0)
    BY <1>1, LinkedIs, LevelFacts DEF Hung
  <2>2. Linked(0)' = Linked(0)
    BY <1>1 DEF Linked
  <2> QED BY <2>1, <2>2, InsertedIsOld
<1>6. IsSuccessor(inserted, HeadNode, x)
  BY <1>4, <1>5, OrderlyLists, LevelFacts DEF x
<1>7. reader'[r] = read
  BY <1>1 DEF TypeOK
<1>8. WalkInv(r)' /\ FoundLeast(r)'
  BY <1>1, <1>3, <1>4, <1>5, <1>6, <1>7 DEF WalkInv, FoundLeast, IsSuccessor
<1>9. YieldedAll(r)'
  <2>1. ASSUME NEW k \in inserted, k <= x PROVE k \in {x} \ {Nil}
    <3>1. k \in Nat /\ x \in Nat /\ HeadNode < k /\ k < Nil
      BY <1>2, LevelFacts DEF TypeOK
    <3>2. x <= k
      BY <1>6, <3>1 DEF IsSuccessor
    <3> QED BY <2>1, <3>1, <3>2
  <2>2. \A k \in {x} \ {Nil} : k <= x
    BY <1>2, LevelFacts
  <2>3. {x} \ {Nil} \subseteq inserted
    BY <1>6 DEF IsSuccessor
  <2> QED BY <1>1, <1>3, <1>5, <1>7, <2>1, <2>2, <2>3 DEF YieldedAll
<1> QED BY <1>1, <1>3, <1>8, <1>9, ReaderFrame DEF ReadInv

LEMMA EndReadInv == ASSUME IInv, NEW r \in Readers, EndRead(r) PROVE IInv'
<1>1. /\ reader' = [reader EXCEPT ![r] = NoRead]
      /\ UNCHANGED <<reorders, next, height, whole, inserted, writer, raced>>
  BY DEF EndRead, Step
<1>2. NoRead \in ReaderStates /\ NoRead.pc = "idle"
  BY LevelFacts DEF NoRead, ReaderStates
<1>3. reader'[r] = NoRead
  BY <1>1 DEF IInv, WriterSide, TypeOK
<1>4. ReadInv(r)'
  BY <1>2, <1>3 DEF ReadInv, WalkInv, FoundLeast, YieldedAll
<1> QED BY <1>1, <1>2, <1>4, ReaderFrame

\* A walk beside which nothing went out of order comes to linked nodes only.
LEMMA WalkOn ==
  ASSUME IInv, NEW r \in Readers, Undisturbed(r), NEW i \in Levels,
         reader[r].pc # "idle", NEW x \in Linked(i) \cup {HeadNode}
  PROVE  /\ IsSuccessor(Linked(i), x, next[i][x])
         /\ ~Unreadable(next[i][x])
         /\ i > 0 => Linked(i) \subseteq Linked(i - 1)
         /\ reader[r].known \subseteq Linked(0)
<1> USE DEF IInv, WriterSide
<1>1. Orderly /\ reader[r].known \subseteq inserted
  BY DEF ReadInv, WalkInv
<1>2. /\ IsSuccessor(Linked(i), x, next[i][x]) /\ Linked(i) \subseteq whole
      /\ i > 0 => Linked(i) \subseteq Linked(i - 1)
  BY <1>1, OrderlyLists
<1>3. inserted \subseteq Linked(0)
  BY OldIsLinked, InsertedIsOld, LevelFacts
<1> QED BY <1>1, <1>2, <1>3 DEF IsSuccessor, Unreadable

\* A step of a reader under way: it is no more and no less disturbed by it.
LEMMA WalkStep ==
  ASSUME IInv, NEW r \in Readers, NEW read \in ReaderStates, Step(r, read),
         reader[r].pc # "idle", read.known = reader[r].known, read.pc # "idle",
         read.pc = "wild" => reorders,
         read.pc = "search" =>
           /\ read.target \in Keys /\ read.at \in Nodes /\ read.at < read.target,
         Undisturbed(r) =>
           /\ read.pc # "wild"
           /\ read.pc = "search" => read.at \in Linked(read.level) \cup {HeadNode}
           /\ read.pc = "iterate" => read.at \in Linked(0) \cup {Nil}
           /\ read.pc = "found" =>
                /\ read.target <= read.at /\ read.at \in Linked(0) \cup {Nil}
                /\ \A k \in read.known : read.target <= k => read.at <= k
           /\ read.pc = "iterate" =>
                /\ \A k \in read.known : k <= read.at => k \in read.seen
                /\ \A k \in read.seen : k <= read.at
                /\ read.seen \subseteq Linked(0)
  PROVE  IInv'
<1>1. /\ reader' = [reader EXCEPT ![r] = read]
      /\ UNCHANGED <<reorders, next, height, whole, inserted, writer, raced>>
  BY DEF Step
<1>2. reader'[r] = read
  BY <1>1 DEF IInv, WriterSide, TypeOK
<1>3. Undisturbed(r)' <=> Undisturbed(r)
  BY <1>1 DEF Undisturbed
<1>4. Undisturbed(r) => Orderly'
  BY <1>1 DEF IInv, ReadInv, WalkInv, Orderly
<1>5. \A i \in Levels : Linked(i) = Linked(i)'
  BY <1>1 DEF Linked
<1>6. Linked(0) = Linked(0)' /\ Linked(read.level) = Linked(read.level)'
  BY <1>5, LevelFacts DEF ReaderStates
<1>7. reader[r].known \subseteq inserted
  BY DEF IInv, ReadInv, WalkInv
<1>8. WalkInv(r)'
  BY <1>1, <1>2, <1>3, <1>4, <1>6, <1>7 DEF WalkInv
<1>9. FoundLeast(r)' /\ YieldedAll(r)'
  BY <1>1, <1>2, <1>3, <1>6 DEF FoundLeast, YieldedAll
<1> QED BY <1>1, <1>8, <1>9, ReaderFrame DEF ReadInv

LEMMA SearchInv == ASSUME IInv, NEW r \in Readers, Search(r) PROVE IInv'
<1> USE DEF IInv, WriterSide
<1> DEFINE i == reader[r].level
           x == reader[r].at
           y == next[i][x]
           t == reader[r].target
<1>1. reader[r].pc = "search" /\ i \in Levels /\ reader[r] \in ReaderStates
  BY DEF Search, TypeOK, ReaderStates
<1>2. x \in Nodes /\ t \in Keys /\ x < t
  BY <1>1 DEF ReadInv, WalkInv
<1>3. y \in Keys \cup {Nil}
  BY <1>1, <1>2 DEF TypeOK
<1>4. x \in Nat /\ y \in Nat /\ t \in Nat /\ t < Nil
  BY <1>2, <1>3, LevelFacts
<1>5. Undisturbed(r) => x \in Linked(i) \cup {HeadNode}
  BY <1>1 DEF ReadInv, WalkInv
<1>6. Undisturbed(r) => /\ IsSuccessor(Linked(i), x, y) /\ ~Unreadable(y)
                        /\ i > 0 => Linked(i) \subseteq Linked(i - 1)
                        /\ reader[r].known \subseteq Linked(0)
  BY <1>1, <1>5, WalkOn
<1>7. reader[r].known \subseteq Nat
  BY <1>1, LevelFacts DEF ReaderStates
<1>8. CASE Unreadable(y) /\ Step(r, Wild(r))
  <2>1. Wild(r) \in ReaderStates /\ Wild(r).pc = "wild" /\ Wild(r).known = reader[r].known
    BY <1>1 DEF Wild, ReaderStates
  <2>2. ~Undisturbed(r)
    BY <1>6, <1>8
  <2> QED BY <1>1, <1>8, <2>1, <2>2, WalkStep DEF Undisturbed
<1>9. CASE GoesRight(i, x, t) /\ Step(r, [reader[r] EXCEPT !.at = y])
  <2> DEFINE read == [reader[r] EXCEPT !.at = y]
  <2>1. y < t /\ y \in Nodes /\ y # Nil
    BY <1>3, <1>4, <1>9 DEF GoesRight, NextAt, Nodes
  <2>2. /\ read \in ReaderStates /\ read.pc = "search" /\ read.target = t
        /\ read.level = i /\ read.at = y /\ read.known = reader[r].known
    BY <1>1, <2>1 DEF ReaderStates
  <2>3. Undisturbed(r) => y \in Linked(i)
    BY <1>6, <2>1 DEF IsSuccessor
  <2> HIDE DEF read
  <2> QED BY <1>1, <1>2, <1>9, <2>1, <2>2, <2>3, WalkStep DEF read
<1>10. CASE i > 0 /\ Step(r, [reader[r] EXCEPT !.level = i - 1])
  <2> DEFINE read == [reader[r] EXCEPT !.level = i - 1]
  <2>1. i - 1 \in Levels
    BY <1>1, <1>10, LevelFacts
  <2>2. /\ read \in ReaderStates /\ read.pc = "search" /\ read.target = t
        /\ read.level = i - 1 /\ read.at = x /\ read.known = reader[r].known
    BY <1>1, <2>1 DEF ReaderStates
  <2>3. Undisturbed(r) => x \in Linked(i - 1) \cup {HeadNode}
    BY <1>5, <1>6, <1>10
  <2> QED BY <1>1, <1>2, <1>10, <2>2, <2>3, WalkStep
<1>11. CASE ~GoesRight(i, x, t) /\ i = 0
            /\ Step(r, [reader[r] EXCEPT !.pc = "found", !.at = y])
  <2> DEFINE read == [reader[r] EXCEPT !.pc = "found", !.at = y]
  <2>1. t <= y
    BY <1>4, <1>11 DEF GoesRight, NextAt
  <2>2. /\ read \in ReaderStates /\ read.pc = "found" /\ read.target = t
        /\ read.at = y /\ read.known = reader[r].known
    BY <1>1, <1>3 DEF ReaderStates, Nodes
  <2>3. ASSUME Undisturbed(r), NEW k \in reader[r].known, t <= k
        PROVE  y <= k
    <3>1. k \in Nat /\ x < k
      BY <1>2, <1>4, <1>7, <2>3
    <3>2. k \in Linked(i)
      BY <1>6, <1>11, <2>3
    <3> QED BY <1>6, <2>3, <3>1, <3>2 DEF IsSuccessor
  <2>4. Undisturbed(r) => y \in Linked(0) \cup {Nil}
    BY <1>6, <1>11 DEF IsSuccessor
  <2> HIDE DEF read
  <2> QED BY <1>1, <1>11, <2>1, <2>2, <2>3, <2>4, WalkStep DEF read
<1> QED BY <1>8, <1>9, <1>10, <1>11 DEF Search, NextAt

LEMMA IteratorNextInv == ASSUME IInv, NEW r \in Readers, IteratorNext(r) PROVE IInv'
<1> USE DEF IInv, WriterSide
<1> DEFINE x == reader[r].at
           y == next[0][x]
<1>1. /\ reader[r].pc = "iterate" /\ x # Nil /\ reader[r] \in ReaderStates
      /\ x \in Nodes
  BY DEF IteratorNext, TypeOK, ReaderStates
<1>2. y \in Keys \cup {Nil}
  <2>1. next \in [Levels -> [Nodes -> Keys \cup {Nil}]] /\ 0 \in Levels
    BY LevelFacts DEF TypeOK
  <2>2. next[0] \in [Nodes -> Keys \cup {Nil}]
    BY <2>1
  <2> QED BY <1>1, <2>2
<1>3. x \in Nat /\ y \in Nat /\ Nil \in Nat
  BY <1>1, <1>2, LevelFacts
<1>4. Undisturbed(r) => /\ x \in Linked(0)
                        /\ \A k \in reader[r].known : k <= x => k \in reader[r].seen
                        /\ \A k \in reader[r].seen : k <= x
                        /\ reader[r].seen \subseteq Linked(0)
  BY <1>1 DEF ReadInv, WalkInv, YieldedAll
<1>5. Undisturbed(r) => /\ IsSuccessor(Linked(0), x, y) /\ ~Unreadable(y)
                        /\ reader[r].known \subseteq Linked(0)
  BY <1>1, <1>4, WalkOn, LevelFacts
<1>6. CASE Unreadable(y) /\ Step(r, Wild(r))
  <2>1. Wild(r) \in ReaderStates /\ Wild(r).pc = "wild" /\ Wild(r).known = reader[r].known
    BY <1>1 DEF Wild, ReaderStates
  <2>2. ~Undisturbed(r)
    BY <1>5, <1>6
  <2> QED BY <1>1, <1>6, <2>1, <2>2, WalkStep DEF Undisturbed
<1>7. CASE Step(r, Yield(reader[r], y))
  <2> DEFINE read == Yield(reader[r], y)
  <2>1. /\ read \in ReaderStates /\ read.pc = "iterate" /\ read.at = y
        /\ read.known = reader[r].known /\ read.seen = reader[r].seen \cup ({y} \ {Nil})
    BY <1>1, <1>2 DEF Yield, ReaderStates, Nodes
  <2>2. reader[r].known \subseteq Nat /\ reader[r].seen \subseteq Nat
        /\ \A k \in reader[r].known : k < Nil
    BY <1>1, LevelFacts DEF ReaderStates
  <2>3. ASSUME Undisturbed(r), NEW k \in reader[r].known, k <= y
        PROVE  k \in reader[r].seen \cup ({y} \ {Nil})
    <3>1. CASE k <= x
      BY <1>4, <2>3, <3>1
    <3>2. CASE ~(k <= x)
      <4>1. k \in Nat /\ x < k /\ k < Nil
        BY <1>3, <2>2, <3>2
      <4>2. y <= k
        BY <1>5, <2>3, <4>1 DEF IsSuccessor
      <4>3. k = y /\ y # Nil
        BY <1>3, <2>3, <4>1, <4>2
      <4> QED BY <4>3
    <3> QED BY <3>1, <3>2
  <2>4. ASSUME Undisturbed(r), NEW k \in reader[r].seen \cup ({y} \ {Nil})
        PROVE  k <= y
    <3>1. x < y
      BY <1>5, <2>4 DEF IsSuccessor
    <3>2. k \in reader[r].seen => k <= x /\ k \in Nat
      BY <1>4, <2>2, <2>4
    <3> QED BY <1>3, <2>4, <3>1, <3>2
  <2>5. Undisturbed(r) => /\ y \in Linked(0) \cup {Nil}
                          /\ reader[r].seen \cup ({y} \ {Nil}) \subseteq Linked(0)
    BY <1>4, <1>5 DEF IsSuccessor
  <2> HIDE DEF read
  <2> QED BY <1>1, <1>7, <2>1, <2>3, <2>4, <2>5, WalkStep DEF read
<1> QED BY <1>6, <1>7 DEF IteratorNext, NextAt

-----------------------------------------------------------------------------
(* The theorems *)

LEMMA StepInv == IInv /\ [Next]_vars => IInv'
<1> SUFFICES ASSUME IInv, [Next]_vars PROVE IInv'
  OBVIOUS
<1>1. CASE WriterStep
  <2>1. CASE Create
    BY <2>1, CreateInv
  <2>2. CASE \E k \in Keys : BeginInsert(k)
    BY <2>2, BeginInsertInv
  <2>3. CASE SearchPrev
    BY <2>3, SearchPrevInv
  <2>4. CASE NewKey \/ \E h \in 1..MaxHeight : NewNode(h)
    <3>1. 1 \in 1..MaxHeight
      OBVIOUS
    <3> QED BY <2>4, <3>1, NewNodeInv
  <2>5. CASE \E n \in ValueSizes : NewValue(n)
    BY <2>5, NewValueInv
  <2>6. CASE \E s \in Stores(MaxHeight) : Store(s)
    BY <2>6, StoreInv
  <2>7. CASE EndInsert
    BY <2>7, EndInsertInv
  <2> QED BY <1>1, <2>1, <2>2, <2>3, <2>4, <2>5, <2>6, <2>7 DEF WriterStep
<1>2. CASE \E r \in Readers : ReaderStep(r)
  BY <1>2, BeginSearchInv, SearchInv, BeginIteratorInv, IteratorNextInv, EndReadInv
     DEF ReaderStep
<1>3. CASE UNCHANGED vars
  <2>1. /\ UNCHANGED <<reorders, next, height, whole, inserted, writer, reader, raced>>
    BY <1>3 DEF vars, listVars
  <2>2. TypeOK' /\ WriterInv' /\ ListInv' /\ OrderInv'
    BY <2>1 DEF IInv, WriterSide, TypeOK, WriterInv, ListInv, OrderInv, Hung, Old, Before,
                IsSuccessor
  <2>3. \A i \in Levels : Linked(i) \subseteq Linked(i)'
    BY <2>1 DEF Linked
  <2>4. Orderly' <=> Orderly
    BY <2>1 DEF Orderly
  <2>5. ASSUME NEW r \in Readers PROVE ReadInv(r)'
    <3>1. reader[r].pc # "idle" /\ Undisturbed(r) => Orderly
      BY DEF IInv, ReadInv, WalkInv
    <3>2. CASE Orderly'
      BY <2>1, <2>3, <3>2, ReadersGoOn
    <3>3. CASE ~Orderly'
      BY <2>1, <2>3, <2>4, <3>1, <3>3, ReadersGoOn DEF Undisturbed
    <3> QED BY <3>2, <3>3
  <2> QED BY <2>2, <2>5 DEF IInv, WriterSide
<1> QED BY <1>1, <1>2, <1>3 DEF Next

\* Every variable keeps its type, and no reader comes to a node that is not there in a build that
\* keeps the order of the stores.
THEOREM TypesHold == Spec => []TypeOK
<1>1. IInv => TypeOK
  BY DEF IInv, WriterSide
<1> QED BY <1>1, InitInv, StepInv, PTL DEF Spec

\* For every height, set of keys and number of readers: each level is a sorted
\* list of its nodes after every single store of an insertion in program order.
THEOREM LevelsStayLists == Spec => []LevelsAreLists
<1>1. IInv => LevelsAreLists
  <2>1. ASSUME IInv, ~reorders \/ writer.pc # "store" PROVE Orderly
    BY <2>1 DEF Orderly
  <2> QED BY <2>1, OrderlyLists DEF LevelsAreLists, IInv
<1> QED BY <1>1, InitInv, StepInv, PTL DEF Spec

\* Get skips no key that was in the list when it began.
THEOREM SearchesAreRight == Spec => []SearchFindsLeast
<1>1. IInv => SearchFindsLeast
  BY DEF IInv, ReadInv, FoundLeast, SearchFindsLeast
<1> QED BY <1>1, InitInv, StepInv, PTL DEF Spec

\* An iterator yields what was in the list when it was made.
THEOREM IteratorsAreComplete == Spec => []IteratorYieldsAll
<1>1. IInv => IteratorYieldsAll
  BY DEF IInv, ReadInv, YieldedAll, IteratorYieldsAll
<1> QED BY <1>1, InitInv, StepInv, PTL DEF Spec

-----------------------------------------------------------------------------
(* The list implements the set *)

answer == [r \in Readers |-> Found(r)]

LEMMA StoreSet ==
  ASSUME IInv, ~reorders, NEW s \in Stores(MaxHeight), Store(s)
  PROVE  [Set!Next]_(Set!vars)
<1> USE DEF IInv, WriterSide
<1>0. /\ UNCHANGED <<height, inserted>> /\ height'[writer'.key] \in 1..MaxHeight
      /\ writer.pc = "store" /\ writer'.pc = "store" /\ writer'.key = writer.key
      /\ writer'.todo = writer.todo \ {s}
  BY StoreFrame DEF TypeOK, WriterStates
<1>1. answer' = answer
  BY StoreFrame DEF answer, Found
<1>2. CASE s = LinkPrev(0)
  <2>1. Hung(0)' /\ WriterSide'
    BY <1>2, LinkPrevInv, LevelFacts
  <2>2. Linked(0)' = Old(0)' \cup {writer'.key}
    <3>1. height'[writer'.key] > 0
      BY <1>0
    <3> QED BY <2>1, <3>1 DEF Linked, Hung, Old
  <2>3. /\ Old(0)' = Old(0) /\ writer.key \in Keys \ Old(0) /\ writer'.key = writer.key
        /\ s \in writer.todo
    BY StoreFrame, LevelFacts DEF TypeOK, WriterStates
  <2>4. ~Hung(0)
    BY <1>2, <2>3 DEF Hung
  <2>5. Linked(0) = Old(0)
    BY <2>4, LinkedIs, LevelFacts
  <2>6. Set!Insert(writer.key)
    BY <1>1, <2>2, <2>3, <2>5 DEF Set!Insert, answer
  <2> QED BY <2>3, <2>6 DEF Set!Next
<1>3. CASE s # LinkPrev(0)
  <2>1. LinkPrev(0) \in writer'.todo <=> LinkPrev(0) \in writer.todo
    BY <1>0, <1>3
  <2>2. Linked(0)' = Linked(0)
    BY <1>0, <2>1 DEF Linked
  <2> QED BY <1>1, <2>2 DEF Set!vars, answer
<1> QED BY <1>2, <1>3

LEMMA WriterSet ==
  ASSUME IInv, ~reorders, WriterStep
  PROVE  [Set!Next]_(Set!vars)
<1> USE DEF IInv, WriterSide
<1>1. CASE EndInsert
  <2>1. /\ writer.pc = "store" /\ writer.todo = {} /\ reader' = reader
        /\ inserted' = inserted \cup {writer.key} /\ height' = height /\ writer'.pc = "idle"
    BY <1>1 DEF EndInsert, NoInsert
  <2>2. height[writer.key] \in 1..MaxHeight
    BY <2>1 DEF WriterInv, Inserting, TypeOK
  <2>3. Hung(0)
    BY <2>1, <2>2 DEF Hung
  <2>4. Linked(0) = Old(0) \cup {writer.key}
    BY <2>3, LinkedIs, LevelFacts
  <2>5. Linked(0)' = inserted'
    <3>1. \A k \in inserted' : height[k] \in 1..MaxHeight
      BY <2>1, <2>2 DEF TypeOK
    <3> QED BY <2>1, <3>1 DEF Linked
  <2>6. Linked(0)' = Linked(0)
    BY <2>1, <2>4, <2>5, InsertedIsOld
  <2>7. answer' = answer
    BY <2>1 DEF answer, Found
  <2> QED BY <2>6, <2>7 DEF Set!vars, answer
<1>2. ASSUME writer.pc # "store", inserted' = inserted, reader' = reader,
             \A k \in inserted : height'[k] = height[k],
             writer'.pc = "store" => LinkPrev(0) \in writer'.todo
      PROVE  UNCHANGED Set!vars
  <2>1. Linked(0)' = Linked(0)
    BY <1>2 DEF Linked
  <2>2. answer' = answer
    BY <1>2 DEF answer, Found
  <2> QED BY <2>1, <2>2 DEF Set!vars, answer
<1>3. CASE Create \/ SearchPrev \/ \E k \in Keys : BeginInsert(k)
  <2>1. /\ writer.pc # "store" /\ writer'.pc # "store"
        /\ UNCHANGED <<height, inserted, reader>>
    BY <1>3 DEF Create, CreateHead, CreateHeadData, BeginInsert, SearchPrev, NoInsert,
                TypeOK, WriterStates
  <2> QED BY <1>2, <2>1
<1>4. CASE NewKey \/ \E h \in 1..MaxHeight : NewNode(h)
  <2>1. /\ writer.pc # "store" /\ writer'.pc # "store"
        /\ UNCHANGED <<inserted, reader>>
        /\ writer.key \notin inserted
    BY <1>4 DEF NewNode, NewKey, WriterInv, Inserting, TypeOK, WriterStates
  <2>2. \A k \in inserted : height'[k] = height[k]
    BY <1>4, <2>1 DEF NewNode, NewKey, TypeOK
  <2> QED BY <1>2, <2>1, <2>2
<1>5. CASE \E n \in ValueSizes : NewValue(n)
  <2>1. /\ writer.pc = "value" /\ UNCHANGED <<height, inserted, reader>>
        /\ writer'.pc = "store" /\ writer'.todo = Stores(height[writer.key])
        /\ writer'.key = writer.key
    BY <1>5 DEF NewValue, TypeOK, WriterStates
  <2>2. height[writer.key] \in 1..MaxHeight
    BY <2>1 DEF WriterInv, Inserting, TypeOK
  <2>3. LinkPrev(0) \in writer'.todo
    BY <2>1, <2>2, StoresOfLevel, LevelFacts
  <2> QED BY <1>2, <2>1, <2>3
<1> QED BY <1>1, <1>3, <1>4, <1>5, StoreSet DEF WriterStep

\* A reader finds something, forgets it, or is on its way.
LEMMA ReaderSet ==
  ASSUME IInv, ~reorders, NEW r \in Readers, ReaderStep(r)
  PROVE  [Set!Next]_(Set!vars)
<1> USE DEF IInv, WriterSide
<1>1. /\ UNCHANGED <<next, height, inserted, writer>>
      /\ \A q \in Readers : q # r => reader'[q] = reader[q]
  BY DEF ReaderStep, BeginSearch, Search, BeginIterator, IteratorNext, EndRead, Begin, Step,
         TypeOK
<1>2. Linked(0)' = Linked(0)
  BY <1>1 DEF Linked
<1>3. \A q \in Readers : q # r => Found(q)' = Found(q)
  BY <1>1 DEF Found
<1>4. answer' = [answer EXCEPT ![r] = Found(r)']
  BY <1>3 DEF answer
<1>5. answer[r] = Found(r)
  BY DEF answer
<1>6. CASE reader[r].pc # "found" /\ reader'[r].pc # "found"
  <2>1. Found(r)' = Found(r)
    BY <1>6 DEF Found
  <2>2. answer' = answer
    BY <1>4, <1>5, <2>1 DEF answer
  <2> QED BY <1>2, <2>2 DEF Set!vars, answer
<1>7. CASE reader[r].pc # "found" /\ reader'[r].pc = "found"
  <2> DEFINE t == reader'[r].target
             x == reader'[r].at
  <2>1. IInv'
    BY BeginSearchInv, SearchInv, BeginIteratorInv, IteratorNextInv, EndReadInv
       DEF ReaderStep
  <2>2. reader'[r] \in ReaderStates
    BY <2>1 DEF TypeOK
  <2>3. Search(r)
    <3>1. ASSUME NEW read, reader' = [reader EXCEPT ![r] = read] PROVE reader'[r] = read
      BY <3>1 DEF TypeOK
    <3>2. ~EndRead(r) /\ ~BeginIterator(r) /\ \A k \in Keys : ~BeginSearch(r, k)
      <4>1. EndRead(r) => reader'[r].pc = "idle"
        <5>1. EndRead(r) => reader'[r] = NoRead
          BY <3>1 DEF EndRead, Step
        <5> QED BY <5>1 DEF NoRead
      <4>2. BeginIterator(r) => reader'[r].pc = "iterate"
        BY <3>1 DEF BeginIterator, Begin, Yield, NoRead
      <4>3. \A k \in Keys : BeginSearch(r, k) => reader'[r].pc = "search"
        BY <3>1 DEF BeginSearch, Begin, NoRead
      <4> QED BY <1>7, <4>1, <4>2, <4>3
    <3>3. ~IteratorNext(r)
      BY <1>7, <3>1 DEF IteratorNext, Step, Yield, Wild, TypeOK, ReaderStates
    <3> QED BY <3>2, <3>3 DEF ReaderStep
  <2>4. /\ reader[r].pc = "search" /\ reader[r].level = 0
        /\ reader'[r] = [reader[r] EXCEPT !.pc = "found", !.at = next[0][reader[r].at]]
        /\ ~GoesRight(0, reader[r].at, reader[r].target)
    BY <1>7, <2>3 DEF Search, Step, Wild, TypeOK, ReaderStates, NextAt
  <2>5. /\ Undisturbed(r) /\ t \in Keys /\ x = next[0][reader[r].at] /\ t = reader[r].target
        /\ reader[r].at \in Linked(0) \cup {HeadNode} /\ reader[r].at < t
    BY <2>4 DEF Undisturbed, ReadInv, WalkInv, TypeOK, ReaderStates
  <2>6. IsSuccessor(Linked(0), reader[r].at, x)
    BY <2>4, <2>5, WalkOn, LevelFacts
  <2>7. Set!IsLeastFrom(Linked(0), t, x)
    <3>1. Linked(0) \subseteq Keys
      BY <2>4 DEF Linked, TypeOK, WriterInv, Inserting
    <3>2. t \in Nat /\ x \in Nat /\ reader[r].at \in Nat /\ Linked(0) \subseteq Nat
      BY <2>5, <2>6, <3>1, LevelFacts DEF IsSuccessor
    <3>3. t <= x
      BY <2>4, <2>5, <3>2 DEF GoesRight, NextAt
    <3>4. \A k \in Linked(0) : t <= k => reader[r].at < k
      BY <2>5, <3>2
    <3> QED BY <2>6, <3>3, <3>4 DEF Set!IsLeastFrom, IsSuccessor
  <2>8. x \in Keys \cup {Nil}
    BY <2>6 DEF IsSuccessor, Linked, TypeOK, WriterInv, Inserting
  <2>9. Found(r) = {} /\ Found(r)' = {<<t, x>>}
    BY <1>7 DEF Found
  <2>10. Set!Find(r, t, x)
    BY <1>2, <1>4, <1>5, <2>7, <2>9 DEF Set!Find, answer
  <2> QED BY <2>5, <2>8, <2>10 DEF Set!Next
<1>8. CASE reader[r].pc = "found"
  <2>1. reader'[r] = NoRead
    BY <1>8 DEF ReaderStep, BeginSearch, Search, BeginIterator, IteratorNext, EndRead, Begin,
                Step, TypeOK
  <2>2. Found(r)' = {} /\ Found(r) # {}
    BY <1>8, <2>1 DEF Found, NoRead
  <2>3. Set!Return(r)
    BY <1>2, <1>4, <1>5, <2>2 DEF Set!Return, answer
  <2> QED BY <2>3 DEF Set!Next
<1> QED BY <1>6, <1>7, <1>8

\* In program order every behaviour of the list is one of the set: an insertion
\* takes effect at one store, a search at its last step, whatever they interleave.
THEOREM ImplementsTheSet == Spec => ImplementsSet
<1>1. Init => Set!Init
  <2>1. ASSUME Init PROVE Linked(0) = {} /\ \A r \in Readers : Found(r) = {}
    BY <2>1 DEF Init, Linked, NoInsert, Found, NoRead
  <2> QED BY <2>1 DEF Set!Init
<1>2. IInv /\ [Next]_vars => [reorders \/ Set!Next]_(Set!vars)
  <2> SUFFICES ASSUME IInv, [Next]_vars, ~reorders PROVE [Set!Next]_(Set!vars)
    OBVIOUS
  <2>1. CASE UNCHANGED vars
    <3>1. Linked(0)' = Linked(0)
      BY <2>1 DEF Linked, vars, listVars
    <3>2. answer' = answer
      BY <2>1 DEF answer, Found, vars, listVars
    <3> QED BY <3>1, <3>2 DEF Set!vars, answer
  <2> QED BY <2>1, WriterSet, ReaderSet DEF Next
<1> QED BY <1>1, <1>2, InitInv, StepInv, PTL DEF Spec, ImplementsSet
=============================================================================
