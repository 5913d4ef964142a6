-------------------------------- MODULE Arena --------------------------------
(***************************************************************************)
(* The memory of a memtable (class Arena, src/arena.cc): bytes are cut one *)
(* piece after the other from blocks that live as long as the memtable.    *)
(* An address is a block and an offset in it; new char[] aligns a block.   *)
(***************************************************************************)
EXTENDS Naturals, Sequences

CONSTANTS
  BlockSize,  \* kBlockSize
  Align       \* the alignment of AllocateAligned

ASSUME ArenaAssumption == BlockSize \in Nat \ {0} /\ Align \in Nat \ {0}

VARIABLES
  blocks,     \* blocks_: the size of each block
  current,    \* the block alloc_ptr_ points into, 0 for nullptr
  offset,     \* where in that block alloc_ptr_ points
  remaining,  \* alloc_bytes_remaining_
  pieces      \* history: what was allocated, from offset from up to before to

arenaVars == <<blocks, current, offset, remaining, pieces>>

Quarter == BlockSize \div 4

ArenaInit ==
  /\ blocks = <<>> /\ current = 0 /\ offset = 0 /\ remaining = 0
  /\ pieces = {}

Piece(b, from, n, aligned) ==
  [block |-> b, from |-> from, to |-> from + n, aligned |-> aligned]

\* The next n bytes of the current block, after skip bytes of padding.
Cut(skip, n, aligned) ==
  /\ offset' = offset + skip + n
  /\ remaining' = remaining - (skip + n)
  /\ pieces' = pieces \cup {Piece(current, offset + skip, n, aligned)}
  /\ UNCHANGED <<blocks, current>>

\* A large piece gets a block of its own, and the current block stays. A small
\* one starts a new current block, and the rest of the old one is given up.
LargePiece(n, aligned) ==
  /\ n > Quarter
  /\ blocks' = Append(blocks, n)
  /\ pieces' = pieces \cup {Piece(Len(blocks) + 1, 0, n, aligned)}
  /\ UNCHANGED <<current, offset, remaining>>
NewBlockUnspent(n, aligned) ==
  /\ n <= Quarter
  /\ blocks' = Append(blocks, BlockSize)
  /\ current' = Len(blocks) + 1
  /\ offset' = 0
  /\ remaining' = BlockSize
  /\ pieces' = pieces \cup {Piece(Len(blocks) + 1, 0, n, aligned)}
NewCurrentBlock(n, aligned) ==
  /\ n <= Quarter
  /\ blocks' = Append(blocks, BlockSize)
  /\ current' = Len(blocks) + 1
  /\ offset' = n
  /\ remaining' = BlockSize - n
  /\ pieces' = pieces \cup {Piece(Len(blocks) + 1, 0, n, aligned)}
AllocateFallback(n, aligned) == LargePiece(n, aligned) \/ NewCurrentBlock(n, aligned)

\* Nothing is taken for no bytes: the pointer 1 is returned.
Allocate(n) ==
  \/ n = 0 /\ UNCHANGED arenaVars
  \/ n > 0 /\ n <= remaining /\ Cut(0, n, FALSE)
  \/ n > remaining /\ AllocateFallback(n, FALSE)

Misalign == offset % Align
Padding == IF Misalign = 0 THEN 0 ELSE Align - Misalign
AllocateAligned(n) ==
  /\ n > 0
  /\ \/ Padding + n <= remaining /\ Cut(Padding, n, TRUE)
     \/ Padding + n > remaining /\ AllocateFallback(n, TRUE)

ArenaNext == \E n \in Nat : Allocate(n) \/ AllocateAligned(n)
ArenaSpec == ArenaInit /\ [][ArenaNext]_arenaVars

-----------------------------------------------------------------------------
(* Properties *)

\* No two pieces share a byte, and none reaches past the end of its block: what
\* Put copies for one record never overwrites a node that readers walk over.
PiecesDisjoint ==
  /\ \A p \in pieces : p.block \in DOMAIN blocks /\ p.to <= blocks[p.block]
  /\ \A p, q \in pieces : p # q /\ p.block = q.block => p.to <= q.from \/ q.to <= p.from

\* An aligned piece starts at an aligned address, whichever unaligned pieces
\* were cut before it and whether or not it was the first of its block.
NodesAligned == \A p \in pieces : p.aligned => p.from % Align = 0

\* A block is given up for a new one only when it is three quarters full, up to
\* the padding: MakeRoomForWrite compares the sum of the block sizes with
\* write_buffer_size, and this is what keeps it close to what was stored.
FullEnough(b) ==
  \E p \in pieces : p.block = b /\ blocks[b] < p.to + BlockSize \div 4 + Align
BlocksWellUsed == \A b \in DOMAIN blocks : b # current => FullEnough(b)

\* The arena keeps its promises to the skip list and to MakeRoomForWrite.
MemorySound == PiecesDisjoint /\ NodesAligned /\ BlocksWellUsed
=============================================================================
