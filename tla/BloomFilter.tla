----------------------------- MODULE BloomFilter -----------------------------
(***************************************************************************)
(* The Bloom filter of a table (src/bloom.cc). A table's filter is made by *)
(* CreateFilter, which walks from probe to probe by adding delta to h, and *)
(* asked by MayContain, which computes each probe anew: both wrap at Word, *)
(* 2^32 in the code, and must meet the same bits. A filter may also be     *)
(* filled by Add, cleared, encoded and decoded, in any order.              *)
(*                                                                         *)
(* A bit array is the number of its bits and the set of those that are 1.  *)
(***************************************************************************)
EXTENDS Naturals, Sequences

CONSTANTS
  Keys,        \* user keys
  BitsPerKey,  \* values of bits_per_key
  LowPart,     \* 2^17 in the code: the bits that the rotation moves up
  HighPart,    \* 2^15: how far it moves them
  FNVHash,     \* the hash function, of which nothing is known
  MaxKeys      \* bound: keys handed to one CreateFilter

Word == LowPart * HighPart
Words == 0..Word - 1

\* The number of bits is not wrapped: a filter of 2^32 bits would take 400
\* million keys.
ASSUME BloomAssumption ==
  /\ BitsPerKey \subseteq Nat \ {0} /\ MaxKeys \in Nat
  /\ LowPart \in Nat \ {0} /\ HighPart \in Nat \ {0}
  /\ FNVHash \in [Keys -> Words]

VARIABLES
  filter,  \* a BloomFilter: bits_per_key_, k_, bits_
  added,   \* history: the keys that it was made of
  data,    \* an encoded filter, and the keys it was made of
  create   \* the locals of CreateFilter

vars == <<filter, added, data, create>>

-----------------------------------------------------------------------------
(* Sizes and probes *)

\* bits_per_key * 0.69, cut off, and then between 1 and 30.
Probes(perKey) ==
  LET k == (perKey * 69) \div 100
  IN  IF k < 1 THEN 1 ELSE IF k > 30 THEN 30 ELSE k

WholeBytes(n) == 8 * ((n + 7) \div 8)
CreateSize(n, perKey) == WholeBytes(IF n * perKey < 64 THEN 64 ELSE n * perKey)

\* Add guesses: ten bits for each of ten keys.
AddSize == WholeBytes(10 * 10)

Rotate(h) == (h \div LowPart) + (h % LowPart) * HighPart

\* Hash: what MayContain and Add do for the i-th probe.
Hash(i, key, size) == ((FNVHash[key] + i * Rotate(FNVHash[key])) % Word) % size

Positions(keys, k, size) == {Hash(i, key, size) : i \in 0..k - 1, key \in keys}

-----------------------------------------------------------------------------
New(perKey) == [perKey |-> perKey, k |-> Probes(perKey), size |-> 0, bits |-> {}]
EncodedBy(f, keys) ==
  [perKey |-> f.perKey, k |-> f.k, size |-> f.size, bits |-> f.bits, keys |-> keys]
NoCreate == [stage |-> "idle", perKey |-> 1, todo |-> <<>>, done |-> {},
             size |-> 0, bits |-> {}, i |-> 0, h |-> 0]

Init ==
  /\ \E perKey \in BitsPerKey : filter = New(perKey) /\ data = EncodedBy(New(perKey), {})
  /\ added = {}
  /\ create = NoCreate

Add(key) ==
  /\ LET size == IF filter.size = 0 THEN AddSize ELSE filter.size
     IN  filter' = [filter EXCEPT !.size = size,
                                  !.bits = @ \cup Positions({key}, filter.k, size)]
  /\ added' = added \cup {key}
  /\ UNCHANGED <<data, create>>

ClearKeepingBits == [filter EXCEPT !.k = Probes(filter.perKey)]
Cleared == New(filter.perKey)
Clear ==
  /\ filter' = Cleared
  /\ added' = {}
  /\ UNCHANGED <<data, create>>

Encode ==
  /\ data' = EncodedBy(filter, added)
  /\ UNCHANGED <<filter, added, create>>

\* Less than a header is refused, which changes nothing. Nothing that Encode or
\* CreateFilter makes is so short; SSTable::Open (sstable.cc:193) does not ask.
Decode ==
  /\ filter' = [perKey |-> data.perKey, k |-> data.k, size |-> data.size, bits |-> data.bits]
  /\ added' = data.keys
  /\ UNCHANGED <<data, create>>

-----------------------------------------------------------------------------
(* CreateFilter *)

CreateBegin(keys, perKey) ==
  /\ create.stage = "idle"
  /\ create' = [NoCreate EXCEPT !.stage = "keys", !.perKey = perKey, !.todo = keys,
                                !.size = CreateSize(Len(keys), perKey)]
  /\ UNCHANGED <<filter, added, data>>

HashKey ==
  /\ create.stage = "keys" /\ create.todo # <<>>
  /\ create' = [create EXCEPT !.stage = "probes", !.i = 0,
                              !.h = FNVHash[Head(create.todo)]]
  /\ UNCHANGED <<filter, added, data>>

SumUnwrapped(h, delta) == h + delta
Sum32(h, delta) == (h + delta) % Word

Probe ==
  /\ create.stage = "probes" /\ create.i < Probes(create.perKey)
  /\ create' = [create EXCEPT !.bits = @ \cup {create.h % create.size},
                              !.h = Sum32(@, Rotate(FNVHash[Head(create.todo)])),
                              !.i = @ + 1]
  /\ UNCHANGED <<filter, added, data>>

KeyDone ==
  /\ create.stage = "probes" /\ create.i >= Probes(create.perKey)
  /\ create' = [create EXCEPT !.stage = "keys", !.done = @ \cup {Head(create.todo)},
                              !.todo = Tail(@)]
  /\ UNCHANGED <<filter, added, data>>

CreateEnd ==
  /\ create.stage = "keys" /\ create.todo = <<>>
  /\ data' = [perKey |-> create.perKey, k |-> Probes(create.perKey), size |-> create.size,
              bits |-> create.bits, keys |-> create.done]
  /\ create' = NoCreate
  /\ UNCHANGED <<filter, added>>

Next ==
  \/ \E key \in Keys : Add(key)
  \/ Clear \/ Encode \/ Decode
  \/ \E n \in 0..MaxKeys, perKey \in BitsPerKey :
        \E keys \in [1..n -> Keys] : CreateBegin(keys, perKey)
  \/ HashKey \/ Probe \/ KeyDone \/ CreateEnd

Spec == Init /\ [][Next]_vars

-----------------------------------------------------------------------------
MayContain(key) ==
  /\ filter.size # 0
  /\ \A i \in 0..filter.k - 1 : Hash(i, key, filter.size) \in filter.bits

Array == [perKey : Nat, k : 1..30, size : Nat, bits : SUBSET Nat]
Data == [perKey : Nat, k : 1..30, size : Nat, bits : SUBSET Nat, keys : SUBSET Keys]
Creation == [stage : {"idle", "keys", "probes"}, perKey : Nat, todo : Seq(Keys),
             done : SUBSET Keys, size : Nat, bits : SUBSET Nat, i : Nat, h : Words]

\* Types, and no bit is set outside of an array.
TypeOK ==
  /\ filter \in Array /\ added \subseteq Keys /\ data \in Data /\ create \in Creation
  /\ \A a \in {filter, data, create} : \A bit \in a.bits : bit < a.size

\* A key that the filter was made of is never denied, whichever of Add,
\* CreateFilter and Decode put it there and whatever came between
\* (bloom.cc:36, "32-bit wrapping matches CreateFilter's h += delta loop").
NoFalseNegatives == \A key \in added : MayContain(key)

\* A filter has no bit but those of its keys: none is left from before Clear or
\* Decode, none is set by a probe too many.
OnlyOwnBits == filter.bits \subseteq Positions(added, filter.k, filter.size)
=============================================================================
