-------------------------- MODULE BloomFilterProofs --------------------------
(***************************************************************************)
(* Theorems about BloomFilter, for every set of keys, every hash function, *)
(* every width of a word and all numbers of bits per key.                  *)
(*                                                                         *)
(* The invariant is that every array has exactly the bits of its keys: a   *)
(* finished one those of all probes of all keys, one that CreateFilter is  *)
(* at work on also those of the probes made so far of the key it is at,    *)
(* and the walking h is what Hash computes for the next probe.             *)
(***************************************************************************)
EXTENDS BloomFilter, TLAPS

-----------------------------------------------------------------------------
(* Arithmetic *)

LEMMA ModRange ==
  ASSUME NEW w \in Nat \ {0}, NEW x \in Nat
  PROVE  x % w \in 0..w - 1 /\ x \div w \in Nat /\ x = w * (x \div w) + (x % w)
OBVIOUS

LEMMA RemainderUnique ==
  ASSUME NEW w \in Nat \ {0}, NEW q \in Nat, NEW p \in Nat,
         NEW r \in 0..w - 1, NEW s \in 0..w - 1, q * w + r = p * w + s
  PROVE  r = s
OBVIOUS

\* Wrapping at every step is wrapping once, at the end.
LEMMA ModSum ==
  ASSUME NEW w \in Nat \ {0}, NEW x \in Nat, NEW y \in Nat
  PROVE  ((x % w) + y) % w = (x + y) % w
<1> DEFINE a == x \div w
           b == ((x % w) + y) \div w
           c == (x + y) \div w
<1>1. a \in Nat /\ x = w * a + (x % w) /\ (x % w) \in 0..w - 1
  BY ModRange
<1>2. b \in Nat /\ (x % w) + y = w * b + (((x % w) + y) % w) /\ (((x % w) + y) % w) \in 0..w - 1
  BY ModRange, <1>1, (x % w) + y \in Nat
<1>3. c \in Nat /\ x + y = w * c + ((x + y) % w) /\ ((x + y) % w) \in 0..w - 1
  BY ModRange, x + y \in Nat
<1>4. (a + b) \in Nat /\ (a + b) * w = w * a + w * b /\ c * w = w * c
  BY <1>1, <1>2, <1>3
<1>5. (a + b) * w + (((x % w) + y) % w) = c * w + ((x + y) % w)
  BY <1>1, <1>2, <1>3, <1>4
<1> QED
  BY <1>2, <1>3, <1>4, <1>5, RemainderUnique

LEMMA WordIsNat == Word \in Nat \ {0}
BY BloomAssumption DEF Word

LEMMA RotateIsNat ==
  ASSUME NEW h \in Words
  PROVE  Rotate(h) \in Nat
<1>1. h \in Nat
  BY WordIsNat DEF Words
<1>2. h \div LowPart \in Nat /\ h % LowPart \in Nat
  <2>1. LowPart \in Nat \ {0}
    BY BloomAssumption
  <2>2. h % LowPart \in 0..LowPart - 1
    BY <1>1, <2>1, ModRange
  <2>3. h \div LowPart \in Nat
    BY <1>1, <2>1, ModRange
  <2> QED
    BY <2>1, <2>2, <2>3
<1> QED
  BY <1>2, BloomAssumption DEF Rotate

LEMMA ProbesInRange ==
  ASSUME NEW perKey \in Nat
  PROVE  Probes(perKey) \in 1..30
BY DEF Probes

LEMMA SizesPositive ==
  /\ AddSize \in Nat \ {0}
  /\ \A n \in Nat, perKey \in Nat : CreateSize(n, perKey) \in Nat \ {0}
<1>1. ASSUME NEW n \in Nat, n > 0
      PROVE  WholeBytes(n) \in Nat \ {0}
  BY <1>1 DEF WholeBytes
<1>2. AddSize \in Nat \ {0}
  BY <1>1 DEF AddSize
<1>3. ASSUME NEW n \in Nat, NEW perKey \in Nat
      PROVE  CreateSize(n, perKey) \in Nat \ {0}
  <2>1. n * perKey \in Nat
    OBVIOUS
  <2> QED
    BY <2>1, <1>1 DEF CreateSize
<1> QED
  BY <1>2, <1>3

-----------------------------------------------------------------------------
(* Probes *)

LEMMA HashInArray ==
  ASSUME NEW i \in Nat, NEW key \in Keys, NEW size \in Nat \ {0}
  PROVE  Hash(i, key, size) \in 0..size - 1
<1> DEFINE x == FNVHash[key] + i * Rotate(FNVHash[key])
<1>1. FNVHash[key] \in Words /\ FNVHash[key] \in Nat
  BY BloomAssumption, WordIsNat DEF Words
<1>2. x \in Nat
  BY <1>1, RotateIsNat
<1>3. x % Word \in Nat
  BY <1>2, ModRange, WordIsNat
<1>4. (x % Word) % size \in 0..size - 1
  BY <1>3, ModRange
<1> QED
  BY <1>4 DEF Hash

\* The walk of CreateFilter is at the probe that Hash computes.
Walked(key, i) == (FNVHash[key] + i * Rotate(FNVHash[key])) % Word

LEMMA WalkStarts ==
  ASSUME NEW key \in Keys
  PROVE  Walked(key, 0) = FNVHash[key] /\ FNVHash[key] \in Words
<1>1. FNVHash[key] \in Words
  BY BloomAssumption
<1>2. Rotate(FNVHash[key]) \in Nat
  BY <1>1, RotateIsNat
<1>3. FNVHash[key] + 0 * Rotate(FNVHash[key]) = FNVHash[key]
  BY <1>1, <1>2, WordIsNat DEF Words
<1>4. FNVHash[key] % Word = FNVHash[key]
  BY <1>1, WordIsNat DEF Words
<1> QED
  BY <1>1, <1>3, <1>4 DEF Walked

LEMMA WalkSteps ==
  ASSUME NEW key \in Keys, NEW i \in Nat
  PROVE  /\ Sum32(Walked(key, i), Rotate(FNVHash[key])) = Walked(key, i + 1)
         /\ Walked(key, i + 1) \in Words
<1> DEFINE f == FNVHash[key]
           d == Rotate(f)
<1>1. f \in Nat /\ f \in Words
  BY BloomAssumption, WordIsNat DEF Words
<1>2. d \in Nat
  BY <1>1, RotateIsNat
<1> HIDE DEF f, d
<1>3. i * d \in Nat /\ f + i * d \in Nat /\ f + (i + 1) * d \in Nat
  BY <1>1, <1>2
<1>4. (f + i * d) + d = f + (i + 1) * d
  BY <1>1, <1>2
<1>5. (((f + i * d) % Word) + d) % Word = (f + (i + 1) * d) % Word
  BY <1>2, <1>3, <1>4, ModSum, WordIsNat
<1>6. (f + (i + 1) * d) % Word \in Words
  BY <1>3, ModRange, WordIsNat DEF Words
<1> QED
  BY <1>5, <1>6 DEF Walked, Sum32, f, d

LEMMA PositionsGrow ==
  ASSUME NEW keys, NEW key, NEW k, NEW size
  PROVE  Positions(keys \cup {key}, k, size)
           = Positions(keys, k, size) \cup {Hash(i, key, size) : i \in 0..k - 1}
BY DEF Positions

LEMMA PositionsInArray ==
  ASSUME NEW keys \in SUBSET Keys, NEW k \in Nat, NEW size \in Nat \ {0}
  PROVE  \A bit \in Positions(keys, k, size) : bit \in Nat /\ bit < size
<1> SUFFICES ASSUME NEW i \in 0..k - 1, NEW key \in keys
             PROVE  Hash(i, key, size) \in Nat /\ Hash(i, key, size) < size
  BY DEF Positions
<1>1. Hash(i, key, size) \in 0..size - 1
  BY HashInArray
<1> QED
  BY <1>1

-----------------------------------------------------------------------------
(* The invariant *)

Exact(array, keys) ==
  /\ array.bits = Positions(keys, array.k, array.size)
  /\ array.size = 0 => keys = {}

CreateExact ==
  LET k == Probes(create.perKey)
      done == Positions(create.done, k, create.size)
      key == Head(create.todo)
  IN  /\ create.stage # "idle" => create.size # 0
      /\ create.stage = "keys" => create.bits = done
      /\ create.stage = "probes" =>
           /\ create.todo # <<>> /\ create.i <= k
           /\ create.h = Walked(key, create.i)
           /\ create.bits = done \cup {Hash(i, key, create.size) : i \in 0..create.i - 1}

IInv == TypeOK /\ Exact(filter, added) /\ Exact(data, data.keys) /\ CreateExact

LEMMA NewIsExact ==
  ASSUME NEW perKey \in Nat
  PROVE  New(perKey) \in Array /\ New(perKey).bits = {} /\ Exact(New(perKey), {})
BY ProbesInRange DEF New, Array, Exact, Positions

LEMMA InitIInv == Init => IInv
<1> SUFFICES ASSUME Init
             PROVE  IInv
  OBVIOUS
<1>1. PICK perKey \in BitsPerKey : filter = New(perKey) /\ data = EncodedBy(New(perKey), {})
  BY DEF Init
<1>2. perKey \in Nat
  BY BloomAssumption
<1>3. filter \in Array /\ filter.bits = {} /\ Exact(filter, added)
  BY <1>1, <1>2, NewIsExact DEF Init
<1>4. data \in Data /\ data.bits = {} /\ Exact(data, data.keys)
  BY <1>1, <1>2, NewIsExact DEF EncodedBy, Data, Array, Exact
<1>5. create \in Creation /\ create.bits = {} /\ CreateExact
  BY WordIsNat DEF Init, NoCreate, Creation, CreateExact, Words
<1> QED
  BY <1>3, <1>4, <1>5 DEF IInv, TypeOK, Init

\* Add, Clear, Encode and Decode; CreateFilter has only locals.
LEMMA ArraysInv ==
  ASSUME IInv, (\E key \in Keys : Add(key)) \/ Clear \/ Encode \/ Decode
  PROVE  IInv'
<1>1. filter \in Array /\ data \in Data /\ create \in Creation /\ added \subseteq Keys
  BY DEF IInv, TypeOK
<1>2. create' = create /\ CreateExact'
  BY DEF IInv, Add, Clear, Encode, Decode, CreateExact
<1>3. ASSUME NEW key \in Keys, Add(key)
      PROVE  IInv'
  <2> DEFINE size == IF filter.size = 0 THEN AddSize ELSE filter.size
             bits == filter.bits \cup Positions({key}, filter.k, size)
  <2>1. size \in Nat \ {0}
    BY <1>1, SizesPositive DEF Array
  <2>2. filter' = [filter EXCEPT !.size = size, !.bits = bits] /\ added' = added \cup {key}
    BY <1>3 DEF Add
  <2>3. filter.bits = Positions(added, filter.k, size)
    <3>1. CASE filter.size = 0
      BY <3>1 DEF IInv, Exact, Positions
    <3>2. CASE filter.size # 0
      BY <3>2 DEF IInv, Exact
    <3> QED
      BY <3>1, <3>2
  <2>4. bits = Positions(added', filter.k, size)
    <3> HIDE DEF size
    <3>1. Positions(added \cup {key}, filter.k, size)
            = Positions(added, filter.k, size) \cup Positions({key}, filter.k, size)
      BY DEF Positions
    <3> QED
      BY <2>2, <2>3, <3>1
  <2>5. filter.k \in Nat /\ added' \in SUBSET Keys
    BY <1>1, <2>2 DEF Array
  <2>6. \A bit \in bits : bit \in Nat /\ bit < size
    BY <2>1, <2>4, <2>5, PositionsInArray
  <2>7. bits \in SUBSET Nat
    BY <2>6
  <2> HIDE DEF size, bits
  <2>8. filter' \in Array /\ filter'.k = filter.k /\ filter'.size = size /\ filter'.bits = bits
    BY <1>1, <2>1, <2>2, <2>7 DEF Array
  <2>9. Exact(filter, added)'
    BY <2>1, <2>4, <2>8 DEF Exact
  <2> QED
    BY <1>2, <1>3, <2>5, <2>6, <2>8, <2>9 DEF IInv, TypeOK, Add, Exact
<1>4. CASE Clear
  <2>1. filter.perKey \in Nat
    BY <1>1 DEF Array
  <2> QED
    BY <1>2, <1>4, <2>1, NewIsExact DEF IInv, TypeOK, Clear, Cleared, Exact
<1>5. CASE Encode
  <2>1. /\ data' = EncodedBy(filter, added) /\ filter' = filter /\ added' = added
    BY <1>5 DEF Encode
  <2>2. data' \in Data /\ data'.bits = filter.bits /\ data'.size = filter.size
    BY <1>1, <2>1 DEF EncodedBy, Data, Array
  <2>3. Exact(data, data.keys)'
    BY <2>1 DEF IInv, EncodedBy, Exact
  <2> QED
    BY <1>2, <2>1, <2>2, <2>3 DEF IInv, TypeOK, Exact
<1>6. CASE Decode
  <2>1. /\ filter' = [perKey |-> data.perKey, k |-> data.k, size |-> data.size, bits |-> data.bits]
        /\ added' = data.keys /\ data' = data
    BY <1>6 DEF Decode
  <2>2. filter' \in Array /\ added' \subseteq Keys
    BY <1>1, <2>1 DEF Data, Array
  <2>3. Exact(filter, added)'
    BY <2>1 DEF IInv, Exact
  <2> QED
    BY <1>2, <2>1, <2>2, <2>3 DEF IInv, TypeOK, Exact
<1> QED
  BY <1>3, <1>4, <1>5, <1>6

-----------------------------------------------------------------------------
(* CreateFilter *)

LEMMA CreateInv ==
  ASSUME IInv, NEW n \in 0..MaxKeys, NEW perKey \in BitsPerKey, NEW keys \in [1..n -> Keys],
         CreateBegin(keys, perKey)
  PROVE  IInv'
<1> DEFINE size == CreateSize(Len(keys), perKey)
<1>1. keys \in Seq(Keys) /\ Len(keys) \in Nat /\ perKey \in Nat
  BY BloomAssumption
<1>2. size \in Nat \ {0}
  BY <1>1, SizesPositive
<1> HIDE DEF size
<1>3. create' = [stage |-> "keys", perKey |-> perKey, todo |-> keys, done |-> {},
                 size |-> size, bits |-> {}, i |-> 0, h |-> 0]
  BY DEF CreateBegin, NoCreate, size
<1>4. /\ create' \in Creation /\ create'.bits = {} /\ create'.done = {}
      /\ create'.stage = "keys" /\ create'.size = size
  BY <1>1, <1>2, <1>3, WordIsNat DEF Creation, Words
<1>5. CreateExact'
  BY <1>2, <1>4 DEF CreateExact, Positions
<1> QED
  BY <1>4, <1>5 DEF IInv, TypeOK, CreateBegin, Exact

LEMMA HashKeyInv ==
  ASSUME IInv, HashKey
  PROVE  IInv'
<1> DEFINE key == Head(create.todo)
<1>1. create \in Creation /\ key \in Keys /\ create.size # 0
  BY DEF IInv, TypeOK, HashKey, Creation, CreateExact
<1>2. FNVHash[key] = Walked(key, 0) /\ FNVHash[key] \in Words
  BY <1>1, WalkStarts
<1>3. create' = [create EXCEPT !.stage = "probes", !.i = 0, !.h = FNVHash[key]]
  BY DEF HashKey
<1> HIDE DEF key
<1>4. create' \in Creation /\ create'.bits = create.bits /\ create'.size = create.size
  BY <1>1, <1>2, <1>3 DEF Creation
<1>5. /\ create'.todo = create.todo /\ create'.done = create.done /\ create'.i = 0
      /\ create'.stage = "probes" /\ create'.perKey = create.perKey
      /\ create'.h = Walked(key, 0)
  BY <1>1, <1>2, <1>3 DEF Creation
<1>6. Probes(create.perKey) \in 1..30
  BY <1>1, ProbesInRange DEF Creation
<1>7. create.bits = Positions(create.done, Probes(create.perKey), create.size)
  BY DEF IInv, CreateExact, HashKey
<1>8. {Hash(i, key, create.size) : i \in 0..0 - 1} = {}
  OBVIOUS
<1>9. CreateExact'
  BY <1>1, <1>4, <1>5, <1>6, <1>7, <1>8 DEF CreateExact, HashKey, key
<1> QED
  BY <1>4, <1>9 DEF IInv, TypeOK, HashKey, Exact

LEMMA ProbeInv ==
  ASSUME IInv, Probe
  PROVE  IInv'
<1> DEFINE key == Head(create.todo)
           k == Probes(create.perKey)
           size == create.size
           i == create.i
           done == Positions(create.done, k, size)
           before == {Hash(j, key, size) : j \in 0..i - 1}
           after == {Hash(j, key, size) : j \in 0..(i + 1) - 1}
<1>1. /\ create \in Creation /\ size \in Nat \ {0} /\ i \in Nat /\ k \in 1..30
      /\ create.todo # <<>> /\ key \in Keys /\ i < k /\ create.stage = "probes"
  BY ProbesInRange DEF IInv, TypeOK, Probe, Creation, CreateExact
<1>2. create.h = Walked(key, i) /\ create.bits = done \cup before
  BY <1>1 DEF IInv, CreateExact
<1>3. create.h % size = Hash(i, key, size) /\ Hash(i, key, size) \in 0..size - 1
  BY <1>1, <1>2, HashInArray DEF Walked, Hash
<1>4. /\ Sum32(create.h, Rotate(FNVHash[key])) = Walked(key, i + 1)
      /\ Walked(key, i + 1) \in Words
  BY <1>1, <1>2, WalkSteps
<1>5. create' = [create EXCEPT !.bits = @ \cup {Hash(i, key, size)},
                               !.h = Walked(key, i + 1), !.i = i + 1]
  BY <1>3, <1>4 DEF Probe
<1>6. after = before \cup {Hash(i, key, size)}
  <2>1. 0..(i + 1) - 1 = (0..i - 1) \cup {i}
    BY <1>1
  <2> QED
    BY <2>1
<1>7. /\ create'.todo = create.todo /\ create'.done = create.done /\ create'.i = i + 1
      /\ create'.stage = "probes" /\ create'.perKey = create.perKey /\ create'.size = size
      /\ create'.h = Walked(key, i + 1)
      /\ create'.bits = create.bits \cup {Hash(i, key, size)}
  BY <1>1, <1>5 DEF Creation
<1>8. create' \in Creation
  <2> HIDE DEF key, i, size
  <2>1. Hash(i, key, size) \in Nat /\ i + 1 \in Nat
    BY <1>1, <1>3
  <2> QED
    BY <1>1, <1>4, <1>5, <2>1 DEF Creation
<1>9. create'.bits = done \cup after
  BY <1>2, <1>6, <1>7
<1>10. CreateExact'
  <2>1. create'.i <= k
    <3>1. \A m \in Nat, n \in 1..30 : m < n => m + 1 <= n
      OBVIOUS
    <3> QED
      BY <1>1, <1>7, <3>1
  <2> QED
    BY <1>1, <1>7, <1>9, <2>1 DEF CreateExact
<1>11. \A bit \in create'.bits : bit < create'.size
  <2>1. \A bit \in create.bits : bit < size
    BY DEF IInv, TypeOK
  <2>2. Hash(i, key, size) < size
    BY <1>1, <1>3
  <2> HIDE DEF i, key
  <2> QED
    BY <1>7, <2>1, <2>2
<1> QED
  BY <1>8, <1>10, <1>11 DEF IInv, TypeOK, Probe, Exact

LEMMA KeyDoneInv ==
  ASSUME IInv, KeyDone
  PROVE  IInv'
<1> DEFINE key == Head(create.todo)
           k == Probes(create.perKey)
           size == create.size
<1>1. /\ create \in Creation /\ size # 0 /\ k \in 1..30
      /\ create.todo # <<>> /\ key \in Keys /\ create.i = k /\ create.stage = "probes"
      /\ Tail(create.todo) \in Seq(Keys)
  <2>1. create \in Creation /\ create.stage = "probes" /\ create.i >= k
    BY DEF IInv, TypeOK, KeyDone
  <2>2. create.todo # <<>> /\ create.i <= k /\ size # 0
    BY <2>1 DEF IInv, CreateExact
  <2>3. k \in 1..30 /\ create.i \in Nat /\ create.todo \in Seq(Keys)
    BY <2>1, ProbesInRange DEF Creation
  <2> HIDE DEF k
  <2> QED
    BY <2>1, <2>2, <2>3
<1>2. create.bits = Positions(create.done, k, size) \cup {Hash(j, key, size) : j \in 0..k - 1}
  BY <1>1 DEF IInv, CreateExact
<1>3. create' = [create EXCEPT !.stage = "keys", !.done = @ \cup {key}, !.todo = Tail(@)]
  BY DEF KeyDone
<1> HIDE DEF key
<1>4. /\ create'.done = create.done \cup {key} /\ create'.stage = "keys"
      /\ create'.perKey = create.perKey /\ create'.size = size /\ create'.bits = create.bits
  BY <1>1, <1>3 DEF Creation
<1>5. create' \in Creation
  BY <1>1, <1>3 DEF Creation
<1>6. create'.bits = Positions(create'.done, k, size)
  <2> HIDE DEF k, size
  <2> QED
    BY <1>2, <1>4, PositionsGrow
<1>7. CreateExact'
  BY <1>1, <1>4, <1>6 DEF CreateExact
<1> QED
  BY <1>4, <1>5, <1>7 DEF IInv, TypeOK, KeyDone, Exact

LEMMA CreateEndInv ==
  ASSUME IInv, CreateEnd
  PROVE  IInv'
<1>1. create \in Creation /\ create.size # 0 /\ Probes(create.perKey) \in 1..30
  BY ProbesInRange DEF IInv, TypeOK, CreateEnd, Creation, CreateExact
<1>2. data' = [perKey |-> create.perKey, k |-> Probes(create.perKey), size |-> create.size,
               bits |-> create.bits, keys |-> create.done]
  BY DEF CreateEnd
<1>3. data' \in Data /\ \A bit \in data'.bits : bit < data'.size
  BY <1>1, <1>2 DEF Data, Creation, IInv, TypeOK
<1>4. Exact(data, data.keys)'
  BY <1>1, <1>2 DEF Exact, CreateEnd, IInv, CreateExact
<1>5. create' \in Creation /\ create'.bits = {} /\ CreateExact'
  BY WordIsNat DEF CreateEnd, NoCreate, Creation, CreateExact, Words
<1> QED
  BY <1>3, <1>4, <1>5 DEF IInv, TypeOK, CreateEnd, Exact

\* IInv is inductive: every array has exactly the bits of its keys.
THEOREM BitsStayExact == Spec => []IInv
<1>1. ASSUME IInv, [Next]_vars
      PROVE  IInv'
  <2>1. CASE (\E key \in Keys : Add(key)) \/ Clear \/ Encode \/ Decode
    BY <1>1, <2>1, ArraysInv
  <2>2. ASSUME NEW n \in 0..MaxKeys, NEW perKey \in BitsPerKey, NEW keys \in [1..n -> Keys],
               CreateBegin(keys, perKey)
        PROVE  IInv'
    BY <1>1, <2>2, CreateInv
  <2>3. CASE HashKey
    BY <1>1, <2>3, HashKeyInv
  <2>4. CASE Probe
    BY <1>1, <2>4, ProbeInv
  <2>5. CASE KeyDone
    BY <1>1, <2>5, KeyDoneInv
  <2>6. CASE CreateEnd
    BY <1>1, <2>6, CreateEndInv
  <2>7. CASE UNCHANGED vars
    BY <1>1, <2>7 DEF vars, IInv, TypeOK, Exact, CreateExact
  <2> QED
    BY <1>1, <2>1, <2>2, <2>3, <2>4, <2>5, <2>6, <2>7 DEF Next
<1> QED
  BY InitIInv, <1>1, PTL DEF Spec

-----------------------------------------------------------------------------
(* What it is for *)

\* Types hold and no bit is outside of its array.
THEOREM TypesHold == Spec => []TypeOK
BY BitsStayExact, PTL DEF IInv

\* Whatever the hash function is, a key that was put into a filter is not denied:
\* the walk of CreateFilter and the products of MayContain meet, although both
\* wrap (bloom.cc:36).
THEOREM KeysAreNotDenied == Spec => []NoFalseNegatives
<1>1. IInv => NoFalseNegatives
  BY DEF IInv, Exact, NoFalseNegatives, MayContain, Positions
<1> QED
  BY <1>1, BitsStayExact, PTL

\* A filter holds no bit that is not one of its keys'.
THEOREM BitsAreOwn == Spec => []OnlyOwnBits
<1>1. IInv => OnlyOwnBits
  BY DEF IInv, Exact, OnlyOwnBits
<1> QED
  BY <1>1, BitsStayExact, PTL
=============================================================================
