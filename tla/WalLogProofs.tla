---------------------------- MODULE WalLogProofs ----------------------------
(***************************************************************************)
(* Theorems about WalLog, for every set of records, every radix and every  *)
(* number of bytes after which a length is given up.                       *)
(***************************************************************************)
EXTENDS WalLog, SequenceTheorems, WellFoundedInduction, TLAPS

LEMMA Least ==
  ASSUME NEW S \in SUBSET Nat, S # {}
  PROVE  \E m \in S : \A k \in S : m <= k
<1> DEFINE R == OpToRel(<, Nat)
<1>1. IsWellFoundedOn(R, Nat)
  BY NatLessThanWellFounded
<1> HIDE DEF R
<1>2. PICK x \in S : \A y \in S : ~ (<<y, x>> \in R)
  BY <1>1, WFMin
<1>3. \A y \in S : ~(y < x)
  BY <1>2 DEF R, OpToRel
<1> QED BY <1>3

\* Induction, stated with the set of numbers for which it is shown.
LEMMA AllNumbers ==
  ASSUME NEW S \in SUBSET Nat, 0 \in S, \A n \in S : n + 1 \in S
  PROVE  S = Nat
<1> SUFFICES ASSUME Nat \ S # {} PROVE FALSE
  OBVIOUS
<1>1. PICK m \in Nat \ S : \A k \in Nat \ S : m <= k
  BY Least
<1>2. m # 0 /\ m - 1 \in Nat /\ m - 1 < m
  BY <1>1
<1>3. m - 1 \in S
  BY <1>1, <1>2
<1> QED BY <1>1, <1>2, <1>3

LEMMA Division ==
  ASSUME NEW m \in Nat
  PROVE  /\ m % Radix \in 0..Radix - 1 /\ m \div Radix \in Nat
         /\ m = Radix * (m \div Radix) + (m % Radix)
         /\ m >= Radix => m \div Radix < m
         /\ Radix \in Nat \ {0, 1}
<1>1. Radix \in Nat \ {0, 1}
  BY RecordsAssumption
<1>2. /\ m % Radix \in 0..Radix - 1 /\ m \div Radix \in Nat
      /\ m = Radix * (m \div Radix) + (m % Radix)
  BY <1>1
<1>3. ASSUME m >= Radix PROVE m \div Radix < m
  <2> DEFINE q == m \div Radix
  <2>1. q \in Nat /\ m >= Radix * q /\ m > 0
    BY <1>1, <1>2, <1>3
  <2>2. q > 0 => Radix * q >= 2 * q
    BY <1>1, <2>1
  <2> HIDE DEF q
  <2>3. q < m
    BY <1>1, <2>1, <2>2
  <2> QED BY <2>3 DEF q
<1> QED BY <1>1, <1>2, <1>3

-----------------------------------------------------------------------------
(* Lengths *)

EncodeStep(n, g) ==
  [m \in 0..n |-> IF m < Radix THEN <<m>>
                  ELSE <<Radix + (m % Radix)>> \o g[m \div Radix]]

\* The recursion of Varint32Encode has a solution.
LEMMA EncodeExists ==
  ASSUME NEW n \in Nat
  PROVE  \E g : g = EncodeStep(n, g)
<1> DEFINE solved == {k \in Nat : \E g : g = EncodeStep(k, g)}
<1>1. 0 \in solved
  <2> DEFINE g == [m \in 0..0 |-> <<m>>]
  <2>1. g = EncodeStep(0, g)
    BY RecordsAssumption DEF EncodeStep
  <2> HIDE DEF g
  <2> QED BY <2>1
<1>2. ASSUME NEW k \in solved PROVE k + 1 \in solved
  <2>1. PICK g : g = EncodeStep(k, g)
    OBVIOUS
  <2> DEFINE h == [m \in 0..k + 1 |-> IF m <= k THEN g[m] ELSE EncodeStep(k + 1, g)[m]]
  <2>2. ASSUME NEW m \in 0..k + 1 PROVE h[m] = EncodeStep(k + 1, h)[m]
    <3>1. m >= Radix => m \div Radix \in 0..k
      <4>1. m \in Nat /\ k \in Nat
        OBVIOUS
      <4>2. m \div Radix \in Nat /\ (m >= Radix => m \div Radix < m)
        BY <4>1, Division
      <4> QED BY <4>1, <4>2
    <3>2. m >= Radix => h[m \div Radix] = g[m \div Radix]
      BY <3>1
    <3>3. m <= k => g[m] = EncodeStep(k + 1, g)[m]
      <4>1. m <= k => g[m] = EncodeStep(k, g)[m]
        BY <2>1
      <4> QED BY <4>1 DEF EncodeStep
    <3>4. EncodeStep(k + 1, h)[m] = EncodeStep(k + 1, g)[m]
      <4>1. m \in Nat /\ Radix \in Nat
        BY RecordsAssumption
      <4> HIDE DEF h
      <4> QED BY <3>2, <4>1 DEF EncodeStep
    <3>5. h[m] = IF m <= k THEN g[m] ELSE EncodeStep(k + 1, g)[m]
      OBVIOUS
    <3> HIDE DEF h
    <3> QED BY <3>3, <3>4, <3>5
  <2>3. h = EncodeStep(k + 1, h)
    BY <2>2 DEF EncodeStep
  <2> HIDE DEF h
  <2> QED BY <2>3
<1> HIDE DEF solved
<1>3. solved = Nat
  <2>1. solved \in SUBSET Nat
    BY DEF solved
  <2> QED BY <1>1, <1>2, <2>1, AllNumbers
<1> QED BY <1>3 DEF solved

ValueStep(bytes, g) ==
  [i \in 1..Len(bytes) + 1 |->
     IF i > Len(bytes) THEN 0
     ELSE (bytes[i].of[1] % Radix) + Radix * g[i + 1]]

\* So has that of Value, from the end.
LEMMA ValueExists ==
  ASSUME NEW bytes, Len(bytes) \in Nat
  PROVE  \E g : g = ValueStep(bytes, g)
<1> DEFINE n == Len(bytes)
           Part(k, g) == \A i \in n + 1 - k..n + 1 : g[i] = ValueStep(bytes, g)[i]
           solved == {k \in Nat : k <= n => \E g : Part(k, g)}
<1>1. 0 \in solved
  <2> DEFINE g == [i \in n + 1..n + 1 |-> 0]
  <2>1. Part(0, g)
    BY DEF ValueStep
  <2> HIDE DEF g, Part
  <2> QED BY <2>1
<1>2. ASSUME NEW k \in solved PROVE k + 1 \in solved
  <2> SUFFICES ASSUME k + 1 <= n PROVE \E g : Part(k + 1, g)
    OBVIOUS
  <2>1. PICK g : Part(k, g)
    OBVIOUS
  <2> DEFINE h == [i \in n + 1 - (k + 1)..n + 1 |->
                     IF i >= n + 1 - k THEN g[i] ELSE ValueStep(bytes, g)[i]]
  <2>2. ASSUME NEW i \in n + 1 - (k + 1)..n + 1 PROVE h[i] = ValueStep(bytes, h)[i]
    <3>1. i <= n => h[i + 1] = g[i + 1]
      OBVIOUS
    <3>2. i \in 1..n + 1
      OBVIOUS
    <3>3. i >= n + 1 - k => g[i] = ValueStep(bytes, g)[i]
      BY <2>1
    <3>4. h[i] = IF i >= n + 1 - k THEN g[i] ELSE ValueStep(bytes, g)[i]
      OBVIOUS
    <3> HIDE DEF h
    <3>5. ValueStep(bytes, h)[i] = ValueStep(bytes, g)[i]
      BY <3>1, <3>2 DEF ValueStep
    <3> QED BY <3>3, <3>4, <3>5
  <2>3. Part(k + 1, h)
    BY <2>2
  <2> HIDE DEF h, Part
  <2> QED BY <2>3
<1>3. n \in solved
  <2>1. solved \in SUBSET Nat
    OBVIOUS
  <2> HIDE DEF solved
  <2> QED BY <1>1, <1>2, <2>1, AllNumbers
<1>4. PICK g : Part(n, g)
  BY <1>3
<1> DEFINE h == [i \in 1..n + 1 |-> g[i]]
<1>5. ASSUME NEW i \in 1..n + 1 PROVE h[i] = ValueStep(bytes, h)[i]
  <2>1. g[i] = ValueStep(bytes, g)[i]
    BY <1>4
  <2>2. i <= n => h[i + 1] = g[i + 1]
    OBVIOUS
  <2>3. h[i] = g[i]
    OBVIOUS
  <2> HIDE DEF h
  <2>4. ValueStep(bytes, h)[i] = ValueStep(bytes, g)[i]
    BY <2>2 DEF ValueStep
  <2> QED BY <2>1, <2>3, <2>4
<1>6. h = ValueStep(bytes, h)
  <2>1. DOMAIN ValueStep(bytes, h) = 1..n + 1 /\ ValueStep(bytes, h) = [i \in 1..n + 1 |-> ValueStep(bytes, h)[i]]
    BY DEF ValueStep
  <2> QED BY <1>5, <2>1
<1> HIDE DEF h
<1> QED BY <1>6

Encoded(g, m) == IF m < Radix THEN <<m>> ELSE <<Radix + (m % Radix)>> \o g[m \div Radix]

LEMMA EncodeEquation ==
  ASSUME NEW n \in Nat
  PROVE  \E g : Varint32Encode(n) = g[n] /\ \A m \in 0..n : g[m] = Encoded(g, m)
<1> DEFINE g == CHOOSE h : h = EncodeStep(n, h)
<1>1. Varint32Encode(n) = g[n]
  BY DEF Varint32Encode, EncodeStep
<1>2. g = EncodeStep(n, g)
  BY EncodeExists
<1> HIDE DEF g
<1>3. ASSUME NEW m \in 0..n
      PROVE  g[m] = Encoded(g, m)
  <2>1. EncodeStep(n, g)[m] = Encoded(g, m)
    BY DEF EncodeStep, Encoded
  <2> QED BY <1>2, <2>1
<1> QED BY <1>1, <1>3

\* All bytes but the last have the continuation bit.
IsVarint(e) == /\ e \in Seq(Byte) /\ Len(e) >= 1
               /\ \A j \in 1..Len(e) - 1 : e[j] >= Radix
               /\ e[Len(e)] < Radix

LEMMA OneMoreByte ==
  ASSUME NEW e, IsVarint(e), NEW b \in Byte, b >= Radix
  PROVE  /\ IsVarint(<<b>> \o e) /\ Len(<<b>> \o e) = Len(e) + 1
         /\ (<<b>> \o e)[1] = b
         /\ \A j \in 1..Len(e) : (<<b>> \o e)[j + 1] = e[j]
<1>1. e \in Seq(Byte) /\ Len(e) \in Nat /\ Len(e) >= 1 /\ <<b>> \in Seq(Byte) /\ Len(<<b>>) = 1
  BY DEF IsVarint
<1>2. /\ <<b>> \o e \in Seq(Byte) /\ Len(<<b>> \o e) = Len(e) + 1
      /\ \A i \in 1..Len(e) + 1 : (<<b>> \o e)[i] = IF i <= 1 THEN b ELSE e[i - 1]
  BY <1>1, ConcatProperties
<1> QED BY <1>1, <1>2 DEF IsVarint

LEMMA EncodeTable ==
  ASSUME NEW n \in Nat
  PROVE  \E g : /\ Varint32Encode(n) = g[n]
                /\ \A m \in 0..n : IsVarint(g[m]) /\ g[m] = Encoded(g, m)
<1>1. PICK g : Varint32Encode(n) = g[n] /\ \A m \in 0..n : g[m] = Encoded(g, m)
  BY EncodeEquation
<1> DEFINE reached == {k \in Nat : \A m \in 0..n : m <= k => IsVarint(g[m])}
<1>2. ASSUME NEW m \in 0..n, m >= Radix => IsVarint(g[m \div Radix])
      PROVE  IsVarint(g[m])
  <2>0. Radix \in Nat \ {0, 1} /\ m \in Nat /\ m % Radix \in 0..Radix - 1
    BY Division
  <2>1. CASE m < Radix
    <3>1. g[m] = <<m>>
      BY <1>1, <2>1 DEF Encoded
    <3>2. m \in Byte
      BY <2>0, <2>1 DEF Byte
    <3> QED BY <2>1, <3>1, <3>2 DEF IsVarint
  <2>2. CASE m >= Radix
    <3>1. g[m] = <<Radix + (m % Radix)>> \o g[m \div Radix]
      <4>1. g[m] = Encoded(g, m) /\ ~(m < Radix)
        BY <1>1, <2>0, <2>2
      <4> QED BY <4>1 DEF Encoded
    <3>2. Radix + (m % Radix) \in Byte /\ Radix + (m % Radix) >= Radix
      BY <2>0 DEF Byte
    <3> QED BY <1>2, <2>2, <3>1, <3>2, OneMoreByte
  <2> QED BY <2>0, <2>1, <2>2
<1>3. 0 \in reached
  <2>1. \A m \in 0..n : m <= 0 => m < Radix
    BY Division
  <2> HIDE DEF IsVarint
  <2> QED BY <1>2, <2>1, Division
<1>4. ASSUME NEW k \in reached PROVE k + 1 \in reached
  <2>1. ASSUME NEW m \in 0..n, m <= k + 1 PROVE IsVarint(g[m])
    <3>1. m \in Nat /\ k \in Nat
      OBVIOUS
    <3>2. m \div Radix \in Nat /\ (m >= Radix => m \div Radix < m)
      BY <3>1, Division
    <3>3. m >= Radix => m \div Radix \in 0..n /\ m \div Radix <= k
      BY <2>1, <3>1, <3>2
    <3> QED BY <1>2, <3>3
  <2> QED BY <2>1
<1>5. reached = Nat
  <2>1. reached \in SUBSET Nat
    OBVIOUS
  <2> HIDE DEF reached
  <2> QED BY <1>3, <1>4, <2>1, AllNumbers
<1>6. n \in reached
  BY <1>5
<1>7. \A m \in 0..n : IsVarint(g[m])
  BY <1>6
<1> QED BY <1>1, <1>7

LEMMA EncodeShape ==
  ASSUME NEW n \in Nat
  PROVE  IsVarint(Varint32Encode(n))
BY EncodeTable

\* Value undoes Varint32Encode.
LEMMA ValueOfEncoding ==
  ASSUME NEW n \in Nat, NEW bytes, Len(bytes) = Len(Varint32Encode(n)),
         \A j \in 1..Len(bytes) : bytes[j] = Token(Varint32Encode(n)[j])
  PROVE  Value(bytes) = n
<1>0. Len(bytes) \in Nat /\ Radix \in Nat \ {0, 1}
  BY EncodeShape, Division DEF IsVarint
<1> DEFINE v == CHOOSE h : h = ValueStep(bytes, h)
<1>1. Value(bytes) = v[1]
  BY DEF Value, ValueStep
<1>2. v = ValueStep(bytes, v)
  BY <1>0, ValueExists
<1> HIDE DEF v
<1>3. ASSUME NEW i \in 1..Len(bytes) + 1
      PROVE  v[i] = IF i > Len(bytes) THEN 0 ELSE (bytes[i].of[1] % Radix) + Radix * v[i + 1]
  <2>1. ValueStep(bytes, v)[i] = IF i > Len(bytes) THEN 0
                                 ELSE (bytes[i].of[1] % Radix) + Radix * v[i + 1]
    BY DEF ValueStep
  <2> QED BY <1>2, <2>1
<1>4. PICK g : /\ Varint32Encode(n) = g[n]
               /\ \A m \in 0..n : IsVarint(g[m]) /\ g[m] = Encoded(g, m)
  BY EncodeTable
<1> DEFINE at(i, m) == /\ i - 1 + Len(g[m]) = Len(bytes)
                       /\ \A j \in 1..Len(g[m]) : bytes[i - 1 + j].of[1] = g[m][j]
           reached == {k \in Nat : \A m \in 0..n, i \in 1..Len(bytes) :
                                     m <= k /\ at(i, m) => v[i] = m}
<1>5. ASSUME NEW m \in 0..n, NEW i \in 1..Len(bytes), at(i, m),
             m >= Radix /\ i + 1 \in 1..Len(bytes) /\ at(i + 1, m \div Radix)
               => v[i + 1] = m \div Radix
      PROVE  v[i] = m
  <2>0. m \in Nat /\ m % Radix \in 0..Radix - 1 /\ m \div Radix \in Nat
        /\ m = Radix * (m \div Radix) + (m % Radix)
        /\ (m >= Radix => m \div Radix < m)
    <3>1. m \in Nat
      OBVIOUS
    <3> QED BY <3>1, Division
  <2>1. CASE m < Radix
    <3>1. g[m] = <<m>> /\ Len(g[m]) = 1 /\ g[m][1] = m
      <4>1. g[m] = Encoded(g, m)
        BY <1>4
      <4> QED BY <2>1, <4>1 DEF Encoded
    <3>2. i = Len(bytes) /\ bytes[i].of[1] = m
      BY <1>0, <1>5, <3>1
    <3>3. v[i + 1] = 0 /\ v[i] = (m % Radix) + Radix * v[i + 1]
      BY <1>0, <1>3, <3>2
    <3>4. m % Radix = m
      BY <1>0, <2>0, <2>1
    <3>5. Radix * 0 = 0
      BY <1>0
    <3> QED BY <2>0, <3>3, <3>4, <3>5
  <2>2. CASE m >= Radix
    <3> DEFINE d == Radix + (m % Radix)
               q == m \div Radix
    <3>1. q \in 0..n /\ g[m] = <<d>> \o g[q]
      <4>1. g[m] = Encoded(g, m) /\ ~(m < Radix)
        BY <1>0, <1>4, <2>0, <2>2
      <4>2. g[m] = <<d>> \o g[q]
        BY <4>1 DEF Encoded
      <4>3. q \in 0..n
        BY <2>0, <2>2
      <4> QED BY <4>2, <4>3
    <3>9. IsVarint(g[q])
      BY <1>4, <3>1
    <3>2. d \in Byte /\ d >= Radix
      BY <1>0, <2>0 DEF Byte
    <3>3. /\ Len(g[m]) = Len(g[q]) + 1 /\ g[m][1] = d /\ Len(g[q]) \in Nat \ {0}
          /\ \A j \in 1..Len(g[q]) : g[m][j + 1] = g[q][j]
      BY <3>1, <3>2, <3>9, OneMoreByte DEF IsVarint
    <3>4. /\ bytes[i].of[1] = d /\ i < Len(bytes)
          /\ i + 1 - 1 + Len(g[q]) = Len(bytes)
      <4>1. i - 1 + (Len(g[q]) + 1) = Len(bytes)
        BY <1>5, <3>3
      <4>2. bytes[i - 1 + 1].of[1] = g[m][1]
        BY <1>5, <3>3
      <4> QED BY <1>0, <3>3, <4>1, <4>2
    <3>5. ASSUME NEW j \in 1..Len(g[q]) PROVE bytes[i + 1 - 1 + j].of[1] = g[q][j]
      <4>1. j + 1 \in 1..Len(g[m]) /\ i - 1 + (j + 1) = i + 1 - 1 + j
        BY <3>3
      <4>2. bytes[i - 1 + (j + 1)].of[1] = g[m][j + 1]
        BY <1>5, <4>1
      <4> QED BY <3>3, <4>1, <4>2
    <3>6. v[i + 1] = q
      BY <1>5, <2>2, <3>4, <3>5
    <3>7. v[i] = (d % Radix) + Radix * q
      <4>1. i \in 1..Len(bytes) + 1 /\ ~(i > Len(bytes))
        BY <1>0, <3>4
      <4>2. v[i] = (bytes[i].of[1] % Radix) + Radix * v[i + 1]
        BY <1>3, <4>1
      <4> QED BY <3>4, <3>6, <4>2
    <3>8. d % Radix = m % Radix
      <4> DEFINE x == m % Radix
      <4>1. x \in 0..Radix - 1 /\ Radix \in Nat \ {0, 1}
        BY <1>0, <2>0
      <4> HIDE DEF x
      <4>2. (Radix + x) % Radix = x
        BY <4>1
      <4> QED BY <4>2 DEF x
    <3> QED BY <1>0, <2>0, <3>7, <3>8
  <2> QED BY <1>0, <2>0, <2>1, <2>2
<1> HIDE DEF at
<1>6. 0 \in reached
  <2>1. \A m \in 0..n : m <= 0 => ~(m >= Radix)
    BY <1>0
  <2> QED BY <1>5, <2>1
<1>7. ASSUME NEW k \in reached PROVE k + 1 \in reached
  <2>1. ASSUME NEW m \in 0..n, NEW i \in 1..Len(bytes), m <= k + 1, at(i, m)
        PROVE  v[i] = m
    <3>1. m \in Nat /\ k \in Nat
      OBVIOUS
    <3>2. m \div Radix \in Nat /\ (m >= Radix => m \div Radix < m)
      BY <3>1, Division
    <3>3. m >= Radix => m \div Radix \in 0..n /\ m \div Radix <= k
      BY <2>1, <3>1, <3>2
    <3> QED BY <1>5, <2>1, <3>3
  <2> QED BY <2>1
<1>8. reached = Nat
  <2>1. reached \in SUBSET Nat
    OBVIOUS
  <2> HIDE DEF reached
  <2> QED BY <1>6, <1>7, <2>1, AllNumbers
<1>9. /\ at(1, n) /\ 1 \in 1..Len(bytes)
  <2>1. Len(bytes) >= 1 /\ Len(g[n]) = Len(bytes)
    BY <1>4 DEF IsVarint
  <2>2. ASSUME NEW j \in 1..Len(g[n]) PROVE bytes[1 - 1 + j].of[1] = g[n][j]
    <3>1. bytes[j] = Token(g[n][j]) /\ 1 - 1 + j = j
      BY <1>0, <1>4, <2>1
    <3> QED BY <3>1 DEF Token
  <2> QED BY <1>0, <2>1, <2>2 DEF at
<1>10. n \in reached
  BY <1>8
<1> QED BY <1>1, <1>9, <1>10

-----------------------------------------------------------------------------
(* What a record looks like *)

ByteToken == {Token(b) : b \in Byte}
Cell == ByteToken \cup {Crc(raw) : raw \in Seq(ByteToken)}

LEMMA TokensOfBytes ==
  /\ \A b \in Byte : Token(b) \in ByteToken /\ ~Token(b).crc /\ Token(b).of[1] = b
  /\ \A t \in ByteToken : ~t.crc /\ t \in Cell
  /\ \A raw \in Seq(ByteToken) : Crc(raw).crc /\ Crc(raw).of = raw /\ Crc(raw) \in Cell
<1>1. \A b \in Byte : Token(b) \in ByteToken /\ ~Token(b).crc /\ Token(b).of[1] = b
  BY DEF ByteToken, Token
<1>2. \A t \in ByteToken : ~t.crc /\ t \in Cell
  BY <1>1 DEF ByteToken, Cell
<1>3. \A raw \in Seq(ByteToken) : Crc(raw).crc /\ Crc(raw).of = raw
  BY DEF Crc
<1>4. \A raw \in Seq(ByteToken) : Crc(raw) \in Cell
  BY DEF Cell
<1> QED BY <1>1, <1>2, <1>3, <1>4

LEMMA Joined ==
  ASSUME NEW s \in Seq(Byte), NEW t \in Seq(Byte)
  PROVE  /\ s \o t \in Seq(Byte) /\ Len(s \o t) = Len(s) + Len(t)
         /\ Len(s) \in Nat /\ Len(t) \in Nat
         /\ \A i \in 1..Len(s) : (s \o t)[i] = s[i]
         /\ \A j \in 1..Len(t) : (s \o t)[Len(s) + j] = t[j]
OBVIOUS

LEMMA RecordFields ==
  ASSUME NEW r \in Records
  PROVE  /\ r = [type |-> r.type, key |-> r.key, value |-> r.value]
         /\ r.type \in Byte /\ r.key \in Seq(Byte) /\ r.value \in Seq(Byte)
         /\ Len(r.key) \in Nat /\ Len(r.value) \in Nat
BY RecordsAssumption

\* How many bytes a length takes.
Size(data) == Len(Varint32Encode(Len(data)))

LEMMA SizePositive ==
  ASSUME NEW data, Len(data) \in Nat
  PROVE  /\ Size(data) \in Nat \ {0} /\ Varint32Encode(Len(data)) \in Seq(Byte)
BY EncodeShape DEF Size, IsVarint

\* The length of data and data itself are at f, after the first s cells.
SliceAt(f, s, data) ==
  /\ s + Size(data) + Len(data) <= Len(f)
  /\ \A j \in 1..Size(data) : f[s + j] = Token(Varint32Encode(Len(data))[j])
  /\ \A j \in 1..Len(data) : f[s + Size(data) + j] = Token(data[j])

RawLength(r) == 1 + Size(r.key) + Len(r.key) + Size(r.value) + Len(r.value)

\* Where the pieces of a record begin and end.
LEMMA Pieces ==
  ASSUME NEW a \in Nat \ {0}, NEW b \in Nat, NEW c \in Nat \ {0}, NEW d \in Nat
  PROVE  /\ \A j \in 1..a : /\ 1 + j \in 1..1 + a /\ 1 + j \in 1..1 + a + b
                           /\ 1 + j \in 1..1 + a + b + c /\ 1 + j \in 1..1 + a + b + c + d
         /\ \A j \in 1..b : /\ 1 + a + j \in 1..1 + a + b /\ 1 + a + j \in 1..1 + a + b + c
                           /\ 1 + a + j \in 1..1 + a + b + c + d
         /\ \A j \in 1..c : /\ 1 + a + b + j \in 1..1 + a + b + c
                           /\ 1 + a + b + j \in 1..1 + a + b + c + d
         /\ \A j \in 1..d : 1 + a + b + c + j \in 1..1 + a + b + c + d
         /\ 1 \in 1..1 + a /\ 1 \in 1..1 + a + b /\ 1 \in 1..1 + a + b + c
         /\ 1 + a + b <= 1 + a + b + c + d
         /\ 1 + a + b + c + d \in Nat \ {0}
OBVIOUS

LEMMA RawShape ==
  ASSUME NEW r \in Records
  PROVE  /\ Raw(r) \in Seq(ByteToken) /\ Len(Raw(r)) = RawLength(r)
         /\ RawLength(r) \in Nat \ {0}
         /\ Raw(r)[1] = Token(r.type)
         /\ SliceAt(Raw(r), 1, r.key)
         /\ SliceAt(Raw(r), 1 + Size(r.key) + Len(r.key), r.value)
<1> DEFINE ek == Varint32Encode(Len(r.key))
           ev == Varint32Encode(Len(r.value))
           a == <<r.type>>
           b == a \o ek
           c == b \o r.key
           d == c \o ev
           e == d \o r.value
<1>1. /\ r.type \in Byte /\ r.key \in Seq(Byte) /\ r.value \in Seq(Byte)
      /\ Len(r.key) \in Nat /\ Len(r.value) \in Nat
  BY RecordFields
<1>2. /\ ek \in Seq(Byte) /\ ev \in Seq(Byte) /\ a \in Seq(Byte) /\ Len(a) = 1 /\ a[1] = r.type
      /\ Len(ek) = Size(r.key) /\ Len(ev) = Size(r.value)
      /\ Size(r.key) \in Nat \ {0} /\ Size(r.value) \in Nat \ {0}
  <2>1. ek \in Seq(Byte) /\ Size(r.key) \in Nat \ {0}
    BY <1>1, SizePositive
  <2>2. ev \in Seq(Byte) /\ Size(r.value) \in Nat \ {0}
    BY <1>1, SizePositive
  <2>3. a \in Seq(Byte) /\ Len(a) = 1 /\ a[1] = r.type
    BY <1>1
  <2> QED BY <2>1, <2>2, <2>3 DEF Size
<1> HIDE DEF ek, ev, a
<1>3. /\ b \in Seq(Byte) /\ Len(b) = 1 + Size(r.key) /\ b[1] = r.type
      /\ \A j \in 1..Size(r.key) : b[1 + j] = ek[j]
  <2>1. /\ b \in Seq(Byte) /\ Len(b) = Len(a) + Len(ek)
        /\ \A i \in 1..Len(a) : b[i] = a[i]
        /\ \A j \in 1..Len(ek) : b[Len(a) + j] = ek[j]
    BY <1>2, Joined
  <2> HIDE DEF b
  <2> QED BY <1>2, <2>1
<1> HIDE DEF b
<1>4. /\ c \in Seq(Byte) /\ Len(c) = Len(b) + Len(r.key)
      /\ \A i \in 1..Len(b) : c[i] = b[i]
      /\ \A j \in 1..Len(r.key) : c[Len(b) + j] = r.key[j]
  BY <1>1, <1>3, Joined
<1> HIDE DEF c
<1>5. /\ d \in Seq(Byte) /\ Len(d) = Len(c) + Size(r.value)
      /\ \A i \in 1..Len(c) : d[i] = c[i]
      /\ \A j \in 1..Size(r.value) : d[Len(c) + j] = ev[j]
  <2>1. /\ d \in Seq(Byte) /\ Len(d) = Len(c) + Len(ev)
        /\ \A i \in 1..Len(c) : d[i] = c[i]
        /\ \A j \in 1..Len(ev) : d[Len(c) + j] = ev[j]
    BY <1>2, <1>4, Joined
  <2> HIDE DEF d
  <2> QED BY <1>2, <2>1
<1> HIDE DEF d
<1>6. /\ e \in Seq(Byte) /\ Len(e) = Len(d) + Len(r.value)
      /\ \A i \in 1..Len(d) : e[i] = d[i]
      /\ \A j \in 1..Len(r.value) : e[Len(d) + j] = r.value[j]
  BY <1>1, <1>5, Joined
<1>7. Raw(r) = [i \in DOMAIN e |-> Token(e[i])]
  BY DEF Raw, e, d, c, b, a, ek, ev
<1> HIDE DEF e
<1>l. /\ Len(b) = 1 + Size(r.key) /\ Len(c) = 1 + Size(r.key) + Len(r.key)
      /\ Len(d) = 1 + Size(r.key) + Len(r.key) + Size(r.value)
      /\ RawLength(r) = 1 + Size(r.key) + Len(r.key) + Size(r.value) + Len(r.value)
  BY <1>3, <1>4, <1>5 DEF RawLength
<1>m. /\ \A j \in 1..Size(r.key) : /\ 1 + j \in 1..Len(b) /\ 1 + j \in 1..Len(c)
                                  /\ 1 + j \in 1..Len(d) /\ 1 + j \in 1..RawLength(r)
      /\ \A j \in 1..Len(r.key) : /\ 1 + Size(r.key) + j \in 1..Len(c)
                                 /\ 1 + Size(r.key) + j \in 1..Len(d)
                                 /\ 1 + Size(r.key) + j \in 1..RawLength(r)
      /\ \A j \in 1..Size(r.value) : /\ 1 + Size(r.key) + Len(r.key) + j \in 1..Len(d)
                                    /\ 1 + Size(r.key) + Len(r.key) + j \in 1..RawLength(r)
      /\ \A j \in 1..Len(r.value) :
           1 + Size(r.key) + Len(r.key) + Size(r.value) + j \in 1..RawLength(r)
      /\ 1 \in 1..Len(b) /\ 1 \in 1..Len(c) /\ 1 \in 1..Len(d)
      /\ 1 + Size(r.key) + Len(r.key) <= RawLength(r)
      /\ RawLength(r) \in Nat \ {0}
  <2>1. /\ Size(r.key) \in Nat \ {0} /\ Size(r.value) \in Nat \ {0}
        /\ Len(r.key) \in Nat /\ Len(r.value) \in Nat
    BY <1>1, <1>2
  <2> DEFINE x == Size(r.key)
             y == Len(r.key)
             z == Size(r.value)
             w == Len(r.value)
             end == 1 + x + y + z + w
  <2>2. /\ \A j \in 1..x : /\ 1 + j \in 1..1 + x /\ 1 + j \in 1..1 + x + y
                          /\ 1 + j \in 1..1 + x + y + z /\ 1 + j \in 1..end
        /\ \A j \in 1..y : /\ 1 + x + j \in 1..1 + x + y /\ 1 + x + j \in 1..1 + x + y + z
                          /\ 1 + x + j \in 1..end
        /\ \A j \in 1..z : /\ 1 + x + y + j \in 1..1 + x + y + z /\ 1 + x + y + j \in 1..end
        /\ \A j \in 1..w : 1 + x + y + z + j \in 1..end
        /\ 1 \in 1..1 + x /\ 1 \in 1..1 + x + y /\ 1 \in 1..1 + x + y + z
        /\ 1 + x + y <= end /\ end \in Nat \ {0}
    BY <2>1, Pieces
  <2>3. /\ Len(b) = 1 + x /\ Len(c) = 1 + x + y /\ Len(d) = 1 + x + y + z
        /\ RawLength(r) = end
    BY <1>l
  <2> HIDE DEF end
  <2> QED BY <2>2, <2>3
<1>8. /\ RawLength(r) \in Nat \ {0} /\ Len(e) = RawLength(r) /\ DOMAIN e = 1..RawLength(r)
  BY <1>6, <1>l, <1>m
<1>9. Raw(r) \in Seq(ByteToken) /\ Len(Raw(r)) = RawLength(r)
  <2>1. \A i \in 1..RawLength(r) : Token(e[i]) \in ByteToken
    BY <1>6, <1>8, TokensOfBytes
  <2> QED BY <1>7, <1>8, <2>1
<1>10. \A i \in 1..RawLength(r) : Raw(r)[i] = Token(e[i])
  BY <1>7, <1>8
<1>11. e[1] = r.type
  BY <1>3, <1>4, <1>5, <1>6, <1>m
<1>12. ASSUME NEW j \in 1..Size(r.key) PROVE e[1 + j] = ek[j]
  BY <1>3, <1>4, <1>5, <1>6, <1>m
<1>13. ASSUME NEW j \in 1..Len(r.key) PROVE e[1 + Size(r.key) + j] = r.key[j]
  <2>1. c[1 + Size(r.key) + j] = r.key[j]
    BY <1>4, <1>l
  <2> QED BY <1>5, <1>6, <1>m, <2>1
<1>14. ASSUME NEW j \in 1..Size(r.value) PROVE e[1 + Size(r.key) + Len(r.key) + j] = ev[j]
  <2>1. d[1 + Size(r.key) + Len(r.key) + j] = ev[j]
    BY <1>5, <1>l
  <2> QED BY <1>6, <1>m, <2>1
<1>15. ASSUME NEW j \in 1..Len(r.value)
       PROVE  e[1 + Size(r.key) + Len(r.key) + Size(r.value) + j] = r.value[j]
  BY <1>6, <1>l
<1>16. SliceAt(Raw(r), 1, r.key)
  <2>1. \A j \in 1..Size(r.key) : Raw(r)[1 + j] = Token(ek[j])
    BY <1>10, <1>12, <1>m
  <2>2. \A j \in 1..Len(r.key) : Raw(r)[1 + Size(r.key) + j] = Token(r.key[j])
    BY <1>10, <1>13, <1>m
  <2> QED BY <1>9, <1>m, <2>1, <2>2 DEF SliceAt, ek
<1>17. SliceAt(Raw(r), 1 + Size(r.key) + Len(r.key), r.value)
  <2>1. \A j \in 1..Size(r.value) : Raw(r)[1 + Size(r.key) + Len(r.key) + j] = Token(ev[j])
    BY <1>10, <1>14, <1>m
  <2>2. \A j \in 1..Len(r.value) :
          Raw(r)[1 + Size(r.key) + Len(r.key) + Size(r.value) + j] = Token(r.value[j])
    BY <1>10, <1>15, <1>m
  <2>3. 1 + Size(r.key) + Len(r.key) + Size(r.value) + Len(r.value) <= Len(Raw(r))
    BY <1>9, <1>l, <1>m
  <2> QED BY <2>1, <2>2, <2>3 DEF SliceAt, ev
<1> QED BY <1>1, <1>2, <1>8, <1>9, <1>10, <1>11, <1>16, <1>17

LEMMA FrameShape ==
  ASSUME NEW r \in Records
  PROVE  /\ Frame(r) \in Seq(Cell) /\ Len(Frame(r)) = RawLength(r) + 1
         /\ \A i \in 1..RawLength(r) : Frame(r)[i] = Raw(r)[i] /\ ~Frame(r)[i].crc
         /\ Frame(r)[RawLength(r) + 1] = Crc(Raw(r))
<1>1. Raw(r) \in Seq(ByteToken) /\ Len(Raw(r)) = RawLength(r) /\ RawLength(r) \in Nat
  BY RawShape
<1>2. Raw(r) \in Seq(Cell) /\ Crc(Raw(r)) \in Cell
  <2>1. ByteToken \subseteq Cell
    BY TokensOfBytes
  <2> QED BY <1>1, <2>1, SeqMonotonic, TokensOfBytes
<1>3. \A i \in 1..RawLength(r) : ~Raw(r)[i].crc
  BY <1>1, TokensOfBytes, ElementOfSeq
<1> QED BY <1>1, <1>2, <1>3, AppendProperties DEF Frame

-----------------------------------------------------------------------------
(* ReadRecord *)

LEMMA Window ==
  ASSUME NEW S, NEW f \in Seq(S), NEW m \in Nat, NEW n \in Nat, m + n <= Len(f)
  PROVE  /\ SubSeq(f, m + 1, m + n) \in Seq(S)
         /\ Len(SubSeq(f, m + 1, m + n)) = n /\ DOMAIN SubSeq(f, m + 1, m + n) = 1..n
         /\ \A j \in 1..n : SubSeq(f, m + 1, m + n)[j] = f[m + j]
<1> DEFINE c == SubSeq(f, m + 1, m + n)
<1>1. m + 1 \in Int /\ m + n \in Int /\ m + n - (m + 1) + 1 = n
      /\ (IF m + 1 <= m + n THEN n ELSE 0) = n
  OBVIOUS
<1>2. \A i \in m + 1..m + n : f[i] \in S
  OBVIOUS
<1>3. c \in Seq(S) /\ Len(c) = n
  BY <1>1, <1>2, SubSeqProperties
<1>4. \A j \in 1..m + n - (m + 1) + 1 : c[j] = f[m + 1 + j - 1]
  BY <1>1, <1>2, SubSeqProperties
<1>5. \A j \in 1..n : m + 1 + j - 1 = m + j
  OBVIOUS
<1> HIDE DEF c
<1>6. \A j \in 1..n : c[j] = f[m + j]
  BY <1>1, <1>4, <1>5
<1>7. DOMAIN c = 1..n
  BY <1>3
<1> QED BY <1>3, <1>6, <1>7 DEF c

\* At a length and its data ReadSlice finds both, or gives up because of the length.
LEMMA ReadSliceFinds ==
  ASSUME NEW f \in Seq(Cell), NEW s \in Nat, NEW data \in Seq(Byte), SliceAt(f, s, data)
  PROVE  /\ Size(data) < MaxVarintBytes =>
              /\ ReadSlice(f, s + 1).ok
              /\ ReadSlice(f, s + 1).next = s + Size(data) + Len(data) + 1
              /\ Bytes(ReadSlice(f, s + 1).data) = data
         /\ Size(data) >= MaxVarintBytes => ReadSlice(f, s + 1) = Corrupt
<1> DEFINE e == Varint32Encode(Len(data))
           last == s + Size(data)
           ends == VarintEnds(f, s + 1)
<1>1. /\ Len(data) \in Nat /\ Size(data) \in Nat \ {0} /\ e \in Seq(Byte) /\ Len(e) = Size(data)
      /\ \A j \in 1..Size(data) - 1 : e[j] >= Radix
      /\ e[Size(data)] < Radix
      /\ MaxVarintBytes \in Nat \ {0} /\ Radix \in Nat /\ Len(f) \in Nat /\ DOMAIN f = 1..Len(f)
  <2>1. Len(data) \in Nat /\ Len(f) \in Nat /\ DOMAIN f = 1..Len(f)
    OBVIOUS
  <2>2. IsVarint(e)
    BY <2>1, EncodeShape
  <2>3. MaxVarintBytes \in Nat \ {0} /\ Radix \in Nat
    BY RecordsAssumption
  <2> HIDE DEF e
  <2>4. Len(e) \in Nat /\ Len(e) >= 1
    BY <2>2 DEF IsVarint
  <2>5. Len(e) = Size(data)
    BY DEF Size, e
  <2> QED BY <2>1, <2>2, <2>3, <2>4, <2>5 DEF IsVarint
<1>2. ASSUME NEW j \in 1..Size(data)
      PROVE  /\ s + j \in DOMAIN f /\ ~f[s + j].crc /\ f[s + j].of[1] = e[j]
             /\ f[s + j] = Token(e[j]) /\ e[j] \in Byte
  <2>1. s + j \in DOMAIN f
    BY <1>1 DEF SliceAt
  <2>2. f[s + j] = Token(e[j]) /\ e[j] \in Byte
    BY <1>1 DEF SliceAt
  <2> QED BY <2>1, <2>2, TokensOfBytes
<1> HIDE DEF e
<1>3. s + 1 \in DOMAIN f
  BY <1>1, <1>2
<1>4. ASSUME NEW p \in ends PROVE p \in s + 1..s + MaxVarintBytes - 1 /\ p >= last
  <2>1. /\ p \in s + 1..s + 1 + MaxVarintBytes - 2 /\ f[p].of[1] < Radix
    BY DEF VarintEnds
  <2>2. p \in s + 1..s + MaxVarintBytes - 1
    BY <1>1, <2>1
  <2>3. ASSUME p < last PROVE FALSE
    <3>1. p - s \in 1..Size(data) - 1 /\ s + (p - s) = p
      BY <1>1, <2>2, <2>3
    <3>2. f[p].of[1] = e[p - s] /\ e[p - s] >= Radix /\ e[p - s] \in Nat
      <4> DEFINE j == p - s
      <4>1. j \in 1..Size(data) /\ j \in 1..Size(data) - 1 /\ s + j = p
        BY <1>1, <3>1
      <4> HIDE DEF j
      <4>2. f[s + j].of[1] = e[j] /\ e[j] \in Byte
        BY <1>2, <4>1
      <4>3. e[j] >= Radix
        BY <1>1, <4>1
      <4> QED BY <4>1, <4>2, <4>3 DEF Byte, j
    <3>3. e[p - s] < Radix /\ Radix \in Nat
      BY <1>1, <2>1, <3>2
    <3> QED BY <3>2, <3>3
  <2> QED BY <1>1, <2>2, <2>3
<1>5. ASSUME Size(data) >= MaxVarintBytes PROVE ReadSlice(f, s + 1) = Corrupt
  <2>1. ends = {}
    BY <1>1, <1>4, <1>5
  <2> QED BY <2>1 DEF ReadSlice
<1>6. ASSUME Size(data) < MaxVarintBytes
      PROVE  /\ ReadSlice(f, s + 1).ok
             /\ ReadSlice(f, s + 1).next = s + Size(data) + Len(data) + 1
             /\ Bytes(ReadSlice(f, s + 1).data) = data
  <2>1. last \in ends
    <3>1. last \in s + 1..s + 1 + MaxVarintBytes - 2 /\ last \in DOMAIN f /\ f[last].of[1] < Radix
      BY <1>1, <1>2, <1>6
    <3>2. ASSUME NEW m \in s + 1..last PROVE ~f[m].crc
      <4>1. m - s \in 1..Size(data) /\ s + (m - s) = m
        BY <1>1
      <4> QED BY <1>2, <4>1
    <3> QED BY <3>1, <3>2 DEF VarintEnds
  <2>2. Min(ends) = last
    <3>1. \A p \in ends : last <= p
      BY <1>4
    <3>2. \A q \in ends : (\A p \in ends : q <= p) => q = last
      BY <1>1, <1>4, <2>1
    <3> QED BY <2>1, <3>1, <3>2 DEF Min
  <2> DEFINE len == SubSeq(f, s + 1, last)
             cells == SubSeq(f, last + 1, last + Len(data))
  <2>3. Value(len) = Len(data)
    <3>1. Len(len) = Size(data) /\ \A j \in 1..Size(data) : len[j] = f[s + j]
      <4>1. s + Size(data) <= Len(f)
        BY <1>1 DEF SliceAt
      <4> QED BY <1>1, <4>1, Window
    <3>2. \A j \in 1..Len(len) : len[j] = Token(e[j])
      BY <1>2, <3>1
    <3> HIDE DEF len
    <3> QED BY <1>1, <3>1, <3>2, ValueOfEncoding DEF e
  <2>4. last + Len(data) <= Len(f)
    BY DEF SliceAt
  <2>5. ReadSlice(f, s + 1) = [ok |-> TRUE, next |-> last + Len(data) + 1, data |-> cells]
    <3>1. ends # {} /\ ~(s + 1 \notin DOMAIN f \/ ends = {})
      BY <1>3, <2>1
    <3>2. ~(last + Len(data) > Len(f))
      BY <1>1, <2>4
    <3> HIDE DEF last, ends
    <3> QED BY <2>2, <2>3, <3>1, <3>2 DEF ReadSlice, ends
  <2>6. Bytes(cells) = data
    <3>1. Len(cells) = Len(data) /\ DOMAIN cells = 1..Len(data)
          /\ \A j \in 1..Len(data) : cells[j] = f[last + j]
      <4>1. last \in Nat
        BY <1>1
      <4> HIDE DEF last
      <4> QED BY <1>1, <2>4, <4>1, Window
    <3>2. ASSUME NEW j \in 1..Len(data) PROVE cells[j].of[1] = data[j]
      <4>1. cells[j] = f[s + Size(data) + j] /\ data[j] \in Byte
        BY <3>1, ElementOfSeq
      <4>2. cells[j] = Token(data[j])
        BY <4>1 DEF SliceAt
      <4> QED BY <4>1, <4>2, TokensOfBytes
    <3> HIDE DEF cells
    <3> QED BY <1>1, <3>1, <3>2 DEF Bytes
  <2> HIDE DEF cells
  <2> QED BY <2>5, <2>6
<1> QED BY <1>5, <1>6

\* A whole record lies after the first s tokens of f.
RecordAt(f, s, r) ==
  /\ s + Len(Frame(r)) <= Len(f)
  /\ \A j \in 1..Len(Frame(r)) : f[s + j] = Frame(r)[j]

LEMMA SlicesOfRecord ==
  ASSUME NEW f \in Seq(Cell), NEW s \in Nat, NEW r \in Records, RecordAt(f, s, r)
  PROVE  /\ SliceAt(f, s + 1, r.key)
         /\ SliceAt(f, s + 1 + Size(r.key) + Len(r.key), r.value)
         /\ s + RawLength(r) + 1 <= Len(f)
         /\ f[s + 1] = Token(r.type)
         /\ SubSeq(f, s + 1, s + RawLength(r)) = Raw(r)
         /\ f[s + RawLength(r) + 1] = Crc(Raw(r))
<1>1. /\ r.type \in Byte /\ r.key \in Seq(Byte) /\ r.value \in Seq(Byte)
      /\ Len(r.key) \in Nat /\ Len(r.value) \in Nat
  BY RecordFields
<1>2. Size(r.key) \in Nat \ {0}
  BY <1>1, SizePositive
<1>3. Size(r.value) \in Nat \ {0}
  BY <1>1, SizePositive
<1>4. /\ Raw(r) \in Seq(ByteToken) /\ Len(Raw(r)) = RawLength(r)
      /\ RawLength(r) \in Nat \ {0}
      /\ Raw(r)[1] = Token(r.type)
      /\ SliceAt(Raw(r), 1, r.key)
      /\ SliceAt(Raw(r), 1 + Size(r.key) + Len(r.key), r.value)
  BY RawShape
<1>5. /\ Len(Frame(r)) = RawLength(r) + 1
      /\ \A i \in 1..RawLength(r) : Frame(r)[i] = Raw(r)[i]
      /\ Frame(r)[RawLength(r) + 1] = Crc(Raw(r))
  BY FrameShape
<1>6. /\ s + RawLength(r) + 1 <= Len(f)
      /\ \A i \in 1..RawLength(r) : f[s + i] = Raw(r)[i]
      /\ f[s + RawLength(r) + 1] = Crc(Raw(r))
  <2>1. \A i \in 1..RawLength(r) : i \in 1..Len(Frame(r))
    BY <1>4, <1>5
  <2>2. RawLength(r) + 1 \in 1..Len(Frame(r)) /\ s + (RawLength(r) + 1) = s + RawLength(r) + 1
    BY <1>4, <1>5
  <2> QED BY <1>5, <2>1, <2>2 DEF RecordAt
<1>7. f[s + 1] = Token(r.type)
  BY <1>4, <1>6
<1>8. SubSeq(f, s + 1, s + RawLength(r)) = Raw(r)
  <2>1. s + RawLength(r) <= Len(f) /\ RawLength(r) \in Nat
    BY <1>4, <1>6
  <2>2. /\ SubSeq(f, s + 1, s + RawLength(r)) \in Seq(Cell)
        /\ Len(SubSeq(f, s + 1, s + RawLength(r))) = RawLength(r)
        /\ \A j \in 1..RawLength(r) : SubSeq(f, s + 1, s + RawLength(r))[j] = f[s + j]
    BY <2>1, Window
  <2>3. Raw(r) \in Seq(Cell)
    BY <1>4, TokensOfBytes, SeqMonotonic
  <2> QED BY <1>4, <1>6, <2>2, <2>3, SeqEqual
<1>9. ASSUME NEW m \in Nat, NEW data, Len(data) \in Nat, Size(data) \in Nat, SliceAt(Raw(r), m, data)
      PROVE  SliceAt(f, s + m, data)
  <2>1. m + Size(data) + Len(data) <= RawLength(r)
    BY <1>4, <1>9 DEF SliceAt
  <2>2. s + m + Size(data) + Len(data) <= Len(f)
    BY <1>4, <1>6, <1>9, <2>1
  <2>3. ASSUME NEW j \in 1..Size(data) PROVE f[s + m + j] = Token(Varint32Encode(Len(data))[j])
    <3>1. m + j \in 1..RawLength(r) /\ s + (m + j) = s + m + j
      BY <1>4, <1>9, <2>1
    <3> QED BY <1>6, <1>9, <3>1 DEF SliceAt
  <2>4. ASSUME NEW j \in 1..Len(data) PROVE f[s + m + Size(data) + j] = Token(data[j])
    <3>1. m + Size(data) + j \in 1..RawLength(r)
          /\ s + (m + Size(data) + j) = s + m + Size(data) + j
      BY <1>4, <1>9, <2>1
    <3> QED BY <1>6, <1>9, <3>1 DEF SliceAt
  <2> QED BY <2>2, <2>3, <2>4 DEF SliceAt
<1>10. SliceAt(f, s + 1, r.key)
  BY <1>1, <1>2, <1>4, <1>9
<1>11. SliceAt(f, s + 1 + Size(r.key) + Len(r.key), r.value)
  <2>1. 1 + Size(r.key) + Len(r.key) \in Nat
        /\ s + (1 + Size(r.key) + Len(r.key)) = s + 1 + Size(r.key) + Len(r.key)
    BY <1>1, <1>2
  <2> QED BY <1>1, <1>3, <1>4, <1>9, <2>1
<1> QED BY <1>6, <1>7, <1>8, <1>10, <1>11

\* Where a whole record starts ReadRecord reads it, unless a length is too long.
LEMMA ReadsWhole ==
  ASSUME NEW f \in Seq(Cell), NEW s \in Nat, NEW r \in Records, RecordAt(f, s, r)
  PROVE  /\ Readable(r) => /\ ReadRecord(f, s + 1).ok
                            /\ ReadRecord(f, s + 1).next = s + Len(Frame(r)) + 1
                            /\ ReadRecord(f, s + 1).record = r
         /\ ~Readable(r) => ~ReadRecord(f, s + 1).ok
<1> DEFINE k == r.key
           v == r.value
           key == ReadSlice(f, s + 1 + 1)
           value == IF key.ok THEN ReadSlice(f, key.next) ELSE Corrupt
           s2 == s + 1 + Size(k) + Len(k)
<1>1. /\ SliceAt(f, s + 1, k) /\ SliceAt(f, s2, v)
      /\ s + RawLength(r) + 1 <= Len(f)
      /\ f[s + 1] = Token(r.type)
      /\ SubSeq(f, s + 1, s + RawLength(r)) = Raw(r)
      /\ f[s + RawLength(r) + 1] = Crc(Raw(r))
  BY SlicesOfRecord
<1>2. /\ r = [type |-> r.type, key |-> k, value |-> v]
      /\ r.type \in Byte /\ k \in Seq(Byte) /\ v \in Seq(Byte) /\ Len(k) \in Nat /\ Len(v) \in Nat
  BY RecordFields
<1>3. Size(k) \in Nat \ {0}
  BY <1>2, SizePositive
<1>4. Size(v) \in Nat \ {0}
  BY <1>2, SizePositive
<1>5. /\ s + 1 \in Nat /\ s2 \in Nat /\ s + 1 + Size(k) + Len(k) + 1 = s2 + 1
      /\ s2 + Size(v) + Len(v) + 1 = s + RawLength(r) + 1
      /\ RawLength(r) \in Nat \ {0}
  <2>1. Size(k) \in Nat /\ Size(v) \in Nat /\ Len(k) \in Nat /\ Len(v) \in Nat
    BY <1>2, <1>3, <1>4
  <2>2. RawLength(r) = 1 + Size(k) + Len(k) + Size(v) + Len(v)
    BY DEF RawLength
  <2> DEFINE a == Size(k)
             b == Len(k)
             c == Size(v)
             d == Len(v)
  <2>3. a \in Nat /\ b \in Nat /\ c \in Nat /\ d \in Nat /\ RawLength(r) = 1 + a + b + c + d
    BY <2>1, <2>2
  <2>4. s2 = s + 1 + a + b
    OBVIOUS
  <2> HIDE DEF a, b, c, d, s2
  <2>5. /\ s + 1 \in Nat /\ s2 \in Nat /\ s + 1 + a + b + 1 = s2 + 1
        /\ s2 + c + d + 1 = s + RawLength(r) + 1
        /\ RawLength(r) \in Nat \ {0}
    BY <2>3, <2>4
  <2> QED BY <2>5 DEF a, b, c, d
<1>6. MaxVarintBytes \in Nat
  BY RecordsAssumption
<1>7. Size(k) < MaxVarintBytes => key.ok /\ key.next = s2 + 1 /\ Bytes(key.data) = k
  BY <1>1, <1>2, <1>5, ReadSliceFinds
<1>8. Size(k) >= MaxVarintBytes => key = Corrupt
  BY <1>1, <1>2, <1>5, ReadSliceFinds
<1>9. Size(v) < MaxVarintBytes => /\ ReadSlice(f, s2 + 1).ok
                                  /\ ReadSlice(f, s2 + 1).next = s + RawLength(r) + 1
                                  /\ Bytes(ReadSlice(f, s2 + 1).data) = v
  BY <1>1, <1>2, <1>5, ReadSliceFinds
<1>10. Size(v) >= MaxVarintBytes => ReadSlice(f, s2 + 1) = Corrupt
  BY <1>1, <1>2, <1>5, ReadSliceFinds
<1>11. ~Corrupt.ok
  BY DEF Corrupt
<1>12. Readable(r) <=> Size(k) < MaxVarintBytes /\ Size(v) < MaxVarintBytes
  BY DEF Readable, Size
<1>13. ReadRecord(f, s + 1) =
         IF /\ value.ok /\ value.next \in DOMAIN f
            /\ CrcMatches(f[value.next], SubSeq(f, s + 1, value.next - 1))
           THEN [ok |-> TRUE, next |-> value.next + 1,
                 record |-> [type |-> f[s + 1].of[1], key |-> Bytes(key.data),
                             value |-> Bytes(value.data)]]
           ELSE Corrupt
  BY DEF ReadRecord
<1> HIDE DEF key, s2
<1>14. ASSUME ~Readable(r) PROVE ~ReadRecord(f, s + 1).ok
  <2>1. CASE Size(k) >= MaxVarintBytes
    <3>1. value = Corrupt
      BY <1>8, <1>11, <2>1
    <3> HIDE DEF value
    <3> QED BY <1>11, <1>13, <3>1
  <2>2. CASE Size(k) < MaxVarintBytes /\ Size(v) >= MaxVarintBytes
    <3>1. value = Corrupt
      BY <1>7, <1>10, <2>2
    <3> HIDE DEF value
    <3> QED BY <1>11, <1>13, <3>1
  <2> QED BY <1>3, <1>4, <1>6, <1>12, <1>14, <2>1, <2>2
<1>15. ASSUME Readable(r)
       PROVE  /\ ReadRecord(f, s + 1).ok
              /\ ReadRecord(f, s + 1).next = s + Len(Frame(r)) + 1
              /\ ReadRecord(f, s + 1).record = r
  <2>1. value = ReadSlice(f, s2 + 1) /\ key.ok /\ Bytes(key.data) = k
    BY <1>7, <1>12, <1>15
  <2>2. value.ok /\ value.next = s + RawLength(r) + 1 /\ Bytes(value.data) = v
    BY <1>9, <1>12, <1>15, <2>1
  <2> HIDE DEF value
  <2>3. value.next \in DOMAIN f /\ value.next - 1 = s + RawLength(r)
    <3> DEFINE n == RawLength(r)
    <3>1. DOMAIN f = 1..Len(f) /\ Len(f) \in Nat
      OBVIOUS
    <3>2. n \in Nat \ {0} /\ s + n + 1 <= Len(f) /\ value.next = s + n + 1
      BY <1>1, <1>5, <2>2
    <3> HIDE DEF n
    <3>3. value.next \in DOMAIN f /\ value.next - 1 = s + n
      BY <3>1, <3>2
    <3> QED BY <3>3 DEF n
  <2>4. CrcMatches(f[value.next], SubSeq(f, s + 1, value.next - 1))
    BY <1>1, <2>2, <2>3 DEF CrcMatches
  <2>5. f[s + 1].of[1] = r.type
    BY <1>1, <1>2, TokensOfBytes
  <2>6. ReadRecord(f, s + 1) = [ok |-> TRUE, next |-> value.next + 1, record |-> r]
    BY <1>2, <1>13, <2>1, <2>2, <2>3, <2>4, <2>5
  <2>7. Len(Frame(r)) = RawLength(r) + 1
    BY FrameShape
  <2> QED BY <1>5, <2>2, <2>6, <2>7
<1> QED BY <1>14, <1>15

\* Whatever ReadRecord takes for a record ends with the checksum of what it read.
LEMMA ReadsChecked ==
  ASSUME NEW f, NEW i, ReadRecord(f, i).ok
  PROVE  \E p \in DOMAIN f : /\ f[p] = Crc(SubSeq(f, i, p - 1))
                             /\ ReadRecord(f, i).next = p + 1
<1> DEFINE key == ReadSlice(f, i + 1)
           value == IF key.ok THEN ReadSlice(f, key.next) ELSE Corrupt
<1>1. value.next \in DOMAIN f /\ CrcMatches(f[value.next], SubSeq(f, i, value.next - 1))
  BY DEF ReadRecord, Corrupt
<1>2. ReadRecord(f, i).next = value.next + 1
  <2>1. ReadRecord(f, i) =
          IF /\ value.ok /\ value.next \in DOMAIN f
             /\ CrcMatches(f[value.next], SubSeq(f, i, value.next - 1))
            THEN [ok |-> TRUE, next |-> value.next + 1,
                  record |-> [type |-> f[i].of[1], key |-> Bytes(key.data),
                              value |-> Bytes(value.data)]]
            ELSE Corrupt
    BY DEF ReadRecord
  <2> HIDE DEF value, key
  <2>2. ~Corrupt.ok
    BY DEF Corrupt
  <2> QED BY <2>1, <2>2
<1> HIDE DEF value
<1> QED BY <1>1, <1>2 DEF CrcMatches

-----------------------------------------------------------------------------
(* The log and what Recover makes of it *)

Entry == [record : Records, end : Nat]
StartOf(w) == w.end - Len(Frame(w.record))
EndOf(ws, i) == IF i = 0 THEN 0 ELSE ws[i].end

\* The records ws are in f, one after the other, and no other checksum is.
LogOK(f, ws) ==
  /\ f \in Seq(Cell) /\ ws \in Seq(Entry)
  /\ \A i \in 1..Len(ws) : StartOf(ws[i]) \in Nat /\ RecordAt(f, StartOf(ws[i]), ws[i].record)
  /\ \A i, j \in 1..Len(ws) : i < j => ws[i].end <= StartOf(ws[j])
  /\ \A p \in DOMAIN f : f[p].crc => \E i \in 1..Len(ws) : ws[i].end = p

\* The first k of them leave no gap, and there is one behind them.
IntactOK(ws, here, k) ==
  /\ here = EndOf(ws, k)
  /\ \A i \in 1..k : StartOf(ws[i]) = EndOf(ws, i - 1)
  /\ k < Len(ws) => here < StartOf(ws[k + 1])

\* Of the first k the records up to the first that cannot be read.
ReadUntil(ws, k) == {i \in 1..k : \A j \in 1..i : Readable(ws[j].record)}
Handed(ws, k) == [i \in ReadUntil(ws, k) |-> ws[i].record]

LEMMA ReadUntilIsPrefix ==
  ASSUME NEW ws, NEW k \in Nat
  PROVE  \E d \in 0..k : /\ ReadUntil(ws, k) = 1..d
                         /\ d < k => ~Readable(ws[d + 1].record)
<1> DEFINE stops == {i \in 1..k + 1 : i = k + 1 \/ ~Readable(ws[i].record)}
<1>1. PICK m \in stops : \A i \in stops : m <= i
  <2>1. stops \in SUBSET Nat /\ k + 1 \in stops
    OBVIOUS
  <2> HIDE DEF stops
  <2> QED BY <2>1, Least
<1>2. ASSUME NEW i \in 1..k PROVE i \in ReadUntil(ws, k) <=> i <= m - 1
  <2>1. m - 1 \in 0..k /\ m = m - 1 + 1
    OBVIOUS
  <2>2. ASSUME i <= m - 1, NEW j \in 1..i PROVE Readable(ws[j].record)
    <3>1. j \in 1..k + 1 /\ ~(m <= j)
      BY <2>1, <2>2
    <3> QED BY <1>1, <3>1
  <2>3. ASSUME ~(i <= m - 1) PROVE m \in 1..i /\ m # k + 1
    BY <2>1, <2>3
  <2> QED BY <2>2, <2>3 DEF ReadUntil
<1>3. ReadUntil(ws, k) = 1..m - 1
  <2>1. ReadUntil(ws, k) \subseteq 1..k /\ m - 1 \in 0..k
    BY DEF ReadUntil
  <2>2. ASSUME NEW i \in 1..m - 1 PROVE i \in ReadUntil(ws, k)
    <3>1. i \in 1..k /\ i <= m - 1
      BY <2>1
    <3> QED BY <1>2, <3>1
  <2>3. ASSUME NEW i \in ReadUntil(ws, k) PROVE i \in 1..m - 1
    <3>1. i \in 1..k
      BY <2>1
    <3>2. i <= m - 1
      BY <1>2, <3>1
    <3> QED BY <2>1, <3>1, <3>2
  <2> QED BY <2>2, <2>3
<1> QED BY <1>1, <1>3

LEMMA EntryFacts ==
  ASSUME NEW f, NEW ws, LogOK(f, ws), NEW i \in 1..Len(ws)
  PROVE  /\ ws[i].record \in Records /\ ws[i].end \in Nat
         /\ Len(Frame(ws[i].record)) = RawLength(ws[i].record) + 1
         /\ RawLength(ws[i].record) \in Nat \ {0}
         /\ StartOf(ws[i]) \in Nat /\ StartOf(ws[i]) < ws[i].end /\ ws[i].end <= Len(f)
         /\ ws[i].end = StartOf(ws[i]) + RawLength(ws[i].record) + 1
         /\ Len(ws) \in Nat /\ Len(f) \in Nat /\ DOMAIN f = 1..Len(f)
<1>1. ws[i] \in Entry /\ Len(ws) \in Nat /\ Len(f) \in Nat /\ DOMAIN f = 1..Len(f)
  BY ElementOfSeq DEF LogOK
<1>2. ws[i].record \in Records /\ ws[i].end \in Nat
  BY <1>1 DEF Entry
<1>3. /\ Len(Frame(ws[i].record)) = RawLength(ws[i].record) + 1
      /\ RawLength(ws[i].record) \in Nat \ {0}
  BY <1>2, FrameShape, RawShape
<1>4. /\ StartOf(ws[i]) \in Nat /\ StartOf(ws[i]) + Len(Frame(ws[i].record)) <= Len(f)
  BY DEF LogOK, RecordAt
<1>5. StartOf(ws[i]) = ws[i].end - Len(Frame(ws[i].record))
  BY DEF StartOf
<1> QED BY <1>1, <1>2, <1>3, <1>4, <1>5

\* Only where a whole record starts is one read.
LEMMA ReadsOnlyWhole ==
  ASSUME NEW f, NEW ws, LogOK(f, ws), NEW i \in 1..Len(f), ReadRecord(f, i).ok
  PROVE  /\ \E m \in 1..Len(ws) : i = StartOf(ws[m]) + 1
         /\ ReadRecord(f, i).next \in i + 1..Len(f) + 1
<1>1. PICK p \in DOMAIN f : f[p] = Crc(SubSeq(f, i, p - 1)) /\ ReadRecord(f, i).next = p + 1
  BY ReadsChecked
<1>2. f[p].crc
  BY <1>1 DEF Crc
<1>3. PICK m \in 1..Len(ws) : ws[m].end = p
  BY <1>2 DEF LogOK
<1> DEFINE r == ws[m].record
           s == StartOf(ws[m])
<1>4. /\ r \in Records /\ s \in Nat /\ p = s + RawLength(r) + 1 /\ RawLength(r) \in Nat \ {0}
      /\ DOMAIN f = 1..Len(f) /\ Len(f) \in Nat /\ f \in Seq(Cell)
  <2>1. f \in Seq(Cell)
    BY DEF LogOK
  <2>2. /\ ws[m].record \in Records
        /\ RawLength(ws[m].record) \in Nat \ {0}
        /\ StartOf(ws[m]) \in Nat
        /\ ws[m].end = StartOf(ws[m]) + RawLength(ws[m].record) + 1
        /\ Len(f) \in Nat /\ DOMAIN f = 1..Len(f)
    BY EntryFacts
  <2> QED BY <1>3, <2>1, <2>2
<1>5. f[p] = Crc(Raw(r))
  <2>1. RecordAt(f, s, r)
    BY DEF LogOK
  <2> HIDE DEF r, s
  <2> QED BY <1>4, <2>1, SlicesOfRecord
<1>6. SubSeq(f, i, p - 1) = Raw(r)
  BY <1>1, <1>5 DEF Crc
<1>7. Len(SubSeq(f, i, p - 1)) = RawLength(r)
  <2> HIDE DEF r
  <2> QED BY <1>4, <1>6, RawShape
<1> HIDE DEF r, s
<1>8. Len(SubSeq(f, i, p - 1)) = IF i <= p - 1 THEN p - 1 - i + 1 ELSE 0
  <2>1. i \in Int /\ p - 1 \in Int /\ \A j \in i..p - 1 : f[j] \in Cell
    BY <1>4
  <2> QED BY <2>1, SubSeqProperties
<1>9. i = s + 1 /\ i <= p - 1
  BY <1>4, <1>7, <1>8
<1>10. p + 1 \in i + 1..Len(f) + 1
  BY <1>4, <1>9
<1> QED BY <1>1, <1>9, <1>10 DEF s

-----------------------------------------------------------------------------
(* Recover *)

Recovered(f, g, i) ==
  IF i > Len(f) THEN <<>>
  ELSE LET r == ReadRecord(f, i)
       IN  IF r.ok THEN <<r.record>> \o g[r.next] ELSE <<>>

RecoverStep(f, g) ==
  [i \in 1..Len(f) + 1 |->
     IF i > Len(f) THEN <<>>
     ELSE LET r == ReadRecord(f, i)
          IN  IF r.ok THEN <<r.record>> \o g[r.next] ELSE <<>>]

\* What is read lies inside the file and behind where reading began.
Advances(f) == \A i \in 1..Len(f) : ReadRecord(f, i).ok => ReadRecord(f, i).next \in i + 1..Len(f) + 1

LEMMA RecoverStepAt ==
  ASSUME NEW f, NEW g, NEW i \in 1..Len(f) + 1
  PROVE  RecoverStep(f, g)[i] = Recovered(f, g, i)
BY DEF RecoverStep, Recovered

\* The recursion of Recover has a solution.
LEMMA RecoverExists ==
  ASSUME NEW f, Len(f) \in Nat, Advances(f)
  PROVE  \E g : g = RecoverStep(f, g)
<1> DEFINE n == Len(f)
           Part(k, g) == \A i \in n + 1 - k..n + 1 : g[i] = Recovered(f, g, i)
           solved == {k \in Nat : k <= n => \E g : Part(k, g)}
<1>1. 0 \in solved
  <2> DEFINE g == [i \in n + 1..n + 1 |-> <<>>]
  <2>1. Part(0, g)
    BY DEF Recovered
  <2> HIDE DEF g, Part
  <2> QED BY <2>1
<1>2. ASSUME NEW k \in solved PROVE k + 1 \in solved
  <2> SUFFICES ASSUME k + 1 <= n PROVE \E g : Part(k + 1, g)
    OBVIOUS
  <2>1. PICK g : Part(k, g)
    OBVIOUS
  <2> DEFINE h == [i \in n + 1 - (k + 1)..n + 1 |->
                     IF i >= n + 1 - k THEN g[i] ELSE Recovered(f, g, i)]
  <2>2. ASSUME NEW i \in n + 1 - (k + 1)..n + 1 PROVE h[i] = Recovered(f, h, i)
    <3>1. ASSUME i <= n, ReadRecord(f, i).ok
          PROVE  h[ReadRecord(f, i).next] = g[ReadRecord(f, i).next]
      <4> DEFINE p == ReadRecord(f, i).next
      <4>1. p \in i + 1..n + 1
        BY <3>1 DEF Advances
      <4> HIDE DEF p
      <4>2. h[p] = g[p]
        BY <4>1
      <4> QED BY <4>2 DEF p
    <3>2. i >= n + 1 - k => g[i] = Recovered(f, g, i)
      BY <2>1
    <3>3. h[i] = IF i >= n + 1 - k THEN g[i] ELSE Recovered(f, g, i)
      OBVIOUS
    <3> HIDE DEF h
    <3>4. Recovered(f, h, i) = Recovered(f, g, i)
      BY <3>1 DEF Recovered
    <3> QED BY <3>2, <3>3, <3>4
  <2>3. Part(k + 1, h)
    BY <2>2
  <2> HIDE DEF h, Part
  <2> QED BY <2>3
<1>3. n \in solved
  <2>1. solved \in SUBSET Nat
    OBVIOUS
  <2> HIDE DEF solved
  <2> QED BY <1>1, <1>2, <2>1, AllNumbers
<1>4. PICK g : Part(n, g)
  BY <1>3
<1> DEFINE h == [i \in 1..n + 1 |-> g[i]]
<1>5. ASSUME NEW i \in 1..n + 1 PROVE h[i] = Recovered(f, h, i)
  <2>1. g[i] = Recovered(f, g, i)
    BY <1>4
  <2>2. i <= n /\ ReadRecord(f, i).ok => h[ReadRecord(f, i).next] = g[ReadRecord(f, i).next]
    BY DEF Advances
  <2>3. h[i] = g[i]
    OBVIOUS
  <2> HIDE DEF h
  <2>4. Recovered(f, h, i) = Recovered(f, g, i)
    BY <2>2 DEF Recovered
  <2> QED BY <2>1, <2>3, <2>4
<1>6. h = RecoverStep(f, h)
  <2>1. /\ RecoverStep(f, h) = [i \in 1..n + 1 |-> RecoverStep(f, h)[i]]
    BY DEF RecoverStep
  <2> QED BY <1>5, <2>1, RecoverStepAt
<1> HIDE DEF h
<1> QED BY <1>6

LEMMA RecoverEquation ==
  ASSUME NEW f, Len(f) \in Nat, Advances(f)
  PROVE  \E g : Recover(f) = g[1] /\ \A i \in 1..Len(f) + 1 : g[i] = Recovered(f, g, i)
<1> DEFINE g == CHOOSE h : h = RecoverStep(f, h)
<1>1. Recover(f) = g[1]
  BY DEF Recover, RecoverStep
<1>2. g = RecoverStep(f, g)
  BY RecoverExists
<1> HIDE DEF g
<1> QED BY <1>1, <1>2, RecoverStepAt

\* The ends of the records ascend.
LEMMA EndsAscend ==
  ASSUME NEW f, NEW ws, LogOK(f, ws), NEW i \in 0..Len(ws), NEW j \in 0..Len(ws)
  PROVE  /\ EndOf(ws, i) \in 0..Len(f)
         /\ i < j => EndOf(ws, i) < EndOf(ws, j) /\ EndOf(ws, i) <= StartOf(ws[j])
         /\ i <= j => EndOf(ws, i) <= EndOf(ws, j)
<1>1. Len(ws) \in Nat /\ Len(f) \in Nat
  BY DEF LogOK
<1>2. ASSUME NEW x \in 0..Len(ws) PROVE EndOf(ws, x) \in 0..Len(f)
  <2>1. CASE x = 0
    BY <1>1, <2>1 DEF EndOf
  <2>2. CASE x # 0
    <3>1. x \in 1..Len(ws)
      BY <1>1, <2>2
    <3>2. ws[x].end \in Nat /\ ws[x].end <= Len(f)
      BY <3>1, EntryFacts
    <3> QED BY <1>1, <2>2, <3>2 DEF EndOf
  <2> QED BY <2>1, <2>2
<1>3. ASSUME i < j PROVE EndOf(ws, i) < EndOf(ws, j) /\ EndOf(ws, i) <= StartOf(ws[j])
  <2>1. j \in 1..Len(ws) /\ j # 0
    BY <1>1, <1>3
  <2>2. StartOf(ws[j]) \in Nat /\ StartOf(ws[j]) < ws[j].end /\ ws[j].end \in Nat
    BY <2>1, EntryFacts
  <2>3. EndOf(ws, j) = ws[j].end
    BY <2>1 DEF EndOf
  <2>4. CASE i = 0
    BY <2>2, <2>3, <2>4 DEF EndOf
  <2>5. CASE i # 0
    <3>1. i \in 1..Len(ws)
      BY <1>1, <2>5
    <3>2. ws[i].end <= StartOf(ws[j]) /\ EndOf(ws, i) = ws[i].end
      BY <1>3, <2>1, <2>5, <3>1 DEF LogOK, EndOf
    <3>3. ws[i].end \in Nat
      BY <3>1, EntryFacts
    <3> QED BY <2>2, <2>3, <3>2, <3>3
  <2> QED BY <2>4, <2>5
<1>4. EndOf(ws, i) \in 0..Len(f) /\ EndOf(ws, j) \in 0..Len(f)
  BY <1>2
<1> QED BY <1>1, <1>3, <1>4

LEMMA Prepended ==
  ASSUME NEW S, NEW x \in S, NEW t \in Seq(S)
  PROVE  <<x>> \o t = [j \in 1..Len(t) + 1 |-> IF j = 1 THEN x ELSE t[j - 1]]
<1> DEFINE c == <<x>> \o t
<1>1. /\ c \in Seq(S) /\ Len(c) = 1 + Len(t)
      /\ \A i \in 1..1 + Len(t) : c[i] = IF i <= 1 THEN <<x>>[i] ELSE t[i - 1]
  <2>1. <<x>> \in Seq(S) /\ Len(<<x>>) = 1
    OBVIOUS
  <2> QED BY <2>1, ConcatProperties
<1> HIDE DEF c
<1>2. Len(t) \in Nat
  OBVIOUS
<1>3. c = [j \in 1..Len(t) + 1 |-> c[j]]
  BY <1>1, <1>2
<1>4. ASSUME NEW j \in 1..Len(t) + 1 PROVE c[j] = IF j = 1 THEN x ELSE t[j - 1]
  BY <1>1, <1>2
<1>5. c = [j \in 1..Len(t) + 1 |-> IF j = 1 THEN x ELSE t[j - 1]]
  BY <1>3, <1>4
<1> QED BY <1>5 DEF c

\* Reading stops where the intact part ends or where a record cannot be read.
LEMMA NothingMore ==
  ASSUME NEW f, NEW ws, LogOK(f, ws), NEW here, NEW k \in 0..Len(ws), IntactOK(ws, here, k),
         NEW d \in 0..k, d < k => ~Readable(ws[d + 1].record),
         EndOf(ws, d) + 1 \in 1..Len(f)
  PROVE  ~ReadRecord(f, EndOf(ws, d) + 1).ok
<1>1. Len(ws) \in Nat /\ Len(f) \in Nat /\ f \in Seq(Cell)
  BY DEF LogOK
<1>2. CASE d < k
  <2>1. d + 1 \in 1..Len(ws) /\ d + 1 \in 1..k /\ d + 1 - 1 = d
    BY <1>1, <1>2
  <2>2. StartOf(ws[d + 1]) = EndOf(ws, d)
    BY <2>1 DEF IntactOK
  <2>3. RecordAt(f, EndOf(ws, d), ws[d + 1].record) /\ EndOf(ws, d) \in Nat
    BY <2>1, <2>2 DEF LogOK
  <2>4. ws[d + 1].record \in Records
    BY <2>1, EntryFacts
  <2> QED BY <1>1, <1>2, <2>3, <2>4, ReadsWhole
<1>3. CASE d = k
  <2> SUFFICES ASSUME ReadRecord(f, EndOf(ws, d) + 1).ok PROVE FALSE
    OBVIOUS
  <2>1. PICK m \in 1..Len(ws) : EndOf(ws, d) + 1 = StartOf(ws[m]) + 1
    BY ReadsOnlyWhole
  <2>2. StartOf(ws[m]) \in Nat /\ StartOf(ws[m]) < ws[m].end /\ ws[m].end \in Nat
    BY EntryFacts
  <2>3. EndOf(ws, k) \in 0..Len(f)
    BY EndsAscend
  <2>4. EndOf(ws, k) = StartOf(ws[m])
    BY <1>3, <2>1, <2>2, <2>3
  <2>5. CASE m <= k
    <3>1. ws[m].end = EndOf(ws, m) /\ m \in 0..Len(ws)
      BY <1>1 DEF EndOf
    <3>2. EndOf(ws, m) <= EndOf(ws, k)
      BY <2>5, <3>1, EndsAscend
    <3> QED BY <2>2, <2>3, <2>4, <3>1, <3>2
  <2>6. CASE m = k + 1
    BY <1>1, <2>2, <2>3, <2>4, <2>6 DEF IntactOK
  <2>7. CASE m > k + 1
    <3>1. k + 1 \in 1..Len(ws) /\ k < Len(ws) /\ k + 1 < m
      BY <1>1, <2>7
    <3>2. EndOf(ws, k) < StartOf(ws[k + 1])
      BY <3>1 DEF IntactOK
    <3>3. /\ StartOf(ws[k + 1]) \in Nat /\ StartOf(ws[k + 1]) < ws[k + 1].end
          /\ ws[k + 1].end \in Nat
      BY <3>1, EntryFacts
    <3>4. ws[k + 1].end <= StartOf(ws[m])
      BY <3>1 DEF LogOK
    <3> QED BY <2>2, <2>3, <2>4, <3>2, <3>3, <3>4
  <2>8. m \in Nat /\ k \in Nat
    BY <1>1
  <2> QED BY <2>5, <2>6, <2>7, <2>8
<1>4. d \in Nat /\ k \in Nat
  BY <1>1
<1> QED BY <1>2, <1>3, <1>4

\* Recover hands on the records of the intact part, up to the first unreadable one.
LEMMA RecoverHands ==
  ASSUME NEW f, NEW ws, LogOK(f, ws), NEW here, NEW k \in 0..Len(ws), IntactOK(ws, here, k)
  PROVE  Recover(f) = Handed(ws, k)
<1>1. Len(ws) \in Nat /\ Len(f) \in Nat /\ f \in Seq(Cell) /\ k \in Nat
  BY DEF LogOK
<1>2. PICK d \in 0..k : ReadUntil(ws, k) = 1..d /\ (d < k => ~Readable(ws[d + 1].record))
  BY <1>1, ReadUntilIsPrefix
<1>3. Advances(f)
  BY ReadsOnlyWhole DEF Advances
<1>4. PICK g : Recover(f) = g[1] /\ \A i \in 1..Len(f) + 1 : g[i] = Recovered(f, g, i)
  BY <1>1, <1>3, RecoverEquation
<1> DEFINE from(q) == [j \in 1..q |-> ws[d - q + j].record]
           reached == {q \in Nat : q <= d => g[EndOf(ws, d - q) + 1] = from(q)}
<1>5. 0 \in reached
  <2>1. EndOf(ws, d) \in 0..Len(f)
    BY <1>1, EndsAscend
  <2>2. EndOf(ws, d) + 1 \in 1..Len(f) + 1
    BY <1>1, <2>1
  <2>3. EndOf(ws, d) + 1 <= Len(f) => ~ReadRecord(f, EndOf(ws, d) + 1).ok
    <3>1. EndOf(ws, d) + 1 <= Len(f) => EndOf(ws, d) + 1 \in 1..Len(f)
      BY <1>1, <2>1
    <3> QED BY <1>2, <3>1, NothingMore
  <2>4. g[EndOf(ws, d) + 1] = <<>>
    <3> DEFINE p == EndOf(ws, d) + 1
    <3>1. g[p] = Recovered(f, g, p) /\ (~(p > Len(f)) => ~ReadRecord(f, p).ok)
      BY <1>1, <1>4, <2>1, <2>2, <2>3
    <3> HIDE DEF p
    <3> QED BY <3>1 DEF Recovered, p
  <2>5. d - 0 = d
    BY <1>1
  <2>6. from(0) = <<>>
    OBVIOUS
  <2> QED BY <2>4, <2>5, <2>6
<1>6. ASSUME NEW q \in reached PROVE q + 1 \in reached
  <2> SUFFICES ASSUME q + 1 <= d PROVE g[EndOf(ws, d - (q + 1)) + 1] = from(q + 1)
    OBVIOUS
  <2> DEFINE x == d - q
             s == EndOf(ws, x - 1)
             r == ws[x].record
  <2>1. /\ q \in Nat /\ d \in Nat /\ x \in 1..d /\ x \in 1..k /\ x \in 1..Len(ws)
        /\ x - 1 \in 0..Len(ws) /\ d - (q + 1) = x - 1 /\ q <= d
    BY <1>1
  <2>2. g[EndOf(ws, x) + 1] = from(q)
    BY <2>1
  <2>3. StartOf(ws[x]) = s /\ Readable(r)
    <3>1. StartOf(ws[x]) = EndOf(ws, x - 1)
      BY <2>1 DEF IntactOK
    <3>2. x \in ReadUntil(ws, k) /\ x \in 1..x
      BY <1>2, <2>1
    <3>3. Readable(ws[x].record)
      <4> HIDE DEF x
      <4> QED BY <3>2 DEF ReadUntil
    <3> QED BY <3>1, <3>3
  <2>4. /\ r \in Records /\ RecordAt(f, s, r) /\ s \in Nat
        /\ ws[x].end = s + Len(Frame(r)) /\ ws[x].end \in Nat
        /\ s < ws[x].end /\ ws[x].end <= Len(f)
    <3>1. RecordAt(f, StartOf(ws[x]), ws[x].record)
      BY <2>1 DEF LogOK
    <3>2. /\ ws[x].record \in Records /\ StartOf(ws[x]) \in Nat /\ ws[x].end \in Nat
          /\ ws[x].end = StartOf(ws[x]) + RawLength(ws[x].record) + 1
          /\ StartOf(ws[x]) < ws[x].end /\ ws[x].end <= Len(f)
          /\ Len(Frame(ws[x].record)) = RawLength(ws[x].record) + 1
          /\ RawLength(ws[x].record) \in Nat
      <4>1. x \in 1..Len(ws)
        BY <2>1
      <4> HIDE DEF x
      <4> QED BY <4>1, EntryFacts
    <3> HIDE DEF x, s
    <3> QED BY <2>3, <3>1, <3>2
  <2>5. EndOf(ws, x) = ws[x].end
    BY <2>1 DEF EndOf
  <2> HIDE DEF x, s, r
  <2>6. /\ ReadRecord(f, s + 1).ok /\ ReadRecord(f, s + 1).next = EndOf(ws, x) + 1
        /\ ReadRecord(f, s + 1).record = r
    BY <1>1, <2>3, <2>4, <2>5, ReadsWhole
  <2>7. s + 1 \in 1..Len(f) + 1 /\ ~(s + 1 > Len(f))
    BY <1>1, <2>4
  <2>8. g[s + 1] = <<r>> \o from(q)
    <3>1. g[s + 1] = Recovered(f, g, s + 1)
      BY <1>4, <2>7
    <3> HIDE DEF from
    <3> QED BY <2>2, <2>6, <2>7, <3>1 DEF Recovered
  <2>9. <<r>> \o from(q) = from(q + 1)
    <3>1. ASSUME NEW j \in 1..q PROVE ws[d - q + j].record \in Records
      <4>1. d - q + j \in 1..Len(ws)
        BY <1>1, <2>1 DEF x
      <4>2. \A i \in 1..Len(ws) : ws[i].record \in Records
        BY EntryFacts
      <4> QED BY <4>1, <4>2
    <3>2. from(q) \in Seq(Records) /\ Len(from(q)) = q
      BY <2>1, <3>1
    <3>3. ASSUME NEW j \in 1..q + 1
          PROVE  (IF j = 1 THEN r ELSE from(q)[j - 1]) = ws[d - (q + 1) + j].record
      <4>1. CASE j = 1
        <5>1. d - (q + 1) + j = x
          BY <2>1, <4>1 DEF x
        <5> QED BY <4>1, <5>1 DEF r
      <4>2. CASE j # 1
        <5>1. j - 1 \in 1..q /\ d - q + (j - 1) = d - (q + 1) + j
          BY <2>1, <4>2
        <5> QED BY <4>2, <5>1
      <4> QED BY <4>1, <4>2
    <3> DEFINE t == from(q)
    <3>4. <<r>> \o t = [j \in 1..q + 1 |-> IF j = 1 THEN r ELSE t[j - 1]]
      <4> HIDE DEF from
      <4> QED BY <2>4, <3>2, Prepended
    <3> DEFINE u == [j \in 1..q + 1 |-> ws[d - (q + 1) + j].record]
    <3>5. \A j \in 1..q + 1 : (IF j = 1 THEN r ELSE t[j - 1]) = u[j]
      BY <3>3
    <3> HIDE DEF t
    <3>6. [j \in 1..q + 1 |-> IF j = 1 THEN r ELSE t[j - 1]] = u
      BY <3>5
    <3> QED BY <3>4, <3>6 DEF t
  <2> QED BY <2>1, <2>8, <2>9 DEF s
<1>7. d \in reached
  <2>1. reached \in SUBSET Nat
    OBVIOUS
  <2> HIDE DEF reached
  <2>2. reached = Nat
    BY <1>5, <1>6, <2>1, AllNumbers
  <2> QED BY <1>1, <2>2
<1>8. g[1] = from(d)
  <2>1. EndOf(ws, d - d) + 1 = 1
    BY <1>1 DEF EndOf
  <2> QED BY <1>1, <1>7, <2>1
<1>9. from(d) = Handed(ws, k)
  <2>1. \A j \in 1..d : d - d + j = j
    BY <1>1
  <2> QED BY <1>2, <2>1 DEF Handed
<1> QED BY <1>4, <1>8, <1>9

-----------------------------------------------------------------------------
(* What the steps do to the log *)

LEMMA JoinedCells ==
  ASSUME NEW s \in Seq(Cell), NEW t \in Seq(Cell)
  PROVE  /\ s \o t \in Seq(Cell) /\ Len(s \o t) = Len(s) + Len(t)
         /\ Len(s) \in Nat /\ Len(t) \in Nat
         /\ \A i \in 1..Len(s) : (s \o t)[i] = s[i]
         /\ \A j \in 1..Len(t) : (s \o t)[Len(s) + j] = t[j]
OBVIOUS

\* A record stays where it is when what comes before its end does.
LEMMA RecordStays ==
  ASSUME NEW f \in Seq(Cell), NEW g \in Seq(Cell), NEW s \in Nat, NEW r \in Records,
         RecordAt(f, s, r), s + Len(Frame(r)) <= Len(g),
         \A i \in 1..s + Len(Frame(r)) : g[i] = f[i]
  PROVE  RecordAt(g, s, r)
<1>1. Len(Frame(r)) \in Nat
  BY FrameShape
<1>2. ASSUME NEW j \in 1..Len(Frame(r)) PROVE g[s + j] = f[s + j]
  <2>1. s + j \in 1..s + Len(Frame(r))
    BY <1>1
  <2> QED BY <2>1
<1> QED BY <1>2 DEF RecordAt

\* What was handed on of the first records depends on them alone.
LEMMA HandedStays ==
  ASSUME NEW ws, NEW vs, NEW c \in Nat, \A i \in 1..c : vs[i] = ws[i]
  PROVE  EndOf(vs, c) = EndOf(ws, c) /\ Handed(vs, c) = Handed(ws, c)
<1>1. EndOf(vs, c) = EndOf(ws, c)
  <2>1. c # 0 => c \in 1..c
    OBVIOUS
  <2> QED BY <2>1 DEF EndOf
<1>2. ReadUntil(vs, c) = ReadUntil(ws, c)
  <2>1. ASSUME NEW i \in 1..c, NEW j \in 1..i PROVE vs[j].record = ws[j].record
    <3>1. j \in 1..c
      OBVIOUS
    <3> QED BY <3>1
  <2> QED BY <2>1 DEF ReadUntil
<1>3. ReadUntil(ws, c) \subseteq 1..c
  BY DEF ReadUntil
<1> QED BY <1>1, <1>2, <1>3 DEF Handed

LEMMA IntactStays ==
  ASSUME NEW ws, NEW vs, NEW k \in Nat, NEW here, IntactOK(ws, here, k),
         \A i \in 1..k : vs[i] = ws[i],
         k < Len(vs) => here < StartOf(vs[k + 1])
  PROVE  IntactOK(vs, here, k)
<1>1. ASSUME NEW i \in 1..k PROVE StartOf(vs[i]) = EndOf(vs, i - 1)
  <2>1. i - 1 \in Nat /\ \A j \in 1..i - 1 : j \in 1..k
    OBVIOUS
  <2>2. EndOf(vs, i - 1) = EndOf(ws, i - 1)
    BY <2>1, HandedStays
  <2> QED BY <2>2 DEF IntactOK
<1>2. EndOf(vs, k) = EndOf(ws, k)
  BY HandedStays
<1> QED BY <1>1, <1>2 DEF IntactOK

Grows(f, ws, r, g, vs) ==
  /\ g = f \o Frame(r)
  /\ vs = Append(ws, [record |-> r, end |-> Len(g)])

\* A whole record behind the others.
LEMMA WholeAppended ==
  ASSUME NEW f, NEW ws, LogOK(f, ws), NEW here, NEW k \in 0..Len(ws), IntactOK(ws, here, k),
         NEW r \in Records, NEW g, NEW vs, Grows(f, ws, r, g, vs)
  PROVE  /\ LogOK(g, vs) /\ Len(g) \in Nat /\ Len(f) <= Len(g)
         /\ Len(vs) = Len(ws) + 1 /\ \A i \in 1..Len(ws) : vs[i] = ws[i]
         /\ \E m \in k..Len(vs) : IntactOK(vs, IF here = Len(f) THEN Len(g) ELSE here, m)
<1>1. /\ f \in Seq(Cell) /\ ws \in Seq(Entry) /\ Len(f) \in Nat /\ Len(ws) \in Nat /\ k \in Nat
      /\ DOMAIN f = 1..Len(f)
  BY DEF LogOK
<1>2. /\ Frame(r) \in Seq(Cell) /\ Len(Frame(r)) = RawLength(r) + 1 /\ RawLength(r) \in Nat \ {0}
      /\ \A i \in 1..RawLength(r) : ~Frame(r)[i].crc
  BY FrameShape, RawShape
<1>3. /\ g \in Seq(Cell) /\ Len(g) = Len(f) + Len(Frame(r)) /\ Len(g) \in Nat
      /\ DOMAIN g = 1..Len(g)
      /\ \A i \in 1..Len(f) : g[i] = f[i]
      /\ \A j \in 1..Len(Frame(r)) : g[Len(f) + j] = Frame(r)[j]
  <2> DEFINE t == f \o Frame(r)
  <2>1. /\ t \in Seq(Cell) /\ Len(t) = Len(f) + Len(Frame(r))
        /\ Len(f) \in Nat /\ Len(Frame(r)) \in Nat
        /\ \A i \in 1..Len(f) : t[i] = f[i]
        /\ \A j \in 1..Len(Frame(r)) : t[Len(f) + j] = Frame(r)[j]
    BY <1>1, <1>2, JoinedCells
  <2>2. g = t
    BY DEF Grows
  <2> HIDE DEF t
  <2> QED BY <2>1, <2>2
<1> DEFINE e == [record |-> r, end |-> Len(g)]
           n == Len(ws)
<1>4. e \in Entry /\ e.record = r /\ e.end = Len(g) /\ StartOf(e) = Len(f)
  <2>1. e \in Entry
    BY <1>3 DEF Entry
  <2>2. e.record = r /\ e.end = Len(g)
    OBVIOUS
  <2> HIDE DEF e
  <2> QED BY <1>1, <1>2, <1>3, <2>1, <2>2 DEF StartOf
<1>5. /\ vs \in Seq(Entry) /\ Len(vs) = n + 1
      /\ \A i \in 1..n : vs[i] = ws[i]
      /\ vs[n + 1] = e
  <2>1. vs = Append(ws, e)
    BY DEF Grows
  <2> HIDE DEF e
  <2> QED BY <1>1, <1>4, <2>1, AppendProperties
<1> HIDE DEF e
<1>6. RecordAt(g, Len(f), r)
  BY <1>1, <1>2, <1>3 DEF RecordAt
<1>7. ASSUME NEW i \in 1..Len(vs)
      PROVE  StartOf(vs[i]) \in Nat /\ RecordAt(g, StartOf(vs[i]), vs[i].record)
  <2>1. CASE i = n + 1
    BY <1>1, <1>4, <1>5, <1>6, <2>1
  <2>2. CASE i # n + 1
    <3>1. i \in 1..n
      BY <1>1, <1>5, <2>2
    <3>2. /\ ws[i].record \in Records /\ StartOf(ws[i]) \in Nat
          /\ ws[i].end = StartOf(ws[i]) + Len(Frame(ws[i].record)) /\ ws[i].end <= Len(f)
          /\ ws[i].end \in Nat
      <4>1. /\ ws[i].record \in Records /\ StartOf(ws[i]) \in Nat /\ ws[i].end \in Nat
            /\ ws[i].end = StartOf(ws[i]) + RawLength(ws[i].record) + 1
            /\ Len(Frame(ws[i].record)) = RawLength(ws[i].record) + 1
            /\ RawLength(ws[i].record) \in Nat \ {0}
            /\ ws[i].end <= Len(f)
        BY <3>1, EntryFacts
      <4> QED BY <4>1
    <3>3. RecordAt(f, StartOf(ws[i]), ws[i].record)
      BY <3>1 DEF LogOK
    <3>4. /\ StartOf(ws[i]) + Len(Frame(ws[i].record)) <= Len(g)
          /\ \A j \in 1..StartOf(ws[i]) + Len(Frame(ws[i].record)) : g[j] = f[j]
      <4>1. StartOf(ws[i]) + Len(Frame(ws[i].record)) <= Len(f)
        BY <3>2
      <4>2. Len(f) <= Len(g)
        BY <1>1, <1>2, <1>3
      <4> QED BY <1>1, <1>3, <3>2, <4>1, <4>2
    <3>5. RecordAt(g, StartOf(ws[i]), ws[i].record)
      BY <1>1, <1>3, <3>2, <3>3, <3>4, RecordStays
    <3> QED BY <1>5, <3>1, <3>2, <3>5
  <2> QED BY <2>1, <2>2
<1>8. ASSUME NEW i \in 1..Len(vs), NEW j \in 1..Len(vs), i < j
      PROVE  vs[i].end <= StartOf(vs[j])
  <2>1. i \in 1..n /\ vs[i] = ws[i]
    BY <1>1, <1>5, <1>8
  <2>2. CASE j = n + 1
    <3>1. ws[i].end <= Len(f)
      BY <2>1, EntryFacts
    <3> QED BY <1>4, <1>5, <2>1, <2>2, <3>1
  <2>3. CASE j # n + 1
    <3>1. j \in 1..n /\ vs[j] = ws[j]
      BY <1>1, <1>5, <2>3
    <3> QED BY <1>8, <2>1, <3>1 DEF LogOK
  <2> QED BY <2>2, <2>3
<1>9. ASSUME NEW p \in DOMAIN g, g[p].crc
      PROVE  \E i \in 1..Len(vs) : vs[i].end = p
  <2>1. CASE p <= Len(f)
    <3>1. p \in DOMAIN f /\ g[p] = f[p]
      BY <1>1, <1>3, <2>1
    <3>2. PICK i \in 1..n : ws[i].end = p
      BY <1>9, <3>1 DEF LogOK
    <3>3. i \in 1..Len(vs) /\ vs[i] = ws[i]
      BY <1>1, <1>5
    <3> QED BY <3>2, <3>3
  <2>2. CASE p > Len(f)
    <3> DEFINE j == p - Len(f)
    <3>1. j \in 1..Len(Frame(r)) /\ Len(f) + j = p
      BY <1>1, <1>2, <1>3, <2>2
    <3> HIDE DEF j
    <3>2. Frame(r)[j].crc
      BY <1>3, <1>9, <3>1
    <3>3. ~(j \in 1..RawLength(r))
      BY <1>2, <3>2
    <3>4. p = Len(g)
      BY <1>1, <1>2, <1>3, <3>1, <3>3
    <3>5. n + 1 \in 1..Len(vs)
      BY <1>1, <1>5
    <3> QED BY <1>4, <1>5, <3>4, <3>5
  <2>3. p \in Nat
    BY <1>3
  <2> QED BY <1>1, <2>1, <2>2, <2>3
<1>10. LogOK(g, vs)
  BY <1>3, <1>5, <1>7, <1>8, <1>9 DEF LogOK
<1>11. EndOf(ws, k) \in 0..Len(f) /\ here = EndOf(ws, k)
  BY <1>1, EndsAscend DEF IntactOK
<1>12. CASE here = Len(f)
  <2>1. k = n
    <3> SUFFICES ASSUME k < n PROVE FALSE
      BY <1>1
    <3>1. k + 1 \in 1..n /\ here < StartOf(ws[k + 1])
      BY <1>1 DEF IntactOK
    <3>2. /\ StartOf(ws[k + 1]) < ws[k + 1].end /\ ws[k + 1].end <= Len(f)
          /\ StartOf(ws[k + 1]) \in Nat /\ ws[k + 1].end \in Nat
      BY <3>1, EntryFacts
    <3> QED BY <1>1, <1>12, <3>1, <3>2
  <2>2. ASSUME NEW i \in 1..n + 1 PROVE StartOf(vs[i]) = EndOf(vs, i - 1)
    <3>1. i - 1 \in Nat /\ \A j \in 1..i - 1 : vs[j] = ws[j]
      BY <1>1, <1>5
    <3>2. EndOf(vs, i - 1) = EndOf(ws, i - 1)
      BY <3>1, HandedStays
    <3>3. CASE i = n + 1
      <4>1. i - 1 = k
        BY <1>1, <2>1, <3>3
      <4> QED BY <1>4, <1>5, <1>11, <1>12, <3>2, <3>3, <4>1
    <3>4. CASE i # n + 1
      <4>1. i \in 1..k /\ vs[i] = ws[i]
        BY <1>1, <1>5, <2>1, <3>4
      <4> QED BY <3>2, <4>1 DEF IntactOK
    <3> QED BY <3>3, <3>4
  <2>3. EndOf(vs, n + 1) = Len(g)
    BY <1>1, <1>4, <1>5 DEF EndOf
  <2>4. IntactOK(vs, Len(g), n + 1)
    BY <1>1, <1>5, <2>2, <2>3 DEF IntactOK
  <2>5. n + 1 \in k..Len(vs)
    BY <1>1, <1>5, <2>1
  <2> QED BY <1>3, <1>5, <1>10, <1>12, <2>4, <2>5, <1>1, <1>2
<1>13. CASE here # Len(f)
  <2>1. here < Len(f)
    BY <1>1, <1>11, <1>13
  <2>2. here < StartOf(vs[k + 1])
    <3>1. CASE k = n
      BY <1>4, <1>5, <2>1, <3>1
    <3>2. CASE k # n
      <4>1. k + 1 \in 1..n /\ k < n /\ vs[k + 1] = ws[k + 1]
        BY <1>1, <1>5, <3>2
      <4> QED BY <4>1 DEF IntactOK
    <3> QED BY <3>1, <3>2
  <2>3. \A i \in 1..k : vs[i] = ws[i]
    BY <1>1, <1>5
  <2>4. IntactOK(vs, here, k)
    BY <1>1, <2>2, <2>3, IntactStays
  <2>5. k \in k..Len(vs)
    BY <1>1, <1>5
  <2> QED BY <1>3, <1>5, <1>10, <1>13, <2>4, <2>5, <1>1, <1>2
<1> QED BY <1>12, <1>13

\* Some of the tokens of a record, without its checksum.
LEMMA PartAppended ==
  ASSUME NEW f, NEW ws, LogOK(f, ws), NEW r \in Records, NEW n \in 0..Len(Raw(r)),
         NEW g, g = f \o SubSeq(Frame(r), 1, n)
  PROVE  LogOK(g, ws) /\ Len(g) \in Nat /\ Len(f) <= Len(g)
<1> DEFINE part == SubSeq(Frame(r), 1, n)
<1>1. f \in Seq(Cell) /\ ws \in Seq(Entry) /\ Len(f) \in Nat /\ DOMAIN f = 1..Len(f)
  BY DEF LogOK
<1>2. part \in Seq(Cell) /\ Len(part) = n /\ n \in Nat /\ \A j \in 1..n : ~part[j].crc
  <2>1. /\ Frame(r) \in Seq(Cell) /\ Len(Frame(r)) = RawLength(r) + 1 /\ Len(Raw(r)) = RawLength(r)
        /\ RawLength(r) \in Nat
        /\ \A i \in 1..RawLength(r) : ~Frame(r)[i].crc
    BY FrameShape, RawShape
  <2>2. 0 \in Nat /\ n \in Nat /\ 0 + n <= Len(Frame(r)) /\ 0 + 1 = 1 /\ 0 + n = n
    BY <2>1
  <2>3. /\ SubSeq(Frame(r), 0 + 1, 0 + n) \in Seq(Cell)
        /\ Len(SubSeq(Frame(r), 0 + 1, 0 + n)) = n
        /\ \A j \in 1..n : SubSeq(Frame(r), 0 + 1, 0 + n)[j] = Frame(r)[0 + j]
    BY <2>1, <2>2, Window
  <2>4. part \in Seq(Cell) /\ Len(part) = n
    BY <2>2, <2>3
  <2>5. ASSUME NEW j \in 1..n PROVE ~part[j].crc
    <3>1. part[j] = Frame(r)[j] /\ j \in 1..RawLength(r)
      BY <2>1, <2>2, <2>3
    <3> QED BY <2>1, <3>1
  <2> QED BY <2>2, <2>4, <2>5
<1> HIDE DEF part
<1>3. /\ g \in Seq(Cell) /\ Len(g) = Len(f) + n
      /\ \A i \in 1..Len(f) : g[i] = f[i]
      /\ \A j \in 1..n : g[Len(f) + j] = part[j]
  <2>1. g = f \o part
    BY DEF part
  <2>2. /\ f \o part \in Seq(Cell) /\ Len(f \o part) = Len(f) + Len(part)
        /\ \A i \in 1..Len(f) : (f \o part)[i] = f[i]
        /\ \A j \in 1..Len(part) : (f \o part)[Len(f) + j] = part[j]
    BY <1>1, <1>2, JoinedCells
  <2> QED BY <1>2, <2>1, <2>2
<1>4. Len(g) \in Nat /\ DOMAIN g = 1..Len(g)
  BY <1>3
<1>5. ASSUME NEW i \in 1..Len(ws)
      PROVE  StartOf(ws[i]) \in Nat /\ RecordAt(g, StartOf(ws[i]), ws[i].record)
  <2>1. /\ ws[i].record \in Records /\ StartOf(ws[i]) \in Nat /\ ws[i].end \in Nat
        /\ ws[i].end = StartOf(ws[i]) + RawLength(ws[i].record) + 1
        /\ Len(Frame(ws[i].record)) = RawLength(ws[i].record) + 1
        /\ RawLength(ws[i].record) \in Nat \ {0}
        /\ ws[i].end <= Len(f)
    BY EntryFacts
  <2>2. RecordAt(f, StartOf(ws[i]), ws[i].record)
    BY DEF LogOK
  <2>3. /\ StartOf(ws[i]) + Len(Frame(ws[i].record)) <= Len(g)
        /\ \A j \in 1..StartOf(ws[i]) + Len(Frame(ws[i].record)) : g[j] = f[j]
    <3>1. StartOf(ws[i]) + Len(Frame(ws[i].record)) <= Len(f)
      BY <2>1
    <3>2. Len(f) <= Len(g)
      BY <1>1, <1>2, <1>3
    <3>3. \A j \in 1..StartOf(ws[i]) + Len(Frame(ws[i].record)) : j \in 1..Len(f)
      BY <1>1, <2>1, <3>1
    <3> QED BY <1>1, <1>3, <1>4, <2>1, <3>1, <3>2, <3>3
  <2> QED BY <1>1, <1>3, <2>1, <2>2, <2>3, RecordStays
<1>6. ASSUME NEW p \in DOMAIN g, g[p].crc PROVE \E i \in 1..Len(ws) : ws[i].end = p
  <2>1. p <= Len(f)
    <3> SUFFICES ASSUME ~(p <= Len(f)) PROVE FALSE
      OBVIOUS
    <3> DEFINE j == p - Len(f)
    <3>1. j \in 1..n /\ Len(f) + j = p
      BY <1>1, <1>2, <1>3, <1>4
    <3> HIDE DEF j
    <3> QED BY <1>2, <1>3, <1>6, <3>1
  <2>2. p \in DOMAIN f /\ g[p] = f[p]
    BY <1>1, <1>3, <1>4, <2>1
  <2> QED BY <1>6, <2>2 DEF LogOK
<1>7. \A i, j \in 1..Len(ws) : i < j => ws[i].end <= StartOf(ws[j])
  BY DEF LogOK
<1> QED BY <1>1, <1>2, <1>3, <1>4, <1>5, <1>6, <1>7 DEF LogOK

\* The records that end among the first n tokens are the first few.
LEMMA CutPoint ==
  ASSUME NEW f, NEW ws, LogOK(f, ws), NEW n \in Nat
  PROVE  \E m \in 0..Len(ws) : /\ \A i \in 1..Len(ws) : ws[i].end <= n <=> i <= m
                               /\ Until(ws, n) = [i \in 1..m |-> ws[i]]
<1> DEFINE l == Len(ws)
           later == {i \in 1..l + 1 : i = l + 1 \/ ~(ws[i].end <= n)}
<1>1. l \in Nat /\ DOMAIN ws = 1..l
  BY DEF LogOK
<1>2. PICK x \in later : \A i \in later : x <= i
  <2>1. later \in SUBSET Nat /\ l + 1 \in later
    BY <1>1
  <2> HIDE DEF later
  <2> QED BY <2>1, Least
<1>3. x \in 1..l + 1 /\ x - 1 \in 0..l
  BY <1>1, <1>2
<1>4. ASSUME NEW i \in 1..l PROVE ws[i].end <= n <=> i <= x - 1
  <2>1. ASSUME i <= x - 1 PROVE ws[i].end <= n
    <3>1. i \in 1..l + 1 /\ i # l + 1 /\ ~(x <= i)
      BY <1>1, <1>3, <2>1
    <3>2. i \notin later
      BY <1>2, <3>1
    <3> QED BY <3>1, <3>2
  <2>2. ASSUME ~(i <= x - 1) PROVE ~(ws[i].end <= n)
    <3>1. x \in 1..l /\ x <= i
      BY <1>1, <1>3, <2>2
    <3>2. ~(ws[x].end <= n) /\ ws[x].end \in Nat /\ ws[i].end \in Nat
      <4>1. ~(ws[x].end <= n)
        BY <1>1, <1>2, <3>1
      <4>2. \A j \in 1..l : ws[j].end \in Nat
        BY EntryFacts
      <4> HIDE DEF later, l
      <4> QED BY <3>1, <4>1, <4>2
    <3>3. ws[x].end <= ws[i].end
      <4>1. x \in 0..l /\ i \in 0..l
        BY <1>1, <3>1
      <4>2. EndOf(ws, x) <= EndOf(ws, i)
        BY <3>1, <4>1, EndsAscend
      <4>3. EndOf(ws, x) = ws[x].end /\ EndOf(ws, i) = ws[i].end
        BY <1>1, <3>1 DEF EndOf
      <4> QED BY <4>2, <4>3
    <3> QED BY <3>2, <3>3
  <2> QED BY <2>1, <2>2
<1>5. {i \in DOMAIN ws : ws[i].end <= n} = 1..x - 1
  <2>1. ASSUME NEW i \in 1..x - 1 PROVE i \in 1..l /\ i <= x - 1
    BY <1>1, <1>3
  <2>2. ASSUME NEW i \in 1..l, i <= x - 1 PROVE i \in 1..x - 1
    BY <1>1, <1>3, <2>2
  <2> HIDE DEF later, l
  <2> QED BY <1>1, <1>4, <2>1, <2>2
<1>6. Until(ws, n) = [i \in 1..x - 1 |-> ws[i]]
  BY <1>5 DEF Until
<1> QED BY <1>3, <1>4, <1>6

\* The first m records, and no others, end among the first n tokens.
EndsUntil(ws, n, m) == \A i \in 1..Len(ws) : ws[i].end <= n <=> i <= m

IsCut(f, ws, n, m, g, vs) ==
  /\ g = SubSeq(f, 1, n)
  /\ EndsUntil(ws, n, m)
  /\ vs = [i \in 1..m |-> ws[i]]

\* The first n tokens of the log, and the records that end there.
LEMMA CutOff ==
  ASSUME NEW f, NEW ws, LogOK(f, ws), NEW n \in 0..Len(f), NEW m \in 0..Len(ws),
         NEW g, NEW vs, IsCut(f, ws, n, m, g, vs)
  PROVE  LogOK(g, vs) /\ Len(g) = n /\ Len(vs) = m /\ \A i \in 1..m : vs[i] = ws[i]
<1>1. /\ f \in Seq(Cell) /\ ws \in Seq(Entry) /\ Len(f) \in Nat /\ Len(ws) \in Nat
      /\ DOMAIN f = 1..Len(f) /\ n \in Nat /\ m \in Nat
  BY DEF LogOK
<1>2. /\ g \in Seq(Cell) /\ Len(g) = n /\ DOMAIN g = 1..n /\ \A j \in 1..n : g[j] = f[j]
  <2>1. 0 \in Nat /\ 0 + n <= Len(f) /\ 0 + 1 = 1 /\ 0 + n = n
    BY <1>1
  <2>2. /\ SubSeq(f, 0 + 1, 0 + n) \in Seq(Cell)
        /\ Len(SubSeq(f, 0 + 1, 0 + n)) = n
        /\ \A j \in 1..n : SubSeq(f, 0 + 1, 0 + n)[j] = f[0 + j]
    BY <1>1, <2>1, Window
  <2>3. g = SubSeq(f, 0 + 1, 0 + n) /\ \A j \in 1..n : 0 + j = j
    BY <2>1 DEF IsCut, EndsUntil
  <2> QED BY <1>1, <2>2, <2>3
<1>3. vs \in Seq(Entry) /\ Len(vs) = m /\ \A i \in 1..m : vs[i] = ws[i] /\ i \in 1..Len(ws)
  <2>1. \A i \in 1..m : i \in 1..Len(ws) /\ ws[i] \in Entry
    BY <1>1, ElementOfSeq
  <2> QED BY <1>1, <2>1 DEF IsCut, EndsUntil
<1>4. ASSUME NEW i \in 1..m
      PROVE  StartOf(vs[i]) \in Nat /\ RecordAt(g, StartOf(vs[i]), vs[i].record)
  <2>1. i \in 1..Len(ws) /\ i <= m /\ vs[i] = ws[i]
    BY <1>1, <1>3
  <2>2. /\ ws[i].record \in Records /\ StartOf(ws[i]) \in Nat /\ ws[i].end \in Nat
        /\ ws[i].end = StartOf(ws[i]) + RawLength(ws[i].record) + 1
        /\ Len(Frame(ws[i].record)) = RawLength(ws[i].record) + 1
        /\ RawLength(ws[i].record) \in Nat \ {0}
    BY <2>1, EntryFacts
  <2>3. ws[i].end <= n
    BY <2>1 DEF IsCut, EndsUntil
  <2>4. RecordAt(f, StartOf(ws[i]), ws[i].record)
    BY <2>1 DEF LogOK
  <2>5. /\ StartOf(ws[i]) + Len(Frame(ws[i].record)) <= Len(g)
        /\ \A j \in 1..StartOf(ws[i]) + Len(Frame(ws[i].record)) : g[j] = f[j]
    BY <1>1, <1>2, <2>2, <2>3
  <2> QED BY <1>1, <1>2, <2>1, <2>2, <2>4, <2>5, RecordStays
<1>5. ASSUME NEW p \in DOMAIN g, g[p].crc PROVE \E i \in 1..m : vs[i].end = p
  <2>1. p \in DOMAIN f /\ f[p].crc /\ p <= n /\ p \in Nat
    BY <1>1, <1>2, <1>5
  <2>2. PICK i \in 1..Len(ws) : ws[i].end = p
    BY <2>1 DEF LogOK
  <2>3. i \in 1..m
    BY <1>1, <2>1, <2>2 DEF IsCut, EndsUntil
  <2> QED BY <1>3, <2>2, <2>3
<1>6. ASSUME NEW i \in 1..m, NEW j \in 1..m, i < j PROVE vs[i].end <= StartOf(vs[j])
  BY <1>3, <1>6 DEF LogOK
<1> QED BY <1>2, <1>3, <1>4, <1>5, <1>6 DEF LogOK

-----------------------------------------------------------------------------
(* The specification *)

\* Of the records before the first damage those that were in the file when it was
\* last closed are on the disk.
KeptOK(f, ws, here, disk, handed) ==
  \E k \in 0..Len(ws) :
    /\ IntactOK(ws, here, k)
    /\ \E c \in 0..k : EndOf(ws, c) <= disk /\ handed = Handed(ws, c)

\* Every checksum in the file ends a whole record, the records are where written
\* has them, and the first of them, up to the intact length, leave no gap.
LogInv ==
  /\ LogOK(file, written)
  /\ synced \in 0..Len(file)
  /\ KeptOK(file, written, intact, synced, closed)

LEMMA LogInit == Init => LogInv
<1> SUFFICES ASSUME Init PROVE LogInv
  OBVIOUS
<1>1. file = <<>> /\ written = <<>> /\ intact = 0 /\ synced = 0 /\ closed = <<>>
  BY DEF Init
<1>2. file \in Seq(Cell) /\ written \in Seq(Entry) /\ Len(file) = 0 /\ Len(written) = 0 /\ DOMAIN file = {}
  BY <1>1
<1>3. LogOK(file, written)
  BY <1>2 DEF LogOK
<1>4. IntactOK(written, intact, 0) /\ EndOf(written, 0) = 0
  BY <1>1, <1>2 DEF IntactOK, EndOf
<1>5. Handed(written, 0) = <<>>
  <2>1. ReadUntil(written, 0) = {}
    BY DEF ReadUntil
  <2> QED BY <2>1 DEF Handed
<1>6. 0 \in 0..Len(written) /\ 0 \in 0..0
  BY <1>2
<1>7. KeptOK(file, written, intact, synced, closed)
  BY <1>1, <1>4, <1>5, <1>6 DEF KeptOK
<1> QED BY <1>1, <1>2, <1>3, <1>7 DEF LogInv

LEMMA WholeKeeps ==
  ASSUME LogInv, NEW r \in Records, WriteWhole(r), synced' = synced, closed' = closed
  PROVE  LogInv'
<1>1. LogOK(file, written) /\ synced \in 0..Len(file)
  BY DEF LogInv
<1>2. PICK k \in 0..Len(written) :
        /\ IntactOK(written, intact, k)
        /\ \E c \in 0..k : EndOf(written, c) <= synced /\ closed = Handed(written, c)
  BY DEF LogInv, KeptOK
<1>3. PICK c \in 0..k : EndOf(written, c) <= synced /\ closed = Handed(written, c)
  BY <1>2
<1>4. /\ file' = file \o Frame(r)
      /\ written' = Append(written, [record |-> r, end |-> Len(file')])
      /\ intact' = IF intact = Len(file) THEN Len(file') ELSE intact
  BY DEF WriteWhole
<1>5. /\ LogOK(file', written') /\ Len(file') \in Nat /\ Len(file) <= Len(file')
      /\ Len(written') = Len(written) + 1 /\ \A i \in 1..Len(written) : written'[i] = written[i]
      /\ \E m \in k..Len(written') : IntactOK(written', intact', m)
  <2>1. PICK g : g = file'
    OBVIOUS
  <2>2. PICK vs : vs = written'
    OBVIOUS
  <2>3. Grows(file, written, r, g, vs)
    BY <1>4, <2>1, <2>2 DEF Grows
  <2>4. /\ LogOK(g, vs) /\ Len(g) \in Nat /\ Len(file) <= Len(g)
        /\ Len(vs) = Len(written) + 1 /\ \A i \in 1..Len(written) : vs[i] = written[i]
        /\ \E m \in k..Len(vs) : IntactOK(vs, IF intact = Len(file) THEN Len(g) ELSE intact, m)
    BY <1>1, <1>2, <2>3, WholeAppended
  <2> QED BY <1>4, <2>1, <2>2, <2>4
<1>6. Len(written) \in Nat /\ Len(file) \in Nat
  BY <1>1 DEF LogOK
<1>7. PICK m \in k..Len(written') : IntactOK(written', intact', m)
  BY <1>5
<1>8. m \in 0..Len(written') /\ c \in 0..m
  BY <1>5, <1>6
<1>9. EndOf(written', c) = EndOf(written, c) /\ Handed(written', c) = Handed(written, c)
  <2>1. c \in Nat /\ \A i \in 1..c : i \in 1..Len(written)
    BY <1>6
  <2> QED BY <1>5, <2>1, HandedStays
<1>10. KeptOK(file', written', intact', synced', closed')
  BY <1>3, <1>7, <1>8, <1>9 DEF KeptOK
<1>11. synced' \in 0..Len(file')
  BY <1>1, <1>5, <1>6
<1> QED BY <1>5, <1>10, <1>11 DEF LogInv

LEMMA PartKeeps ==
  ASSUME LogInv, NEW r \in Records, NEW n \in 0..Len(Raw(r)), WritePart(r, n),
         synced' = synced, closed' = closed
  PROVE  LogInv'
<1>1. LogOK(file, written) /\ synced \in 0..Len(file) /\ KeptOK(file, written, intact, synced, closed)
  BY DEF LogInv
<1>2. file' = file \o SubSeq(Frame(r), 1, n) /\ written' = written /\ intact' = intact
  BY DEF WritePart
<1>3. LogOK(file', written) /\ Len(file') \in Nat /\ Len(file) <= Len(file')
  BY <1>1, <1>2, PartAppended
<1>4. Len(file) \in Nat
  BY <1>1 DEF LogOK
<1>5. synced' \in 0..Len(file')
  BY <1>1, <1>3, <1>4
<1>6. KeptOK(file', written', intact', synced', closed')
  BY <1>1, <1>2 DEF KeptOK
<1> QED BY <1>2, <1>3, <1>5, <1>6 DEF LogInv

LEMMA SameLogKeeps ==
  ASSUME LogInv, UNCHANGED <<file, synced, written, intact, closed>>
  PROVE  LogInv'
BY DEF LogInv

LEMMA CloseKeeps ==
  ASSUME LogInv, Close, synced' = Len(file), closed' = Recover(file)
  PROVE  LogInv'
<1>1. LogOK(file, written)
  BY DEF LogInv
<1>2. PICK k \in 0..Len(written) : IntactOK(written, intact, k)
  BY DEF LogInv, KeptOK
<1>3. /\ file' = file /\ written' = written /\ intact' = intact
      /\ synced' = Len(file) /\ closed' = Recover(file)
  BY DEF Close
<1>4. closed' = Handed(written, k)
  BY <1>1, <1>2, <1>3, RecoverHands
<1>5. Len(written) \in Nat /\ Len(file) \in Nat
  BY <1>1 DEF LogOK
<1>6. k \in 0..k /\ EndOf(written, k) \in 0..Len(file)
  BY <1>1, <1>5, EndsAscend
<1>7. KeptOK(file', written', intact', synced', closed')
  BY <1>2, <1>3, <1>4, <1>6 DEF KeptOK
<1>8. LogOK(file', written') /\ synced' \in 0..Len(file')
  BY <1>1, <1>3, <1>5
<1> QED BY <1>7, <1>8 DEF LogInv

\* The part before the first damage is cut where the file is.
LEMMA IntactAfterCut ==
  ASSUME NEW f, NEW ws, LogOK(f, ws), NEW here, NEW k \in 0..Len(ws), IntactOK(ws, here, k),
         NEW n \in Nat, NEW m \in 0..Len(ws), EndsUntil(ws, n, m)
  PROVE  Max({e \in {0} \cup {w.end : w \in ToSet(ws)} : e <= n /\ e <= here})
           = EndOf(ws, IF k <= m THEN k ELSE m)
<1> DEFINE ends == {e \in {0} \cup {w.end : w \in ToSet(ws)} : e <= n /\ e <= here}
           x == IF k <= m THEN k ELSE m
<1>1. Len(ws) \in Nat /\ DOMAIN ws = 1..Len(ws) /\ Len(f) \in Nat /\ here = EndOf(ws, k)
  BY DEF LogOK, IntactOK
<1>2. x \in 0..Len(ws) /\ x <= k /\ x <= m /\ x \in Nat
  BY <1>1
<1>3. EndOf(ws, x) \in ends
  <2>1. EndOf(ws, x) <= here
    BY <1>1, <1>2, EndsAscend
  <2>2. CASE x = 0
    BY <2>1, <2>2 DEF EndOf
  <2>3. CASE x # 0
    <3>1. x \in 1..Len(ws) /\ EndOf(ws, x) = ws[x].end
      BY <1>1, <1>2, <2>3 DEF EndOf
    <3>2. ws[x].end <= n
      BY <1>2, <3>1 DEF EndsUntil
    <3>3. ws[x] \in ToSet(ws)
      BY <1>1, <3>1 DEF ToSet
    <3> QED BY <2>1, <3>1, <3>2, <3>3
  <2> QED BY <2>2, <2>3
<1>4. ASSUME NEW e \in ends PROVE EndOf(ws, x) >= e
  <2>1. EndOf(ws, x) \in Nat
    BY <1>1, <1>2, EndsAscend
  <2>2. CASE e = 0
    BY <2>1, <2>2
  <2>3. CASE e # 0
    <3>1. PICK i \in 1..Len(ws) : e = ws[i].end
      BY <1>1, <2>3 DEF ToSet
    <3>2. e <= n /\ e <= here
      OBVIOUS
    <3>3. i <= m
      BY <3>1, <3>2 DEF EndsUntil
    <3>4. i \in 0..Len(ws) /\ EndOf(ws, i) = e /\ e \in Nat
      <4>1. ws[i].end \in Nat
        BY EntryFacts
      <4> QED BY <1>1, <3>1, <4>1 DEF EndOf
    <3>5. i <= k
      <4> SUFFICES ASSUME k < i PROVE FALSE
        BY <1>1, <3>1
      <4>1. EndOf(ws, k) < EndOf(ws, i) /\ EndOf(ws, k) \in Nat
        BY <1>1, <3>4, EndsAscend
      <4> QED BY <1>1, <3>2, <3>4, <4>1
    <3>6. i <= x
      BY <3>3, <3>5
    <3>7. EndOf(ws, i) <= EndOf(ws, x)
      BY <1>2, <3>4, <3>6, EndsAscend
    <3> QED BY <2>1, <3>4, <3>7
  <2> QED BY <2>2, <2>3
<1>5. ASSUME NEW e \in ends, \A y \in ends : e >= y PROVE e = EndOf(ws, x)
  <2>1. e >= EndOf(ws, x) /\ EndOf(ws, x) >= e
    BY <1>3, <1>4, <1>5
  <2>2. e \in Nat /\ EndOf(ws, x) \in Nat
    <3>1. \A i \in 1..Len(ws) : ws[i].end \in Nat
      BY EntryFacts
    <3> QED BY <1>1, <1>2, <3>1, EndsAscend DEF ToSet
  <2> QED BY <2>1, <2>2
<1> HIDE DEF ends, x
<1>6. Max(ends) = EndOf(ws, x)
  BY <1>3, <1>4, <1>5 DEF Max
<1> QED BY <1>6 DEF ends, x

LEMMA PowerFailureKeeps ==
  ASSUME LogInv, PowerFailure
  PROVE  LogInv'
<1>1. LogOK(file, written) /\ synced \in 0..Len(file) /\ Len(file) \in Nat /\ Len(written) \in Nat
  BY DEF LogInv, LogOK
<1>2. PICK n \in synced..Len(file) :
        /\ file' = SubSeq(file, 1, n)
        /\ written' = Until(written, n)
        /\ intact' = Max({e \in {0} \cup {w.end : w \in ToSet(written)} : e <= n /\ e <= intact})
  BY DEF PowerFailure
<1>3. n \in Nat /\ n \in 0..Len(file) /\ synced' = synced /\ closed' = closed
  BY <1>1 DEF PowerFailure
<1>4. PICK m \in 0..Len(written) : /\ \A i \in 1..Len(written) : written[i].end <= n <=> i <= m
                                   /\ Until(written, n) = [i \in 1..m |-> written[i]]
  BY <1>1, <1>3, CutPoint
<1>5. /\ LogOK(file', written') /\ Len(file') = n /\ Len(written') = m
      /\ \A i \in 1..m : written'[i] = written[i]
  <2>1. written' = [i \in 1..m |-> written[i]]
    BY <1>2, <1>4
  <2>2. PICK g : g = file'
    OBVIOUS
  <2>3. PICK vs : vs = written'
    OBVIOUS
  <2>4. IsCut(file, written, n, m, g, vs)
    BY <1>2, <1>4, <2>1, <2>2, <2>3 DEF IsCut, EndsUntil
  <2>5. LogOK(g, vs) /\ Len(g) = n /\ Len(vs) = m /\ \A i \in 1..m : vs[i] = written[i]
    BY <1>1, <1>3, <1>4, <2>4, CutOff
  <2> QED BY <2>2, <2>3, <2>5
<1>6. PICK k \in 0..Len(written) :
        /\ IntactOK(written, intact, k)
        /\ \E c \in 0..k : EndOf(written, c) <= synced /\ closed = Handed(written, c)
  BY DEF LogInv, KeptOK
<1>7. PICK c \in 0..k : EndOf(written, c) <= synced /\ closed = Handed(written, c)
  BY <1>6
<1>8. PICK x : x = IF k <= m THEN k ELSE m
  OBVIOUS
<1>9. x \in 0..m /\ x <= k /\ x \in Nat /\ x \in 0..Len(written)
  BY <1>1, <1>8
<1>10. intact' = EndOf(written, x)
  <2>1. Max({e \in {0} \cup {w.end : w \in ToSet(written)} : e <= n /\ e <= intact})
          = EndOf(written, IF k <= m THEN k ELSE m)
    <3>1. LogOK(file, written) /\ IntactOK(written, intact, k) /\ n \in Nat
      BY <1>1, <1>3, <1>6
    <3>2. EndsUntil(written, n, m)
      BY <1>4 DEF EndsUntil
    <3> QED BY <3>1, <3>2, IntactAfterCut
  <2> QED BY <1>2, <1>8, <2>1
<1>11. c \in 0..x
  <2>1. CASE c = 0
    BY <1>9, <2>1
  <2>2. CASE c # 0
    <3>1. c \in 1..Len(written) /\ EndOf(written, c) = written[c].end
      BY <1>1, <2>2 DEF EndOf
    <3>2. written[c].end \in Nat
      BY <1>1, <3>1, EntryFacts
    <3>3. written[c].end <= n
      BY <1>1, <1>3, <1>7, <3>1, <3>2
    <3>4. c <= m
      BY <1>4, <3>1, <3>3
    <3> QED BY <1>1, <1>8, <3>1, <3>4
  <2> QED BY <2>1, <2>2
<1>12. ASSUME NEW i \in 0..x
       PROVE  EndOf(written', i) = EndOf(written, i) /\ Handed(written', i) = Handed(written, i)
  <2>1. i \in Nat /\ \A j \in 1..i : j \in 1..m
    BY <1>1, <1>9
  <2> QED BY <1>5, <2>1, HandedStays
<1>13. IntactOK(written', intact', x)
  <2>1. intact' = EndOf(written', x)
    BY <1>9, <1>10, <1>12
  <2>2. ASSUME NEW i \in 1..x PROVE StartOf(written'[i]) = EndOf(written', i - 1)
    <3>1. i \in 1..k /\ i \in 1..m /\ i - 1 \in 0..x
      BY <1>1, <1>9
    <3>2. StartOf(written[i]) = EndOf(written, i - 1)
      BY <1>6, <3>1 DEF IntactOK
    <3> QED BY <1>5, <1>12, <3>1, <3>2
  <2>3. ASSUME x < m PROVE EndOf(written, x) < StartOf(written'[x + 1])
    <3>1. x = k /\ x + 1 \in 1..m /\ k < Len(written)
      BY <1>1, <1>8, <1>9, <2>3
    <3>2. EndOf(written, k) < StartOf(written[k + 1])
      BY <1>6, <3>1 DEF IntactOK
    <3> QED BY <1>5, <3>1, <3>2
  <2> QED BY <1>5, <1>10, <2>1, <2>2, <2>3 DEF IntactOK
<1>14. EndOf(written', c) <= synced' /\ closed' = Handed(written', c)
  BY <1>3, <1>7, <1>11, <1>12
<1>15. KeptOK(file', written', intact', synced', closed')
  <2>1. x \in 0..Len(written')
    BY <1>5, <1>9
  <2> QED BY <1>11, <1>13, <1>14, <2>1 DEF KeptOK
<1>16. synced' \in 0..Len(file')
  BY <1>1, <1>3, <1>5
<1> QED BY <1>5, <1>15, <1>16 DEF LogInv

LEMMA LogStep == LogInv /\ [Next]_vars => LogInv'
<1> SUFFICES ASSUME LogInv, [Next]_vars PROVE LogInv'
  OBVIOUS
<1>1. CASE Open
  BY <1>1, SameLogKeeps DEF Open
<1>2. CASE Close
  <2>1. CASE synced' = Len(file) /\ closed' = Recover(file)
    BY <1>2, <2>1, CloseKeeps
  <2>2. CASE UNCHANGED <<synced, closed>>
    BY <1>2, <2>2, SameLogKeeps DEF Close
  <2> QED BY <1>2, <2>1, <2>2 DEF Close
<1>3. CASE Crash
  <2>1. CASE UNCHANGED <<file, written, intact, cuts>>
    BY <1>3, <2>1, SameLogKeeps DEF Crash
  <2>2. ASSUME NEW r \in Records, WriteWhole(r) PROVE LogInv'
    BY <1>3, <2>2, WholeKeeps DEF Crash
  <2>3. ASSUME NEW r \in Records, NEW n \in 1..Len(Raw(r)), WritePart(r, n) PROVE LogInv'
    <3>1. n \in 0..Len(Raw(r))
      BY RawShape
    <3> QED BY <1>3, <2>3, <3>1, PartKeeps DEF Crash
  <2> QED BY <1>3, <2>1, <2>2, <2>3 DEF Crash
<1>4. CASE PowerFailure
  BY <1>4, PowerFailureKeeps
<1>5. ASSUME NEW r \in Records, AddRecord(r) PROVE LogInv'
  BY <1>5, WholeKeeps DEF AddRecord
<1>6. ASSUME NEW r \in Records, NEW n \in 0..Len(Raw(r)), AddRecordFails(r, n) PROVE LogInv'
  BY <1>6, PartKeeps DEF AddRecordFails
<1>7. CASE UNCHANGED vars
  BY <1>7, SameLogKeeps DEF vars
<1> QED BY <1>1, <1>2, <1>3, <1>4, <1>5, <1>6, <1>7 DEF Next

\* Whatever is written, cut short, synced and lost: every checksum in the log ends
\* a whole record (wal.cc:59), and what was intact when the log was last closed
\* is on the disk.
THEOREM LogIsSound == Spec => []LogInv
<1>1. Init => LogInv
  BY LogInit
<1>2. LogInv /\ [Next]_vars => LogInv'
  BY LogStep
<1> QED BY <1>1, <1>2, PTL DEF Spec

\* The intact records, as the model names them, are those of LogInv.
LEMMA IntactIsHanded ==
  ASSUME NEW k \in 0..Len(written), LogOK(file, written), IntactOK(written, intact, k)
  PROVE  Intact = Handed(written, k)
<1>1. Len(written) \in Nat /\ intact = EndOf(written, k) /\ EndOf(written, k) \in Nat /\ k \in Nat
  <2>1. Len(written) \in Nat /\ Len(file) \in Nat
    BY DEF LogOK
  <2>2. EndOf(written, k) \in 0..Len(file)
    BY EndsAscend
  <2> QED BY <2>1, <2>2 DEF IntactOK
<1>2. PICK m \in 0..Len(written) :
        /\ \A i \in 1..Len(written) : written[i].end <= intact <=> i <= m
        /\ Until(written, intact) = [i \in 1..m |-> written[i]]
  <2>1. intact \in Nat
    BY <1>1
  <2> QED BY <2>1, CutPoint
<1>3. m = k
  <2>1. k <= m
    <3>1. CASE k = 0
      BY <1>1, <3>1
    <3>2. CASE k # 0
      <4>1. k \in 1..Len(written) /\ written[k].end = intact
        BY <1>1, <3>2 DEF EndOf
      <4> QED BY <1>1, <1>2, <4>1
    <3> QED BY <3>1, <3>2
  <2>2. m <= k
    <3> SUFFICES ASSUME k < m PROVE FALSE
      BY <1>1
    <3>1. m \in 1..Len(written) /\ EndOf(written, m) = written[m].end /\ written[m].end <= intact
      BY <1>1, <1>2 DEF EndOf
    <3>2. EndOf(written, k) < EndOf(written, m) /\ EndOf(written, m) \in 0..Len(file)
      BY EndsAscend
    <3>3. EndOf(written, m) \in Nat
      BY <3>2 DEF LogOK
    <3> QED BY <1>1, <3>1, <3>2, <3>3
  <2> QED BY <1>1, <2>1, <2>2
<1> DEFINE whole == Until(written, intact)
           read == {i \in DOMAIN whole : \A j \in 1..i : Readable(whole[j].record)}
<1>4. DOMAIN whole = 1..k /\ \A i \in 1..k : whole[i] = written[i]
  BY <1>2, <1>3
<1>5. Intact = [i \in read |-> whole[i].record]
  BY DEF Intact
<1> HIDE DEF whole
<1>6. read = ReadUntil(written, k)
  <2>1. ASSUME NEW i \in 1..k, NEW j \in 1..i PROVE whole[j] = written[j]
    <3>1. j \in 1..k
      BY <1>1
    <3> QED BY <1>4, <3>1
  <2> QED BY <1>4, <2>1 DEF ReadUntil
<1>7. read \subseteq 1..k
  BY <1>4
<1> HIDE DEF read
<1> QED BY <1>4, <1>5, <1>6, <1>7 DEF Handed

\* Recover hands on exactly the whole records before the first damage, and before
\* the first whose length takes too many bytes (wal.cc:116), in order.
THEOREM RecordsAreRecovered == Spec => []RecoversIntactRecords
<1>1. ASSUME LogInv PROVE RecoversIntactRecords
  <2>1. LogOK(file, written)
    BY <1>1 DEF LogInv
  <2>2. PICK k \in 0..Len(written) : IntactOK(written, intact, k)
    BY <1>1 DEF LogInv, KeptOK
  <2> QED BY <2>1, <2>2, RecoverHands, IntactIsHanded DEF RecoversIntactRecords
<1>2. LogInv => RecoversIntactRecords
  BY <1>1
<1> QED BY <1>2, LogIsSound, PTL

\* What is handed on of fewer records is a prefix of what is of more.
LEMMA HandedAscends ==
  ASSUME NEW ws, NEW k \in Nat, NEW c \in 0..k
  PROVE  IsPrefix(Handed(ws, c), Handed(ws, k))
<1>1. c \in Nat
  OBVIOUS
<1>2. PICK d \in 0..c : ReadUntil(ws, c) = 1..d
  BY <1>1, ReadUntilIsPrefix
<1>3. PICK e \in 0..k : ReadUntil(ws, k) = 1..e
  BY ReadUntilIsPrefix
<1>4. d <= e
  <2>1. CASE d = 0
    BY <2>1
  <2>2. CASE d # 0
    <3>1. d \in ReadUntil(ws, c) /\ d \in 1..k
      BY <1>2, <2>2
    <3>2. d \in ReadUntil(ws, k)
      BY <3>1 DEF ReadUntil
    <3> QED BY <1>3, <3>2
  <2> QED BY <2>1, <2>2
<1> DEFINE S == {ws[i].record : i \in 1..k}
<1>5. /\ Handed(ws, c) = [i \in 1..d |-> ws[i].record] /\ d \in Nat /\ e \in Nat
      /\ Handed(ws, k) = [i \in 1..e |-> ws[i].record]
  BY <1>1, <1>2, <1>3 DEF Handed
<1>6. /\ Handed(ws, c) \in Seq(S) /\ Len(Handed(ws, c)) = d
      /\ Handed(ws, k) \in Seq(S) /\ Len(Handed(ws, k)) = e
      /\ \A i \in 1..d : Handed(ws, k)[i] = Handed(ws, c)[i]
  BY <1>1, <1>4, <1>5
<1> HIDE DEF S
<1>7. SubSeq(Handed(ws, c), 1, d) = SubSeq(Handed(ws, k), 1, d)
  <2> DEFINE s == SubSeq(Handed(ws, c), 0 + 1, 0 + d)
             t == SubSeq(Handed(ws, k), 0 + 1, 0 + d)
  <2>1. 0 \in Nat /\ 0 + 1 = 1 /\ 0 + d = d /\ 0 + d <= d /\ 0 + d <= e
    BY <1>4, <1>5
  <2>2. s \in Seq(S) /\ Len(s) = d /\ \A j \in 1..d : s[j] = Handed(ws, c)[0 + j]
    BY <1>5, <1>6, <2>1, Window
  <2>3. t \in Seq(S) /\ Len(t) = d /\ \A j \in 1..d : t[j] = Handed(ws, k)[0 + j]
    BY <1>5, <1>6, <2>1, Window
  <2>4. SubSeq(Handed(ws, c), 1, d) = s /\ SubSeq(Handed(ws, k), 1, d) = t
    BY <2>1
  <2> HIDE DEF s, t
  <2>5. \A j \in 1..d : s[j] = t[j]
    BY <1>6, <2>2, <2>3
  <2>6. s = t
    BY <2>2, <2>3, <2>5, SeqEqual
  <2> QED BY <2>4, <2>6
<1> QED BY <1>4, <1>6, <1>7 DEF IsPrefix

\* Once WALWriter::Close has synced the log, what could be read then can always be
\* read: after power failures, and after whatever is appended later.
THEOREM ClosedLogsLast == Spec => []ClosedIsDurable
<1>1. ASSUME LogInv PROVE ClosedIsDurable
  <2>1. LogOK(file, written)
    BY <1>1 DEF LogInv
  <2>2. PICK k \in 0..Len(written) :
          /\ IntactOK(written, intact, k)
          /\ \E c \in 0..k : closed = Handed(written, c)
    BY <1>1 DEF LogInv, KeptOK
  <2>3. PICK c \in 0..k : closed = Handed(written, c)
    BY <2>2
  <2>4. Recover(file) = Handed(written, k)
    BY <2>1, <2>2, RecoverHands
  <2>5. k \in Nat
    BY <2>1 DEF LogOK
  <2> QED BY <2>3, <2>4, <2>5, HandedAscends DEF ClosedIsDurable
<1>2. LogInv => ClosedIsDurable
  BY <1>1
<1> QED BY <1>2, LogIsSound, PTL
=============================================================================
