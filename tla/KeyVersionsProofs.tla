-------------------------- MODULE KeyVersionsProofs --------------------------
(***************************************************************************)
(* Proofs about KeyVersions: every iterator yields everything in order,    *)
(* Seek skips what is below, and Get finds the last value written.         *)
(***************************************************************************)
EXTENDS KeyVersions, SequenceTheorems, FiniteSetTheorems, WellFoundedInduction, TLAPS

-----------------------------------------------------------------------------
(* Numbers *)

\* The least number principle, and from it induction for a given set.
LEMMA Least ==
  ASSUME NEW S \in SUBSET Nat, S # {}
  PROVE  \E m \in S : \A k \in S : m <= k
<1> DEFINE R == OpToRel(<, Nat)
<1>1. IsWellFoundedOn(R, Nat)
  BY NatLessThanWellFounded
<1> HIDE DEF R
<1>2. PICK x \in S : \A y \in S : ~ (<<y, x>> \in R)
  BY <1>1, WFMin
<1>3. \A y \in S : ~(y < x)
  BY <1>2 DEF R, OpToRel
<1> QED BY <1>3

\* Induction, stated with the set of numbers for which it is shown.
LEMMA AllNumbers ==
  ASSUME NEW S \in SUBSET Nat, 0 \in S, \A n \in S : n + 1 \in S
  PROVE  S = Nat
<1> SUFFICES ASSUME Nat \ S # {} PROVE FALSE
  OBVIOUS
<1>1. PICK m \in Nat \ S : \A k \in Nat \ S : m <= k
  BY Least
<1>2. m # 0 /\ m - 1 \in Nat /\ m - 1 < m
  BY <1>1
<1>3. m - 1 \in S
  BY <1>1, <1>2
<1> QED BY <1>1, <1>2, <1>3

-----------------------------------------------------------------------------
(* Sequences of anything *)

\* s is a sequence, of whatever is in it.
IsSeq(s) == s \in Seq({s[i] : i \in DOMAIN s})

LEMMA SeqOfAny ==
  ASSUME NEW S, NEW s \in Seq(S)
  PROVE  IsSeq(s)
<1>1. Len(s) \in Nat /\ s \in [1..Len(s) -> S] /\ DOMAIN s = 1..Len(s)
  BY LenProperties
<1>2. s \in [1..Len(s) -> {s[i] : i \in DOMAIN s}]
  BY <1>1
<1>3. s \in Seq({s[i] : i \in DOMAIN s})
  BY <1>1, <1>2, SeqDef
<1> QED BY <1>3 DEF IsSeq

\* A sequence is the function of its elements.
LEMMA Shape ==
  ASSUME NEW s, IsSeq(s)
  PROVE  Len(s) \in Nat /\ DOMAIN s = 1..Len(s) /\ s = [i \in 1..Len(s) |-> s[i]]
BY LenProperties DEF IsSeq

LEMMA Tabulated ==
  ASSUME NEW n \in Nat, NEW s, s = [i \in 1..n |-> s[i]]
  PROVE  IsSeq(s) /\ Len(s) = n
<1>1. s \in [1..n -> {s[i] : i \in 1..n}]
  OBVIOUS
<1>2. s \in Seq({s[i] : i \in 1..n})
  BY <1>1, SeqDef
<1>3. DOMAIN s = 1..n /\ Len(s) \in Nat
  BY <1>1, <1>2
<1>4. Len(s) = n
  BY <1>2, <1>3, LenProperties
<1> QED BY <1>2, <1>4, SeqOfAny

\* Sequences that agree everywhere are the same.
LEMMA SameSeq ==
  ASSUME NEW s, NEW t, IsSeq(s), IsSeq(t), Len(s) = Len(t),
         \A i \in 1..Len(s) : s[i] = t[i]
  PROVE  s = t
<1>1. s = [i \in 1..Len(s) |-> s[i]] /\ t = [i \in 1..Len(t) |-> t[i]]
  BY Shape
<1> QED BY <1>1

LEMMA EmptyIsSeq == IsSeq(<<>>) /\ Len(<<>>) = 0
BY EmptySeq, SeqOfAny

\* What is where in a concatenation.
LEMMA Joined ==
  ASSUME NEW s, NEW t, IsSeq(s), IsSeq(t)
  PROVE  /\ IsSeq(s \o t) /\ Len(s \o t) = Len(s) + Len(t)
         /\ \A i \in 1..Len(s) : (s \o t)[i] = s[i]
         /\ \A i \in 1..Len(t) : (s \o t)[Len(s) + i] = t[i]
         /\ \A i \in 1..Len(s) + Len(t) :
              i > Len(s) => (s \o t)[i] = t[i - Len(s)] /\ i - Len(s) \in 1..Len(t)
<1> DEFINE S == {s[i] : i \in DOMAIN s} \cup {t[i] : i \in DOMAIN t}
<1>1. s \in Seq(S) /\ t \in Seq(S)
  <2>1. s \in Seq({s[i] : i \in DOMAIN s}) /\ t \in Seq({t[i] : i \in DOMAIN t})
    BY DEF IsSeq
  <2>2. {s[i] : i \in DOMAIN s} \subseteq S /\ {t[i] : i \in DOMAIN t} \subseteq S
    OBVIOUS
  <2> HIDE DEF S
  <2> QED BY <2>1, <2>2, SeqMonotonic
<1> HIDE DEF S
<1>2. /\ s \o t \in Seq(S) /\ Len(s \o t) = Len(s) + Len(t)
      /\ \A i \in 1..Len(s) + Len(t) : (s \o t)[i] = IF i <= Len(s) THEN s[i] ELSE t[i - Len(s)]
  BY <1>1, ConcatProperties
<1>3. IsSeq(s \o t)
  BY <1>2, SeqOfAny
<1>4. Len(s) \in Nat /\ Len(t) \in Nat
  BY <1>1
<1> DEFINE j == s \o t
<1>5. j[1] = j[1]
  OBVIOUS
<1> HIDE DEF j
<1>6. /\ \A i \in 1..Len(s) : j[i] = s[i]
      /\ \A i \in 1..Len(t) : j[Len(s) + i] = t[i]
      /\ \A i \in 1..Len(s) + Len(t) :
              i > Len(s) => j[i] = t[i - Len(s)] /\ i - Len(s) \in 1..Len(t)
  <2>1. \A i \in 1..Len(s) + Len(t) : j[i] = IF i <= Len(s) THEN s[i] ELSE t[i - Len(s)]
    BY <1>2 DEF j
  <2>2. ASSUME NEW i \in 1..Len(t) PROVE j[Len(s) + i] = t[i]
    <3>1. Len(s) + i \in 1..Len(s) + Len(t) /\ ~(Len(s) + i <= Len(s)) /\ Len(s) + i - Len(s) = i
      BY <1>4
    <3> QED BY <2>1, <3>1
  <2>3. ASSUME NEW i \in 1..Len(s) PROVE j[i] = s[i]
    <3>1. i \in 1..Len(s) + Len(t) /\ i <= Len(s)
      BY <1>4
    <3> QED BY <2>1, <3>1
  <2>4. ASSUME NEW i \in 1..Len(s) + Len(t), i > Len(s)
        PROVE  j[i] = t[i - Len(s)] /\ i - Len(s) \in 1..Len(t)
    BY <1>4, <2>1, <2>4
  <2> QED BY <2>2, <2>3, <2>4
<1> QED BY <1>2, <1>3, <1>6 DEF j

LEMMA Appended ==
  ASSUME NEW s, NEW x, IsSeq(s)
  PROVE  /\ IsSeq(Append(s, x)) /\ Len(Append(s, x)) = Len(s) + 1
         /\ \A i \in 1..Len(s) : Append(s, x)[i] = s[i]
         /\ Append(s, x)[Len(s) + 1] = x
<1> DEFINE S == {s[i] : i \in DOMAIN s} \cup {x}
<1>1. s \in Seq(S) /\ x \in S
  <2>1. s \in Seq({s[i] : i \in DOMAIN s})
    BY DEF IsSeq
  <2>2. {s[i] : i \in DOMAIN s} \subseteq S /\ x \in S
    OBVIOUS
  <2> HIDE DEF S
  <2> QED BY <2>1, <2>2, SeqMonotonic
<1> HIDE DEF S
<1>2. /\ Append(s, x) \in Seq(S) /\ Len(Append(s, x)) = Len(s) + 1
      /\ \A i \in 1..Len(s) : Append(s, x)[i] = s[i]
      /\ Append(s, x)[Len(s) + 1] = x
  BY <1>1, AppendProperties
<1> QED BY <1>2, SeqOfAny

-----------------------------------------------------------------------------
(* The order of keys *)

Bytes == Seq(Nat)

\* Where two keys part.
Apart(a, b, i) == /\ i \in DOMAIN a \cap DOMAIN b /\ a[i] # b[i]
                  /\ \A j \in 1..i - 1 : a[j] = b[j]

LEMMA KeyShape ==
  ASSUME NEW a \in Bytes
  PROVE  /\ Len(a) \in Nat /\ DOMAIN a = 1..Len(a) /\ IsSeq(a)
         /\ \A i \in 1..Len(a) : a[i] \in Nat
BY SeqOfAny, LenProperties, ElementOfSeq DEF Bytes

LEMMA FirstDifference ==
  ASSUME NEW a \in Bytes, NEW b \in Bytes
  PROVE  \/ \A i \in DOMAIN a \cap DOMAIN b : a[i] = b[i]
         \/ \E i : Apart(a, b, i)
<1> DEFINE S == {i \in DOMAIN a \cap DOMAIN b : a[i] # b[i]}
<1>1. CASE S = {}
  BY <1>1
<1>2. CASE S # {}
  <2>1. S \in SUBSET Nat /\ DOMAIN a = 1..Len(a) /\ DOMAIN b = 1..Len(b)
        /\ Len(a) \in Nat /\ Len(b) \in Nat
    BY KeyShape
  <2>2. PICK m \in S : \A k \in S : m <= k
    <3> HIDE DEF S
    <3> QED BY <1>2, <2>1, Least
  <2>3. ASSUME NEW j \in 1..m - 1 PROVE a[j] = b[j]
    <3>1. j \in DOMAIN a \cap DOMAIN b /\ j < m
      BY <2>1, <2>2
    <3>2. j \notin S
      BY <2>1, <2>2, <3>1
    <3> QED BY <3>1, <3>2
  <2> QED BY <2>2, <2>3 DEF Apart
<1> QED BY <1>1, <1>2

LEMMA LessTotal ==
  ASSUME NEW a \in Bytes, NEW b \in Bytes
  PROVE  a = b \/ Less(a, b) \/ Less(b, a)
<1>0. /\ Len(a) \in Nat /\ DOMAIN a = 1..Len(a) /\ IsSeq(a) /\ \A i \in 1..Len(a) : a[i] \in Nat
      /\ Len(b) \in Nat /\ DOMAIN b = 1..Len(b) /\ IsSeq(b) /\ \A i \in 1..Len(b) : b[i] \in Nat
  BY KeyShape
<1>1. CASE \A i \in DOMAIN a \cap DOMAIN b : a[i] = b[i]
  <2>1. CASE Len(a) = Len(b)
    BY <1>0, <1>1, <2>1, SameSeq
  <2>2. CASE Len(a) < Len(b)
    BY <1>0, <1>1, <2>2 DEF Less
  <2>3. CASE Len(b) < Len(a)
    BY <1>0, <1>1, <2>3 DEF Less
  <2>4. Len(a) \in Nat /\ Len(b) \in Nat
    BY <1>0
  <2> QED BY <2>1, <2>2, <2>3, <2>4
<1>2. ASSUME NEW i, Apart(a, b, i) PROVE Less(a, b) \/ Less(b, a)
  <2>1. a[i] < b[i] \/ b[i] < a[i]
    BY <1>0, <1>2 DEF Apart
  <2> QED BY <1>0, <1>2, <2>1 DEF Apart, Less
<1> QED BY <1>1, <1>2, FirstDifference

LEMMA LessIrreflexive ==
  ASSUME NEW a \in Bytes
  PROVE  ~Less(a, a)
BY KeyShape DEF Less

LEMMA LessTransitive ==
  ASSUME NEW a \in Bytes, NEW b \in Bytes, NEW c \in Bytes, Less(a, b), Less(b, c)
  PROVE  Less(a, c)
<1>0. /\ Len(a) \in Nat /\ DOMAIN a = 1..Len(a) /\ \A i \in 1..Len(a) : a[i] \in Nat
      /\ Len(b) \in Nat /\ DOMAIN b = 1..Len(b) /\ \A i \in 1..Len(b) : b[i] \in Nat
      /\ Len(c) \in Nat /\ DOMAIN c = 1..Len(c) /\ \A i \in 1..Len(c) : c[i] \in Nat
  BY KeyShape
<1> DEFINE Prefix(x, y) == Len(x) < Len(y) /\ \A i \in DOMAIN x : x[i] = y[i]
           At(x, y, i) == i \in DOMAIN x \cap DOMAIN y /\ x[i] < y[i] /\ \A j \in 1..i - 1 : x[j] = y[j]
<1>1. /\ Prefix(a, b) \/ \E i : At(a, b, i)
      /\ Prefix(b, c) \/ \E i : At(b, c, i)
  BY DEF Less
<1>2. CASE Prefix(a, b) /\ Prefix(b, c)
  <2>1. Prefix(a, c)
    BY <1>0, <1>2
  <2> QED BY <2>1 DEF Less
<1>3. ASSUME NEW i, At(a, b, i), Prefix(b, c) PROVE Less(a, c)
  <2>1. i \in 1..Len(a) /\ i \in 1..Len(b) /\ i \in 1..Len(c)
    BY <1>0, <1>3
  <2>2. b[i] = c[i]
    BY <1>0, <1>3, <2>1
  <2>3. ASSUME NEW j \in 1..i - 1 PROVE a[j] = c[j]
    <3>1. j \in 1..Len(b)
      BY <1>0, <2>1
    <3> QED BY <1>0, <1>3, <3>1
  <2>4. At(a, c, i)
    BY <1>0, <1>3, <2>1, <2>2, <2>3
  <2> QED BY <2>4 DEF Less
<1>4. ASSUME NEW i, Prefix(a, b), At(b, c, i) PROVE Less(a, c)
  <2>1. CASE i \in DOMAIN a
    <3>1. At(a, c, i)
      BY <1>0, <1>4, <2>1
    <3> QED BY <3>1 DEF Less
  <2>2. CASE i \notin DOMAIN a
    <3>1. i \in 1..Len(c) /\ i > Len(a)
      BY <1>0, <1>4, <2>2
    <3>2. ASSUME NEW j \in 1..Len(a) PROVE a[j] = c[j]
      <4>1. j \in 1..i - 1
        BY <1>0, <3>1
      <4>2. a[j] = b[j] /\ b[j] = c[j]
        BY <1>0, <1>4, <4>1
      <4> QED BY <4>2
    <3>3. Len(a) < Len(c)
      BY <1>0, <3>1
    <3>4. Prefix(a, c)
      BY <1>0, <3>2, <3>3
    <3> QED BY <3>4 DEF Less
  <2> QED BY <2>1, <2>2
<1>5. ASSUME NEW i, At(a, b, i), NEW k, At(b, c, k) PROVE Less(a, c)
  <2>1. i \in 1..Len(a) /\ i \in 1..Len(b) /\ k \in 1..Len(b) /\ k \in 1..Len(c)
    BY <1>0, <1>5
  <2>2. CASE i < k
    <3>1. i \in 1..k - 1 /\ i \in 1..Len(c)
      BY <1>0, <2>1, <2>2
    <3>2. ASSUME NEW j \in 1..i - 1 PROVE a[j] = c[j]
      <4>1. j \in 1..k - 1
        BY <1>0, <2>1, <2>2
      <4>2. a[j] = b[j] /\ b[j] = c[j]
        BY <1>5, <4>1
      <4> QED BY <4>2
    <3>3. a[i] < b[i] /\ b[i] = c[i]
      BY <1>5, <3>1
    <3>4. At(a, c, i)
      BY <1>0, <2>1, <3>1, <3>2, <3>3
    <3> QED BY <3>4 DEF Less
  <2>3. CASE k < i
    <3>1. k \in 1..i - 1 /\ k \in 1..Len(a)
      BY <1>0, <2>1, <2>3
    <3>2. ASSUME NEW j \in 1..k - 1 PROVE a[j] = c[j]
      <4>1. j \in 1..i - 1
        BY <1>0, <2>1, <2>3
      <4>2. a[j] = b[j] /\ b[j] = c[j]
        BY <1>5, <4>1
      <4> QED BY <4>2
    <3>3. a[k] = b[k] /\ b[k] < c[k]
      BY <1>5, <3>1
    <3>4. At(a, c, k)
      BY <1>0, <2>1, <3>1, <3>2, <3>3
    <3> QED BY <3>4 DEF Less
  <2>4. CASE i = k
    <3>1. At(a, c, i)
      BY <1>0, <1>5, <2>1, <2>4
    <3> QED BY <3>1 DEF Less
  <2> QED BY <2>1, <2>2, <2>3, <2>4
<1> QED BY <1>1, <1>2, <1>3, <1>4, <1>5

\* What the proofs below use of the order.
LEMMA KeyOrder ==
  /\ \A a, b \in Bytes : ~Less(a, b) <=> AtMost(b, a)
  /\ \A a, b, c \in Bytes : AtMost(a, b) /\ AtMost(b, c) => AtMost(a, c)
  /\ \A a, b, c \in Bytes : Less(a, b) /\ AtMost(b, c) => Less(a, c)
  /\ \A a, b, c \in Bytes : AtMost(a, b) /\ Less(b, c) => Less(a, c)
  /\ \A a, b \in Bytes : AtMost(a, b) /\ AtMost(b, a) => a = b
  /\ \A a, b \in Bytes : AtMost(a, b) \/ Less(b, a)
<1>1. \A a, b \in Bytes : ~Less(a, b) <=> AtMost(b, a)
  BY LessTotal, LessIrreflexive, LessTransitive DEF AtMost
<1>2. \A a, b, c \in Bytes : AtMost(a, b) /\ AtMost(b, c) => AtMost(a, c)
  BY LessTransitive DEF AtMost
<1>3. \A a, b, c \in Bytes : Less(a, b) /\ AtMost(b, c) => Less(a, c)
  BY LessTransitive DEF AtMost
<1>4. \A a, b, c \in Bytes : AtMost(a, b) /\ Less(b, c) => Less(a, c)
  BY LessTransitive DEF AtMost
<1>5. \A a, b \in Bytes : AtMost(a, b) /\ AtMost(b, a) => a = b
  BY <1>1 DEF AtMost
<1> QED BY <1>1, <1>2, <1>3, <1>4, <1>5

-----------------------------------------------------------------------------
(* InternalKeys *)

\* No key goes on, where another one ends, with a byte that could be a type: the
\* order of InternalKeys is that of user keys only then. It holds if no key has a
\* byte 0 or 1, as in text.
KeysStandApart ==
  \A k, l \in UserKeys :
    Len(k) < Len(l) /\ (\A i \in DOMAIN k : k[i] = l[i]) => l[Len(k) + 1] > 1

LEMMA UserKeyBytes == \A k \in UserKeys : k \in Bytes
<1> SUFFICES ASSUME NEW k \in UserKeys PROVE k \in Bytes
  OBVIOUS
<1>1. k \in Seq(0..Base - 1) /\ Base \in Nat /\ 0..Base - 1 \subseteq Nat
  BY VersionsAssumption
<1> QED BY <1>1, SeqMonotonic DEF Bytes

PowerStep(m, g) == [n \in 0..m |-> IF n = 0 THEN 1 ELSE Base * g[n - 1]]

LEMMA PowerExists ==
  ASSUME NEW m \in Nat
  PROVE  \E g : g = PowerStep(m, g)
<1> DEFINE solved == {k \in Nat : \E g : g = PowerStep(k, g)}
<1>1. 0 \in solved
  <2> DEFINE g == [n \in 0..0 |-> 1]
  <2>1. g = PowerStep(0, g)
    BY DEF PowerStep
  <2> HIDE DEF g
  <2> QED BY <2>1
<1>2. ASSUME NEW k \in solved PROVE k + 1 \in solved
  <2>1. PICK g : g = PowerStep(k, g)
    OBVIOUS
  <2> DEFINE h == [n \in 0..k + 1 |-> IF n = 0 THEN 1 ELSE Base * g[n - 1]]
  <2>2. ASSUME NEW n \in 0..k + 1, n # 0 PROVE h[n - 1] = g[n - 1]
    <3>1. n - 1 \in 0..k /\ n - 1 \in 0..k + 1
      BY <2>2
    <3>2. g[n - 1] = PowerStep(k, g)[n - 1]
      BY <2>1
    <3> QED BY <3>1, <3>2 DEF PowerStep
  <2>3. h = PowerStep(k + 1, h)
    <3>1. PowerStep(k + 1, h) = [n \in 0..k + 1 |-> IF n = 0 THEN 1 ELSE Base * h[n - 1]]
      BY DEF PowerStep
    <3>2. h = [n \in 0..k + 1 |-> IF n = 0 THEN 1 ELSE Base * g[n - 1]]
      OBVIOUS
    <3> HIDE DEF h
    <3> QED BY <2>2, <3>1, <3>2
  <2> HIDE DEF h
  <2> QED BY <2>3
<1>3. solved = Nat
  <2>1. solved \in SUBSET Nat
    OBVIOUS
  <2> HIDE DEF solved
  <2> QED BY <1>1, <1>2, <2>1, AllNumbers
<1> QED BY <1>3

LEMMA PowerFacts ==
  /\ Power[0] = 1
  /\ \A n \in 1..SeqDigits : Power[n] = Base * Power[n - 1]
  /\ \A n \in 0..SeqDigits : Power[n] \in Nat \ {0}
<1>0. SeqDigits \in Nat \ {0} /\ Base \in Nat \ {0, 1}
  BY VersionsAssumption
<1> DEFINE p == CHOOSE g : g = PowerStep(SeqDigits, g)
<1>1. p = PowerStep(SeqDigits, p)
  BY <1>0, PowerExists
<1>2. Power = p
  BY DEF Power, PowerStep
<1> HIDE DEF p
<1>3. Power = [n \in 0..SeqDigits |-> IF n = 0 THEN 1 ELSE Base * Power[n - 1]]
  BY <1>1, <1>2 DEF PowerStep
<1>4. \A n \in 0..SeqDigits : Power[n] = IF n = 0 THEN 1 ELSE Base * Power[n - 1]
  <2> DEFINE q == Power
  <2>1. q = [n \in 0..SeqDigits |-> IF n = 0 THEN 1 ELSE Base * q[n - 1]]
    BY <1>3
  <2>2. \A n \in 0..SeqDigits : q[n] = IF n = 0 THEN 1 ELSE Base * q[n - 1]
    <3> HIDE DEF q
    <3> QED BY <2>1
  <2> QED BY <2>2
<1> DEFINE positive == {n \in Nat : n <= SeqDigits => Power[n] \in Nat \ {0}}
<1>5. 0 \in positive
  BY <1>0, <1>4
<1>6. ASSUME NEW n \in positive PROVE n + 1 \in positive
  <2>1. SUFFICES ASSUME n + 1 <= SeqDigits PROVE Power[n + 1] \in Nat \ {0}
    OBVIOUS
  <2>2. n + 1 \in 0..SeqDigits /\ n + 1 # 0 /\ n + 1 - 1 = n /\ n <= SeqDigits
    BY <1>0, <2>1
  <2>3. Power[n + 1] = Base * Power[n]
    BY <1>4, <2>2
  <2>4. PICK x \in Nat \ {0} : x = Power[n]
    BY <2>2
  <2>5. Base * x \in Nat \ {0}
    BY <1>0
  <2> QED BY <2>3, <2>4, <2>5
<1>7. positive = Nat
  <2>1. positive \in SUBSET Nat
    OBVIOUS
  <2> HIDE DEF positive
  <2> QED BY <1>5, <1>6, <2>1, AllNumbers
<1>8. \A n \in 0..SeqDigits : Power[n] \in Nat \ {0}
  <2> SUFFICES ASSUME NEW n \in 0..SeqDigits PROVE Power[n] \in Nat \ {0}
    OBVIOUS
  <2>1. n \in positive /\ n <= SeqDigits
    BY <1>0, <1>7
  <2> QED BY <2>1
<1> QED BY <1>0, <1>4, <1>8

\* The d-th digit of the complement of a sequence number.
Digit(seq, d) == ((MaxSequence - seq) \div Power[d - 1]) % Base

LEMMA DigitFacts ==
  ASSUME NEW d \in 1..SeqDigits
  PROVE  /\ \A seq \in Nat : Digit(seq, d) \in Nat
         /\ Digit(MaxSequence, d) = 0
<1>1. PICK p \in Nat \ {0} : p = Power[d - 1]
  <2>1. d - 1 \in 0..SeqDigits
    BY VersionsAssumption
  <2> QED BY <2>1, PowerFacts
<1>2. Base \in Nat \ {0, 1} /\ MaxSequence \in Nat
  <2>1. SeqDigits \in 0..SeqDigits
    BY VersionsAssumption
  <2>2. Power[SeqDigits] \in Nat \ {0}
    BY <2>1, PowerFacts
  <2> QED BY <2>2, VersionsAssumption DEF MaxSequence
<1>3. ASSUME NEW seq \in Nat PROVE Digit(seq, d) \in Nat
  <2>1. PICK x \in Int : x = MaxSequence - seq
    BY <1>2
  <2>2. (x \div p) \in Int
    BY <1>1
  <2>3. (x \div p) % Base \in Nat
    BY <1>2, <2>2
  <2> QED BY <1>1, <2>1, <2>3 DEF Digit
<1>4. Digit(MaxSequence, d) = 0
  <2>1. MaxSequence - MaxSequence = 0
    BY <1>2
  <2>2. 0 \div p = 0
    BY <1>1
  <2>3. 0 % Base = 0
    BY <1>2
  <2> QED BY <1>1, <2>1, <2>2, <2>3 DEF Digit
<1> QED BY <1>3, <1>4

LEMMA Remainder ==
  ASSUME NEW b \in Nat \ {0}, NEW q \in Nat, NEW r \in 0..b - 1
  PROVE  (b * q + r) % b = r
<1>1. PICK x \in Nat : x = b * q + r
  OBVIOUS
<1>2. PICK a \in Nat, c \in 0..b - 1 : a = x \div b /\ c = x % b /\ x = b * a + c
  OBVIOUS
<1>3. CASE a > q
  <2>1. b * a >= b * (q + 1)
    BY <1>3
  <2>2. b * (q + 1) = b * q + b
    OBVIOUS
  <2> QED BY <1>1, <1>2, <2>1, <2>2
<1>4. CASE a < q
  <2>1. b * q >= b * (a + 1)
    BY <1>4
  <2>2. b * (a + 1) = b * a + b
    OBVIOUS
  <2> QED BY <1>1, <1>2, <2>1, <2>2
<1>5. CASE a = q
  BY <1>1, <1>2, <1>5
<1> QED BY <1>3, <1>4, <1>5

\* The first digit tells small numbers apart, the smaller number having the larger.
LEMMA FirstDigit ==
  ASSUME NEW seq \in Nat, seq < Base
  PROVE  Digit(seq, 1) = Base - 1 - seq
<1>1. Base \in Nat \ {0, 1} /\ SeqDigits \in Nat \ {0}
  BY VersionsAssumption
<1>2. PICK p \in Nat \ {0} : p = Power[SeqDigits - 1]
  <2>1. SeqDigits - 1 \in 0..SeqDigits
    BY <1>1
  <2> QED BY <2>1, PowerFacts
<1>3. Power[SeqDigits] = Base * p
  <2>1. SeqDigits \in 1..SeqDigits
    BY <1>1
  <2> QED BY <1>2, <2>1, PowerFacts
<1>4. MaxSequence = Base * p - 1
  BY <1>3 DEF MaxSequence
<1>5. PICK q \in Nat : p = q + 1
  <2>1. p - 1 \in Nat /\ p = (p - 1) + 1
    BY <1>2
  <2> QED BY <2>1
<1>6. Base * (q + 1) = Base * q + Base
  BY <1>1
<1>7. PICK r \in 0..Base - 1 : r = Base - 1 - seq
  BY <1>1
<1>8. PICK y \in Nat : y = Base * q
  BY <1>1
<1>9. MaxSequence - seq = y + r
  BY <1>1, <1>4, <1>5, <1>6, <1>7, <1>8
<1>10. (y + r) % Base = r
  BY <1>1, <1>7, <1>8, Remainder
<1>11. Digit(seq, 1) = (y + r) % Base
  <2>1. Power[1 - 1] = 1
    BY PowerFacts
  <2>2. (y + r) \div 1 = y + r
    BY <1>7, <1>8, <1>1
  <2> QED BY <1>9, <2>1, <2>2 DEF Digit
<1> QED BY <1>7, <1>10, <1>11

LEMMA TrailerFacts ==
  ASSUME NEW seq \in Nat, NEW v \in Nat
  PROVE  LET t == Trailer(seq, v)
         IN  /\ t \in Bytes /\ Len(t) = SeqDigits + 1
             /\ t[1] = IF v = Tombstone THEN 0 ELSE 1
             /\ \A d \in 1..SeqDigits : t[1 + d] = Digit(seq, d)
<1> DEFINE type == IF v = Tombstone THEN 0 ELSE 1
           digits == [d \in 1..SeqDigits |-> Digit(seq, d)]
<1>1. Trailer(seq, v) = <<type>> \o digits
  BY DEF Trailer, Digit
<1>2. SeqDigits \in Nat
  BY VersionsAssumption
<1>3. digits \in [1..SeqDigits -> Nat]
  BY DigitFacts
<1>4. digits \in Bytes /\ Len(digits) = SeqDigits
  <2>1. digits \in Seq(Nat)
    BY <1>2, <1>3, SeqDef
  <2>2. DOMAIN digits = 1..SeqDigits
    OBVIOUS
  <2> HIDE DEF digits
  <2> QED BY <1>2, <2>1, <2>2, LenProperties DEF Bytes
<1>5. <<type>> \in Bytes /\ Len(<<type>>) = 1 /\ <<type>>[1] = type
  BY DEF Bytes
<1>6. \A d \in 1..SeqDigits : digits[d] = Digit(seq, d)
  OBVIOUS
<1> HIDE DEF digits, type
<1>7. /\ <<type>> \o digits \in Bytes /\ Len(<<type>> \o digits) = 1 + SeqDigits
      /\ \A i \in 1..1 + SeqDigits : (<<type>> \o digits)[i] = IF i <= 1 THEN <<type>>[i] ELSE digits[i - 1]
  BY <1>4, <1>5, ConcatProperties DEF Bytes
<1>8. \A d \in 1..SeqDigits : (<<type>> \o digits)[1 + d] = Digit(seq, d)
  <2> SUFFICES ASSUME NEW d \in 1..SeqDigits PROVE (<<type>> \o digits)[1 + d] = Digit(seq, d)
    OBVIOUS
  <2>1. 1 + d \in 1..1 + SeqDigits /\ ~(1 + d <= 1) /\ 1 + d - 1 = d
    BY <1>2
  <2> QED BY <1>6, <1>7, <2>1
<1>9. (<<type>> \o digits)[1] = type
  BY <1>2, <1>5, <1>7
<1> QED BY <1>1, <1>2, <1>7, <1>8, <1>9 DEF type

\* An InternalKey is the user key, the type and the digits.
LEMMA InternalKeyFacts ==
  ASSUME NEW k \in UserKeys, NEW seq \in Nat, NEW v \in Nat
  PROVE  LET ik == MakeInternalKey(k, seq, v)
         IN  /\ k \in Bytes /\ ik \in Bytes /\ Len(ik) = Len(k) + SeqDigits + 1
             /\ \A i \in 1..Len(k) : ik[i] = k[i]
             /\ ik[Len(k) + 1] = IF v = Tombstone THEN 0 ELSE 1
             /\ \A d \in 1..SeqDigits : ik[Len(k) + 1 + d] = Digit(seq, d)
             /\ ExtractUserKey(ik) = k
<1> DEFINE t == Trailer(seq, v)
           ik == k \o t
           n == Len(k)
<1>1. k \in Bytes /\ n \in Nat /\ SeqDigits \in Nat
  BY UserKeyBytes, KeyShape, VersionsAssumption
<1>2. /\ t \in Bytes /\ Len(t) = SeqDigits + 1
      /\ t[1] = IF v = Tombstone THEN 0 ELSE 1
      /\ \A d \in 1..SeqDigits : t[1 + d] = Digit(seq, d)
  BY TrailerFacts
<1> HIDE DEF t
<1>3. /\ ik \in Bytes /\ Len(ik) = n + (SeqDigits + 1)
      /\ \A i \in 1..n + (SeqDigits + 1) : ik[i] = IF i <= n THEN k[i] ELSE t[i - n]
  <2>1. k \in Seq(Nat) /\ t \in Seq(Nat)
    BY <1>1, <1>2 DEF Bytes
  <2>2. /\ k \o t \in Seq(Nat) /\ Len(k \o t) = Len(k) + Len(t)
        /\ \A i \in 1..Len(k) + Len(t) : (k \o t)[i] = IF i <= Len(k) THEN k[i] ELSE t[i - Len(k)]
    BY <2>1, ConcatProperties
  <2> QED BY <1>2, <2>2 DEF Bytes
<1> HIDE DEF ik
<1>4. \A i \in 1..n : ik[i] = k[i]
  <2> SUFFICES ASSUME NEW i \in 1..n PROVE ik[i] = k[i]
    OBVIOUS
  <2>1. i \in 1..n + (SeqDigits + 1) /\ i <= n
    BY <1>1
  <2> QED BY <1>3, <2>1
<1>5. ik[n + 1] = t[1]
  <2>1. n + 1 \in 1..n + (SeqDigits + 1) /\ ~(n + 1 <= n) /\ n + 1 - n = 1
    BY <1>1
  <2> QED BY <1>3, <2>1
<1>6. \A d \in 1..SeqDigits : ik[n + 1 + d] = Digit(seq, d)
  <2> SUFFICES ASSUME NEW d \in 1..SeqDigits PROVE ik[n + 1 + d] = Digit(seq, d)
    OBVIOUS
  <2>1. n + 1 + d \in 1..n + (SeqDigits + 1) /\ ~(n + 1 + d <= n) /\ n + 1 + d - n = 1 + d
    BY <1>1
  <2> QED BY <1>2, <1>3, <2>1
<1>7. ExtractUserKey(ik) = k
  <2>1. Len(ik) - SeqDigits - 1 = n
    BY <1>1, <1>3
  <2>2. \A i \in 1..n : ik[i] \in Nat
    BY <1>1, <1>4, KeyShape
  <2>3. /\ SubSeq(ik, 1, n) \in Seq(Nat) /\ Len(SubSeq(ik, 1, n)) = n
        /\ \A i \in 1..n : SubSeq(ik, 1, n)[i] = ik[i]
    <3>1. /\ SubSeq(ik, 1, n) \in Seq(Nat)
          /\ Len(SubSeq(ik, 1, n)) = IF 1 <= n THEN n - 1 + 1 ELSE 0
          /\ \A i \in 1..n - 1 + 1 : SubSeq(ik, 1, n)[i] = ik[1 + i - 1]
      BY <1>1, <2>2, SubSeqProperties
    <3>2. n - 1 + 1 = n /\ \A i \in 1..n : 1 + i - 1 = i
      BY <1>1
    <3>3. (IF 1 <= n THEN n - 1 + 1 ELSE 0) = n
      BY <1>1
    <3> QED BY <3>1, <3>2, <3>3
  <2>4. IsSeq(SubSeq(ik, 1, n)) /\ IsSeq(k)
    BY <1>1, <2>3, KeyShape, SeqOfAny
  <2>5. SubSeq(ik, 1, n) = k
    BY <1>4, <2>3, <2>4, SameSeq
  <2> QED BY <2>1, <2>5 DEF ExtractUserKey
<1>8. ik = MakeInternalKey(k, seq, v)
  BY DEF ik, t, MakeInternalKey
<1>9. n + (SeqDigits + 1) = n + SeqDigits + 1
  BY <1>1
<1> QED BY <1>1, <1>2, <1>3, <1>4, <1>5, <1>6, <1>7, <1>8, <1>9

\* x starts with k, and what follows is nothing or starts with a type.
Extends(x, k) ==
  /\ x \in Bytes /\ Len(k) <= Len(x) /\ \A i \in 1..Len(k) : x[i] = k[i]
  /\ Len(x) > Len(k) => x[Len(k) + 1] <= 1

LEMMA ExtendedOrder ==
  ASSUME KeysStandApart, NEW k \in UserKeys, NEW l \in UserKeys, Less(k, l),
         NEW x, NEW y, Extends(x, k), Extends(y, l)
  PROVE  Less(x, y)
<1>0. /\ k \in Bytes /\ l \in Bytes /\ x \in Bytes /\ y \in Bytes
      /\ Len(k) \in Nat /\ DOMAIN k = 1..Len(k) /\ (\A i \in 1..Len(k) : k[i] \in Nat)
      /\ Len(l) \in Nat /\ DOMAIN l = 1..Len(l) /\ (\A i \in 1..Len(l) : l[i] \in Nat)
      /\ Len(x) \in Nat /\ DOMAIN x = 1..Len(x) /\ (\A i \in 1..Len(x) : x[i] \in Nat)
      /\ Len(y) \in Nat /\ DOMAIN y = 1..Len(y)
  <2>1. k \in Bytes /\ l \in Bytes /\ x \in Bytes /\ y \in Bytes
    BY UserKeyBytes DEF Extends
  <2> QED BY <2>1, KeyShape
<1>1. /\ Len(k) <= Len(x) /\ (\A i \in 1..Len(k) : x[i] = k[i])
      /\ Len(l) <= Len(y) /\ (\A i \in 1..Len(l) : y[i] = l[i])
  BY DEF Extends
<1>2. CASE Len(k) < Len(l) /\ \A i \in DOMAIN k : k[i] = l[i]
  <2>1. l[Len(k) + 1] > 1
    BY <1>2 DEF KeysStandApart
  <2>2. Len(k) + 1 \in 1..Len(l) /\ Len(k) + 1 \in 1..Len(y)
    BY <1>0, <1>1, <1>2
  <2>3. y[Len(k) + 1] = l[Len(k) + 1]
    BY <1>1, <2>2
  <2>4. \A i \in 1..Len(k) : x[i] = y[i]
    <3> SUFFICES ASSUME NEW i \in 1..Len(k) PROVE x[i] = y[i]
      OBVIOUS
    <3>1. i \in 1..Len(l) /\ k[i] = l[i]
      BY <1>0, <1>2
    <3> QED BY <1>1, <3>1
  <2>5. CASE Len(x) = Len(k)
    BY <1>0, <1>1, <1>2, <2>4, <2>5 DEF Less
  <2>6. CASE Len(x) > Len(k)
    <3>1. x[Len(k) + 1] <= 1 /\ Len(k) + 1 \in 1..Len(x)
      BY <1>0, <2>6 DEF Extends
    <3>2. x[Len(k) + 1] < y[Len(k) + 1]
      BY <1>0, <2>1, <2>2, <2>3, <3>1
    <3>3. Len(k) + 1 \in DOMAIN x \cap DOMAIN y /\ Len(k) + 1 - 1 = Len(k)
      BY <1>0, <2>2, <3>1
    <3> QED BY <2>4, <3>2, <3>3 DEF Less
  <2>7. Len(x) = Len(k) \/ Len(x) > Len(k)
    <3>1. Len(x) \in Nat /\ Len(k) \in Nat /\ Len(k) <= Len(x)
      BY <1>0, <1>1
    <3> QED BY <3>1
  <2> QED BY <2>5, <2>6, <2>7
<1>3. ASSUME NEW i \in DOMAIN k \cap DOMAIN l, k[i] < l[i], \A j \in 1..i - 1 : k[j] = l[j]
      PROVE  Less(x, y)
  <2>1. i \in 1..Len(k) /\ i \in 1..Len(l)
    BY <1>0
  <2>2. x[i] = k[i] /\ y[i] = l[i] /\ i \in DOMAIN x \cap DOMAIN y
    BY <1>0, <1>1, <2>1
  <2>3. ASSUME NEW j \in 1..i - 1 PROVE x[j] = y[j]
    <3>1. j \in 1..Len(k) /\ j \in 1..Len(l)
      BY <1>0, <2>1
    <3> QED BY <1>1, <1>3, <3>1
  <2> QED BY <1>3, <2>2, <2>3 DEF Less
<1> QED BY <1>2, <1>3 DEF Less

-----------------------------------------------------------------------------
(* Records *)

IsRecord(r) == \E k \in UserKeys, seq \in Nat, v \in Nat : r = Record(k, seq, v)

LEMMA RecordFacts ==
  ASSUME NEW k \in UserKeys, NEW seq \in Nat, NEW v \in Nat
  PROVE  LET r == Record(k, seq, v)
         IN  /\ IsRecord(r) /\ UserKey(r) = k /\ r.value = v
             /\ r.key = MakeInternalKey(k, seq, v)
BY InternalKeyFacts DEF Record, UserKey, IsRecord

LEMMA RecordShape ==
  ASSUME NEW r, IsRecord(r)
  PROVE  /\ UserKey(r) \in UserKeys /\ UserKey(r) \in Bytes /\ r.value \in Nat /\ r.key \in Bytes
         /\ Extends(r.key, UserKey(r)) /\ Len(r.key) = Len(UserKey(r)) + SeqDigits + 1
<1>1. PICK k \in UserKeys, seq \in Nat, v \in Nat : r = Record(k, seq, v)
  BY DEF IsRecord
<1>2. UserKey(r) = k /\ r.value = v /\ r.key = MakeInternalKey(k, seq, v)
  BY <1>1, RecordFacts
<1> DEFINE ik == MakeInternalKey(k, seq, v)
<1>3. /\ k \in Bytes /\ ik \in Bytes /\ Len(ik) = Len(k) + SeqDigits + 1
      /\ \A i \in 1..Len(k) : ik[i] = k[i]
      /\ ik[Len(k) + 1] = IF v = Tombstone THEN 0 ELSE 1
  BY InternalKeyFacts
<1> HIDE DEF ik
<1>4. Len(k) \in Nat /\ SeqDigits \in Nat
  BY <1>3, KeyShape, VersionsAssumption
<1>5. Extends(ik, k)
  BY <1>3, <1>4 DEF Extends
<1> QED BY <1>1, <1>2, <1>3, <1>5 DEF ik

LEMMA ItselfExtends ==
  ASSUME NEW k \in UserKeys
  PROVE  Extends(k, k)
<1>1. k \in Bytes /\ Len(k) \in Nat
  BY UserKeyBytes, KeyShape
<1> QED BY <1>1 DEF Extends

\* InternalKeys are ordered as their user keys are.
LEMMA RecordOrder ==
  ASSUME KeysStandApart, NEW r, NEW s, IsRecord(r), IsRecord(s), AtMost(r.key, s.key)
  PROVE  AtMost(UserKey(r), UserKey(s))
<1>1. /\ UserKey(r) \in UserKeys /\ UserKey(r) \in Bytes /\ r.key \in Bytes
      /\ Extends(r.key, UserKey(r))
      /\ UserKey(s) \in UserKeys /\ UserKey(s) \in Bytes /\ s.key \in Bytes
      /\ Extends(s.key, UserKey(s))
  BY RecordShape
<1>2. CASE Less(UserKey(s), UserKey(r))
  <2>1. Less(s.key, r.key)
    BY <1>1, <1>2, ExtendedOrder
  <2> QED BY <1>1, <2>1, KeyOrder
<1> QED BY <1>1, <1>2, KeyOrder

\* A record is before a user key if its own user key is.
LEMMA RecordBefore ==
  ASSUME KeysStandApart, NEW r, IsRecord(r), NEW k \in UserKeys
  PROVE  Less(r.key, k) <=> Less(UserKey(r), k)
<1>1. /\ UserKey(r) \in UserKeys /\ UserKey(r) \in Bytes /\ r.key \in Bytes
      /\ Extends(r.key, UserKey(r)) /\ Len(r.key) = Len(UserKey(r)) + SeqDigits + 1
      /\ k \in Bytes /\ Extends(k, k)
  BY RecordShape, ItselfExtends, UserKeyBytes
<1>2. CASE Less(UserKey(r), k)
  BY <1>1, <1>2, ExtendedOrder
<1>3. CASE Less(k, UserKey(r))
  <2>1. Less(k, r.key)
    BY <1>1, <1>3, ExtendedOrder
  <2>2. ~Less(r.key, k) /\ ~Less(UserKey(r), k)
    BY <1>1, <1>3, <2>1, KeyOrder DEF AtMost
  <2> QED BY <2>2
<1>4. CASE k = UserKey(r)
  <2>1. /\ Len(k) \in Nat /\ DOMAIN k = 1..Len(k) /\ Len(k) < Len(r.key)
        /\ \A i \in 1..Len(k) : r.key[i] = k[i]
    <3>1. Len(k) \in Nat /\ DOMAIN k = 1..Len(k) /\ SeqDigits \in Nat
      BY <1>1, KeyShape, VersionsAssumption
    <3> QED BY <1>1, <1>4, <3>1 DEF Extends
  <2>2. Less(k, r.key)
    BY <2>1 DEF Less
  <2>3. ~Less(r.key, k) /\ ~Less(UserKey(r), k)
    BY <1>1, <1>4, <2>2, KeyOrder, LessIrreflexive DEF AtMost
  <2> QED BY <2>3
<1> QED BY <1>1, <1>2, <1>3, <1>4, LessTotal

\* Byte by byte.
LEMMA NoByteGreater ==
  ASSUME NEW a \in Bytes, NEW b \in Bytes, Len(a) = Len(b), \A i \in 1..Len(a) : a[i] <= b[i]
  PROVE  AtMost(a, b)
<1>1. /\ Len(a) \in Nat /\ DOMAIN a = 1..Len(a) /\ (\A i \in 1..Len(a) : a[i] \in Nat)
      /\ DOMAIN b = 1..Len(b) /\ (\A i \in 1..Len(b) : b[i] \in Nat) /\ IsSeq(a) /\ IsSeq(b)
  BY KeyShape
<1>2. CASE \A i \in DOMAIN a \cap DOMAIN b : a[i] = b[i]
  BY <1>1, <1>2, SameSeq DEF AtMost
<1>3. ASSUME NEW i, Apart(a, b, i) PROVE AtMost(a, b)
  <2>1. a[i] < b[i]
    BY <1>1, <1>3 DEF Apart
  <2> QED BY <1>3, <2>1 DEF Apart, AtMost, Less
<1> QED BY <1>2, <1>3, FirstDifference

LEMMA LookupKeyFacts ==
  ASSUME NEW k \in UserKeys
  PROVE  LET l == MakeLookupKey(k)
         IN  /\ l \in Bytes /\ Extends(l, k) /\ k \in Bytes
             /\ \A seq \in Nat, v \in Nat : AtMost(l, MakeInternalKey(k, seq, v))
<1>1. MaxSequence \in Nat /\ Tombstone \in Nat
  <2>1. SeqDigits \in 0..SeqDigits
    BY VersionsAssumption
  <2>2. Power[SeqDigits] \in Nat \ {0}
    BY <2>1, PowerFacts
  <2> QED BY <2>2 DEF MaxSequence, Tombstone
<1> DEFINE l == MakeLookupKey(k)
           n == Len(k)
<1>2. /\ k \in Bytes /\ l \in Bytes /\ Len(l) = n + SeqDigits + 1
      /\ \A i \in 1..n : l[i] = k[i]
      /\ l[n + 1] = 0
      /\ \A d \in 1..SeqDigits : l[n + 1 + d] = Digit(MaxSequence, d)
  BY <1>1, InternalKeyFacts DEF MakeLookupKey
<1> HIDE DEF l
<1>3. n \in Nat /\ SeqDigits \in Nat
  BY <1>2, KeyShape, VersionsAssumption
<1>4. Extends(l, k)
  BY <1>2, <1>3 DEF Extends
<1>5. ASSUME NEW seq \in Nat, NEW v \in Nat PROVE AtMost(l, MakeInternalKey(k, seq, v))
  <2> DEFINE ik == MakeInternalKey(k, seq, v)
  <2>1. /\ ik \in Bytes /\ Len(ik) = n + SeqDigits + 1
        /\ \A i \in 1..n : ik[i] = k[i]
        /\ ik[n + 1] = IF v = Tombstone THEN 0 ELSE 1
        /\ \A d \in 1..SeqDigits : ik[n + 1 + d] = Digit(seq, d)
    BY InternalKeyFacts
  <2> HIDE DEF ik
  <2>2. ASSUME NEW i \in 1..n + SeqDigits + 1 PROVE l[i] <= ik[i]
    <3>1. CASE i \in 1..n
      BY <1>2, <2>1, <3>1, KeyShape
    <3>2. CASE i = n + 1
      BY <1>2, <2>1, <3>2
    <3>3. CASE i > n + 1
      <4>1. PICK d \in 1..SeqDigits : i = n + 1 + d
        <5>1. i - n - 1 \in 1..SeqDigits /\ i = n + 1 + (i - n - 1)
          BY <1>3, <3>3
        <5> QED BY <5>1
      <4>2. Digit(MaxSequence, d) = 0 /\ Digit(seq, d) \in Nat
        BY DigitFacts
      <4>3. l[i] = 0 /\ ik[i] \in Nat
        BY <1>2, <2>1, <4>1, <4>2
      <4> QED BY <4>3
    <3> QED BY <1>3, <3>1, <3>2, <3>3
  <2>3. AtMost(l, ik)
    BY <1>2, <2>1, <2>2, NoByteGreater
  <2> QED BY <2>3 DEF ik
<1> QED BY <1>2, <1>4, <1>5 DEF l

\* A lookup key is above the records of smaller user keys, and above no other.
LEMMA LookupOrder ==
  ASSUME KeysStandApart, NEW r, IsRecord(r), NEW k \in UserKeys
  PROVE  /\ MakeLookupKey(k) \in Bytes
         /\ AtMost(MakeLookupKey(k), r.key) <=> AtMost(k, UserKey(r))
         /\ Less(r.key, MakeLookupKey(k)) <=> Less(UserKey(r), k)
<1> DEFINE l == MakeLookupKey(k)
<1>1. /\ UserKey(r) \in UserKeys /\ UserKey(r) \in Bytes /\ r.key \in Bytes
      /\ Extends(r.key, UserKey(r)) /\ k \in Bytes /\ l \in Bytes /\ Extends(l, k)
      /\ \A seq \in Nat, v \in Nat : AtMost(l, MakeInternalKey(k, seq, v))
  BY RecordShape, LookupKeyFacts
<1> HIDE DEF l
<1>2. ASSUME Less(UserKey(r), k) PROVE Less(r.key, l)
  BY <1>1, <1>2, ExtendedOrder
<1>3. ASSUME AtMost(k, UserKey(r)) PROVE AtMost(l, r.key)
  <2>1. CASE Less(k, UserKey(r))
    <3>1. Less(l, r.key)
      BY <1>1, <2>1, ExtendedOrder
    <3> QED BY <3>1 DEF AtMost
  <2>2. CASE k = UserKey(r)
    <3>1. PICK u \in UserKeys, seq \in Nat, v \in Nat : r = Record(u, seq, v)
      BY DEF IsRecord
    <3>2. u = k /\ r.key = MakeInternalKey(u, seq, v)
      BY <2>2, <3>1, RecordFacts
    <3> QED BY <1>1, <3>2
  <2> QED BY <1>3, <2>1, <2>2 DEF AtMost
<1>4. AtMost(k, UserKey(r)) \/ Less(UserKey(r), k)
  BY <1>1, KeyOrder
<1>5. ~(AtMost(k, UserKey(r)) /\ Less(UserKey(r), k)) /\ ~(AtMost(l, r.key) /\ Less(r.key, l))
  BY <1>1, KeyOrder
<1> QED BY <1>1, <1>2, <1>3, <1>4, <1>5 DEF l

-----------------------------------------------------------------------------
(* Pieces of a sequence *)

LEMMA LeastIsMin ==
  ASSUME NEW S \in SUBSET Nat, NEW m \in S, \A x \in S : m <= x
  PROVE  Min(S) = m
<1>1. \A x \in S : (\A y \in S : x <= y) => x = m
  OBVIOUS
<1> QED BY <1>1 DEF Min

LEMMA CeilFacts ==
  ASSUME NEW len \in Nat, NEW n \in Nat \ {0}
  PROVE  /\ CeilDiv(len, n) \in Nat
         /\ len <= n * CeilDiv(len, n) /\ n * CeilDiv(len, n) < len + n
<1>1. PICK x \in Nat : x = len + n - 1
  OBVIOUS
<1>2. x \div n \in Nat /\ n * (x \div n) <= x /\ x < n * (x \div n) + n
  BY <1>1
<1>3. CeilDiv(len, n) = x \div n
  BY <1>1 DEF CeilDiv
<1>4. PICK q \in Nat : q = x \div n
  BY <1>2
<1>5. PICK y \in Nat : y = n * q
  OBVIOUS
<1>6. y <= x /\ x < y + n
  BY <1>2, <1>4, <1>5
<1>7. len <= y /\ y < len + n
  BY <1>1, <1>6
<1> QED BY <1>3, <1>4, <1>5, <1>7

\* Where the p-th piece of n elements ends in a sequence of that length.
End(len, n, p) == IF n * p < len THEN n * p ELSE len

LEMMA EndFacts ==
  ASSUME NEW len \in Nat, NEW n \in Nat \ {0}, NEW p \in 1..CeilDiv(len, n)
  PROVE  /\ n * (p - 1) \in Nat /\ End(len, n, p) \in Nat
         /\ n * (p - 1) < End(len, n, p) /\ End(len, n, p) <= n * (p - 1) + n
         /\ End(len, n, p) <= len /\ n * p = n * (p - 1) + n
         /\ p < CeilDiv(len, n) => End(len, n, p) = n * p
         /\ p = CeilDiv(len, n) => End(len, n, p) = len
<1> DEFINE m == CeilDiv(len, n)
<1>1. m \in Nat /\ len <= n * m /\ n * m < len + n
  BY CeilFacts
<1> HIDE DEF m
<1>0. p \in 1..m
  BY DEF m
<1>2. PICK a \in Nat : a = p - 1
  BY <1>0, <1>1
<1>3. PICK x \in Nat : x = n * a
  BY <1>2
<1>4. n * p = x + n
  <2>1. p = a + 1 /\ n * (a + 1) = n * a + n
    BY <1>0, <1>1, <1>2
  <2> QED BY <1>3, <2>1
<1>5. x < len
  <2>1. n * p <= n * m
    BY <1>0, <1>1
  <2>2. PICK y \in Nat : y = n * m
    BY <1>1
  <2> QED BY <1>1, <1>4, <2>1, <2>2
<1>6. p < m => x + n < len
  <2>1. SUFFICES ASSUME p < m PROVE x + n < len
    OBVIOUS
  <2>2. n * (p + 1) <= n * m
    BY <1>0, <1>1, <2>1
  <2>3. n * (p + 1) = n * p + n
    BY <1>0, <1>1
  <2>4. PICK y \in Nat : y = n * m
    BY <1>1
  <2> QED BY <1>1, <1>4, <2>2, <2>3, <2>4
<1>7. p = m => len <= x + n
  BY <1>1, <1>4
<1>8. n * (p - 1) = x
  BY <1>2, <1>3
<1>9. End(len, n, p) = IF x + n < len THEN x + n ELSE len
  BY <1>4 DEF End
<1>10. /\ x \in Nat /\ End(len, n, p) \in Nat
       /\ x < End(len, n, p) /\ End(len, n, p) <= x + n
       /\ End(len, n, p) <= len
       /\ p < m => End(len, n, p) = x + n
       /\ p = m => End(len, n, p) = len
  BY <1>5, <1>6, <1>7, <1>9
<1> QED BY <1>4, <1>8, <1>10 DEF m

\* The piece in which an element is.
LEMMA PieceOf ==
  ASSUME NEW len \in Nat, NEW n \in Nat \ {0}, NEW i \in 1..len
  PROVE  \E p \in 1..CeilDiv(len, n) : n * (p - 1) < i /\ i <= End(len, n, p)
<1>1. PICK x \in Nat : x = i - 1
  OBVIOUS
<1>2. PICK q \in Nat, r \in 0..n - 1 : x = n * q + r
  <2>1. x \div n \in Nat /\ x % n \in 0..n - 1 /\ x = n * (x \div n) + (x % n)
    OBVIOUS
  <2> QED BY <2>1
<1> DEFINE m == CeilDiv(len, n)
<1>3. m \in Nat /\ len <= n * m
  BY CeilFacts
<1> HIDE DEF m
<1>4. q < m
  <2>1. CASE q >= m
    <3>1. n * q >= n * m
      BY <1>3, <2>1
    <3>2. PICK y \in Nat, z \in Nat : y = n * q /\ z = n * m
      BY <1>3
    <3> QED BY <1>1, <1>2, <1>3, <3>1, <3>2
  <2> QED BY <1>3, <2>1
<1>5. q + 1 \in 1..m /\ q + 1 - 1 = q
  BY <1>3, <1>4
<1>6. PICK y \in Nat : y = n * q
  OBVIOUS
<1>7. n * (q + 1) = y + n
  BY <1>6
<1>8. n * q < i /\ i <= End(len, n, q + 1)
  BY <1>1, <1>2, <1>6, <1>7 DEF End
<1> QED BY <1>5, <1>8 DEF m

LEMMA PieceFacts ==
  ASSUME NEW s, NEW n \in Nat \ {0}, NEW cut, IsSeq(s), cut = Pieces(s, n)
  PROVE  /\ IsSeq(cut) /\ Len(cut) = CeilDiv(Len(s), n) /\ Len(cut) \in Nat
         /\ \A p \in 1..Len(cut) :
              /\ IsSeq(cut[p]) /\ Len(cut[p]) = End(Len(s), n, p) - n * (p - 1)
              /\ \A i \in 1..Len(cut[p]) : cut[p][i] = s[n * (p - 1) + i]
<1> DEFINE m == CeilDiv(Len(s), n)
           part(p) == SubSeq(s, n * (p - 1) + 1, End(Len(s), n, p))
           pieces == [p \in 1..m |-> part(p)]
<1>1. Len(s) \in Nat /\ m \in Nat
  BY Shape, CeilFacts
<1>2. pieces = cut
  BY DEF Pieces, End
<1>3. IsSeq(pieces) /\ Len(pieces) = m
  <2>1. pieces = [p \in 1..m |-> pieces[p]]
    OBVIOUS
  <2> HIDE DEF pieces
  <2> QED BY <1>1, <2>1, Tabulated
<1>4. ASSUME NEW p \in 1..m
      PROVE  /\ IsSeq(pieces[p]) /\ Len(pieces[p]) = End(Len(s), n, p) - n * (p - 1)
             /\ \A i \in 1..Len(pieces[p]) : pieces[p][i] = s[n * (p - 1) + i]
  <2>1. pieces[p] = part(p)
    OBVIOUS
  <2>2. PICK x \in Nat : x = n * (p - 1)
    BY <1>1, EndFacts
  <2>3. PICK e \in Nat : e = End(Len(s), n, p)
    BY <1>1, EndFacts
  <2>4. x < e /\ e <= Len(s)
    BY <1>1, <2>2, <2>3, EndFacts
  <2>5. DOMAIN s = 1..Len(s)
    BY Shape
  <2>6. \A i \in x + 1..e : s[i] \in {s[j] : j \in DOMAIN s}
    BY <1>1, <2>4, <2>5
  <2> DEFINE t == SubSeq(s, x + 1, e)
  <2>7. /\ t \in Seq({s[j] : j \in DOMAIN s})
        /\ Len(t) = IF x + 1 <= e THEN e - (x + 1) + 1 ELSE 0
        /\ \A i \in 1..e - (x + 1) + 1 : t[i] = s[x + 1 + i - 1]
    <3>1. x + 1 \in Int /\ e \in Int
      OBVIOUS
    <3> QED BY <2>6, <3>1, SubSeqProperties
  <2> HIDE DEF t
  <2>8. Len(t) = e - x /\ \A i \in 1..e - x : t[i] = s[x + i]
    <3>1. x + 1 <= e /\ e - (x + 1) + 1 = e - x /\ \A i \in 1..e - x : x + 1 + i - 1 = x + i
      BY <2>4
    <3> QED BY <2>7, <3>1
  <2>9. IsSeq(t)
    BY <2>7, SeqOfAny
  <2>10. part(p) = t
    BY <2>2, <2>3 DEF t
  <2> HIDE DEF part, pieces
  <2> QED BY <2>1, <2>2, <2>3, <2>8, <2>9, <2>10
<1> HIDE DEF pieces, m
<1> QED BY <1>1, <1>2, <1>3, <1>4 DEF m

-----------------------------------------------------------------------------
(* Records in the order of their user keys *)

Run(s) ==
  /\ IsSeq(s) /\ \A i \in 1..Len(s) : IsRecord(s[i])
  /\ \A i, j \in 1..Len(s) : i <= j => AtMost(UserKey(s[i]), UserKey(s[j]))

\* b is the first place in s that is not below k.
Bound(s, k, b) ==
  /\ b \in 1..Len(s) + 1
  /\ \A i \in 1..Len(s) : /\ i < b => Less(UserKey(s[i]), k)
                          /\ b <= i => AtMost(k, UserKey(s[i]))

LEMMA BoundExists ==
  ASSUME NEW s, Run(s), NEW k \in UserKeys
  PROVE  \E b : Bound(s, k, b)
<1> DEFINE S == {i \in 1..Len(s) + 1 : i = Len(s) + 1 \/ AtMost(k, UserKey(s[i]))}
<1>1. Len(s) \in Nat
  BY Shape DEF Run
<1>2. S \in SUBSET Nat /\ Len(s) + 1 \in S
  BY <1>1
<1>3. PICK b \in S : \A i \in S : b <= i
  <2> HIDE DEF S
  <2> QED BY <1>2, Least
<1>4. ASSUME NEW i \in 1..Len(s)
      PROVE  /\ i < b => Less(UserKey(s[i]), k)
             /\ b <= i => AtMost(k, UserKey(s[i]))
  <2>1. UserKey(s[i]) \in Bytes /\ k \in Bytes
    BY RecordShape, UserKeyBytes DEF Run
  <2>2. ASSUME i < b PROVE Less(UserKey(s[i]), k)
    <3>1. i \notin S
      BY <1>1, <1>3, <2>2
    <3>2. ~AtMost(k, UserKey(s[i]))
      BY <1>1, <3>1
    <3> QED BY <2>1, <3>2, KeyOrder
  <2>3. ASSUME b <= i PROVE AtMost(k, UserKey(s[i]))
    <3>1. b \in 1..Len(s) /\ AtMost(k, UserKey(s[b]))
      BY <1>1, <1>3, <2>3
    <3>2. AtMost(UserKey(s[b]), UserKey(s[i])) /\ UserKey(s[b]) \in Bytes
      BY <2>3, <3>1, RecordShape DEF Run
    <3> QED BY <2>1, <3>1, <3>2, KeyOrder
  <2> QED BY <2>2, <2>3
<1>5. b \in 1..Len(s) + 1
  OBVIOUS
<1> QED BY <1>4, <1>5 DEF Bound

LEMMA BoundUnique ==
  ASSUME NEW s, Run(s), NEW k \in UserKeys, NEW b, NEW c, Bound(s, k, b), Bound(s, k, c)
  PROVE  b = c
<1>1. Len(s) \in Nat /\ b \in 1..Len(s) + 1 /\ c \in 1..Len(s) + 1
  BY Shape DEF Run, Bound
<1>2. \A i \in 1..Len(s) : ~(Less(UserKey(s[i]), k) /\ AtMost(k, UserKey(s[i])))
  BY RecordShape, UserKeyBytes, KeyOrder DEF Run
<1>3. ~(b < c)
  <2>1. b < c => b \in 1..Len(s)
    BY <1>1
  <2> QED BY <1>1, <1>2, <2>1 DEF Bound
<1>4. ~(c < b)
  <2>1. c < b => c \in 1..Len(s)
    BY <1>1
  <2> QED BY <1>1, <1>2, <2>1 DEF Bound
<1> QED BY <1>1, <1>3, <1>4

-----------------------------------------------------------------------------
(* The search of a block in the index *)

\* Is all of the block below the lookup key?
Late(blocks, lookup, i) == Less(Last(blocks[i]).key, lookup)

\* One step of the bisection, which goes on with search.
Halved(blocks, lookup, search, left, right) ==
  LET mid == (left + right) \div 2
  IN  IF left >= right THEN left
      ELSE IF Late(blocks, lookup, mid) THEN search[<<mid + 1, right>>]
      ELSE search[<<left, mid>>]

SearchIndex(blocks, lookup, n, search) ==
  [range \in (1..n) \X (1..n) |-> Halved(blocks, lookup, search, range[1], range[2])]

LEMMA Middle ==
  ASSUME NEW n \in Nat, NEW l \in 1..n, NEW r \in 1..n, l < r
  PROVE  LET mid == (l + r) \div 2
         IN  mid \in l..r - 1 /\ mid \in 1..n /\ mid + 1 \in 1..n
OBVIOUS

\* The recursion has a solution, since the range shrinks.
LEMMA BisectionExists ==
  ASSUME NEW n \in Nat, NEW blocks, NEW lookup
  PROVE  \E search : search = SearchIndex(blocks, lookup, n, search)
<1> DEFINE D == (1..n) \X (1..n)
           table(g) == [p \in D |-> Halved(blocks, lookup, g, p[1], p[2])]
           solves(g, m) == \A l, r \in 1..n : r - l <= m => g[<<l, r>>] = Halved(blocks, lookup, g, l, r)
           reached == {m \in Nat : \E g : solves(g, m)}
           agree(g, h, len) == \A i, j \in 1..n : j - i < len => g[<<i, j>>] = h[<<i, j>>]
<1>0. ASSUME NEW g, NEW l \in 1..n, NEW r \in 1..n
      PROVE  table(g)[<<l, r>>] = Halved(blocks, lookup, g, l, r)
  OBVIOUS
<1>a. ASSUME NEW g, NEW h, NEW l \in 1..n, NEW r \in 1..n, agree(g, h, r - l)
      PROVE  Halved(blocks, lookup, g, l, r) = Halved(blocks, lookup, h, l, r)
  <2>1. CASE l >= r
    BY <2>1 DEF Halved
  <2>2. CASE l < r
    <3>1. PICK mid : mid = (l + r) \div 2
      OBVIOUS
    <3>2. mid \in l..r - 1 /\ mid \in 1..n /\ mid + 1 \in 1..n
      BY <2>2, <3>1, Middle
    <3>3. g[<<l, mid>>] = h[<<l, mid>>] /\ g[<<mid + 1, r>>] = h[<<mid + 1, r>>]
      BY <1>a, <3>2
    <3> QED BY <3>1, <3>3 DEF Halved
  <2> QED BY <2>1, <2>2
<1> HIDE DEF D, table, agree
<1>1. 0 \in reached
  <2>1. PICK g : g = [p \in D |-> p[1]]
    OBVIOUS
  <2>2. ASSUME NEW l \in 1..n, NEW r \in 1..n, r - l <= 0
        PROVE  g[<<l, r>>] = Halved(blocks, lookup, g, l, r)
    <3>1. g[<<l, r>>] = l
      BY <2>1 DEF D
    <3>2. l >= r
      BY <2>2
    <3> QED BY <3>1, <3>2 DEF Halved
  <2>3. solves(g, 0)
    BY <2>2
  <2> HIDE DEF solves
  <2> QED BY <2>3
<1>2. ASSUME NEW m \in reached PROVE m + 1 \in reached
  <2>1. PICK g : solves(g, m)
    OBVIOUS
  <2>2. PICK h : h = table(g)
    OBVIOUS
  <2>3. \A l, r \in 1..n : h[<<l, r>>] = Halved(blocks, lookup, g, l, r)
    BY <1>0, <2>2
  <2>4. ASSUME NEW l \in 1..n, NEW r \in 1..n, r - l <= m + 1
        PROVE  h[<<l, r>>] = Halved(blocks, lookup, h, l, r)
    <3>1. ASSUME NEW i \in 1..n, NEW j \in 1..n, j - i < r - l
          PROVE  g[<<i, j>>] = h[<<i, j>>]
      <4>1. j - i <= m
        BY <2>4, <3>1
      <4> QED BY <2>1, <2>3, <4>1
    <3>2. agree(g, h, r - l)
      BY <3>1 DEF agree
    <3>3. Halved(blocks, lookup, g, l, r) = Halved(blocks, lookup, h, l, r)
      BY <1>a, <3>2
    <3> QED BY <2>3, <3>3
  <2>5. solves(h, m + 1)
    BY <2>4
  <2> HIDE DEF solves
  <2> QED BY <2>5
<1>3. reached = Nat
  <2>1. reached \in SUBSET Nat
    OBVIOUS
  <2> HIDE DEF reached
  <2> QED BY <1>1, <1>2, <2>1, AllNumbers
<1>4. PICK g : solves(g, n)
  BY <1>3
<1>5. ASSUME NEW l \in 1..n, NEW r \in 1..n
      PROVE  g[<<l, r>>] = Halved(blocks, lookup, g, l, r)
  <2>1. r - l <= n
    OBVIOUS
  <2> QED BY <1>4, <2>1
<1>6. PICK h : h = table(g)
  OBVIOUS
<1>7. \A l, r \in 1..n : h[<<l, r>>] = g[<<l, r>>]
  BY <1>0, <1>5, <1>6
<1>8. ASSUME NEW p \in D PROVE Halved(blocks, lookup, g, p[1], p[2]) = Halved(blocks, lookup, h, p[1], p[2])
  <2>1. p[1] \in 1..n /\ p[2] \in 1..n
    BY DEF D
  <2>2. agree(g, h, p[2] - p[1])
    BY <1>7 DEF agree
  <2> QED BY <1>a, <2>1, <2>2
<1>9. h = [p \in D |-> Halved(blocks, lookup, h, p[1], p[2])]
  BY <1>6, <1>8 DEF table
<1> QED BY <1>9 DEF D, SearchIndex

\* i is the first block of those that are not below the lookup key, or the last one.
Towards(blocks, lookup, i) ==
  /\ i \in 1..Len(blocks)
  /\ \A j \in 1..Len(blocks) : j < i => Late(blocks, lookup, j)
  /\ i < Len(blocks) => ~Late(blocks, lookup, i)

\* A block before one that is below the lookup key is below it too.
Monotone(blocks, lookup) ==
  \A i, j \in 1..Len(blocks) : i < j /\ Late(blocks, lookup, j) => Late(blocks, lookup, i)

\* The block that the lookup key leads to is between l and r.
Between(blocks, lookup, l, r) ==
  /\ l <= r /\ \A j \in 1..Len(blocks) : j < l => Late(blocks, lookup, j)
  /\ r < Len(blocks) => ~Late(blocks, lookup, r)

\* A step of the bisection is right if the ones it goes on with are.
LEMMA HalvedLeads ==
  ASSUME NEW blocks, NEW lookup, Monotone(blocks, lookup), Len(blocks) \in Nat, NEW search,
         NEW l \in 1..Len(blocks), NEW r \in 1..Len(blocks), Between(blocks, lookup, l, r),
         \A i, j \in 1..Len(blocks) :
           j - i < r - l /\ Between(blocks, lookup, i, j) => Towards(blocks, lookup, search[<<i, j>>])
  PROVE  Towards(blocks, lookup, Halved(blocks, lookup, search, l, r))
<1> DEFINE step == Halved(blocks, lookup, search, l, r)
           n == Len(blocks)
<1>1. CASE l >= r
  <2>1. step = l /\ l = r
    BY <1>1 DEF Halved, Between
  <2> QED BY <2>1 DEF Between, Towards
<1>2. CASE l < r
  <2>1. PICK mid : mid = (l + r) \div 2
    OBVIOUS
  <2>2. mid \in l..r - 1 /\ mid \in 1..n /\ mid + 1 \in 1..n
    BY <1>2, <2>1, Middle
  <2>3. CASE Late(blocks, lookup, mid)
    <3>1. step = search[<<mid + 1, r>>]
      BY <1>2, <2>1, <2>3 DEF Halved
    <3>2. ASSUME NEW j \in 1..n, j < mid + 1 PROVE Late(blocks, lookup, j)
      <4>1. j = mid \/ j < mid
        BY <2>2, <3>2
      <4>2. CASE j < mid
        BY <2>2, <2>3, <4>2 DEF Monotone
      <4> QED BY <2>3, <4>1, <4>2
    <3>3. mid + 1 <= r /\ r - (mid + 1) < r - l
      BY <2>2
    <3>4. Between(blocks, lookup, mid + 1, r)
      BY <3>2, <3>3 DEF Between
    <3> QED BY <2>2, <3>1, <3>3, <3>4
  <2>4. CASE ~Late(blocks, lookup, mid)
    <3>1. step = search[<<l, mid>>]
      BY <1>2, <2>1, <2>4 DEF Halved
    <3>2. l <= mid /\ mid - l < r - l
      BY <2>2
    <3>3. Between(blocks, lookup, l, mid)
      BY <2>4, <3>2 DEF Between
    <3> QED BY <2>2, <3>1, <3>2, <3>3
  <2> QED BY <2>3, <2>4
<1> QED BY <1>1, <1>2

\* The bisection in the index (sstable.cc:280) ends at the block that the lookup key leads to.
LEMMA BisectLeads ==
  ASSUME NEW blocks, NEW lookup, Monotone(blocks, lookup), Len(blocks) \in Nat \ {0}
  PROVE  Towards(blocks, lookup, IndexSearch(blocks, lookup))
<1> DEFINE n == Len(blocks)
           search == CHOOSE g : g = SearchIndex(blocks, lookup, n, g)
<1>1. IndexSearch(blocks, lookup) = search[<<1, n>>]
  BY DEF IndexSearch, Late, Halved, SearchIndex
<1>2. search = SearchIndex(blocks, lookup, n, search)
  BY BisectionExists
<1> HIDE DEF search
<1>3. ASSUME NEW l \in 1..n, NEW r \in 1..n
      PROVE  search[<<l, r>>] = Halved(blocks, lookup, search, l, r)
  <2>1. SearchIndex(blocks, lookup, n, search)[<<l, r>>] = Halved(blocks, lookup, search, l, r)
    BY DEF SearchIndex
  <2> QED BY <1>2, <2>1
<1> DEFINE reached == {m \in Nat : \A l, r \in 1..n :
                         r - l < m /\ Between(blocks, lookup, l, r) => Towards(blocks, lookup, search[<<l, r>>])}
<1>4. 0 \in reached
  <2>1. ASSUME NEW l \in 1..n, NEW r \in 1..n, r - l < 0, Between(blocks, lookup, l, r) PROVE FALSE
    BY <2>1 DEF Between
  <2> QED BY <2>1
<1>5. ASSUME NEW m \in reached PROVE m + 1 \in reached
  <2>1. ASSUME NEW l \in 1..n, NEW r \in 1..n, r - l < m + 1, Between(blocks, lookup, l, r)
        PROVE  Towards(blocks, lookup, search[<<l, r>>])
    <3>1. m \in Nat
      OBVIOUS
    <3>2. ASSUME NEW i \in 1..n, NEW j \in 1..n, j - i < r - l, Between(blocks, lookup, i, j)
          PROVE  Towards(blocks, lookup, search[<<i, j>>])
      <4>1. j - i < m
        BY <2>1, <3>1, <3>2
      <4> QED BY <3>2, <4>1
    <3>3. Towards(blocks, lookup, Halved(blocks, lookup, search, l, r))
      BY <2>1, <3>2, HalvedLeads
    <3> QED BY <1>3, <3>3
  <2> QED BY <2>1
<1>6. reached = Nat
  <2>1. reached \in SUBSET Nat
    OBVIOUS
  <2> HIDE DEF reached
  <2> QED BY <1>4, <1>5, <2>1, AllNumbers
<1>7. 1 \in 1..n /\ n \in 1..n /\ n \in Nat /\ n - 1 < n
  OBVIOUS
<1>8. Between(blocks, lookup, 1, n)
  BY <1>7 DEF Between
<1>9. n \in reached
  BY <1>6, <1>7
<1>10. Towards(blocks, lookup, search[<<1, n>>])
  BY <1>7, <1>8, <1>9
<1> QED BY <1>1, <1>10

-----------------------------------------------------------------------------
(* Lookups in a table *)

\* The block that a lookup of k leads to, and where it lies in the table.
Found(t, k, b, from, to) ==
  LET blocks == Blocks(t)
  IN  /\ b = IndexSearch(blocks, MakeLookupKey(k)) /\ from = BlockEntries * (b - 1)
      /\ from \in Nat /\ to \in Nat /\ from < to /\ to <= from + BlockEntries /\ to <= Len(t)
      /\ IsSeq(blocks[b]) /\ Len(blocks[b]) = to - from
      /\ \A i \in 1..to - from : blocks[b][i] = t[from + i]

\* It is the block of the first record not below k, if there is one, and otherwise the last.
LEMMA FoundBlock ==
  ASSUME KeysStandApart, NEW t, Run(t), Len(t) > 0, NEW k \in UserKeys, NEW place, Bound(t, k, place)
  PROVE  \E b, from, to :
           /\ Found(t, k, b, from, to) /\ from < place
           /\ place <= Len(t) => place <= to
           /\ place > Len(t) => to = Len(t)
<1> DEFINE n == BlockEntries
           len == Len(t)
           blocks == Blocks(t)
           m == CeilDiv(len, n)
           lookup == MakeLookupKey(k)
           b == IndexSearch(blocks, lookup)
           start(p) == n * (p - 1)
           end(p) == End(len, n, p)
<1>1. n \in Nat \ {0} /\ len \in Nat /\ IsSeq(t) /\ place \in 1..len + 1
  BY Shape, VersionsAssumption DEF Run, Bound
<1>2. /\ IsSeq(blocks) /\ Len(blocks) = m /\ m \in Nat
      /\ \A p \in 1..m : /\ IsSeq(blocks[p]) /\ Len(blocks[p]) = end(p) - start(p)
                         /\ \A i \in 1..Len(blocks[p]) : blocks[p][i] = t[start(p) + i]
  <2>0. PICK pieces : pieces = Pieces(t, n)
    OBVIOUS
  <2>a. IsSeq(pieces) /\ Len(pieces) = CeilDiv(Len(t), n) /\ Len(pieces) \in Nat
    BY <1>1, <2>0, PieceFacts
  <2>b. \A p \in 1..Len(pieces) : IsSeq(pieces[p])
    BY <1>1, <2>0, PieceFacts
  <2>c. \A p \in 1..Len(pieces) : Len(pieces[p]) = End(Len(t), n, p) - n * (p - 1)
    BY <1>1, <2>0, PieceFacts
  <2>d. \A p \in 1..Len(pieces) : \A i \in 1..Len(pieces[p]) : pieces[p][i] = t[n * (p - 1) + i]
    BY <1>1, <2>0, PieceFacts, SMTT(20)
  <2>1. /\ IsSeq(pieces) /\ Len(pieces) = CeilDiv(Len(t), n) /\ Len(pieces) \in Nat
        /\ \A p \in 1..Len(pieces) :
             /\ IsSeq(pieces[p])
             /\ Len(pieces[p]) = End(Len(t), n, p) - n * (p - 1)
             /\ \A i \in 1..Len(pieces[p]) : pieces[p][i] = t[n * (p - 1) + i]
    BY <2>a, <2>b, <2>c, <2>d
  <2>2. blocks = pieces
    BY <2>0 DEF Blocks
  <2> HIDE DEF blocks
  <2> QED BY <2>1, <2>2
<1>3. \A p \in 1..m : /\ start(p) \in Nat /\ end(p) \in Nat /\ start(p) < end(p)
                      /\ end(p) <= start(p) + n /\ end(p) <= len
                      /\ p < m => end(p) = n * p
                      /\ p = m => end(p) = len
  <2> SUFFICES ASSUME NEW p \in 1..m
      PROVE  /\ start(p) \in Nat /\ end(p) \in Nat /\ start(p) < end(p)
             /\ end(p) <= start(p) + n /\ end(p) <= len
             /\ p < m => end(p) = n * p
             /\ p = m => end(p) = len
    OBVIOUS
  <2> QED BY <1>1, EndFacts
<1>4. m > 0
  <2>1. len \in 1..len
    BY <1>1
  <2> QED BY <1>1, <1>2, <2>1, PieceOf
<1> HIDE DEF blocks, m, lookup, start, end
<1>5. ASSUME NEW p \in 1..m
      PROVE  Late(blocks, lookup, p) <=> end(p) < place
  <2>1. PICK x, e \in Nat : x = start(p) /\ e = end(p) /\ x < e /\ e <= len /\ x \in Nat
    BY <1>3
  <2>2. Len(blocks[p]) = e - x /\ e - x \in 1..e - x /\ x + (e - x) = e
    BY <1>2, <2>1
  <2>3. Last(blocks[p]) = t[e]
    <3>1. Last(blocks[p]) = blocks[p][e - x]
      BY <2>2 DEF Last
    <3>2. blocks[p][e - x] = t[start(p) + (e - x)]
      BY <1>2, <2>2
    <3> QED BY <2>1, <2>2, <3>1, <3>2
  <2>4. e \in 1..len
    BY <1>1, <2>1
  <2>5. IsRecord(t[e]) /\ UserKey(t[e]) \in Bytes /\ k \in Bytes
    BY <2>4, RecordShape, UserKeyBytes DEF Run
  <2>6. Late(blocks, lookup, p) <=> Less(UserKey(t[e]), k)
    BY <2>3, <2>5, LookupOrder DEF Late, lookup
  <2>7. Less(UserKey(t[e]), k) <=> e < place
    <3>1. e < place => Less(UserKey(t[e]), k)
      BY <2>4 DEF Bound
    <3>2. place <= e => AtMost(k, UserKey(t[e]))
      BY <2>4 DEF Bound
    <3> QED BY <1>1, <2>4, <2>5, <3>1, <3>2, KeyOrder
  <2> QED BY <2>1, <2>6, <2>7
<1>6. ASSUME NEW p \in 1..m, NEW q \in 1..m, p < q
      PROVE  end(p) < end(q)
  <2>1. end(p) = n * p
    BY <1>2, <1>3, <1>6
  <2>2. n * p <= n * (q - 1)
    <3>1. p \in Nat /\ q - 1 \in Nat /\ p <= q - 1
      BY <1>6
    <3> QED BY <1>1, <3>1
  <2>3. end(q) \in Nat /\ start(q) < end(q) /\ start(q) \in Nat /\ end(p) \in Nat
    BY <1>3
  <2>4. start(q) = n * (q - 1)
    BY DEF start
  <2>5. end(p) <= start(q)
    BY <2>1, <2>2, <2>4
  <2> QED BY <2>3, <2>5
<1>7. Monotone(blocks, lookup)
  <2> SUFFICES ASSUME NEW i \in 1..m, NEW j \in 1..m, i < j, Late(blocks, lookup, j)
      PROVE  Late(blocks, lookup, i)
    BY <1>2 DEF Monotone
  <2>1. end(i) < end(j) /\ end(j) < place /\ end(i) \in Nat /\ end(j) \in Nat
    BY <1>3, <1>5, <1>6
  <2>2. end(i) < place
    BY <1>1, <2>1
  <2> QED BY <1>5, <2>2
<1>8. Towards(blocks, lookup, b)
  BY <1>2, <1>4, <1>7, BisectLeads
<1> HIDE DEF b
<1>9. b \in 1..m
  BY <1>2, <1>8 DEF Towards
<1>10. start(b) < place
  <2>1. CASE b = 1
    <3>1. start(b) = 0
      BY <1>1, <2>1 DEF start
    <3> QED BY <1>1, <3>1
  <2>2. CASE b # 1
    <3>1. b - 1 \in 1..m /\ b - 1 < b /\ b - 1 < m
      BY <1>2, <1>9, <2>2
    <3>2. Late(blocks, lookup, b - 1)
      BY <1>2, <1>8, <3>1 DEF Towards
    <3>3. end(b - 1) < place /\ end(b - 1) = n * (b - 1)
      BY <1>3, <1>5, <3>1, <3>2
    <3> QED BY <3>3 DEF start
  <2> QED BY <2>1, <2>2
<1>11. b < m => place <= end(b)
  <2> SUFFICES ASSUME b < m PROVE place <= end(b)
    OBVIOUS
  <2>1. ~Late(blocks, lookup, b)
    BY <1>2, <1>8 DEF Towards
  <2>2. ~(end(b) < place) /\ end(b) \in Nat
    BY <1>3, <1>5, <1>9, <2>1
  <2> QED BY <1>1, <2>2
<1>12. b = m => end(b) = len
  BY <1>3, <1>9
<1>13. PICK from, to \in Nat :
         /\ from = start(b) /\ to = end(b) /\ from \in Nat /\ from < to /\ to <= from + n /\ to <= len
  BY <1>3, <1>9
<1>14. /\ IsSeq(blocks[b]) /\ Len(blocks[b]) = to - from
       /\ \A i \in 1..to - from : blocks[b][i] = t[from + i]
  BY <1>2, <1>9, <1>13
<1>15. Found(t, k, b, from, to)
  BY <1>13, <1>14 DEF Found, b, blocks, lookup, start
<1>16. (place <= len => place <= to) /\ (place > len => to = len)
  <2>1. CASE b < m
    <3>1. place <= to
      BY <1>11, <1>13, <2>1
    <3> QED BY <1>1, <1>13, <3>1
  <2>2. CASE b = m
    BY <1>12, <1>13, <2>2
  <2> QED BY <1>2, <1>9, <2>1, <2>2
<1> QED BY <1>10, <1>13, <1>15, <1>16

\* SSTable::Get finds the first record of k in the table, if there is one.
LEMMA TableGetFinds ==
  ASSUME KeysStandApart, NEW t, Run(t), NEW k \in UserKeys, NEW place, Bound(t, k, place)
  PROVE  TableGet(t, k) = IF place <= Len(t) /\ UserKey(t[place]) = k THEN {t[place].value} ELSE {}
<1>1. Len(t) \in Nat /\ IsSeq(t) /\ place \in 1..Len(t) + 1
  BY Shape DEF Run, Bound
<1>2. CASE t = <<>>
  <2>1. Len(t) = 0
    BY <1>2, EmptyIsSeq
  <2>2. ~(place <= Len(t))
    BY <1>1, <2>1
  <2> QED BY <1>2, <2>2 DEF TableGet
<1>3. CASE t # <<>>
  <2>1. Len(t) > 0
    <3>1. CASE Len(t) = 0
      <4>1. t = <<>>
        BY <1>1, <3>1, EmptyIsSeq, SameSeq
      <4> QED BY <1>3, <4>1
    <3> QED BY <1>1, <3>1
  <2>2. PICK b, from, to : /\ Found(t, k, b, from, to) /\ from < place
                           /\ place <= Len(t) => place <= to
                           /\ place > Len(t) => to = Len(t)
    BY <2>1, FoundBlock
  <2> DEFINE block == Blocks(t)[b]
             stops == {i \in DOMAIN block : /\ AtMost(MakeLookupKey(k), block[i].key)
                                            /\ AtMost(k, UserKey(block[i]))}
  <2>3. /\ from \in Nat /\ to \in Nat /\ from < to /\ to <= Len(t)
        /\ IsSeq(block) /\ Len(block) = to - from
        /\ \A i \in 1..to - from : block[i] = t[from + i]
    BY <2>2 DEF Found
  <2>4. TableGet(t, k) = BlockSearch(block, k)
    BY <1>3, <2>2 DEF TableGet, Found
  <2>5. BlockSearch(block, k) = {block[i].value : i \in {Min(stops \cup {Len(block)})}
                                                   \cap {j \in stops : UserKey(block[j]) = k}}
    BY DEF BlockSearch
  <2> HIDE DEF block
  <2>6. DOMAIN block = 1..to - from
    BY <2>3, Shape
  <2>7. ASSUME NEW i \in 1..to - from
        PROVE  i \in stops <=> place <= from + i
    <3>1. from + i \in 1..Len(t)
      BY <1>1, <2>3
    <3>2. IsRecord(t[from + i]) /\ UserKey(t[from + i]) \in Bytes /\ k \in Bytes
      BY <3>1, RecordShape, UserKeyBytes DEF Run
    <3>3. i \in stops <=> AtMost(k, UserKey(t[from + i]))
      BY <2>3, <2>6, <3>2, LookupOrder
    <3>4. /\ from + i < place => Less(UserKey(t[from + i]), k)
          /\ place <= from + i => AtMost(k, UserKey(t[from + i]))
      BY <3>1 DEF Bound
    <3> QED BY <1>1, <3>1, <3>2, <3>3, <3>4, KeyOrder
  <2>8. stops \subseteq 1..to - from
    BY <2>6
  <2> HIDE DEF stops
  <2>9. CASE place <= Len(t)
    <3>1. PICK m \in 1..to - from : from + m = place
      <4>1. place - from \in 1..to - from /\ from + (place - from) = place
        BY <1>1, <2>2, <2>3, <2>9
      <4> QED BY <4>1
    <3>2. m \in stops /\ \A i \in stops \cup {Len(block)} : m <= i
      <4>1. m \in stops
        BY <2>3, <2>7, <3>1
      <4>2. ASSUME NEW i \in stops PROVE m <= i
        <5>1. i \in 1..to - from /\ place <= from + i
          BY <2>7, <2>8
        <5> QED BY <2>3, <3>1, <5>1
      <4>3. m <= Len(block)
        BY <2>3, <3>1
      <4> QED BY <4>1, <4>2, <4>3
    <3>3. Min(stops \cup {Len(block)}) = m
      <4>1. stops \cup {Len(block)} \in SUBSET Nat
        BY <2>3, <2>8
      <4> QED BY <3>2, <4>1, LeastIsMin
    <3>4. block[m] = t[place]
      BY <2>3, <3>1
    <3>5. CASE UserKey(t[place]) = k
      BY <2>4, <2>5, <2>9, <3>2, <3>3, <3>4, <3>5
    <3>6. CASE UserKey(t[place]) # k
      BY <2>4, <2>5, <2>9, <3>2, <3>3, <3>4, <3>6
    <3> QED BY <3>5, <3>6
  <2>10. CASE place > Len(t)
    <3>1. stops = {}
      <4> SUFFICES ASSUME NEW i \in stops PROVE FALSE
        OBVIOUS
      <4>1. i \in 1..to - from /\ place <= from + i
        BY <2>7, <2>8
      <4> QED BY <1>1, <2>3, <2>10, <4>1
    <3> QED BY <1>1, <2>4, <2>5, <2>10, <3>1
  <2> QED BY <1>1, <2>9, <2>10
<1> QED BY <1>2, <1>3

\* SSTableIterator::Seek goes to the first record that is not below k.
LEMMA TableSeekFinds ==
  ASSUME KeysStandApart, NEW t, Run(t), NEW k \in UserKeys, NEW place, Bound(t, k, place)
  PROVE  TableSeek(t, k) = place
<1>1. Len(t) \in Nat /\ IsSeq(t) /\ place \in 1..Len(t) + 1
  BY Shape DEF Run, Bound
<1>2. CASE t = <<>>
  <2>1. Len(t) = 0
    BY <1>2, EmptyIsSeq
  <2>2. place = 1
    BY <1>1, <2>1
  <2> QED BY <1>2, <2>2 DEF TableSeek
<1>3. CASE t # <<>>
  <2>1. Len(t) > 0
    <3>1. CASE Len(t) = 0
      <4>1. t = <<>>
        BY <1>1, <3>1, EmptyIsSeq, SameSeq
      <4> QED BY <1>3, <4>1
    <3> QED BY <1>1, <3>1
  <2>2. PICK b, from, to : /\ Found(t, k, b, from, to) /\ from < place
                           /\ place <= Len(t) => place <= to
                           /\ place > Len(t) => to = Len(t)
    BY <2>1, FoundBlock
  <2>3. /\ from \in Nat /\ to \in Nat /\ from < to /\ to <= from + BlockEntries /\ to <= Len(t)
        /\ b = IndexSearch(Blocks(t), MakeLookupKey(k)) /\ from = BlockEntries * (b - 1)
        /\ BlockEntries \in Nat
    BY <2>2, VersionsAssumption DEF Found
  <2> DEFINE S == {i \in from + 1..Len(t) : \/ i >= from + 1 + BlockEntries
                                            \/ AtMost(MakeLookupKey(k), t[i].key)} \cup {Len(t) + 1}
  <2>4. TableSeek(t, k) = Min(S)
    BY <1>3, <2>3 DEF TableSeek
  <2>5. ASSUME NEW i \in from + 1..Len(t)
        PROVE  AtMost(MakeLookupKey(k), t[i].key) <=> place <= i
    <3>1. i \in 1..Len(t)
      BY <1>1, <2>3
    <3>2. IsRecord(t[i]) /\ UserKey(t[i]) \in Bytes /\ k \in Bytes
      BY <3>1, RecordShape, UserKeyBytes DEF Run
    <3>3. AtMost(MakeLookupKey(k), t[i].key) <=> AtMost(k, UserKey(t[i]))
      BY <3>2, LookupOrder
    <3>4. /\ i < place => Less(UserKey(t[i]), k)
          /\ place <= i => AtMost(k, UserKey(t[i]))
      BY <3>1 DEF Bound
    <3> QED BY <1>1, <3>1, <3>2, <3>3, <3>4, KeyOrder
  <2>6. S \in SUBSET Nat
    BY <1>1, <2>3
  <2>7. place \in S
    <3>1. CASE place <= Len(t)
      <4>1. place \in from + 1..Len(t)
        BY <1>1, <2>2, <2>3, <3>1
      <4>2. AtMost(MakeLookupKey(k), t[place].key)
        BY <1>1, <2>5, <4>1
      <4> QED BY <4>1, <4>2
    <3>2. CASE place > Len(t)
      BY <1>1, <3>2
    <3> QED BY <1>1, <3>1, <3>2
  <2>8. ASSUME NEW i \in S PROVE place <= i
    <3>1. CASE i = Len(t) + 1
      BY <1>1, <3>1
    <3>2. CASE i \in from + 1..Len(t) /\ AtMost(MakeLookupKey(k), t[i].key)
      BY <2>5, <3>2
    <3>3. CASE i \in from + 1..Len(t) /\ i >= from + 1 + BlockEntries
      <4>1. to < i /\ i <= Len(t)
        BY <1>1, <2>3, <3>3
      <4>2. place <= to
        BY <1>1, <2>2, <2>3, <4>1
      <4> QED BY <1>1, <2>3, <4>1, <4>2
    <3> QED BY <3>1, <3>2, <3>3
  <2> HIDE DEF S
  <2> QED BY <2>4, <2>6, <2>7, <2>8, LeastIsMin
<1> QED BY <1>2, <1>3

-----------------------------------------------------------------------------
(* Chosen elements *)

ChosenStep(s, chosen, m, g) ==
  [n \in 0..m |-> IF n = 0 THEN <<>>
                  ELSE IF n \in chosen THEN Append(g[n - 1], s[n])
                  ELSE g[n - 1]]

LEMMA ChosenExists ==
  ASSUME NEW s, NEW chosen, NEW m \in Nat
  PROVE  \E g : g = ChosenStep(s, chosen, m, g)
<1> DEFINE solved == {k \in Nat : \E g : g = ChosenStep(s, chosen, k, g)}
<1>1. 0 \in solved
  <2> DEFINE g == [n \in 0..0 |-> <<>>]
  <2>1. g = ChosenStep(s, chosen, 0, g)
    BY DEF ChosenStep
  <2> HIDE DEF g
  <2> QED BY <2>1
<1>2. ASSUME NEW k \in solved PROVE k + 1 \in solved
  <2>1. PICK g : g = ChosenStep(s, chosen, k, g)
    OBVIOUS
  <2> DEFINE h == ChosenStep(s, chosen, k + 1, g)
  <2>2. ASSUME NEW n \in 0..k + 1, n # 0 PROVE h[n - 1] = g[n - 1]
    <3>1. n - 1 \in 0..k /\ n - 1 \in 0..k + 1
      BY <2>2
    <3>2. g[n - 1] = ChosenStep(s, chosen, k, g)[n - 1]
      BY <2>1
    <3> QED BY <3>1, <3>2 DEF ChosenStep
  <2>3. h = ChosenStep(s, chosen, k + 1, h)
    <3>1. h = ChosenStep(s, chosen, k + 1, g)
      OBVIOUS
    <3> HIDE DEF h
    <3> QED BY <2>2, <3>1 DEF ChosenStep
  <2> HIDE DEF h
  <2> QED BY <2>3
<1>3. solved = Nat
  <2>1. solved \in SUBSET Nat
    OBVIOUS
  <2> HIDE DEF solved
  <2> QED BY <1>1, <1>2, <2>1, AllNumbers
<1> QED BY <1>3

\* f tells from where in s, up to n, the elements of t come.
Picks(s, chosen, n, t, f) ==
  /\ IsSeq(t) /\ f \in [1..Len(t) -> 1..n]
  /\ \A i \in 1..Len(t) : f[i] \in chosen /\ t[i] = s[f[i]]
  /\ \A i, j \in 1..Len(t) : i < j => f[i] < f[j]
  /\ \A p \in 1..n : p \in chosen => \E i \in 1..Len(t) : f[i] = p

LEMMA ChosenFacts ==
  ASSUME NEW s, NEW chosen, IsSeq(s)
  PROVE  \E f : Picks(s, chosen, Len(s), Chosen(s, chosen), f)
<1> DEFINE u == CHOOSE g : g = ChosenStep(s, chosen, Len(s), g)
<1>0. Len(s) \in Nat
  BY Shape
<1>1. u = ChosenStep(s, chosen, Len(s), u)
  BY <1>0, ChosenExists
<1>2. Chosen(s, chosen) = u[Len(s)]
  BY DEF Chosen, ChosenStep
<1> HIDE DEF u
<1>3. \A n \in 0..Len(s) : u[n] = IF n = 0 THEN <<>>
                                  ELSE IF n \in chosen THEN Append(u[n - 1], s[n])
                                  ELSE u[n - 1]
  BY <1>1 DEF ChosenStep
<1> DEFINE right == {n \in Nat : n <= Len(s) => \E f : Picks(s, chosen, n, u[n], f)}
<1>4. 0 \in right
  <2>1. u[0] = <<>> /\ IsSeq(<<>>) /\ Len(<<>>) = 0
    BY <1>0, <1>3, EmptyIsSeq
  <2>2. PICK f : f = [i \in 1..0 |-> 0]
    OBVIOUS
  <2>3. f \in [1..0 -> 1..0]
    BY <2>2
  <2>4. Picks(s, chosen, 0, u[0], f)
    BY <2>1, <2>3 DEF Picks
  <2> QED BY <2>4
<1>5. ASSUME NEW n \in right PROVE n + 1 \in right
  <2>1. SUFFICES ASSUME n + 1 <= Len(s) PROVE \E f : Picks(s, chosen, n + 1, u[n + 1], f)
    OBVIOUS
  <2>2. n \in Nat /\ n + 1 \in 0..Len(s) /\ n + 1 # 0 /\ n + 1 - 1 = n /\ n <= Len(s)
    BY <1>0, <2>1
  <2>3. PICK f : Picks(s, chosen, n, u[n], f)
    BY <2>2
  <2>4. PICK l \in Nat : l = Len(u[n])
    BY <2>3, Shape DEF Picks
  <2>5. CASE n + 1 \in chosen
    <3>1. PICK t : t = Append(u[n], s[n + 1])
      OBVIOUS
    <3>2. u[n + 1] = t
      <4>1. u[n + 1] = Append(u[n + 1 - 1], s[n + 1])
        <5>1. PICK m \in 0..Len(s) : m = n + 1 /\ m # 0 /\ m \in chosen
          BY <2>2, <2>5
        <5>2. u[m] = Append(u[m - 1], s[m])
          BY <1>3, <5>1
        <5> QED BY <5>1, <5>2
      <4> QED BY <2>2, <3>1, <4>1
    <3>3. /\ IsSeq(t) /\ Len(t) = l + 1
          /\ \A i \in 1..l : t[i] = u[n][i]
          /\ t[l + 1] = s[n + 1]
      BY <2>3, <2>4, <3>1, Appended DEF Picks
    <3>4. PICK g : g = [i \in 1..l + 1 |-> IF i <= l THEN f[i] ELSE n + 1]
      OBVIOUS
    <3>5. \A i \in 1..l : g[i] = f[i] /\ f[i] \in 1..n /\ f[i] \in chosen /\ u[n][i] = s[f[i]]
      <4> SUFFICES ASSUME NEW i \in 1..l
          PROVE  g[i] = f[i] /\ f[i] \in 1..n /\ f[i] \in chosen /\ u[n][i] = s[f[i]]
        OBVIOUS
      <4>1. i \in 1..l + 1 /\ i <= l
        OBVIOUS
      <4>2. g[i] = f[i]
        BY <3>4, <4>1
      <4>3. f \in [1..l -> 1..n] /\ f[i] \in chosen /\ u[n][i] = s[f[i]]
        BY <2>3, <2>4 DEF Picks
      <4> QED BY <4>2, <4>3
    <3>6. g[l + 1] = n + 1
      BY <3>4
    <3>7. g \in [1..l + 1 -> 1..n + 1]
      <4> SUFFICES ASSUME NEW i \in 1..l + 1
          PROVE  (IF i <= l THEN f[i] ELSE n + 1) \in 1..n + 1
        BY <3>4
      <4>1. CASE i <= l
        <5>1. i \in 1..l
          BY <4>1
        <5>2. f[i] \in 1..n
          BY <3>5, <5>1
        <5> QED BY <2>2, <4>1, <5>2
      <4>2. CASE ~(i <= l)
        BY <2>2, <4>2
      <4> QED BY <4>1, <4>2
    <3>8. \A i \in 1..l + 1 : g[i] \in chosen /\ t[i] = s[g[i]]
      <4> SUFFICES ASSUME NEW i \in 1..l + 1 PROVE g[i] \in chosen /\ t[i] = s[g[i]]
        OBVIOUS
      <4>1. CASE i \in 1..l
        BY <3>3, <3>5, <4>1
      <4>2. CASE i = l + 1
        BY <2>5, <3>3, <3>6, <4>2
      <4> QED BY <4>1, <4>2
    <3>9. \A i, j \in 1..l + 1 : i < j => g[i] < g[j]
      <4> SUFFICES ASSUME NEW i \in 1..l + 1, NEW j \in 1..l + 1, i < j PROVE g[i] < g[j]
        OBVIOUS
      <4>1. i \in 1..l
        OBVIOUS
      <4>2. CASE j \in 1..l
        <5>1. f[i] < f[j]
          BY <2>3, <2>4, <4>1, <4>2 DEF Picks
        <5> QED BY <3>5, <4>1, <4>2, <5>1
      <4>3. CASE j = l + 1
        BY <2>2, <3>5, <3>6, <4>1, <4>3
      <4> QED BY <4>2, <4>3
    <3>10. \A p \in 1..n + 1 : p \in chosen => \E i \in 1..l + 1 : g[i] = p
      <4> SUFFICES ASSUME NEW p \in 1..n + 1, p \in chosen PROVE \E i \in 1..l + 1 : g[i] = p
        OBVIOUS
      <4>1. CASE p \in 1..n
        <5>1. PICK i \in 1..l : f[i] = p
          BY <2>3, <2>4, <4>1 DEF Picks
        <5> QED BY <3>5, <5>1
      <4>2. CASE p = n + 1
        BY <3>6, <4>2
      <4> QED BY <2>2, <4>1, <4>2
    <3>11. Picks(s, chosen, n + 1, t, g)
      BY <3>3, <3>7, <3>8, <3>9, <3>10 DEF Picks
    <3> QED BY <3>2, <3>11
  <2>6. CASE n + 1 \notin chosen
    <3>1. u[n + 1] = u[n]
      BY <1>3, <2>2, <2>6
    <3>2. f \in [1..l -> 1..n + 1]
      BY <2>2, <2>3, <2>4 DEF Picks
    <3>3. \A p \in 1..n + 1 : p \in chosen => p \in 1..n
      BY <2>2, <2>6
    <3>4. Picks(s, chosen, n + 1, u[n], f)
      BY <2>3, <2>4, <3>2, <3>3 DEF Picks
    <3> QED BY <3>1, <3>4
  <2> QED BY <2>5, <2>6
<1>6. right = Nat
  <2>1. right \in SUBSET Nat
    OBVIOUS
  <2> HIDE DEF right
  <2> QED BY <1>4, <1>5, <2>1, AllNumbers
<1>7. \E f : Picks(s, chosen, Len(s), u[Len(s)], f)
  <2>1. Len(s) \in right
    BY <1>0, <1>6
  <2> QED BY <1>0, <2>1
<1> QED BY <1>2, <1>7

-----------------------------------------------------------------------------
(* The merge *)

YieldStep(its, pos, m, g) ==
  [n \in 0..m |-> IF n = 0 THEN [pos |-> pos, out |-> <<>>] ELSE Advance(its, g[n - 1])]

LEMMA YieldExists ==
  ASSUME NEW its, NEW pos, NEW m \in Nat
  PROVE  \E g : g = YieldStep(its, pos, m, g)
<1> DEFINE solved == {k \in Nat : \E g : g = YieldStep(its, pos, k, g)}
<1>1. 0 \in solved
  <2> DEFINE g == [n \in 0..0 |-> [pos |-> pos, out |-> <<>>]]
  <2>1. g = YieldStep(its, pos, 0, g)
    BY DEF YieldStep
  <2> HIDE DEF g
  <2> QED BY <2>1
<1>2. ASSUME NEW k \in solved PROVE k + 1 \in solved
  <2>1. PICK g : g = YieldStep(its, pos, k, g)
    OBVIOUS
  <2> DEFINE h == YieldStep(its, pos, k + 1, g)
  <2>2. ASSUME NEW n \in 0..k + 1, n # 0 PROVE h[n - 1] = g[n - 1]
    <3>1. n - 1 \in 0..k /\ n - 1 \in 0..k + 1
      BY <2>2
    <3>2. g[n - 1] = YieldStep(its, pos, k, g)[n - 1]
      BY <2>1
    <3> QED BY <3>1, <3>2 DEF YieldStep
  <2>3. h = YieldStep(its, pos, k + 1, h)
    <3>1. h = YieldStep(its, pos, k + 1, g)
      OBVIOUS
    <3> HIDE DEF h
    <3> QED BY <2>2, <3>1 DEF YieldStep
  <2> HIDE DEF h
  <2> QED BY <2>3
<1>3. solved = Nat
  <2>1. solved \in SUBSET Nat
    OBVIOUS
  <2> HIDE DEF solved
  <2> QED BY <1>1, <1>2, <2>1, AllNumbers
<1> QED BY <1>3

\* Each call of Next goes on from where the ones before it led.
LEMMA YieldSteps ==
  ASSUME NEW its, NEW pos
  PROVE  /\ Yield(its, pos, 0) = [pos |-> pos, out |-> <<>>]
         /\ \A n \in Nat : Yield(its, pos, n + 1) = Advance(its, Yield(its, pos, n))
<1> DEFINE acc(m) == CHOOSE g : g = YieldStep(its, pos, m, g)
<1>1. \A m \in Nat : acc(m) = YieldStep(its, pos, m, acc(m))
  BY YieldExists
<1>2. \A m \in Nat : Yield(its, pos, m) = acc(m)[m]
  BY DEF Yield, YieldStep
<1> HIDE DEF acc
<1>3. ASSUME NEW m \in Nat, NEW n \in 0..m
      PROVE  acc(m)[n] = IF n = 0 THEN [pos |-> pos, out |-> <<>>]
                         ELSE Advance(its, acc(m)[n - 1])
  <2>1. PICK g : g = acc(m)
    OBVIOUS
  <2>2. g = YieldStep(its, pos, m, g)
    BY <1>1, <2>1
  <2>3. g[n] = IF n = 0 THEN [pos |-> pos, out |-> <<>>] ELSE Advance(its, g[n - 1])
    BY <2>2 DEF YieldStep
  <2> QED BY <2>1, <2>3
<1>4. ASSUME NEW m \in Nat PROVE acc(m + 1)[m] = acc(m)[m]
  <2> DEFINE same == {n \in Nat : n <= m => acc(m + 1)[n] = acc(m)[n]}
  <2>1. 0 \in same
    BY <1>3
  <2>2. ASSUME NEW n \in same PROVE n + 1 \in same
    <3>1. SUFFICES ASSUME n + 1 <= m PROVE acc(m + 1)[n + 1] = acc(m)[n + 1]
      OBVIOUS
    <3>2. /\ n + 1 \in 0..m /\ n + 1 \in 0..m + 1 /\ n + 1 # 0 /\ n + 1 - 1 = n /\ n <= m
          /\ m + 1 \in Nat
      BY <3>1
    <3>3. acc(m + 1)[n] = acc(m)[n]
      BY <3>2
    <3>4. /\ acc(m + 1)[n + 1] = Advance(its, acc(m + 1)[n])
          /\ acc(m)[n + 1] = Advance(its, acc(m)[n])
      BY <1>3, <3>2
    <3> QED BY <3>3, <3>4
  <2>3. same = Nat
    <3>1. same \in SUBSET Nat
      OBVIOUS
    <3> HIDE DEF same
    <3> QED BY <2>1, <2>2, <3>1, AllNumbers
  <2> QED BY <2>3
<1>5. ASSUME NEW n \in Nat PROVE Yield(its, pos, n + 1) = Advance(its, Yield(its, pos, n))
  <2>1. n + 1 \in Nat /\ n + 1 \in 0..n + 1 /\ n + 1 # 0 /\ n + 1 - 1 = n
    OBVIOUS
  <2>2. acc(n + 1)[n + 1] = Advance(its, acc(n + 1)[n])
    BY <1>3, <2>1
  <2> QED BY <1>2, <1>4, <2>1, <2>2
<1>6. Yield(its, pos, 0) = [pos |-> pos, out |-> <<>>]
  <2>1. 0 \in 0..0
    OBVIOUS
  <2> QED BY <1>2, <1>3, <2>1
<1> QED BY <1>5, <1>6

\* Sequences of records, each in the order of its user keys.
Runs(its) == IsSeq(its) /\ \A c \in 1..Len(its) : Run(its[c])

LEMMA PlacesFacts ==
  ASSUME NEW its, Runs(its)
  PROVE  /\ \A p : p \in Places(its) <=>
                     \E c \in 1..Len(its) : \E i \in 1..Len(its[c]) : p = <<c, i>>
         /\ IsFiniteSet(Places(its)) /\ Records(its) \in Nat
<1>1. Len(its) \in Nat /\ DOMAIN its = 1..Len(its)
  BY Shape DEF Runs
<1>2. \A c \in 1..Len(its) : Len(its[c]) \in Nat /\ DOMAIN its[c] = 1..Len(its[c])
  BY Shape DEF Runs, Run
<1>3. \A p : p \in Places(its) <=> \E c \in 1..Len(its) : \E i \in 1..Len(its[c]) : p = <<c, i>>
  BY <1>1, <1>2 DEF Places
<1>4. IsFiniteSet(Places(its))
  <2> DEFINE Part(c) == {c} \X DOMAIN its[c]
             Parts == {Part(c) : c \in 1..Len(its)}
  <2>1. \A P \in Parts : IsFiniteSet(P)
    <3> SUFFICES ASSUME NEW c \in 1..Len(its) PROVE IsFiniteSet(Part(c))
      OBVIOUS
    <3>1. IsFiniteSet({c})
      BY FS_Singleton
    <3>2. IsFiniteSet(DOMAIN its[c])
      <4>1. DOMAIN its[c] = 1..Len(its[c]) /\ Len(its[c]) \in Int /\ 1 \in Int
        BY <1>2
      <4>2. IsFiniteSet(1..Len(its[c]))
        BY <4>1, FS_Interval
      <4> QED BY <4>1, <4>2
    <3> QED BY <3>1, <3>2, FS_Product
  <2>2. IsFiniteSet(Parts)
    <3>1. IsFiniteSet(1..Len(its))
      BY <1>1, FS_Interval
    <3>2. PICK f : f = [c \in 1..Len(its) |-> Part(c)]
      OBVIOUS
    <3>3. f \in Surjection(1..Len(its), Parts)
      <4>1. f \in [1..Len(its) -> Parts]
        BY <3>2
      <4>2. \A P \in Parts : \E c \in 1..Len(its) : f[c] = P
        BY <3>2
      <4> HIDE DEF Parts
      <4> QED BY <4>1, <4>2 DEF Surjection
    <3> HIDE DEF Parts
    <3> QED BY <3>1, <3>3, FS_Surjection
  <2>3. Places(its) = UNION Parts
    BY <1>1 DEF Places
  <2> HIDE DEF Parts
  <2> QED BY <2>1, <2>2, <2>3, FS_UNION
<1> QED BY <1>3, <1>4, FS_CardinalityType DEF Records

LEMMA RecordAtFacts ==
  ASSUME NEW its, NEW p, Runs(its), p \in Places(its)
  PROVE  /\ p[1] \in 1..Len(its) /\ p[2] \in 1..Len(its[p[1]]) /\ p = <<p[1], p[2]>>
         /\ RecordAt(its, p) = its[p[1]][p[2]] /\ IsRecord(RecordAt(its, p))
         /\ UserKey(RecordAt(its, p)) \in UserKeys /\ UserKey(RecordAt(its, p)) \in Bytes
         /\ RecordAt(its, p).key \in Bytes
<1>0. PICK c \in 1..Len(its) : \E i \in 1..Len(its[c]) : p = <<c, i>>
  BY PlacesFacts
<1>1. PICK i \in 1..Len(its[c]) : p = <<c, i>>
  BY <1>0
<1>2. p[1] = c /\ p[2] = i
  BY <1>1
<1>3. IsRecord(its[c][i])
  BY DEF Runs, Run
<1> QED BY <1>1, <1>2, <1>3, RecordShape DEF RecordAt

Live(its, pos) == {i \in DOMAIN its : pos[i] <= Len(its[i])}

\* The children's positions, each at a record or at the end.
Positions(its, pos) ==
  pos = [c \in 1..Len(its) |-> pos[c]] /\ \A c \in 1..Len(its) : pos[c] \in 1..Len(its[c]) + 1

Top(its, pos) == CHOOSE i \in Live(its, pos) : \A j \in Live(its, pos) \ {i} : OnTop(its, pos, i, j)

LEMMA LiveFacts ==
  ASSUME NEW its, NEW pos, NEW i, Runs(its), Positions(its, pos), i \in Live(its, pos)
  PROVE  /\ i \in 1..Len(its) /\ pos[i] \in 1..Len(its[i]) /\ i \in Nat
         /\ IsRecord(its[i][pos[i]]) /\ its[i][pos[i]].key \in Bytes
<1>1. i \in 1..Len(its) /\ Len(its) \in Nat
  BY Shape DEF Live, Runs
<1>2. Len(its[i]) \in Nat /\ pos[i] \in 1..Len(its[i]) + 1 /\ pos[i] <= Len(its[i])
  BY <1>1, Shape DEF Live, Runs, Run, Positions
<1>3. pos[i] \in 1..Len(its[i])
  BY <1>2
<1> QED BY <1>1, <1>3, RecordShape DEF Runs, Run

\* One child is on top.
LEMMA TopExists ==
  ASSUME NEW its, NEW pos, Runs(its), Positions(its, pos), Live(its, pos) # {}
  PROVE  /\ Top(its, pos) \in Live(its, pos)
         /\ \A j \in Live(its, pos) : j # Top(its, pos) => OnTop(its, pos, Top(its, pos), j)
<1> DEFINE live == Live(its, pos)
           least(n, i) == i \in live /\ \A j \in live : j <= n /\ j # i => OnTop(its, pos, i, j)
           found == {n \in Nat : (\E j \in live : j <= n) => \E i : i <= n /\ least(n, i)}
<1>0. Len(its) \in Nat /\ \A i \in live : i \in 1..Len(its) /\ i \in Nat /\ its[i][pos[i]].key \in Bytes
  BY Shape, LiveFacts DEF Runs
<1> HIDE DEF live
<1>1. 0 \in found
  <2>1. ~\E j \in live : j <= 0
    BY <1>0
  <2> QED BY <2>1
<1>2. ASSUME NEW n \in found PROVE n + 1 \in found
  <2>1. SUFFICES ASSUME \E j \in live : j <= n + 1 PROVE \E i : i <= n + 1 /\ least(n + 1, i)
    OBVIOUS
  <2>2. CASE n + 1 \notin live
    <3>1. \A j \in live : j <= n + 1 => j <= n
      BY <1>0, <2>2
    <3>2. PICK i : i <= n /\ least(n, i)
      BY <2>1, <3>1
    <3>3. i \in Nat
      BY <1>0, <3>2
    <3>4. i <= n + 1 /\ least(n + 1, i)
      BY <3>1, <3>2, <3>3
    <3> QED BY <3>4
  <2>3. CASE n + 1 \in live /\ ~\E j \in live : j <= n
    <3>1. \A j \in live : j <= n + 1 => j = n + 1
      BY <1>0, <2>3
    <3>2. least(n + 1, n + 1)
      BY <2>3, <3>1
    <3> QED BY <3>2
  <2>4. CASE n + 1 \in live /\ \E j \in live : j <= n
    <3>1. PICK i : i <= n /\ least(n, i)
      BY <2>4
    <3> DEFINE key(j) == its[j][pos[j]].key
    <3>2. i \in Nat /\ i \in live /\ key(i) \in Bytes /\ key(n + 1) \in Bytes
      BY <1>0, <2>4, <3>1
    <3>3. CASE Less(key(n + 1), key(i))
      <4>1. ASSUME NEW j \in live, j <= n + 1, j # n + 1 PROVE OnTop(its, pos, n + 1, j)
        <5>1. j <= n /\ key(j) \in Bytes
          BY <1>0, <4>1
        <5>2. j = i \/ OnTop(its, pos, i, j)
          BY <3>1, <5>1
        <5>3. AtMost(key(i), key(j))
          BY <5>2 DEF OnTop, AtMost
        <5>4. Less(key(n + 1), key(j))
          BY <3>2, <3>3, <5>1, <5>3, KeyOrder
        <5> QED BY <5>4 DEF OnTop
      <4> QED BY <2>4, <4>1
    <3>4. CASE ~Less(key(n + 1), key(i))
      <4>1. AtMost(key(i), key(n + 1))
        BY <3>2, <3>4, KeyOrder
      <4>2. OnTop(its, pos, i, n + 1)
        BY <3>1, <3>2, <4>1 DEF OnTop, AtMost
      <4>3. ASSUME NEW j \in live, j <= n + 1, j # i PROVE OnTop(its, pos, i, j)
        <5>1. j <= n \/ j = n + 1
          BY <1>0, <4>3
        <5> QED BY <3>1, <4>2, <4>3, <5>1
      <4>4. i <= n + 1 /\ least(n + 1, i)
        BY <3>1, <3>2, <4>3
      <4> QED BY <4>4
    <3> QED BY <3>3, <3>4
  <2> QED BY <2>2, <2>3, <2>4
<1>3. found = Nat
  <2>1. found \in SUBSET Nat
    OBVIOUS
  <2> HIDE DEF found
  <2> QED BY <1>1, <1>2, <2>1, AllNumbers
<1>4. \E j \in live : j <= Len(its)
  <2>1. PICK j \in live : TRUE
    BY DEF live
  <2> QED BY <1>0, <2>1
<1>5. PICK i : least(Len(its), i)
  <2>1. Len(its) \in found
    BY <1>0, <1>3
  <2> QED BY <1>4, <2>1
<1>6. \A j \in live \ {i} : OnTop(its, pos, i, j)
  BY <1>0, <1>5
<1>7. i \in live
  BY <1>5
<1> QED BY <1>6, <1>7 DEF Top, live

\* What Advance yields and where it leads.
LEMMA AdvanceFacts ==
  ASSUME NEW its, NEW acc, Live(its, acc.pos) # {}, Runs(its), Positions(its, acc.pos), IsSeq(acc.out)
  PROVE  LET top == Top(its, acc.pos)
             next == Advance(its, acc)
         IN  /\ top \in Live(its, acc.pos)
             /\ \A j \in Live(its, acc.pos) :
                  AtMost(its[top][acc.pos[top]].key, its[j][acc.pos[j]].key)
             /\ Positions(its, next.pos)
             /\ next.pos[top] = acc.pos[top] + 1
             /\ \A c \in 1..Len(its) : c # top => next.pos[c] = acc.pos[c]
             /\ IsSeq(next.out) /\ Len(next.out) = Len(acc.out) + 1
             /\ \A i \in 1..Len(acc.out) : next.out[i] = acc.out[i]
             /\ next.out[Len(acc.out) + 1] = its[top][acc.pos[top]]
<1> DEFINE top == Top(its, acc.pos)
           next == Advance(its, acc)
           pos == acc.pos
<1>1. top \in Live(its, pos) /\ \A j \in Live(its, pos) : j # top => OnTop(its, pos, top, j)
  BY TopExists
<1>2. next = [pos |-> [pos EXCEPT ![top] = @ + 1],
              out |-> Append(acc.out, its[top][pos[top]])]
  BY DEF Advance, Live, Top
<1> HIDE DEF top
<1>3. \A j \in Live(its, pos) : AtMost(its[top][pos[top]].key, its[j][pos[j]].key)
  BY <1>1 DEF OnTop, AtMost
<1>4. next.pos = [pos EXCEPT ![top] = @ + 1] /\ next.out = Append(acc.out, its[top][pos[top]])
  BY <1>2
<1> HIDE DEF next
<1>5. top \in 1..Len(its) /\ pos[top] \in 1..Len(its[top])
  BY <1>1, LiveFacts
<1>6. DOMAIN pos = 1..Len(its) /\ pos = [c \in 1..Len(its) |-> pos[c]]
  BY DEF Positions
<1>7. next.pos[top] = pos[top] + 1 /\ \A c \in 1..Len(its) : c # top => next.pos[c] = pos[c]
  BY <1>4, <1>5, <1>6
<1>8. Positions(its, next.pos)
  <2>1. next.pos = [c \in 1..Len(its) |-> next.pos[c]]
    BY <1>4, <1>6
  <2>2. ASSUME NEW c \in 1..Len(its) PROVE next.pos[c] \in 1..Len(its[c]) + 1
    <3>1. Len(its[c]) \in Nat
      BY Shape DEF Runs, Run
    <3>2. CASE c = top
      BY <1>5, <1>7, <3>1, <3>2
    <3>3. CASE c # top
      BY <1>7, <3>3 DEF Positions
    <3> QED BY <3>2, <3>3
  <2> QED BY <2>1, <2>2 DEF Positions
<1>9. /\ IsSeq(next.out) /\ Len(next.out) = Len(acc.out) + 1
      /\ \A i \in 1..Len(acc.out) : next.out[i] = acc.out[i]
      /\ next.out[Len(acc.out) + 1] = its[top][pos[top]]
  BY <1>4, Appended
<1> QED BY <1>1, <1>3, <1>7, <1>8, <1>9 DEF top, next

\* Where the children are after n calls of Next, and the place of the record that
\* the i-th call yields.
After(its, n) == Yield(its, FromFirst(its), n)
Turn(its, i) ==
  LET pos == After(its, i - 1).pos
  IN  <<Top(its, pos), pos[Top(its, pos)]>>

\* After n calls the records before the positions have been yielded, each of them
\* once, in the order of the user keys, and none of the others is before them.
Merged(its, n) ==
  LET pos == After(its, n).pos
      out == After(its, n).out
  IN  /\ Positions(its, pos) /\ IsSeq(out) /\ Len(out) = n
      /\ \A i \in 1..n : Turn(its, i) \in Places(its) /\ out[i] = RecordAt(its, Turn(its, i))
      /\ \A p \in Places(its) : p[2] < pos[p[1]] <=> \E i \in 1..n : Turn(its, i) = p
      /\ \A i, j \in 1..n : i # j => Turn(its, i) # Turn(its, j)
      /\ \A i, j \in 1..n : i <= j => AtMost(UserKey(out[i]), UserKey(out[j]))
      /\ \A i \in 1..n, p \in Places(its) :
           pos[p[1]] <= p[2] => AtMost(UserKey(out[i]), UserKey(RecordAt(its, p)))

LEMMA MergedFirst ==
  ASSUME NEW its, Runs(its)
  PROVE  Merged(its, 0)
<1>1. After(its, 0) = [pos |-> FromFirst(its), out |-> <<>>]
  BY YieldSteps DEF After
<1>2. PICK pos : pos = FromFirst(its)
  OBVIOUS
<1>3. After(its, 0).pos = pos /\ After(its, 0).out = <<>>
  BY <1>1, <1>2
<1>4. DOMAIN its = 1..Len(its) /\ \A c \in 1..Len(its) : Len(its[c]) \in Nat
  BY Shape DEF Runs, Run
<1>5. \A c \in 1..Len(its) : pos[c] = 1
  BY <1>2, <1>4 DEF FromFirst
<1>6. Positions(its, pos)
  <2>1. pos = [c \in 1..Len(its) |-> pos[c]]
    BY <1>2, <1>4 DEF FromFirst
  <2> QED BY <1>4, <1>5, <2>1 DEF Positions
<1>7. ASSUME NEW p \in Places(its) PROVE ~(p[2] < pos[p[1]])
  <2>1. p[1] \in 1..Len(its) /\ p[2] \in 1..Len(its[p[1]])
    BY RecordAtFacts
  <2> QED BY <1>4, <1>5, <2>1
<1> QED BY <1>3, <1>6, <1>7, EmptyIsSeq DEF Merged

\* Before everything has been yielded there is something on top.
LEMMA MergedLive ==
  ASSUME NEW its, NEW n \in Nat, Runs(its), Merged(its, n), n < Records(its)
  PROVE  Live(its, After(its, n).pos) # {}
<1> SUFFICES ASSUME Live(its, After(its, n).pos) = {} PROVE FALSE
  OBVIOUS
<1>1. PICK pos : pos = After(its, n).pos
  OBVIOUS
<1>2. ASSUME NEW p \in Places(its) PROVE \E i \in 1..n : Turn(its, i) = p
  <2>1. p[1] \in 1..Len(its) /\ p[2] \in 1..Len(its[p[1]])
    BY RecordAtFacts
  <2>2. DOMAIN its = 1..Len(its) /\ Len(its[p[1]]) \in Nat
    BY <2>1, Shape DEF Runs, Run
  <2>3. p[1] \notin Live(its, pos) /\ pos[p[1]] \in 1..Len(its[p[1]]) + 1
    BY <1>1, <2>1 DEF Merged, Positions
  <2>4. p[2] < pos[p[1]]
    BY <2>1, <2>2, <2>3 DEF Live
  <2> QED BY <1>1, <2>4 DEF Merged
<1>3. PICK f : f = [i \in 1..n |-> Turn(its, i)]
  OBVIOUS
<1>4. f \in Surjection(1..n, Places(its))
  <2>1. f \in [1..n -> Places(its)]
    BY <1>3 DEF Merged
  <2>2. \A p \in Places(its) : \E i \in 1..n : f[i] = p
    BY <1>2, <1>3
  <2> QED BY <2>1, <2>2 DEF Surjection
<1>5. Cardinality(Places(its)) <= n
  BY <1>4, FS_SurjCardinalityBound DEF ExistsSurjection
<1> QED BY <1>5, PlacesFacts DEF Records

LEMMA MergedNext ==
  ASSUME KeysStandApart, NEW its, NEW n \in Nat, Runs(its), Merged(its, n), n < Records(its)
  PROVE  Merged(its, n + 1)
<1>1. PICK acc, next : acc = After(its, n) /\ next = After(its, n + 1)
  OBVIOUS
<1>2. PICK pos, out : pos = acc.pos /\ out = acc.out
  OBVIOUS
<1>3. PICK pos2, out2 : pos2 = next.pos /\ out2 = next.out
  OBVIOUS
<1>4. PICK top : top = Top(its, pos)
  OBVIOUS
<1>5. /\ Positions(its, pos) /\ IsSeq(out) /\ Len(out) = n
      /\ \A i \in 1..n : Turn(its, i) \in Places(its) /\ out[i] = RecordAt(its, Turn(its, i))
      /\ \A p \in Places(its) : p[2] < pos[p[1]] <=> \E i \in 1..n : Turn(its, i) = p
      /\ \A i, j \in 1..n : i # j => Turn(its, i) # Turn(its, j)
      /\ \A i, j \in 1..n : i <= j => AtMost(UserKey(out[i]), UserKey(out[j]))
      /\ \A i \in 1..n, p \in Places(its) :
           pos[p[1]] <= p[2] => AtMost(UserKey(out[i]), UserKey(RecordAt(its, p)))
  BY <1>1, <1>2 DEF Merged
<1>6. Live(its, pos) # {}
  BY <1>1, <1>2, MergedLive
<1>7. next = Advance(its, acc)
  BY <1>1, YieldSteps DEF After
<1>8. /\ top \in Live(its, pos)
      /\ \A j \in Live(its, pos) : AtMost(its[top][pos[top]].key, its[j][pos[j]].key)
      /\ Positions(its, pos2)
      /\ pos2[top] = pos[top] + 1
      /\ \A c \in 1..Len(its) : c # top => pos2[c] = pos[c]
      /\ IsSeq(out2) /\ Len(out2) = n + 1
      /\ \A i \in 1..n : out2[i] = out[i]
      /\ out2[n + 1] = its[top][pos[top]]
  <2>1. Live(its, acc.pos) # {} /\ Positions(its, acc.pos) /\ IsSeq(acc.out)
    BY <1>2, <1>5, <1>6
  <2>2. /\ Top(its, acc.pos) \in Live(its, acc.pos)
        /\ \A j \in Live(its, acc.pos) :
             AtMost(its[Top(its, acc.pos)][acc.pos[Top(its, acc.pos)]].key, its[j][acc.pos[j]].key)
        /\ Positions(its, Advance(its, acc).pos)
        /\ Advance(its, acc).pos[Top(its, acc.pos)] = acc.pos[Top(its, acc.pos)] + 1
        /\ \A c \in 1..Len(its) : c # Top(its, acc.pos) => Advance(its, acc).pos[c] = acc.pos[c]
        /\ IsSeq(Advance(its, acc).out) /\ Len(Advance(its, acc).out) = Len(acc.out) + 1
        /\ \A i \in 1..Len(acc.out) : Advance(its, acc).out[i] = acc.out[i]
        /\ Advance(its, acc).out[Len(acc.out) + 1] = its[Top(its, acc.pos)][acc.pos[Top(its, acc.pos)]]
    BY <2>1, AdvanceFacts
  <2> QED BY <1>2, <1>3, <1>4, <1>5, <1>7, <2>2
<1>9. PICK q : q = <<top, pos[top]>>
  OBVIOUS
<1>10. Turn(its, n + 1) = q
  <2>1. n + 1 - 1 = n
    OBVIOUS
  <2> QED BY <1>1, <1>2, <1>4, <1>9, <2>1 DEF Turn
<1>11. top \in 1..Len(its) /\ pos[top] \in 1..Len(its[top])
  BY <1>5, <1>8, LiveFacts
<1>12. q \in Places(its) /\ q[1] = top /\ q[2] = pos[top] /\ RecordAt(its, q) = out2[n + 1]
  <2>1. q \in Places(its)
    BY <1>9, <1>11, PlacesFacts
  <2> QED BY <1>8, <1>9, <2>1 DEF RecordAt
<1>13. ASSUME NEW i \in 1..n + 1, i # n + 1 PROVE i \in 1..n
  BY <1>13
<1>14. ASSUME NEW i \in 1..n PROVE Turn(its, i) # q
  <2>1. ~(q[2] < pos[q[1]])
    BY <1>11, <1>12
  <2> QED BY <1>5, <1>12, <2>1
<1>15. \A i \in 1..n + 1 : Turn(its, i) \in Places(its) /\ out2[i] = RecordAt(its, Turn(its, i))
  BY <1>5, <1>8, <1>10, <1>12, <1>13
<1>16. \A i, j \in 1..n + 1 : i # j => Turn(its, i) # Turn(its, j)
  BY <1>5, <1>10, <1>13, <1>14
<1>17. ASSUME NEW p \in Places(its)
       PROVE  p[2] < pos2[p[1]] <=> \E i \in 1..n + 1 : Turn(its, i) = p
  <2>1. p[1] \in 1..Len(its) /\ p[2] \in 1..Len(its[p[1]]) /\ p = <<p[1], p[2]>>
    BY RecordAtFacts
  <2>2. (\E i \in 1..n + 1 : Turn(its, i) = p) <=> (p = q \/ \E i \in 1..n : Turn(its, i) = p)
    <3>1. n + 1 \in 1..n + 1 /\ \A i \in 1..n : i \in 1..n + 1
      OBVIOUS
    <3> QED BY <1>10, <1>13, <3>1
  <2>3. CASE p[1] = top
    <3>1. p[2] < pos2[p[1]] <=> (p[2] = pos[top] \/ p[2] < pos[p[1]])
      BY <1>8, <1>11, <2>1, <2>3
    <3>2. p[2] = pos[top] <=> p = q
      BY <1>9, <2>1, <2>3
    <3> QED BY <1>5, <2>2, <3>1, <3>2
  <2>4. CASE p[1] # top
    <3>1. p # q /\ pos2[p[1]] = pos[p[1]]
      BY <1>8, <1>12, <2>1, <2>4
    <3> QED BY <1>5, <2>2, <3>1
  <2> QED BY <2>3, <2>4
<1>18. ASSUME NEW p \in Places(its), pos[p[1]] <= p[2]
       PROVE  AtMost(UserKey(RecordAt(its, q)), UserKey(RecordAt(its, p)))
  <2>1. p[1] \in 1..Len(its) /\ p[2] \in 1..Len(its[p[1]]) /\ RecordAt(its, p) = its[p[1]][p[2]]
    BY RecordAtFacts
  <2>2. /\ DOMAIN its = 1..Len(its) /\ Len(its[p[1]]) \in Nat /\ Run(its[p[1]])
        /\ pos[p[1]] \in 1..Len(its[p[1]]) + 1
    BY <1>5, <2>1, Shape DEF Runs, Run, Positions
  <2>3. pos[p[1]] \in 1..Len(its[p[1]]) /\ p[1] \in Live(its, pos)
    BY <1>18, <2>1, <2>2 DEF Live
  <2> DEFINE r == its[p[1]][pos[p[1]]]
  <2>4. IsRecord(r) /\ IsRecord(RecordAt(its, q)) /\ IsRecord(RecordAt(its, p))
    BY <1>12, <2>2, <2>3, RecordAtFacts DEF Run
  <2>5. AtMost(RecordAt(its, q).key, r.key)
    BY <1>8, <1>12, <2>3
  <2>6. AtMost(UserKey(RecordAt(its, q)), UserKey(r))
    <3> HIDE DEF r
    <3> QED BY <2>4, <2>5, RecordOrder
  <2>7. AtMost(UserKey(r), UserKey(RecordAt(its, p)))
    BY <1>18, <2>1, <2>2, <2>3 DEF Run
  <2> HIDE DEF r
  <2> QED BY <2>4, <2>6, <2>7, RecordShape, KeyOrder
<1>19. ASSUME NEW p \in Places(its), pos2[p[1]] <= p[2] PROVE pos[p[1]] <= p[2]
  <2>1. p[1] \in 1..Len(its) /\ p[2] \in 1..Len(its[p[1]])
    BY RecordAtFacts
  <2>2. pos[p[1]] \in Nat
    BY <1>5, <2>1, Shape DEF Positions, Runs, Run
  <2>3. CASE p[1] = top
    <3>1. pos2[p[1]] = pos[p[1]] + 1
      <4>1. pos2[top] = pos[top] + 1
        BY <1>8
      <4> QED BY <2>3, <4>1
    <3> QED BY <1>19, <2>1, <2>2, <3>1
  <2>4. CASE p[1] # top
    <3>1. pos2[p[1]] = pos[p[1]]
      BY <1>8, <1>11, <2>1, <2>4
    <3> QED BY <1>19, <3>1
  <2> QED BY <2>3, <2>4
<1>20. \A i \in 1..n + 1, p \in Places(its) :
          pos2[p[1]] <= p[2] => AtMost(UserKey(out2[i]), UserKey(RecordAt(its, p)))
  <2> SUFFICES ASSUME NEW i \in 1..n + 1, NEW p \in Places(its), pos2[p[1]] <= p[2]
      PROVE  AtMost(UserKey(out2[i]), UserKey(RecordAt(its, p)))
    OBVIOUS
  <2>1. pos[p[1]] <= p[2]
    BY <1>19
  <2>2. CASE i \in 1..n
    BY <1>5, <1>8, <2>1, <2>2
  <2>3. CASE i = n + 1
    BY <1>12, <1>18, <2>1, <2>3
  <2> QED BY <1>13, <2>2, <2>3
<1>21. \A i, j \in 1..n + 1 : i <= j => AtMost(UserKey(out2[i]), UserKey(out2[j]))
  <2> SUFFICES ASSUME NEW i \in 1..n + 1, NEW j \in 1..n + 1, i <= j
      PROVE  AtMost(UserKey(out2[i]), UserKey(out2[j]))
    OBVIOUS
  <2>1. CASE j \in 1..n
    <3>1. i \in 1..n
      BY <2>1
    <3> QED BY <1>5, <1>8, <2>1, <3>1
  <2>2. CASE j = n + 1 /\ i \in 1..n
    <3>1. pos[q[1]] <= q[2]
      BY <1>11, <1>12
    <3>2. AtMost(UserKey(out[i]), UserKey(RecordAt(its, q)))
      BY <1>5, <1>12, <2>2, <3>1
    <3> QED BY <1>8, <1>12, <2>2, <3>2
  <2>3. CASE j = n + 1 /\ i = n + 1
    BY <2>3 DEF AtMost
  <2> QED BY <1>13, <2>1, <2>2, <2>3
<1> QED BY <1>1, <1>3, <1>8, <1>15, <1>16, <1>17, <1>20, <1>21 DEF Merged

LEMMA MergedAlways ==
  ASSUME KeysStandApart, NEW its, Runs(its)
  PROVE  \A n \in 0..Records(its) : Merged(its, n)
<1> DEFINE S == {n \in Nat : n <= Records(its) => Merged(its, n)}
<1>0. Records(its) \in Nat
  BY PlacesFacts
<1>1. 0 \in S
  BY MergedFirst
<1>2. ASSUME NEW n \in S PROVE n + 1 \in S
  <2>1. SUFFICES ASSUME n + 1 <= Records(its) PROVE Merged(its, n + 1)
    OBVIOUS
  <2>2. n \in Nat /\ n < Records(its) /\ Merged(its, n)
    BY <1>0, <2>1
  <2> QED BY <2>2, MergedNext
<1>3. S = Nat
  <2>1. S \in SUBSET Nat
    OBVIOUS
  <2> HIDE DEF S
  <2> QED BY <1>1, <1>2, <2>1, AllNumbers
<1> QED BY <1>0, <1>3

\* What an iterator yields is what its children have, in order; f tells from where.
MergeOf(its, all, f) ==
  /\ Run(all) /\ Len(all) = Records(its)
  /\ f \in [1..Len(all) -> Places(its)]
  /\ \A i \in 1..Len(all) : all[i] = RecordAt(its, f[i])
  /\ \A i, j \in 1..Len(all) : i # j => f[i] # f[j]
  /\ \A p \in Places(its) : \E i \in 1..Len(all) : f[i] = p

Turns(its) == [i \in 1..Records(its) |-> Turn(its, i)]

LEMMA MergeFacts ==
  ASSUME KeysStandApart, NEW its, Runs(its)
  PROVE  MergeOf(its, Merge(its), Turns(its))
<1>1. PICK n \in Nat : n = Records(its)
  BY PlacesFacts
<1>2. Merged(its, n)
  BY <1>1, MergedAlways
<1>3. PICK all, f : all = Merge(its) /\ f = Turns(its)
  OBVIOUS
<1>4. all = After(its, n).out
  BY <1>1, <1>3 DEF Merge, After
<1>5. /\ IsSeq(all) /\ Len(all) = n
      /\ \A i \in 1..n : Turn(its, i) \in Places(its) /\ all[i] = RecordAt(its, Turn(its, i))
      /\ \A i, j \in 1..n : i # j => Turn(its, i) # Turn(its, j)
      /\ \A i, j \in 1..n : i <= j => AtMost(UserKey(all[i]), UserKey(all[j]))
  BY <1>2, <1>4 DEF Merged
<1>6. f = [i \in 1..n |-> Turn(its, i)]
  BY <1>1, <1>3 DEF Turns
<1>7. f \in [1..n -> Places(its)] /\ \A i \in 1..n : f[i] = Turn(its, i)
  BY <1>5, <1>6
<1>8. \A i, j \in 1..n : i # j => f[i] # f[j]
  BY <1>5, <1>7
<1>9. Run(all)
  <2>1. \A i \in 1..n : IsRecord(all[i])
    BY <1>5, RecordAtFacts
  <2> QED BY <1>5, <2>1 DEF Run
<1>10. f \in Surjection(1..n, Places(its))
  <2>1. f \in Injection(1..n, Places(its))
    BY <1>7, <1>8 DEF Injection, IsInjective
  <2>2. IsFiniteSet(Places(its))
    BY PlacesFacts
  <2>3. Cardinality(1..n) = n
    BY FS_Interval
  <2>4. Cardinality(1..n) = Cardinality(Places(its))
    BY <1>1, <2>3 DEF Records
  <2> QED BY <2>1, <2>2, <2>4, FS_Injection
<1>11. \A p \in Places(its) : \E i \in 1..n : f[i] = p
  BY <1>10 DEF Surjection
<1> QED BY <1>1, <1>3, <1>5, <1>7, <1>8, <1>9, <1>11 DEF MergeOf

-----------------------------------------------------------------------------
(* Seek *)

LEMMA MemTableSeekFinds ==
  ASSUME KeysStandApart, NEW s, NEW k \in UserKeys, NEW place, NEW from,
         Run(s), Bound(s, k, place), from \in 1..place
  PROVE  MemTableSeek(s, from, k) = place
<1> DEFINE S == {i \in from..Len(s) : ~Less(s[i].key, k)} \cup {Len(s) + 1}
<1>1. Len(s) \in Nat /\ place \in 1..Len(s) + 1 /\ from \in Nat
  BY Shape DEF Run, Bound
<1>2. ASSUME NEW i \in 1..Len(s) PROVE ~Less(s[i].key, k) <=> place <= i
  <2>1. IsRecord(s[i]) /\ UserKey(s[i]) \in Bytes /\ k \in Bytes
    BY RecordShape, UserKeyBytes DEF Run
  <2>2. Less(s[i].key, k) <=> Less(UserKey(s[i]), k)
    BY <2>1, RecordBefore
  <2>3. (i < place => Less(UserKey(s[i]), k)) /\ (place <= i => AtMost(k, UserKey(s[i])))
    BY DEF Bound
  <2> QED BY <1>1, <2>1, <2>2, <2>3, KeyOrder
<1>3. S \in SUBSET Nat
  BY <1>1
<1>4. place \in S
  <2>1. CASE place <= Len(s)
    <3>1. place \in 1..Len(s) /\ place \in from..Len(s)
      BY <1>1, <2>1
    <3> QED BY <1>1, <1>2, <3>1
  <2>2. CASE place > Len(s)
    BY <1>1, <2>2
  <2> QED BY <1>1, <2>1, <2>2
<1>5. ASSUME NEW i \in S PROVE place <= i
  <2>1. CASE i = Len(s) + 1
    BY <1>1, <2>1
  <2>2. CASE i \in from..Len(s) /\ ~Less(s[i].key, k)
    <3>1. i \in 1..Len(s)
      BY <1>1, <2>2
    <3> QED BY <1>2, <2>2, <3>1
  <2> QED BY <2>1, <2>2
<1>6. MemTableSeek(s, from, k) = Min(S)
  BY DEF MemTableSeek
<1> HIDE DEF S
<1> QED BY <1>3, <1>4, <1>5, <1>6, LeastIsMin

\* As many calls of Next as there are records below k lead every child to its
\* first record that is not below k.
LEMMA NextsLead ==
  ASSUME KeysStandApart, NEW its, NEW k \in UserKeys, NEW all, NEW below, NEW pos,
         Runs(its), all = Merge(its),
         below = Cardinality({i \in DOMAIN all : Less(UserKey(all[i]), k)}),
         pos = Yield(its, FromFirst(its), below).pos
  PROVE  Positions(its, pos) /\ \A c \in 1..Len(its) : Bound(its[c], k, pos[c])
<1>1. PICK f : f = Turns(its)
  OBVIOUS
<1>2. MergeOf(its, all, f)
  BY <1>1, MergeFacts
<1>3. PICK n \in Nat : n = Records(its) /\ n = Len(all)
  BY <1>2, PlacesFacts DEF MergeOf
<1>4. DOMAIN all = 1..n /\ Run(all)
  BY <1>2, <1>3, Shape DEF MergeOf, Run
<1>5. PICK b : Bound(all, k, b)
  BY <1>4, BoundExists
<1>6. b \in 1..n + 1
  BY <1>3, <1>5 DEF Bound
<1>7. \A i \in 1..n : Less(UserKey(all[i]), k) <=> i < b
  <2> SUFFICES ASSUME NEW i \in 1..n PROVE Less(UserKey(all[i]), k) <=> i < b
    OBVIOUS
  <2>1. UserKey(all[i]) \in Bytes /\ k \in Bytes
    BY <1>3, <1>4, RecordShape, UserKeyBytes DEF Run
  <2>2. (i < b => Less(UserKey(all[i]), k)) /\ (b <= i => AtMost(k, UserKey(all[i])))
    BY <1>3, <1>5 DEF Bound
  <2> QED BY <1>6, <2>1, <2>2, KeyOrder
<1>8. below = b - 1
  <2>1. {i \in DOMAIN all : Less(UserKey(all[i]), k)} = 1..b - 1
    BY <1>4, <1>6, <1>7
  <2>2. Cardinality(1..b - 1) = IF 1 > b - 1 THEN 0 ELSE b - 1 - 1 + 1
    BY <1>6, FS_Interval
  <2>3. (IF 1 > b - 1 THEN 0 ELSE b - 1 - 1 + 1) = b - 1
    BY <1>6
  <2> QED BY <2>1, <2>2, <2>3
<1>9. below \in 0..n
  BY <1>6, <1>8
<1>10. Merged(its, below)
  BY <1>3, <1>9, MergedAlways
<1>11. pos = After(its, below).pos
  BY DEF After
<1>12. /\ Positions(its, pos)
       /\ \A p \in Places(its) : p[2] < pos[p[1]] <=> \E i \in 1..below : Turn(its, i) = p
  BY <1>10, <1>11 DEF Merged
<1>13. \A i \in 1..n : f[i] = Turn(its, i)
  BY <1>1, <1>3 DEF Turns
<1>14. ASSUME NEW p \in Places(its)
       PROVE  p[2] < pos[p[1]] <=> Less(UserKey(RecordAt(its, p)), k)
  <2>1. PICK i \in 1..n : f[i] = p
    BY <1>2, <1>3 DEF MergeOf
  <2>2. all[i] = RecordAt(its, p)
    BY <1>2, <1>3, <2>1 DEF MergeOf
  <2>3. i \in 1..below <=> i < b
    BY <1>6, <1>8
  <2>4. ASSUME NEW j \in 1..below, Turn(its, j) = p PROVE j = i
    <3>1. j \in 1..n /\ f[j] = p
      BY <1>9, <1>13, <2>4
    <3> QED BY <1>2, <1>3, <2>1, <3>1 DEF MergeOf
  <2>5. (\E j \in 1..below : Turn(its, j) = p) <=> i \in 1..below
    BY <1>13, <2>1, <2>4
  <2> QED BY <1>7, <1>12, <2>2, <2>3, <2>5
<1>15. ASSUME NEW c \in 1..Len(its) PROVE Bound(its[c], k, pos[c])
  <2>1. pos[c] \in 1..Len(its[c]) + 1 /\ Len(its[c]) \in Nat /\ Run(its[c])
    BY <1>12, Shape DEF Positions, Runs, Run
  <2>2. ASSUME NEW i \in 1..Len(its[c])
        PROVE  /\ i < pos[c] => Less(UserKey(its[c][i]), k)
               /\ pos[c] <= i => AtMost(k, UserKey(its[c][i]))
    <3>1. PICK p : p = <<c, i>>
      OBVIOUS
    <3>2. p \in Places(its) /\ p[1] = c /\ p[2] = i
      BY <3>1, PlacesFacts
    <3>3. RecordAt(its, p) = its[c][i]
      BY <3>2 DEF RecordAt
    <3>4. i < pos[c] <=> Less(UserKey(its[c][i]), k)
      BY <1>14, <3>2, <3>3
    <3>5. UserKey(its[c][i]) \in Bytes /\ k \in Bytes
      BY <2>1, RecordShape, UserKeyBytes DEF Run
    <3> QED BY <2>1, <3>4, <3>5, KeyOrder
  <2> QED BY <2>1, <2>2 DEF Bound
<1> QED BY <1>12, <1>15

-----------------------------------------------------------------------------
(* The records of a memtable in order *)

MemOK(data) == IsFiniteSet(data) /\ \A r \in data : IsRecord(r)

LEMMA LargestExists ==
  ASSUME NEW data, MemOK(data)
  PROVE  \A D \in SUBSET data : D # {} => \E r \in D : \A s \in D : AtMost(s.key, r.key)
<1> DEFINE S == {n \in Nat : \A D \in SUBSET data :
                   Cardinality(D) = n + 1 => \E r \in D : \A s \in D : AtMost(s.key, r.key)}
<1>0. /\ \A D \in SUBSET data : IsFiniteSet(D) /\ Cardinality(D) \in Nat
      /\ \A r \in data : r.key \in Bytes
  BY FS_Subset, FS_CardinalityType, RecordShape DEF MemOK
<1>1. 0 \in S
  <2> SUFFICES ASSUME NEW D \in SUBSET data, Cardinality(D) = 1
      PROVE  \E r \in D : \A s \in D : AtMost(s.key, r.key)
    OBVIOUS
  <2>1. PICK r : D = {r}
    BY <1>0, FS_Singleton
  <2> QED BY <2>1 DEF AtMost
<1>2. ASSUME NEW n \in S PROVE n + 1 \in S
  <2> SUFFICES ASSUME NEW D \in SUBSET data, Cardinality(D) = n + 1 + 1
      PROVE  \E r \in D : \A s \in D : AtMost(s.key, r.key)
    OBVIOUS
  <2>1. PICK x : x \in D
    <3>1. D # {}
      BY <1>0, FS_EmptySet
    <3> QED BY <3>1
  <2>2. Cardinality(D \ {x}) = n + 1 /\ D \ {x} \in SUBSET data
    BY <1>0, <2>1, FS_RemoveElement
  <2>3. PICK m \in D \ {x} : \A s \in D \ {x} : AtMost(s.key, m.key)
    BY <2>2
  <2>4. x.key \in Bytes /\ m.key \in Bytes /\ \A s \in D : s.key \in Bytes
    BY <1>0, <2>1
  <2>5. CASE AtMost(x.key, m.key)
    BY <2>3, <2>5
  <2>6. CASE ~AtMost(x.key, m.key)
    <3>1. AtMost(m.key, x.key)
      BY <2>4, <2>6, KeyOrder DEF AtMost
    <3>2. \A s \in D : AtMost(s.key, x.key)
      <4> SUFFICES ASSUME NEW s \in D PROVE AtMost(s.key, x.key)
        OBVIOUS
      <4>1. s = x \/ AtMost(s.key, m.key)
        BY <2>3
      <4> QED BY <2>4, <3>1, <4>1, KeyOrder DEF AtMost
    <3> QED BY <2>1, <3>2
  <2> QED BY <2>5, <2>6
<1>3. S = Nat
  <2>1. S \in SUBSET Nat
    OBVIOUS
  <2> HIDE DEF S
  <2> QED BY <1>1, <1>2, <2>1, AllNumbers
<1> SUFFICES ASSUME NEW D \in SUBSET data, D # {}
    PROVE  \E r \in D : \A s \in D : AtMost(s.key, r.key)
  OBVIOUS
<1>4. Cardinality(D) \in Nat /\ Cardinality(D) # 0
  BY <1>0, FS_EmptySet
<1>5. Cardinality(D) - 1 \in S /\ Cardinality(D) - 1 + 1 = Cardinality(D)
  BY <1>3, <1>4
<1> QED BY <1>5

\* s has all of the records, by their InternalKeys.
Ordered(data, n, s) ==
  /\ s \in [1..n -> data]
  /\ \A r \in data : \E i \in 1..n : s[i] = r
  /\ \A i, j \in 1..n : i < j => AtMost(s[i].key, s[j].key)

LEMMA OrderedExists ==
  ASSUME NEW data, MemOK(data)
  PROVE  \E s : Ordered(data, Cardinality(data), s)
<1> DEFINE S == {n \in Nat : \A D \in SUBSET data : Cardinality(D) = n => \E s : Ordered(D, n, s)}
<1>0. \A D \in SUBSET data : IsFiniteSet(D) /\ Cardinality(D) \in Nat
  BY FS_Subset, FS_CardinalityType DEF MemOK
<1>1. 0 \in S
  <2> SUFFICES ASSUME NEW D \in SUBSET data, Cardinality(D) = 0 PROVE \E s : Ordered(D, 0, s)
    OBVIOUS
  <2>1. D = {}
    BY <1>0, FS_EmptySet
  <2>2. PICK s : s = [i \in 1..0 |-> 0]
    OBVIOUS
  <2>3. s \in [1..0 -> D]
    BY <2>2
  <2>4. Ordered(D, 0, s)
    BY <2>1, <2>3 DEF Ordered
  <2> QED BY <2>4
<1>2. ASSUME NEW n \in S PROVE n + 1 \in S
  <2> SUFFICES ASSUME NEW D \in SUBSET data, Cardinality(D) = n + 1 PROVE \E s : Ordered(D, n + 1, s)
    OBVIOUS
  <2>1. D # {}
    BY <1>0, FS_EmptySet
  <2>2. PICK x \in D : \A s \in D : AtMost(s.key, x.key)
    BY <2>1, LargestExists
  <2>3. Cardinality(D \ {x}) = n /\ D \ {x} \in SUBSET data
    BY <1>0, FS_RemoveElement
  <2>4. PICK s : Ordered(D \ {x}, n, s)
    BY <2>3
  <2>5. PICK t : t = [i \in 1..n + 1 |-> IF i <= n THEN s[i] ELSE x]
    OBVIOUS
  <2>6. \A i \in 1..n : t[i] = s[i] /\ s[i] \in D
    <3> SUFFICES ASSUME NEW i \in 1..n PROVE t[i] = s[i] /\ s[i] \in D
      OBVIOUS
    <3>1. i \in 1..n + 1 /\ i <= n
      OBVIOUS
    <3>2. s[i] \in D
      BY <2>4 DEF Ordered
    <3> QED BY <2>5, <3>1, <3>2
  <2>7. t[n + 1] = x
    BY <2>5
  <2>8. \A i \in 1..n + 1 : i = n + 1 \/ i \in 1..n
    OBVIOUS
  <2>9. t \in [1..n + 1 -> D]
    <3>1. \A i \in 1..n + 1 : t[i] \in D
      BY <2>6, <2>7, <2>8
    <3> QED BY <2>5, <3>1
  <2>10. \A r \in D : \E i \in 1..n + 1 : t[i] = r
    <3> SUFFICES ASSUME NEW r \in D PROVE \E i \in 1..n + 1 : t[i] = r
      OBVIOUS
    <3>1. CASE r = x
      BY <2>7, <3>1
    <3>2. CASE r # x
      <4>1. PICK i \in 1..n : s[i] = r
        BY <2>4, <3>2 DEF Ordered
      <4>2. i \in 1..n + 1
        OBVIOUS
      <4> QED BY <2>6, <4>1, <4>2
    <3> QED BY <3>1, <3>2
  <2>11. \A i, j \in 1..n + 1 : i < j => AtMost(t[i].key, t[j].key)
    <3> SUFFICES ASSUME NEW i \in 1..n + 1, NEW j \in 1..n + 1, i < j
        PROVE  AtMost(t[i].key, t[j].key)
      OBVIOUS
    <3>1. i \in 1..n
      OBVIOUS
    <3>2. CASE j \in 1..n
      <4>1. AtMost(s[i].key, s[j].key)
        BY <2>4, <3>1, <3>2 DEF Ordered
      <4> QED BY <2>6, <3>1, <3>2, <4>1
    <3>3. CASE j = n + 1
      BY <2>2, <2>6, <2>7, <3>1, <3>3
    <3> QED BY <2>8, <3>2, <3>3
  <2>12. Ordered(D, n + 1, t)
    BY <2>9, <2>10, <2>11 DEF Ordered
  <2> QED BY <2>12
<1>3. S = Nat
  <2>1. S \in SUBSET Nat
    OBVIOUS
  <2> HIDE DEF S
  <2> QED BY <1>1, <1>2, <2>1, AllNumbers
<1>4. Cardinality(data) \in S
  BY <1>0, <1>3
<1> QED BY <1>4

LEMMA InOrderFacts ==
  ASSUME KeysStandApart, NEW data, NEW s, MemOK(data), s = InOrder(data)
  PROVE  /\ Run(s) /\ \A i \in 1..Len(s) : s[i] \in data
         /\ \A r \in data : \E i \in 1..Len(s) : s[i] = r
         /\ \A i, j \in 1..Len(s) : i < j => AtMost(s[i].key, s[j].key)
<1>1. PICK n \in Nat : n = Cardinality(data)
  BY FS_CardinalityType DEF MemOK
<1>2. s = CHOOSE t \in [1..n -> data] : /\ \A r \in data : \E i \in 1..n : t[i] = r
                                        /\ \A i, j \in 1..n : i < j => AtMost(t[i].key, t[j].key)
  BY <1>1 DEF InOrder
<1>3. \E t \in [1..n -> data] : /\ \A r \in data : \E i \in 1..n : t[i] = r
                                /\ \A i, j \in 1..n : i < j => AtMost(t[i].key, t[j].key)
  BY <1>1, OrderedExists DEF Ordered
<1>4. Ordered(data, n, s)
  BY <1>2, <1>3 DEF Ordered
<1>5. s = [i \in 1..n |-> s[i]] /\ \A i \in 1..n : s[i] \in data
  BY <1>4 DEF Ordered
<1>6. IsSeq(s) /\ Len(s) = n
  BY <1>5, Tabulated
<1>7. ASSUME NEW i \in 1..n, NEW j \in 1..n, i <= j
      PROVE  AtMost(UserKey(s[i]), UserKey(s[j]))
  <2>1. CASE i = j
    BY <2>1 DEF AtMost
  <2>2. CASE i < j
    <3>1. AtMost(s[i].key, s[j].key)
      BY <1>4, <2>2 DEF Ordered
    <3>2. IsRecord(s[i]) /\ IsRecord(s[j])
      BY <1>5 DEF MemOK
    <3> QED BY <3>1, <3>2, RecordOrder
  <2> QED BY <1>7, <2>1, <2>2
<1>8. Run(s)
  BY <1>5, <1>6, <1>7 DEF Run, MemOK
<1> QED BY <1>4, <1>5, <1>6, <1>8 DEF Ordered

-----------------------------------------------------------------------------
(* Tables *)

Tables(ts) == Runs(ts) /\ \A c \in 1..Len(ts) : Len(ts[c]) > 0

LEMMA RunsJoined ==
  ASSUME NEW A, NEW B, Runs(A), Runs(B)
  PROVE  Runs(A \o B)
<1>1. IsSeq(A) /\ IsSeq(B) /\ Len(A) \in Nat /\ Len(B) \in Nat
  BY Shape DEF Runs
<1>2. /\ IsSeq(A \o B) /\ Len(A \o B) = Len(A) + Len(B)
      /\ \A i \in 1..Len(A) : (A \o B)[i] = A[i]
      /\ \A i \in 1..Len(A) + Len(B) :
           i > Len(A) => (A \o B)[i] = B[i - Len(A)] /\ i - Len(A) \in 1..Len(B)
  BY <1>1, Joined
<1> SUFFICES ASSUME NEW c \in 1..Len(A) + Len(B) PROVE Run((A \o B)[c])
  BY <1>2 DEF Runs
<1>3. CASE c \in 1..Len(A)
  BY <1>2, <1>3 DEF Runs
<1>4. CASE c > Len(A)
  BY <1>2, <1>4 DEF Runs
<1> QED BY <1>1, <1>3, <1>4

LEMMA TablesJoined ==
  ASSUME NEW A, NEW B, Tables(A), Tables(B)
  PROVE  Tables(A \o B)
<1>1. IsSeq(A) /\ IsSeq(B) /\ Len(A) \in Nat /\ Len(B) \in Nat
  BY Shape DEF Tables, Runs
<1>2. /\ IsSeq(A \o B) /\ Len(A \o B) = Len(A) + Len(B)
      /\ \A i \in 1..Len(A) : (A \o B)[i] = A[i]
      /\ \A i \in 1..Len(A) + Len(B) :
           i > Len(A) => (A \o B)[i] = B[i - Len(A)] /\ i - Len(A) \in 1..Len(B)
  BY <1>1, Joined
<1>3. ASSUME NEW c \in 1..Len(A) + Len(B) PROVE Len((A \o B)[c]) > 0
  <2>1. CASE c \in 1..Len(A)
    BY <1>2, <2>1 DEF Tables
  <2>2. CASE c > Len(A)
    BY <1>2, <2>2 DEF Tables
  <2> QED BY <1>1, <2>1, <2>2
<1> QED BY <1>2, <1>3, RunsJoined DEF Tables

LEMMA TablesChosen ==
  ASSUME NEW A, NEW S, Tables(A)
  PROVE  Tables(Chosen(A, S))
<1>1. PICK t, f : t = Chosen(A, S) /\ Picks(A, S, Len(A), t, f)
  BY ChosenFacts DEF Tables, Runs
<1>2. IsSeq(t) /\ \A i \in 1..Len(t) : f[i] \in 1..Len(A) /\ t[i] = A[f[i]]
  BY <1>1 DEF Picks
<1> QED BY <1>1, <1>2 DEF Tables, Runs

LEMMA RunChosen ==
  ASSUME NEW s, NEW S, Run(s)
  PROVE  Run(Chosen(s, S))
<1>1. PICK t, f : t = Chosen(s, S) /\ Picks(s, S, Len(s), t, f)
  BY ChosenFacts DEF Run
<1>2. /\ IsSeq(t) /\ \A i \in 1..Len(t) : f[i] \in 1..Len(s) /\ t[i] = s[f[i]]
      /\ \A i, j \in 1..Len(t) : i < j => f[i] < f[j]
  BY <1>1 DEF Picks
<1>3. ASSUME NEW i \in 1..Len(t), NEW j \in 1..Len(t), i <= j
      PROVE  AtMost(UserKey(t[i]), UserKey(t[j]))
  <2>1. CASE i = j
    BY <2>1 DEF AtMost
  <2>2. CASE i < j
    <3>1. f[i] < f[j] /\ f[i] \in 1..Len(s) /\ f[j] \in 1..Len(s)
      BY <1>2, <2>2
    <3>2. f[i] <= f[j]
      BY <3>1
    <3> QED BY <1>2, <3>1, <3>2 DEF Run
  <2> QED BY <1>3, <2>1, <2>2
<1>4. \A i \in 1..Len(t) : IsRecord(t[i])
  BY <1>2 DEF Run
<1> QED BY <1>1, <1>2, <1>3, <1>4 DEF Run

\* SSTableBuilder::Add changes the numbers only.
LEMMA BuildTableFacts ==
  ASSUME NEW s, Run(s)
  PROVE  LET t == BuildTable(s)
         IN  /\ Run(t) /\ Len(t) = Len(s)
             /\ \A i \in 1..Len(s) : UserKey(t[i]) = UserKey(s[i]) /\ t[i].value = s[i].value
<1>1. Len(s) \in Nat /\ DOMAIN s = 1..Len(s)
  BY Shape DEF Run
<1>2. PICK t : t = BuildTable(s)
  OBVIOUS
<1>3. t = [i \in 1..Len(s) |-> Record(UserKey(s[i]), i, s[i].value)]
  BY <1>1, <1>2 DEF BuildTable
<1>4. ASSUME NEW i \in 1..Len(s)
      PROVE  IsRecord(t[i]) /\ UserKey(t[i]) = UserKey(s[i]) /\ t[i].value = s[i].value
  <2>1. UserKey(s[i]) \in UserKeys /\ s[i].value \in Nat /\ i \in Nat
    BY RecordShape DEF Run
  <2>2. t[i] = Record(UserKey(s[i]), i, s[i].value)
    BY <1>3
  <2> QED BY <2>1, <2>2, RecordFacts
<1>5. IsSeq(t) /\ Len(t) = Len(s)
  <2>1. t = [i \in 1..Len(s) |-> t[i]]
    BY <1>3
  <2> QED BY <1>1, <2>1, Tabulated
<1>6. Run(t)
  BY <1>4, <1>5 DEF Run
<1> QED BY <1>2, <1>4, <1>5, <1>6

\* The tables that a compaction cuts its output into.
Cut(s) == [p \in DOMAIN Pieces(s, TableCapacity) |-> BuildTable(Pieces(s, TableCapacity)[p])]

CutOf(s, n, out) ==
  /\ Tables(out) /\ Len(out) = CeilDiv(Len(s), n)
  /\ \A p \in 1..Len(out) : Len(out[p]) = End(Len(s), n, p) - n * (p - 1)
  /\ \A p \in 1..Len(out) : \A i \in 1..Len(out[p]) :
       /\ UserKey(out[p][i]) = UserKey(s[n * (p - 1) + i])
       /\ out[p][i].value = s[n * (p - 1) + i].value

LEMMA CutFacts ==
  ASSUME NEW s, NEW n, NEW out, Run(s), n = TableCapacity, out = Cut(s)
  PROVE  CutOf(s, n, out)
<1>1. n \in Nat \ {0} /\ IsSeq(s) /\ Len(s) \in Nat
  BY VersionsAssumption, Shape DEF Run
<1>2. PICK cut : cut = Pieces(s, n)
  OBVIOUS
<1>3. IsSeq(cut) /\ Len(cut) = CeilDiv(Len(s), n) /\ Len(cut) \in Nat
  BY <1>1, <1>2, PieceFacts
<1>4. \A p \in 1..Len(cut) : IsSeq(cut[p])
  BY <1>1, <1>2, PieceFacts
<1>5. \A p \in 1..Len(cut) : Len(cut[p]) = End(Len(s), n, p) - n * (p - 1)
  BY <1>1, <1>2, PieceFacts
<1>6. \A p \in 1..Len(cut) : \A i \in 1..Len(cut[p]) : cut[p][i] = s[n * (p - 1) + i]
  BY <1>1, <1>2, PieceFacts
<1>7. out = [p \in 1..Len(cut) |-> BuildTable(cut[p])]
  BY <1>2, <1>3, Shape DEF Cut
<1>8. IsSeq(out) /\ Len(out) = Len(cut)
  <2>1. out = [p \in 1..Len(cut) |-> out[p]]
    BY <1>7
  <2> QED BY <1>3, <2>1, Tabulated
<1>9. ASSUME NEW p \in 1..Len(cut)
      PROVE  /\ Run(out[p]) /\ Len(out[p]) > 0 /\ Len(out[p]) = End(Len(s), n, p) - n * (p - 1)
             /\ \A i \in 1..Len(out[p]) : /\ UserKey(out[p][i]) = UserKey(s[n * (p - 1) + i])
                                          /\ out[p][i].value = s[n * (p - 1) + i].value
  <2>1. p \in 1..CeilDiv(Len(s), n)
    BY <1>3
  <2>0. PICK m : m = Len(s)
    OBVIOUS
  <2>2. PICK x, e : x = n * (p - 1) /\ e = End(Len(s), n, p)
    OBVIOUS
  <2>2a. x \in Nat /\ e \in Nat /\ x < e /\ e <= m
    BY <1>1, <2>0, <2>1, <2>2, EndFacts
  <2>3. PICK t : t = cut[p]
    OBVIOUS
  <2>4. IsSeq(t) /\ Len(t) = e - x /\ \A i \in 1..e - x : t[i] = s[x + i]
    BY <1>4, <1>5, <1>6, <2>2, <2>3
  <2>5. \A i \in 1..e - x : x + i \in 1..Len(s)
    BY <1>1, <2>0, <2>2a
  <2>6. Run(t)
    <3>1. \A i \in 1..e - x : IsRecord(t[i])
      BY <2>4, <2>5 DEF Run
    <3>2. ASSUME NEW i \in 1..e - x, NEW j \in 1..e - x, i <= j
          PROVE  AtMost(UserKey(t[i]), UserKey(t[j]))
      <4>1. x + i <= x + j /\ x + i \in 1..Len(s) /\ x + j \in 1..Len(s)
        BY <2>2a, <2>5, <3>2
      <4> QED BY <2>4, <4>1 DEF Run
    <3> QED BY <2>4, <3>1, <3>2 DEF Run
  <2>7. out[p] = BuildTable(t)
    BY <1>7, <2>3
  <2>8. /\ Run(out[p]) /\ Len(out[p]) = e - x
        /\ \A i \in 1..e - x : UserKey(out[p][i]) = UserKey(t[i]) /\ out[p][i].value = t[i].value
    BY <2>4, <2>6, <2>7, BuildTableFacts
  <2>9. e - x > 0
    BY <2>2a
  <2> QED BY <2>2, <2>2a, <2>4, <2>8, <2>9
<1>10. Tables(out)
  BY <1>8, <1>9 DEF Tables, Runs
<1>11. \A p \in 1..Len(out) : Len(out[p]) = End(Len(s), n, p) - n * (p - 1)
  BY <1>8, <1>9
<1>12. \A p \in 1..Len(out) : \A i \in 1..Len(out[p]) :
         /\ UserKey(out[p][i]) = UserKey(s[n * (p - 1) + i])
         /\ out[p][i].value = s[n * (p - 1) + i].value
  BY <1>8, <1>9
<1> QED BY <1>3, <1>8, <1>10, <1>11, <1>12 DEF CutOf

\* The tables of a level that std::sort has put in order; q tells from where they come.
Rearranged(A, B, q) ==
  /\ IsSeq(B) /\ Len(B) = Len(A) /\ q \in [1..Len(A) -> 1..Len(A)]
  /\ \A i, j \in 1..Len(A) : i # j => q[i] # q[j]
  /\ \A i \in 1..Len(A) : B[i] = A[q[i]]

LEMMA SortedFacts ==
  ASSUME NEW A, NEW B, IsSeq(A), B \in SortedByFirstKey(A)
  PROVE  \E q : Rearranged(A, B, q)
<1>1. PICK n : n = Len(A)
  OBVIOUS
<1>2. n \in Nat
  BY <1>1, Shape
<1>3. PICK q \in [1..n -> 1..n] : /\ \A i, j \in 1..n : i # j => q[i] # q[j]
                                  /\ B = [i \in 1..n |-> A[q[i]]]
  BY <1>1 DEF SortedByFirstKey
<1>4. IsSeq(B) /\ Len(B) = n
  <2>1. B = [i \in 1..n |-> B[i]]
    BY <1>3
  <2> QED BY <1>2, <2>1, Tabulated
<1> QED BY <1>1, <1>3, <1>4 DEF Rearranged

LEMMA TablesSorted ==
  ASSUME NEW A, NEW B, Tables(A), B \in SortedByFirstKey(A)
  PROVE  Tables(B)
<1>1. PICK q : Rearranged(A, B, q)
  BY SortedFacts DEF Tables, Runs
<1>2. IsSeq(B) /\ Len(B) = Len(A) /\ \A i \in 1..Len(A) : q[i] \in 1..Len(A) /\ B[i] = A[q[i]]
  BY <1>1 DEF Rearranged
<1> QED BY <1>2 DEF Tables, Runs

-----------------------------------------------------------------------------
(* The sequences that the operations leave behind *)

InOrderInv ==
  /\ mem.seq \in Nat /\ MemOK(mem.data)
  /\ MemOK(imm.data) /\ (imm.set => imm.data # {})
  /\ Tables(level0) /\ Tables(level1) /\ writes \in Nat

LEMMA NoTables == Tables(<<>>)
BY EmptyIsSeq DEF Tables, Runs

LEMMA AddFacts ==
  ASSUME NEW m, m.seq \in Nat, MemOK(m.data), NEW k \in UserKeys, NEW v \in Nat
  PROVE  /\ Add(m, k, v).seq = m.seq + 1 /\ Add(m, k, v).seq \in Nat
         /\ Add(m, k, v).data = m.data \cup {Record(k, m.seq + 1, v)}
         /\ MemOK(Add(m, k, v).data) /\ IsRecord(Record(k, m.seq + 1, v))
<1>1. PICK r : r = Record(k, m.seq + 1, v)
  OBVIOUS
<1>2. Add(m, k, v).seq = m.seq + 1 /\ Add(m, k, v).data = m.data \cup {r}
  BY <1>1 DEF Add
<1>3. IsRecord(r)
  <2>1. m.seq + 1 \in Nat
    OBVIOUS
  <2> QED BY <1>1, <2>1, RecordFacts
<1>4. IsFiniteSet(m.data \cup {r})
  BY FS_AddElement DEF MemOK
<1> QED BY <1>1, <1>2, <1>3, <1>4 DEF MemOK

\* The table of a flush: its records are those of the memtable, in their order.
LEMMA FlushedFacts ==
  ASSUME KeysStandApart, NEW data, NEW s, NEW t, MemOK(data), data # {},
         s = InOrder(data), t = BuildTable(s)
  PROVE  /\ Run(s) /\ Run(t) /\ Len(t) = Len(s) /\ Len(t) > 0
         /\ \A i \in 1..Len(t) : UserKey(t[i]) = UserKey(s[i]) /\ t[i].value = s[i].value
<1>1. Run(s) /\ \A r \in data : \E i \in 1..Len(s) : s[i] = r
  BY InOrderFacts
<1>2. Len(s) \in Nat
  BY <1>1, Shape DEF Run
<1>3. Len(s) > 0
  BY <1>1, <1>2
<1> QED BY <1>1, <1>3, BuildTableFacts

LEMMA OneMoreTable ==
  ASSUME NEW ts, NEW t, Tables(ts), Run(t), Len(t) > 0
  PROVE  Tables(Append(ts, t))
<1>1. IsSeq(ts) /\ Len(ts) \in Nat
  BY Shape DEF Tables, Runs
<1>2. /\ IsSeq(Append(ts, t)) /\ Len(Append(ts, t)) = Len(ts) + 1
      /\ \A i \in 1..Len(ts) : Append(ts, t)[i] = ts[i]
      /\ Append(ts, t)[Len(ts) + 1] = t
  BY <1>1, Appended
<1>3. ASSUME NEW c \in 1..Len(ts) + 1
      PROVE  Run(Append(ts, t)[c]) /\ Len(Append(ts, t)[c]) > 0
  <2>1. CASE c \in 1..Len(ts)
    BY <1>2, <2>1 DEF Tables, Runs
  <2>2. CASE c = Len(ts) + 1
    BY <1>2, <2>2
  <2> QED BY <1>1, <2>1, <2>2
<1> QED BY <1>2, <1>3 DEF Tables, Runs

\* The steps of a compaction: the tables it reads, what it keeps of them, and the
\* tables of levels_[1] it leaves alone.
Compacts(merged, kept, out, rest, overlapping) ==
  /\ overlapping = {i \in DOMAIN level1 : Overlaps(level1[i])}
  /\ merged = Merge(level0 \o Chosen(level1, overlapping))
  /\ kept = Chosen(merged, {i \in DOMAIN merged : merged[i].value # Tombstone})
  /\ out = Cut(kept)
  /\ rest = Chosen(level1, DOMAIN level1 \ overlapping)

LEMMA CompactSteps ==
  ASSUME Compact
  PROVE  /\ level0' = <<>>
         /\ \E merged, kept, out, rest, overlapping :
              Compacts(merged, kept, out, rest, overlapping) /\ level1' \in SortedByFirstKey(rest \o out)
<1> DEFINE overlapping == {i \in DOMAIN level1 : Overlaps(level1[i])}
           merged == Merge(level0 \o Chosen(level1, overlapping))
           kept == Chosen(merged, {i \in DOMAIN merged : merged[i].value # Tombstone})
           rest == Chosen(level1, DOMAIN level1 \ overlapping)
<1>1. level1' \in SortedByFirstKey(rest \o Cut(kept))
  BY DEF Compact, Cut
<1>2. Compacts(merged, kept, Cut(kept), rest, overlapping)
  BY DEF Compacts
<1>3. level0' = <<>>
  BY DEF Compact
<1> HIDE DEF overlapping, merged, kept, rest
<1> QED BY <1>1, <1>2, <1>3

LEMMA CompactsRuns ==
  ASSUME KeysStandApart, Tables(level0), Tables(level1),
         NEW merged, NEW kept, NEW out, NEW rest, NEW overlapping,
         Compacts(merged, kept, out, rest, overlapping)
  PROVE  /\ Tables(level0 \o Chosen(level1, overlapping))
         /\ Run(merged) /\ Run(kept) /\ Tables(out) /\ Tables(rest) /\ Tables(rest \o out)
<1>1. PICK its : its = level0 \o Chosen(level1, overlapping)
  OBVIOUS
<1>2. Tables(its)
  BY <1>1, TablesChosen, TablesJoined
<1>3. Run(merged)
  <2>1. MergeOf(its, merged, Turns(its))
    BY <1>1, <1>2, MergeFacts DEF Compacts, Tables
  <2> QED BY <2>1 DEF MergeOf
<1>4. Run(kept)
  BY <1>3, RunChosen DEF Compacts
<1>5. Tables(out)
  BY <1>4, CutFacts DEF Compacts, CutOf
<1>6. Tables(rest)
  BY TablesChosen DEF Compacts
<1>7. Tables(rest \o out)
  BY <1>5, <1>6, TablesJoined
<1> QED BY <1>1, <1>2, <1>3, <1>4, <1>5, <1>6, <1>7

LEMMA InOrderInvHolds == KeysStandApart => (Spec => []InOrderInv)
<1> SUFFICES ASSUME KeysStandApart PROVE Spec => []InOrderInv
  OBVIOUS
<1>1. Init => InOrderInv
  <2> SUFFICES ASSUME Init PROVE InOrderInv
    OBVIOUS
  <2>1. MemOK({})
    BY FS_EmptySet DEF MemOK
  <2> QED BY <2>1, NoTables DEF Init, InOrderInv, NoMem
<1>2. InOrderInv /\ [Next]_vars => InOrderInv'
  <2> SUFFICES ASSUME InOrderInv, [Next]_vars PROVE InOrderInv'
    OBVIOUS
  <2>1. ASSUME NEW k \in UserKeys, NEW v \in Nat, Write(k, v)
        PROVE  InOrderInv'
    <3>1. Tables(level0)' /\ Tables(level1)' /\ (writes \in Nat)'
      BY <2>1 DEF Write, InOrderInv, Tables, Runs, Run
    <3>2. CASE mem' = Add(mem, k, v) /\ UNCHANGED imm
      <4>1. mem'.seq \in Nat /\ MemOK(mem'.data)
        BY <3>2, AddFacts DEF InOrderInv
      <4>2. MemOK(imm'.data) /\ (imm'.set => imm'.data # {})
        BY <3>2 DEF InOrderInv
      <4> QED BY <3>1, <4>1, <4>2 DEF InOrderInv, MemOK
    <3>3. CASE /\ Cardinality(mem.data) >= WriteBufferSize
               /\ imm' = [set |-> TRUE, data |-> mem.data]
               /\ mem' = Add([seq |-> 0, data |-> {}], k, v)
      <4>1. PICK m : m = [seq |-> 0, data |-> {}]
        OBVIOUS
      <4>2. m.seq \in Nat /\ MemOK(m.data)
        BY <4>1, FS_EmptySet DEF MemOK
      <4>3. mem'.seq \in Nat /\ MemOK(mem'.data)
        BY <3>3, <4>1, <4>2, AddFacts
      <4>4. imm'.data = mem.data
        BY <3>3
      <4>5. mem.data # {}
        <5>1. Cardinality({}) = 0
          BY FS_EmptySet
        <5>2. WriteBufferSize \in Nat /\ WriteBufferSize > 0
          BY VersionsAssumption
        <5> QED BY <3>3, <5>1, <5>2
      <4> QED BY <3>1, <4>3, <4>4, <4>5 DEF InOrderInv, MemOK
    <3> QED BY <2>1, <3>2, <3>3 DEF Write
  <2>2. CASE Flush
    <3>1. PICK s, t : s = InOrder(imm.data) /\ t = BuildTable(s)
      OBVIOUS
    <3>2. imm.set /\ level0' = Append(level0, t)
      BY <2>2, <3>1 DEF Flush
    <3>3. Run(t) /\ Len(t) > 0
      BY <3>1, <3>2, FlushedFacts DEF InOrderInv
    <3>4. Tables(level0')
      BY <3>2, <3>3, OneMoreTable DEF InOrderInv
    <3>5. MemOK(imm'.data) /\ ~imm'.set
      BY <2>2, FS_EmptySet DEF Flush, NoMem, MemOK
    <3>6. UNCHANGED <<mem, level1, writes>>
      BY <2>2 DEF Flush
    <3> QED BY <3>4, <3>5, <3>6 DEF InOrderInv
  <2>3. CASE Compact
    <3>1. PICK merged, kept, out, rest, overlapping :
            Compacts(merged, kept, out, rest, overlapping) /\ level1' \in SortedByFirstKey(rest \o out)
      BY <2>3, CompactSteps
    <3>2. Tables(rest \o out)
      BY <3>1, CompactsRuns DEF InOrderInv
    <3>3. Tables(level1')
      BY <3>1, <3>2, TablesSorted
    <3>4. Tables(level0')
      BY <2>3, CompactSteps, NoTables
    <3>5. UNCHANGED <<mem, imm, writes>>
      BY <2>3 DEF Compact
    <3> QED BY <3>3, <3>4, <3>5 DEF InOrderInv
  <2>4. CASE UNCHANGED vars
    BY <2>4 DEF vars, InOrderInv
  <2>5. ASSUME NEW k \in UserKeys, Put(k) \/ Delete(k) PROVE InOrderInv'
    <3>1. writes + 1 \in Nat /\ Tombstone \in Nat
      BY DEF InOrderInv, Tombstone
    <3> QED BY <2>1, <2>5, <3>1 DEF Put, Delete
  <2> QED BY <2>2, <2>3, <2>4, <2>5 DEF Next
<1> QED BY <1>1, <1>2, PTL DEF Spec

-----------------------------------------------------------------------------
(* Iterators *)

LEMMA MembersOf ==
  ASSUME NEW s, IsSeq(s)
  PROVE  \A x : x \in ToSet(s) <=> \E i \in 1..Len(s) : x = s[i]
BY Shape DEF ToSet

LEMMA ChildrenFacts ==
  ASSUME KeysStandApart, InOrderInv
  PROVE  /\ Runs(Children) /\ Len(Children) = 2 + Len(level0) + Len(level1)
         /\ Children[1] = InOrder(mem.data) /\ Children[2] = InOrder(imm.data)
         /\ \A c \in 1..Len(level0 \o level1) : Children[2 + c] = (level0 \o level1)[c]
         /\ \A c \in 1..Len(Children) : c > 2 => /\ Children[c] = (level0 \o level1)[c - 2]
                                                 /\ c - 2 \in 1..Len(level0 \o level1)
         /\ Tables(level0 \o level1) /\ DOMAIN MemChildren = {1, 2}
<1>1. PICK a, b, lower : a = InOrder(mem.data) /\ b = InOrder(imm.data) /\ lower = level0 \o level1
  OBVIOUS
<1>2. Run(a) /\ Run(b)
  BY <1>1, InOrderFacts DEF InOrderInv
<1>3. Tables(lower) /\ IsSeq(lower) /\ Len(lower) \in Nat
  <2>1. Tables(lower)
    BY <1>1, TablesJoined DEF InOrderInv
  <2> QED BY <2>1, Shape DEF Tables, Runs
<1>4. IsSeq(level0) /\ IsSeq(level1) /\ Len(level0) \in Nat /\ Len(level1) \in Nat
  BY Shape DEF InOrderInv, Tables, Runs
<1>5. Len(lower) = Len(level0) + Len(level1)
  BY <1>1, <1>4, Joined
<1>6. PICK two : two = <<a, b>>
  OBVIOUS
<1>7. IsSeq(two) /\ Len(two) = 2 /\ two[1] = a /\ two[2] = b
  <2>1. two = [i \in 1..2 |-> two[i]]
    BY <1>6
  <2> QED BY <1>6, <2>1, Tabulated
<1>7a. IsSeq(two) /\ IsSeq(lower)
  BY <1>3, <1>7
<1>8. MemChildren = two
  BY <1>1, <1>6 DEF MemChildren
<1>9. Children = two \o lower
  <2>1. (two \o level0) \o level1 = two \o lower
    <3>1. /\ IsSeq(two \o level0) /\ Len(two \o level0) = 2 + Len(level0)
          /\ \A i \in 1..2 : (two \o level0)[i] = two[i]
          /\ \A i \in 1..Len(level0) : (two \o level0)[2 + i] = level0[i]
      <4>1. /\ IsSeq(two \o level0) /\ Len(two \o level0) = Len(two) + Len(level0)
            /\ \A i \in 1..Len(two) : (two \o level0)[i] = two[i]
            /\ \A i \in 1..Len(level0) : (two \o level0)[Len(two) + i] = level0[i]
        <5>1. IsSeq(level0)
          BY <1>4
        <5> QED BY <1>7a, <5>1, Joined
      <4> QED BY <1>7, <4>1
    <3>2. PICK x, y : x = (two \o level0) \o level1 /\ y = two \o lower
      OBVIOUS
    <3>3. /\ IsSeq(x) /\ Len(x) = 2 + Len(level0) + Len(level1)
          /\ \A i \in 1..2 + Len(level0) : x[i] = (two \o level0)[i]
          /\ \A i \in 1..Len(level1) : x[2 + Len(level0) + i] = level1[i]
      <4>1. PICK z : z = two \o level0
        OBVIOUS
      <4>2. IsSeq(z) /\ IsSeq(level1) /\ x = z \o level1 /\ Len(z) = 2 + Len(level0)
        BY <1>4, <3>1, <3>2, <4>1
      <4>3. /\ IsSeq(x) /\ Len(x) = Len(z) + Len(level1)
            /\ \A i \in 1..Len(z) : x[i] = z[i]
            /\ \A i \in 1..Len(level1) : x[Len(z) + i] = level1[i]
        BY <4>2, Joined
      <4> QED BY <4>1, <4>2, <4>3
    <3>4. /\ IsSeq(y) /\ Len(y) = 2 + Len(level0) + Len(level1)
          /\ \A i \in 1..2 : y[i] = two[i]
          /\ \A i \in 1..Len(lower) : y[2 + i] = lower[i]
      <4>1. /\ IsSeq(y) /\ Len(y) = Len(two) + Len(lower)
            /\ \A i \in 1..Len(two) : y[i] = two[i]
            /\ \A i \in 1..Len(lower) : y[Len(two) + i] = lower[i]
        BY <1>7a, <3>2, Joined
      <4>2. Len(two) + Len(lower) = 2 + Len(level0) + Len(level1)
        BY <1>4, <1>5, <1>7
      <4> QED BY <1>7, <4>1, <4>2
    <3>5. /\ \A i \in 1..Len(level0) : lower[i] = level0[i]
          /\ \A i \in 1..Len(level1) : lower[Len(level0) + i] = level1[i]
      BY <1>1, <1>4, Joined
    <3>6. ASSUME NEW i \in 1..Len(x) PROVE x[i] = y[i]
      <4>1. CASE i \in 1..2
        BY <1>4, <3>1, <3>3, <3>4, <4>1
      <4>2. CASE i - 2 \in 1..Len(level0)
        <5>1. PICK j \in 1..Len(level0) : i = 2 + j
          BY <4>2
        <5>2. 2 + j \in 1..2 + Len(level0) /\ j \in 1..Len(lower)
          BY <1>4, <1>5, <5>1
        <5>3. x[2 + j] = level0[j]
          BY <3>1, <3>3, <5>2
        <5>4. y[2 + j] = level0[j]
          BY <3>4, <3>5, <5>2
        <5> QED BY <5>1, <5>3, <5>4
      <4>3. CASE i - 2 - Len(level0) \in 1..Len(level1)
        <5>0. PICK j : j = i - 2 - Len(level0)
          OBVIOUS
        <5>1. j \in 1..Len(level1) /\ i = 2 + Len(level0) + j
          BY <1>4, <3>3, <4>3, <5>0
        <5>2. Len(level0) + j \in 1..Len(lower) /\ 2 + (Len(level0) + j) = i
          BY <1>4, <1>5, <5>1
        <5>3. y[i] = lower[Len(level0) + j]
          BY <3>4, <5>2
        <5> QED BY <3>3, <3>5, <5>1, <5>3
      <4> QED BY <1>4, <3>3, <4>1, <4>2, <4>3
    <3> QED BY <1>4, <3>2, <3>3, <3>4, <3>6, SameSeq
  <2> QED BY <1>8, <2>1 DEF Children
<1>10. PICK all : all = Children
  OBVIOUS
<1>11. /\ IsSeq(all) /\ Len(all) = 2 + Len(lower) /\ \A i \in 1..2 : all[i] = two[i]
       /\ \A i \in 1..Len(lower) : all[2 + i] = lower[i]
       /\ \A i \in 1..2 + Len(lower) : i > 2 => all[i] = lower[i - 2] /\ i - 2 \in 1..Len(lower)
  <2>1. /\ IsSeq(all) /\ Len(all) = Len(two) + Len(lower)
        /\ \A i \in 1..Len(two) : all[i] = two[i]
        /\ \A i \in 1..Len(lower) : all[Len(two) + i] = lower[i]
        /\ \A i \in 1..Len(two) + Len(lower) :
             i > Len(two) => all[i] = lower[i - Len(two)] /\ i - Len(two) \in 1..Len(lower)
    BY <1>7a, <1>9, <1>10, Joined
  <2> QED BY <1>7, <2>1
<1>12. all[1] = a /\ all[2] = b
  BY <1>7, <1>11
<1>13. Runs(all)
  <2>1. ASSUME NEW c \in 1..Len(all) PROVE Run(all[c])
    <3>1. CASE c = 1 \/ c = 2
      BY <1>2, <1>12, <3>1
    <3>2. CASE c > 2
      BY <1>3, <1>11, <3>2 DEF Tables, Runs
    <3> QED BY <1>3, <1>11, <3>1, <3>2
  <2> QED BY <1>11, <2>1 DEF Runs
<1>14. DOMAIN MemChildren = {1, 2}
  <2>1. DOMAIN two = 1..2
    BY <1>7, Shape
  <2> QED BY <1>8, <2>1
<1>15. Len(all) = 2 + Len(level0) + Len(level1)
  BY <1>4, <1>5, <1>11
<1> QED BY <1>1, <1>3, <1>10, <1>11, <1>12, <1>13, <1>14, <1>15

LEMMA IteratorsShowTheRecords ==
  ASSUME KeysStandApart, InOrderInv
  PROVE  IteratorMissesNoKey
<1>1. PICK its, all, lower : its = Children /\ all = Iterator /\ lower = level0 \o level1
  OBVIOUS
<1>2. /\ Runs(its) /\ Tables(lower) /\ Len(its) = 2 + Len(level0) + Len(level1)
      /\ its[1] = InOrder(mem.data) /\ its[2] = InOrder(imm.data)
      /\ \A c \in 1..Len(lower) : its[2 + c] = lower[c]
      /\ \A c \in 1..Len(its) : c > 2 => its[c] = lower[c - 2] /\ c - 2 \in 1..Len(lower)
  BY <1>1, ChildrenFacts
<1>3. PICK f : MergeOf(its, all, f)
  BY <1>1, <1>2, MergeFacts DEF Iterator
<1>4. Run(all) /\ IsSeq(all) /\ Len(all) \in Nat
  BY <1>3, Shape DEF MergeOf, Run
<1>5. \A i \in 1..Len(all) - 1 : AtMost(UserKey(all[i]), UserKey(all[i + 1]))
  <2>1. \A i \in 1..Len(all) - 1 : i \in 1..Len(all) /\ i + 1 \in 1..Len(all) /\ i <= i + 1
    BY <1>4
  <2> QED BY <1>4, <2>1 DEF Run
<1>6. Len(level0) \in Nat /\ Len(level1) \in Nat
  BY Shape DEF InOrderInv, Tables, Runs
<1>6a. Len(lower) = Len(level0) + Len(level1)
  <2>1. IsSeq(level0) /\ IsSeq(level1)
    BY DEF InOrderInv, Tables, Runs
  <2> QED BY <1>1, <2>1, Joined
<1>7. \A x : x \in ToSet(all) <=> \E c \in 1..Len(its) : \E i \in 1..Len(its[c]) : x = its[c][i]
  <2> TAKE x
  <2>1. x \in ToSet(all) <=> \E i \in 1..Len(all) : x = all[i]
    BY <1>4, MembersOf
  <2>2. ASSUME NEW i \in 1..Len(all)
        PROVE  \E c \in 1..Len(its) : \E j \in 1..Len(its[c]) : all[i] = its[c][j]
    <3>1. f[i] \in Places(its) /\ all[i] = RecordAt(its, f[i])
      BY <1>3 DEF MergeOf
    <3> QED BY <1>2, <3>1, RecordAtFacts
  <2>3. ASSUME NEW c \in 1..Len(its), NEW j \in 1..Len(its[c])
        PROVE  \E i \in 1..Len(all) : its[c][j] = all[i]
    <3>1. <<c, j>> \in Places(its) /\ RecordAt(its, <<c, j>>) = its[c][j]
      BY <1>2, PlacesFacts DEF RecordAt
    <3>2. PICK i \in 1..Len(all) : f[i] = <<c, j>>
      BY <1>3, <3>1 DEF MergeOf
    <3> QED BY <1>3, <3>1, <3>2 DEF MergeOf
  <2>4. ASSUME x \in ToSet(all)
        PROVE  \E c \in 1..Len(its) : \E i \in 1..Len(its[c]) : x = its[c][i]
    <3>1. PICK i \in 1..Len(all) : x = all[i]
      BY <2>1, <2>4
    <3> QED BY <2>2, <3>1
  <2>5. ASSUME NEW c \in 1..Len(its), NEW j \in 1..Len(its[c]), x = its[c][j]
        PROVE  x \in ToSet(all)
    <3>1. PICK i \in 1..Len(all) : its[c][j] = all[i]
      BY <2>3
    <3> QED BY <2>1, <2>5, <3>1
  <2> QED BY <2>4, <2>5
<1>8. /\ \A x : x \in mem.data <=> \E i \in 1..Len(its[1]) : x = its[1][i]
      /\ \A x : x \in imm.data <=> \E i \in 1..Len(its[2]) : x = its[2][i]
  <2>1. /\ \A i \in 1..Len(its[1]) : its[1][i] \in mem.data
        /\ \A r \in mem.data : \E i \in 1..Len(its[1]) : its[1][i] = r
    BY <1>2, InOrderFacts DEF InOrderInv
  <2>2. /\ \A i \in 1..Len(its[2]) : its[2][i] \in imm.data
        /\ \A r \in imm.data : \E i \in 1..Len(its[2]) : its[2][i] = r
    BY <1>2, InOrderFacts DEF InOrderInv
  <2> QED BY <2>1, <2>2
<1>9. PICK below : below = UNION {ToSet(t) : t \in ToSet(lower)}
  OBVIOUS
<1>10. \A x : x \in below <=> \E c \in 1..Len(lower) : \E i \in 1..Len(lower[c]) : x = lower[c][i]
  <2>1. \A x : x \in ToSet(lower) <=> \E c \in 1..Len(lower) : x = lower[c]
    BY <1>2, MembersOf DEF Tables, Runs
  <2>2. \A c \in 1..Len(lower) : IsSeq(lower[c])
    BY <1>2 DEF Tables, Runs, Run
  <2>3. \A c \in 1..Len(lower) : \A x :
          x \in ToSet(lower[c]) <=> \E i \in 1..Len(lower[c]) : x = lower[c][i]
    BY <2>2, MembersOf
  <2> TAKE x
  <2>4. x \in below <=> \E t \in ToSet(lower) : x \in ToSet(t)
    BY <1>9
  <2>5. (\E t \in ToSet(lower) : x \in ToSet(t)) <=> \E c \in 1..Len(lower) : x \in ToSet(lower[c])
    BY <2>1
  <2>6. (\E c \in 1..Len(lower) : x \in ToSet(lower[c]))
          <=> \E c \in 1..Len(lower) : \E i \in 1..Len(lower[c]) : x = lower[c][i]
    <3>1. \A c \in 1..Len(lower) :
            x \in ToSet(lower[c]) <=> \E i \in 1..Len(lower[c]) : x = lower[c][i]
      BY <2>3
    <3> QED BY <3>1, Zenon
  <2> QED BY <2>4, <2>5, <2>6
<1>11. ToSet(all) = mem.data \cup imm.data \cup below
  <2>1. ASSUME NEW x, x \in ToSet(all)
        PROVE  x \in mem.data \/ x \in imm.data \/ x \in below
    <3>1. PICK c \in 1..Len(its) : \E i \in 1..Len(its[c]) : x = its[c][i]
      BY <1>7, <2>1
    <3>2. CASE c = 1
      BY <1>8, <3>1, <3>2
    <3>3. CASE c = 2
      BY <1>8, <3>1, <3>3
    <3>4. CASE c > 2
      BY <1>2, <1>10, <3>1, <3>4
    <3>5. c \in Nat /\ c > 0
      BY <1>2, <1>6
    <3> QED BY <3>2, <3>3, <3>4, <3>5
  <2>2. ASSUME NEW x, x \in mem.data \/ x \in imm.data \/ x \in below
        PROVE  x \in ToSet(all)
    <3>1. 1 \in 1..Len(its) /\ 2 \in 1..Len(its)
      BY <1>2, <1>6
    <3>2. CASE x \in mem.data
      BY <1>7, <1>8, <3>1, <3>2
    <3>3. CASE x \in imm.data
      BY <1>7, <1>8, <3>1, <3>3
    <3>4. CASE x \in below
      <4>1. PICK c \in 1..Len(lower) : \E i \in 1..Len(lower[c]) : x = lower[c][i]
        BY <1>10, <3>4
      <4>2. 2 + c \in 1..Len(its)
        BY <1>2, <1>6, <1>6a
      <4>3. its[2 + c] = lower[c]
        BY <1>2
      <4> QED BY <1>7, <4>1, <4>2, <4>3
    <3> QED BY <2>2, <3>2, <3>3, <3>4
  <2> QED BY <2>1, <2>2
<1>12. PICK stored : stored = mem.data \cup imm.data \cup below
  OBVIOUS
<1>13. ToSet(all) = stored
  BY <1>11, <1>12
<1>14. {UserKey(r) : r \in stored} \subseteq {UserKey(r) : r \in ToSet(all)}
  BY <1>13
<1> QED BY <1>1, <1>5, <1>9, <1>12, <1>13, <1>14 DEF IteratorMissesNoKey

LEMMA SeekLeadsThere ==
  ASSUME KeysStandApart, InOrderInv
  PROVE  SeekSkipsWhatIsBelow
<1>1. PICK its, all : its = Children /\ all = Iterator
  OBVIOUS
<1>2. Runs(its) /\ DOMAIN MemChildren = {1, 2}
  BY <1>1, ChildrenFacts
<1>3. IsSeq(its) /\ Len(its) \in Nat /\ DOMAIN its = 1..Len(its)
  BY <1>2, Shape DEF Runs
<1> SUFFICES ASSUME NEW k \in UserKeys, NEW below, NEW there,
                    below = Cardinality({i \in DOMAIN all : Less(UserKey(all[i]), k)}),
                    there = Yield(its, FromFirst(its), below).pos
    PROVE  Seek(its, FromFirst(its), k) = there /\ Seek(its, there, k) = there
  BY <1>1 DEF SeekSkipsWhatIsBelow
<1>4. Positions(its, there) /\ \A c \in 1..Len(its) : Bound(its[c], k, there[c])
  BY <1>1, <1>2, NextsLead DEF Iterator
<1>5. ASSUME NEW from, \A c \in 1..Len(its) : from[c] \in 1..there[c]
      PROVE  Seek(its, from, k) = there
  <2>1. ASSUME NEW c \in 1..Len(its)
        PROVE  (IF c \in DOMAIN MemChildren THEN MemTableSeek(its[c], from[c], k)
                ELSE TableSeek(its[c], k)) = there[c]
    <3>1. Run(its[c]) /\ Bound(its[c], k, there[c]) /\ from[c] \in 1..there[c]
      BY <1>2, <1>4, <1>5 DEF Runs
    <3>2. MemTableSeek(its[c], from[c], k) = there[c]
      BY <3>1, MemTableSeekFinds
    <3>3. TableSeek(its[c], k) = there[c]
      BY <3>1, TableSeekFinds
    <3> QED BY <3>2, <3>3
  <2>2. Seek(its, from, k) = [c \in 1..Len(its) |-> there[c]]
    BY <1>3, <2>1 DEF Seek
  <2> QED BY <1>4, <2>2 DEF Positions
<1>6. \A c \in 1..Len(its) : there[c] \in Nat /\ there[c] > 0
  <2>1. \A c \in 1..Len(its) : Len(its[c]) \in Nat
    BY <1>2, Shape DEF Runs, Run
  <2> QED BY <1>4, <2>1 DEF Positions
<1>7. Seek(its, FromFirst(its), k) = there
  <2>1. \A c \in 1..Len(its) : FromFirst(its)[c] \in 1..there[c]
    BY <1>3, <1>6 DEF FromFirst
  <2> QED BY <1>5, <2>1
<1>8. Seek(its, there, k) = there
  <2>1. \A c \in 1..Len(its) : there[c] \in 1..there[c]
    BY <1>6
  <2> QED BY <1>5, <2>1
<1> QED BY <1>7, <1>8

\* Whatever is written, flushed and compacted, an iterator of DB::NewIterator yields
\* every user key of the memtables and tables, in their order, and only what is
\* stored, if no user key continues another with a byte 0 or 1. (How often it
\* yields a key is not claimed: more than once if there are several versions.)
THEOREM IteratorsAreComplete ==
  ASSUME KeysStandApart
  PROVE  Spec => []IteratorMissesNoKey
<1>1. InOrderInv => IteratorMissesNoKey
  BY IteratorsShowTheRecords
<1>2. Spec => []InOrderInv
  BY InOrderInvHolds
<1> QED BY <1>1, <1>2, PTL

\* The two ways in which MemTableIterator::Seek and SSTableIterator::Seek look for
\* a key lead to the same place, the one that calls of Next would lead to, for
\* such keys.
THEOREM SeeksAgreeWithNext ==
  ASSUME KeysStandApart
  PROVE  Spec => []SeekSkipsWhatIsBelow
<1>1. InOrderInv => SeekSkipsWhatIsBelow
  BY SeekLeadsThere
<1>2. Spec => []InOrderInv
  BY InOrderInvHolds
<1> QED BY <1>1, <1>2, PTL

-----------------------------------------------------------------------------
(* The versions of a key in a memtable *)

\* Of two versions the later one comes first, unless it is a value and the other
\* a tombstone, or the low digit of the sequence number has wrapped.
LEMMA LaterIsLess ==
  ASSUME NEW k \in UserKeys, NEW s \in Nat, NEW t \in Nat, NEW v \in Nat, NEW w \in Nat,
         s < t, t < Base, w = Tombstone \/ v # Tombstone
  PROVE  Less(Record(k, t, w).key, Record(k, s, v).key)
<1>1. PICK a, b, n : a = MakeInternalKey(k, t, w) /\ b = MakeInternalKey(k, s, v) /\ n = Len(k)
  OBVIOUS
<1>2. Record(k, t, w).key = a /\ Record(k, s, v).key = b
  BY <1>1, RecordFacts
<1>3. /\ k \in Bytes /\ a \in Bytes /\ Len(a) = n + SeqDigits + 1 /\ \A i \in 1..n : a[i] = k[i]
      /\ a[n + 1] = IF w = Tombstone THEN 0 ELSE 1
      /\ \A d \in 1..SeqDigits : a[n + 1 + d] = Digit(t, d)
  BY <1>1, InternalKeyFacts
<1>4. /\ b \in Bytes /\ Len(b) = n + SeqDigits + 1 /\ \A i \in 1..n : b[i] = k[i]
      /\ b[n + 1] = IF v = Tombstone THEN 0 ELSE 1
      /\ \A d \in 1..SeqDigits : b[n + 1 + d] = Digit(s, d)
  BY <1>1, InternalKeyFacts
<1>5. n \in Nat
  BY <1>1, <1>3, KeyShape
<1>6. SeqDigits \in Nat \ {0} /\ Base \in Nat
  BY VersionsAssumption
<1>7. DOMAIN a = 1..n + SeqDigits + 1 /\ DOMAIN b = 1..n + SeqDigits + 1
  BY <1>3, <1>4, KeyShape
<1>8. CASE w = Tombstone /\ v # Tombstone
  <2>1. n + 1 \in DOMAIN a \cap DOMAIN b /\ a[n + 1] < b[n + 1]
    BY <1>3, <1>4, <1>5, <1>6, <1>7, <1>8
  <2>3. Less(a, b)
    <3>1. PICK i : i = n + 1
      OBVIOUS
    <3>2. i \in DOMAIN a \cap DOMAIN b /\ a[i] < b[i]
      BY <2>1, <3>1
    <3>3. \A j \in 1..i - 1 : a[j] = b[j]
      <4>1. \A j \in 1..i - 1 : j \in 1..n
        BY <1>5, <3>1
      <4> QED BY <1>3, <1>4, <4>1
    <3> QED BY <3>2, <3>3 DEF Less
  <2> QED BY <1>2, <2>3
<1>9. CASE w = Tombstone <=> v = Tombstone
  <2>1. 1 \in 1..SeqDigits
    BY <1>6
  <2>2. a[n + 1 + 1] = Base - 1 - t /\ b[n + 1 + 1] = Base - 1 - s
    <3>1. s < Base
      BY <1>6
    <3>2. Digit(t, 1) = Base - 1 - t /\ Digit(s, 1) = Base - 1 - s
      BY <3>1, FirstDigit
    <3> QED BY <1>3, <1>4, <2>1, <3>2
  <2>3. n + 1 + 1 \in DOMAIN a \cap DOMAIN b /\ a[n + 1 + 1] < b[n + 1 + 1]
    BY <1>5, <1>6, <1>7, <2>2
  <2>4. a[n + 1] = b[n + 1]
    BY <1>3, <1>4, <1>9
  <2>6. Less(a, b)
    <3>1. PICK i : i = n + 1 + 1
      OBVIOUS
    <3>2. i \in DOMAIN a \cap DOMAIN b /\ a[i] < b[i]
      BY <2>3, <3>1
    <3>3. \A j \in 1..i - 1 : a[j] = b[j]
      <4>1. \A j \in 1..i - 1 : j \in 1..n \/ j = n + 1
        BY <1>5, <3>1
      <4> QED BY <1>3, <1>4, <2>4, <4>1
    <3> QED BY <3>2, <3>3 DEF Less
  <2> QED BY <1>2, <2>6
<1> QED BY <1>8, <1>9

\* The record of k that MemTable::Get finds.
FirstOf(data, k, r) ==
  /\ r \in data /\ UserKey(r) = k
  /\ \A s \in data : UserKey(s) = k /\ s # r => Less(r.key, s.key)

HoldsNewest(data, k, v) == \E r : FirstOf(data, k, r) /\ r.value = v
LacksKey(data, k) == \A r \in data : UserKey(r) # k

LEMMA MemTableGetFinds ==
  ASSUME KeysStandApart, NEW data, MemOK(data), NEW k \in UserKeys
  PROVE  /\ LacksKey(data, k) => MemTableGet(data, k) = {}
         /\ \A v : HoldsNewest(data, k, v) => MemTableGet(data, k) = {v}
<1> DEFINE above == {r \in data : AtMost(MakeLookupKey(k), r.key)}
           first == {r \in above : \A s \in above : AtMost(r.key, s.key)}
<1>1. MemTableGet(data, k) = {r.value : r \in {x \in first : UserKey(x) = k}}
  BY DEF MemTableGet
<1>2. ASSUME LacksKey(data, k) PROVE MemTableGet(data, k) = {}
  BY <1>1, <1>2 DEF LacksKey
<1>3. ASSUME NEW v, HoldsNewest(data, k, v) PROVE MemTableGet(data, k) = {v}
  <2>1. PICK r : FirstOf(data, k, r) /\ r.value = v
    BY <1>3 DEF HoldsNewest
  <2>2. \A s \in data : IsRecord(s)
    BY DEF MemOK
  <2>3. \A s \in data : s.key \in Bytes /\ UserKey(s) \in Bytes
    BY <2>2, RecordShape
  <2>4. r \in data /\ UserKey(r) = k /\ k \in Bytes
    BY <2>1, UserKeyBytes DEF FirstOf
  <2>5. r \in above
    BY <2>2, <2>4, LookupOrder DEF AtMost
  <2>6. ASSUME NEW s \in above PROVE AtMost(r.key, s.key)
    <3>1. CASE UserKey(s) = k
      BY <2>1, <3>1 DEF FirstOf, AtMost
    <3>2. CASE UserKey(s) # k
      <4>1. s \in data /\ AtMost(k, UserKey(s))
        BY <2>2, LookupOrder
      <4>2. ~AtMost(UserKey(s), UserKey(r))
        BY <2>3, <2>4, <3>2, <4>1, KeyOrder
      <4>3. ~AtMost(s.key, r.key)
        BY <2>2, <2>4, <4>1, <4>2, RecordOrder
      <4> QED BY <2>3, <2>4, <4>1, <4>3, KeyOrder DEF AtMost
    <3> QED BY <3>1, <3>2
  <2>7. r \in first
    BY <2>5, <2>6
  <2>8. ASSUME NEW x \in first, UserKey(x) = k PROVE x = r
    <3>1. x \in data /\ AtMost(x.key, r.key)
      BY <2>5
    <3>2. ASSUME x # r PROVE FALSE
      <4>1. Less(r.key, x.key)
        BY <2>1, <2>8, <3>1, <3>2 DEF FirstOf
      <4> QED BY <2>3, <2>4, <3>1, <4>1, KeyOrder
    <3> QED BY <3>2
  <2>9. {x \in first : UserKey(x) = k} = {r}
    BY <2>4, <2>7, <2>8
  <2> QED BY <1>1, <2>1, <2>9
<1> HIDE DEF above, first
<1> QED BY <1>2, <1>3

\* MemTable::Add numbers its records upwards from 1.
Numbered(m) ==
  /\ m.seq \in Nat
  /\ \A r \in m.data : \E l \in UserKeys : \E s \in 1..m.seq : \E v \in Nat : r = Record(l, s, v)

LEMMA AddedIsFirst ==
  ASSUME NEW m, NEW k \in UserKeys, NEW w \in Nat, Numbered(m),
         NEW new, new = Add(m, k, w), ~VersionsMixed(new, k, w)
  PROVE  HoldsNewest(new.data, k, w)
<1>1. PICK t \in Nat : t = m.seq + 1
  BY DEF Numbered
<1>2. PICK r : r = Record(k, t, w)
  OBVIOUS
<1>3. new.seq = t /\ new.data = m.data \cup {r}
  BY <1>1, <1>2 DEF Add
<1>4. UserKey(r) = k /\ r.value = w
  BY <1>2, RecordFacts
<1>5. ASSUME NEW s \in new.data, UserKey(s) = k, s # r PROVE Less(r.key, s.key)
  <2>1. s \in m.data
    BY <1>3, <1>5
  <2>2. PICK l \in UserKeys, n \in 1..m.seq, v \in Nat : s = Record(l, n, v)
    BY <2>1 DEF Numbered
  <2>3. n \in Nat /\ n < t
    BY <1>1 DEF Numbered
  <2>4. l = k /\ s.value = v
    BY <1>5, <2>2, <2>3, RecordFacts
  <2>5. t < Base
    <3>1. ~(t >= Base)
      BY <1>3, <1>4, <1>5 DEF VersionsMixed
    <3> QED BY <3>1, VersionsAssumption
  <2>6. w = Tombstone \/ v # Tombstone
    BY <1>5, <2>4 DEF VersionsMixed, HasTombstone
  <2> QED BY <1>2, <2>2, <2>3, <2>4, <2>5, <2>6, LaterIsLess
<1> QED BY <1>3, <1>4, <1>5 DEF HoldsNewest, FirstOf

\* What is added of another key changes nothing.
LEMMA AddedElsewhere ==
  ASSUME NEW m, NEW k \in UserKeys, NEW l \in UserKeys, NEW w \in Nat, k # l, Numbered(m),
         NEW new, new = Add(m, l, w)
  PROVE  /\ LacksKey(m.data, k) => LacksKey(new.data, k)
         /\ \A v : HoldsNewest(m.data, k, v) => HoldsNewest(new.data, k, v)
<1>1. PICK r : r = Record(l, m.seq + 1, w)
  OBVIOUS
<1>2. new.data = m.data \cup {r}
  BY <1>1 DEF Add
<1>3. UserKey(r) = l
  BY <1>1, RecordFacts DEF Numbered
<1> QED BY <1>2, <1>3 DEF LacksKey, HoldsNewest, FirstOf

LEMMA AddedIsNumbered ==
  ASSUME NEW m, NEW k \in UserKeys, NEW w \in Nat, Numbered(m)
  PROVE  Numbered(Add(m, k, w))
<1>1. PICK new : new = Add(m, k, w)
  OBVIOUS
<1>2. new.seq = m.seq + 1 /\ new.data = m.data \cup {Record(k, m.seq + 1, w)}
  BY <1>1 DEF Add
<1>3. m.seq + 1 \in 1..new.seq /\ new.seq \in Nat /\ \A s \in 1..m.seq : s \in 1..new.seq
  BY <1>2 DEF Numbered
<1>4. ASSUME NEW r \in new.data
      PROVE  \E l \in UserKeys : \E s \in 1..new.seq : \E v \in Nat : r = Record(l, s, v)
  <2>1. CASE r \in m.data
    BY <1>3, <2>1 DEF Numbered
  <2>2. CASE r = Record(k, m.seq + 1, w)
    BY <1>3, <2>2
  <2> QED BY <1>2, <2>1, <2>2
<1> QED BY <1>1, <1>3, <1>4 DEF Numbered

-----------------------------------------------------------------------------
(* The versions of a key in a table *)

\* No record of F, a sequence or a function of places, is one of k.
Lacks(F, k) == \A p \in DOMAIN F : UserKey(F[p]) # k

\* The first record of k in table t has the value v.
NewestIn(t, k, v) ==
  \E i \in 1..Len(t) : /\ UserKey(t[i]) = k /\ t[i].value = v
                       /\ \A j \in 1..Len(t) : j < i => UserKey(t[j]) # k

LEMMA TableGetCases ==
  ASSUME KeysStandApart, NEW t, Run(t), NEW k \in UserKeys
  PROVE  /\ Lacks(t, k) => TableGet(t, k) = {}
         /\ \A v : NewestIn(t, k, v) => TableGet(t, k) = {v}
<1>1. IsSeq(t) /\ Len(t) \in Nat /\ DOMAIN t = 1..Len(t)
  BY Shape DEF Run
<1>2. ASSUME Lacks(t, k) PROVE TableGet(t, k) = {}
  <2>1. PICK b : Bound(t, k, b)
    BY BoundExists
  <2>2. b \in 1..Len(t) + 1
    BY <2>1 DEF Bound
  <2>3. ~(b <= Len(t) /\ UserKey(t[b]) = k)
    BY <1>1, <1>2, <2>2 DEF Lacks
  <2> QED BY <2>1, <2>3, TableGetFinds
<1>3. ASSUME NEW v, NewestIn(t, k, v) PROVE TableGet(t, k) = {v}
  <2>1. PICK i \in 1..Len(t) : /\ UserKey(t[i]) = k /\ t[i].value = v
                               /\ \A j \in 1..Len(t) : j < i => UserKey(t[j]) # k
    BY <1>3 DEF NewestIn
  <2>2. ASSUME NEW j \in 1..Len(t), j < i PROVE Less(UserKey(t[j]), k)
    <3>1. AtMost(UserKey(t[j]), UserKey(t[i]))
      BY <2>2 DEF Run
    <3> QED BY <2>1, <2>2, <3>1 DEF AtMost
  <2>3. ASSUME NEW j \in 1..Len(t), i <= j PROVE AtMost(k, UserKey(t[j]))
    BY <2>1, <2>3 DEF Run
  <2>4. Bound(t, k, i)
    BY <1>1, <2>2, <2>3 DEF Bound
  <2>5. i <= Len(t)
    BY <1>1
  <2> QED BY <2>1, <2>4, <2>5, TableGetFinds
<1> QED BY <1>2, <1>3

\* The table of a flush has the record that MemTable::Get found first.
LEMMA FlushKeepsNewest ==
  ASSUME KeysStandApart, NEW data, NEW s, NEW t, NEW k \in UserKeys, MemOK(data), data # {},
         s = InOrder(data), t = BuildTable(s)
  PROVE  /\ LacksKey(data, k) => Lacks(t, k)
         /\ \A v : HoldsNewest(data, k, v) => NewestIn(t, k, v)
<1>1. /\ Run(s) /\ Run(t) /\ Len(t) = Len(s)
      /\ \A i \in 1..Len(t) : UserKey(t[i]) = UserKey(s[i]) /\ t[i].value = s[i].value
  BY FlushedFacts
<1>2. /\ \A i \in 1..Len(s) : s[i] \in data
      /\ \A r \in data : \E i \in 1..Len(s) : s[i] = r
      /\ \A i, j \in 1..Len(s) : i < j => AtMost(s[i].key, s[j].key)
  BY InOrderFacts
<1>3. Len(s) \in Nat /\ DOMAIN t = 1..Len(t)
  BY <1>1, Shape DEF Run
<1>4. ASSUME LacksKey(data, k) PROVE Lacks(t, k)
  BY <1>1, <1>2, <1>3, <1>4 DEF Lacks, LacksKey
<1>5. ASSUME NEW v, HoldsNewest(data, k, v) PROVE NewestIn(t, k, v)
  <2>1. PICK r : FirstOf(data, k, r) /\ r.value = v
    BY <1>5 DEF HoldsNewest
  <2> DEFINE S == {i \in 1..Len(s) : s[i] = r}
  <2>2. S # {} /\ S \in SUBSET Nat
    BY <1>2, <2>1 DEF FirstOf
  <2> HIDE DEF S
  <2>3. PICK i \in S : \A j \in S : i <= j
    BY <2>2, Least
  <2>4. i \in 1..Len(s) /\ s[i] = r
    BY <2>3 DEF S
  <2>5. ASSUME NEW j \in 1..Len(s), j < i PROVE UserKey(s[j]) # k
    <3>1. s[j] # r
      BY <1>3, <2>3, <2>4, <2>5 DEF S
    <3>2. s[j] \in data /\ AtMost(s[j].key, r.key)
      BY <1>2, <2>4, <2>5
    <3>3. s[j].key \in Bytes /\ r.key \in Bytes
      BY <1>1, <2>4, RecordShape DEF Run
    <3>4. ~Less(r.key, s[j].key)
      BY <3>2, <3>3, KeyOrder
    <3> QED BY <2>1, <3>1, <3>2, <3>4 DEF FirstOf
  <2>6. UserKey(r) = k
    BY <2>1 DEF FirstOf
  <2> QED BY <1>1, <2>1, <2>4, <2>5, <2>6 DEF NewestIn
<1> QED BY <1>4, <1>5

-----------------------------------------------------------------------------
(* Keys with one version in some tables *)

\* What the tables hold, by place.
Held(ts) == [p \in Places(ts) |-> RecordAt(ts, p)]

\* F has one record of k, with the value v; or none, when v is a tombstone.
Sole(F, k, v) ==
  /\ \A p, q \in DOMAIN F : UserKey(F[p]) = k /\ UserKey(F[q]) = k => p = q
  /\ \A p \in DOMAIN F : UserKey(F[p]) = k => F[p].value = v
  /\ Lacks(F, k) => v = Tombstone

\* The records of G are those of F, each once, but perhaps not the tombstones.
Carries(F, G, f) ==
  /\ \A q \in DOMAIN G : /\ f[q] \in DOMAIN F
                         /\ UserKey(G[q]) = UserKey(F[f[q]]) /\ G[q].value = F[f[q]].value
  /\ \A p, q \in DOMAIN G : f[p] = f[q] => p = q
  /\ \A p \in DOMAIN F : F[p].value # Tombstone => \E q \in DOMAIN G : f[q] = p

LEMMA Carried ==
  ASSUME NEW F, NEW G, NEW f, Carries(F, G, f), NEW k
  PROVE  /\ Lacks(F, k) => Lacks(G, k)
         /\ \A v : Sole(F, k, v) => Sole(G, k, v)
<1>1. /\ \A q \in DOMAIN G : /\ f[q] \in DOMAIN F
                             /\ UserKey(G[q]) = UserKey(F[f[q]]) /\ G[q].value = F[f[q]].value
      /\ \A p, q \in DOMAIN G : f[p] = f[q] => p = q
      /\ \A p \in DOMAIN F : F[p].value # Tombstone => \E q \in DOMAIN G : f[q] = p
  BY DEF Carries
<1>2. Lacks(F, k) => Lacks(G, k)
  BY <1>1 DEF Lacks
<1>3. ASSUME NEW v, Sole(F, k, v) PROVE Sole(G, k, v)
  <2>1. \A p, q \in DOMAIN G : UserKey(G[p]) = k /\ UserKey(G[q]) = k => p = q
    <3> SUFFICES ASSUME NEW p \in DOMAIN G, NEW q \in DOMAIN G, UserKey(G[p]) = k, UserKey(G[q]) = k
        PROVE  p = q
      OBVIOUS
    <3>1. f[p] = f[q]
      BY <1>1, <1>3 DEF Sole
    <3> QED BY <1>1, <3>1
  <2>2. \A p \in DOMAIN G : UserKey(G[p]) = k => G[p].value = v
    BY <1>1, <1>3 DEF Sole
  <2>3. ASSUME Lacks(G, k), v # Tombstone PROVE FALSE
    <3>1. PICK p \in DOMAIN F : UserKey(F[p]) = k /\ F[p].value = v
      BY <1>3, <2>3 DEF Sole, Lacks
    <3>2. PICK q \in DOMAIN G : f[q] = p
      BY <1>1, <2>3, <3>1
    <3> QED BY <1>1, <2>3, <3>1, <3>2 DEF Lacks
  <2> QED BY <2>1, <2>2, <2>3 DEF Sole
<1> QED BY <1>2, <1>3

LEMMA HeldFacts ==
  ASSUME NEW ts, Runs(ts)
  PROVE  /\ DOMAIN Held(ts) = Places(ts)
         /\ \A p : p \in Places(ts) <=> \E c \in 1..Len(ts) : \E i \in 1..Len(ts[c]) : p = <<c, i>>
         /\ \A p \in Places(ts) : /\ p[1] \in 1..Len(ts) /\ p[2] \in 1..Len(ts[p[1]])
                                  /\ p = <<p[1], p[2]>> /\ Held(ts)[p] = ts[p[1]][p[2]]
         /\ \A c \in 1..Len(ts) : \A i \in 1..Len(ts[c]) :
              <<c, i>> \in Places(ts) /\ Held(ts)[<<c, i>>] = ts[c][i]
<1>1. DOMAIN Held(ts) = Places(ts) /\ \A p \in Places(ts) : Held(ts)[p] = RecordAt(ts, p)
  BY DEF Held
<1>2. \A p : p \in Places(ts) <=> \E c \in 1..Len(ts) : \E i \in 1..Len(ts[c]) : p = <<c, i>>
  BY PlacesFacts
<1>3. \A p \in Places(ts) : /\ p[1] \in 1..Len(ts) /\ p[2] \in 1..Len(ts[p[1]])
                            /\ p = <<p[1], p[2]>> /\ RecordAt(ts, p) = ts[p[1]][p[2]]
  BY RecordAtFacts
<1>4. \A c \in 1..Len(ts) : \A i \in 1..Len(ts[c]) : <<c, i>> \in Places(ts)
  BY <1>2
<1>5. \A c, i : RecordAt(ts, <<c, i>>) = ts[c][i]
  BY DEF RecordAt
<1> QED BY <1>1, <1>2, <1>3, <1>4, <1>5

\* The same, table by table.
LEMMA LacksTables ==
  ASSUME NEW ts, Runs(ts), NEW k
  PROVE  Lacks(Held(ts), k) <=> \A c \in 1..Len(ts) : Lacks(ts[c], k)
<1>1. \A c \in 1..Len(ts) : DOMAIN ts[c] = 1..Len(ts[c])
  BY Shape DEF Runs, Run
<1>2. ASSUME Lacks(Held(ts), k), NEW c \in 1..Len(ts), NEW i \in 1..Len(ts[c])
      PROVE  UserKey(ts[c][i]) # k
  <2>1. <<c, i>> \in DOMAIN Held(ts) /\ Held(ts)[<<c, i>>] = ts[c][i]
    BY HeldFacts
  <2>2. \A p \in DOMAIN Held(ts) : UserKey(Held(ts)[p]) # k
    BY <1>2 DEF Lacks
  <2> QED BY <2>1, <2>2
<1>3. ASSUME \A c \in 1..Len(ts) : Lacks(ts[c], k), NEW p \in Places(ts)
      PROVE  UserKey(Held(ts)[p]) # k
  BY <1>1, <1>3, HeldFacts DEF Lacks
<1>4. DOMAIN Held(ts) = Places(ts)
  BY HeldFacts
<1> QED BY <1>1, <1>2, <1>3, <1>4 DEF Lacks

\* J is A \o B.
AreJoined(A, B, J) ==
  /\ Runs(J) /\ Len(J) = Len(A) + Len(B)
  /\ \A i \in 1..Len(A) : J[i] = A[i]
  /\ \A i \in 1..Len(B) : J[Len(A) + i] = B[i]

LEMMA JoinedRuns ==
  ASSUME NEW A, NEW B, Runs(A), Runs(B)
  PROVE  AreJoined(A, B, A \o B)
<1>1. IsSeq(A) /\ IsSeq(B)
  BY DEF Runs
<1>2. /\ Len(A \o B) = Len(A) + Len(B)
      /\ \A i \in 1..Len(A) : (A \o B)[i] = A[i]
      /\ \A i \in 1..Len(B) : (A \o B)[Len(A) + i] = B[i]
  BY <1>1, Joined
<1>3. Runs(A \o B)
  BY RunsJoined
<1> QED BY <1>2, <1>3 DEF AreJoined

\* What A and B hold is held by J, and nothing else.
LEMMA JoinedHeld ==
  ASSUME NEW A, NEW B, NEW J, Runs(A), Runs(B), AreJoined(A, B, J)
  PROVE  /\ \A p \in Places(A) : p \in Places(J) /\ Held(J)[p] = Held(A)[p]
         /\ \A p \in Places(B) : /\ <<Len(A) + p[1], p[2]>> \in Places(J)
                                 /\ Held(J)[<<Len(A) + p[1], p[2]>>] = Held(B)[p]
         /\ \A p \in Places(J) :
              \/ p \in Places(A)
              \/ \E q \in Places(B) : p = <<Len(A) + q[1], q[2]>>
         /\ \A p \in Places(A), q \in Places(B) : p # <<Len(A) + q[1], q[2]>>
<1>1. IsSeq(A) /\ IsSeq(B) /\ Len(A) \in Nat /\ Len(B) \in Nat
  BY Shape DEF Runs
<1>2. /\ Runs(J) /\ Len(J) = Len(A) + Len(B)
      /\ \A i \in 1..Len(A) : J[i] = A[i]
      /\ \A i \in 1..Len(B) : J[Len(A) + i] = B[i]
  BY DEF AreJoined
<1>2a. \A c \in 1..Len(J) : \A i \in 1..Len(J[c]) :
         <<c, i>> \in Places(J) /\ Held(J)[<<c, i>>] = J[c][i]
  <2>1. Runs(J)
    BY <1>2
  <2> QED BY <2>1, HeldFacts
<1>3. ASSUME NEW p \in Places(A) PROVE p \in Places(J) /\ Held(J)[p] = Held(A)[p]
  <2>1. PICK c, i : c = p[1] /\ i = p[2]
    OBVIOUS
  <2>2. c \in 1..Len(A) /\ i \in 1..Len(A[c]) /\ p = <<c, i>> /\ Held(A)[p] = A[c][i]
    BY <2>1, HeldFacts
  <2>3. c \in 1..Len(J) /\ J[c] = A[c]
    BY <1>1, <1>2, <2>2
  <2>4. <<c, i>> \in Places(J) /\ Held(J)[<<c, i>>] = J[c][i]
    BY <1>2a, <2>2, <2>3
  <2> QED BY <2>2, <2>3, <2>4
<1>4. ASSUME NEW p \in Places(B)
      PROVE  /\ <<Len(A) + p[1], p[2]>> \in Places(J)
             /\ Held(J)[<<Len(A) + p[1], p[2]>>] = Held(B)[p]
  <2>1. PICK c, i, d : c = p[1] /\ i = p[2] /\ d = Len(A) + p[1]
    OBVIOUS
  <2>2. c \in 1..Len(B) /\ i \in 1..Len(B[c]) /\ Held(B)[p] = B[c][i]
    BY <2>1, HeldFacts
  <2>3. d \in 1..Len(J) /\ J[d] = B[c]
    BY <1>1, <1>2, <2>1, <2>2
  <2>4. <<d, i>> \in Places(J) /\ Held(J)[<<d, i>>] = J[d][i]
    BY <1>2a, <2>2, <2>3
  <2> QED BY <2>1, <2>2, <2>3, <2>4
<1>5. ASSUME NEW p \in Places(J)
      PROVE  \/ p \in Places(A)
             \/ \E q \in Places(B) : p = <<Len(A) + q[1], q[2]>>
  <2>1. PICK c, i : c = p[1] /\ i = p[2]
    OBVIOUS
  <2>2. c \in 1..Len(J) /\ i \in 1..Len(J[c]) /\ p = <<c, i>>
    BY <1>2, <2>1, HeldFacts
  <2>3. CASE c \in 1..Len(A)
    <3>1. i \in 1..Len(A[c])
      BY <1>2, <2>2, <2>3
    <3> QED BY <2>2, <2>3, <3>1, HeldFacts
  <2>4. CASE c > Len(A)
    <3>1. PICK d : d = c - Len(A)
      OBVIOUS
    <3>2. d \in 1..Len(B) /\ c = Len(A) + d
      BY <1>1, <1>2, <2>2, <2>4, <3>1
    <3>3. i \in 1..Len(B[d])
      BY <1>2, <2>2, <3>2
    <3>4. <<d, i>> \in Places(B)
      BY <3>2, <3>3, HeldFacts
    <3> QED BY <2>2, <3>2, <3>4
  <2> QED BY <1>1, <1>2, <2>2, <2>3, <2>4
<1>6. ASSUME NEW p \in Places(A), NEW q \in Places(B) PROVE p # <<Len(A) + q[1], q[2]>>
  <2>1. p[1] \in 1..Len(A) /\ q[1] \in 1..Len(B)
    BY HeldFacts
  <2> QED BY <1>1, <2>1
<1> QED BY <1>3, <1>4, <1>5, <1>6

LEMMA SoleJoined ==
  ASSUME NEW A, NEW B, NEW J, Runs(A), Runs(B), AreJoined(A, B, J), NEW k
  PROVE  /\ Lacks(Held(J), k) <=> Lacks(Held(A), k) /\ Lacks(Held(B), k)
         /\ \A v : Sole(Held(J), k, v) <=> \/ Sole(Held(A), k, v) /\ Lacks(Held(B), k)
                                           \/ Lacks(Held(A), k) /\ Sole(Held(B), k, v)
<1>1. Runs(J)
  BY DEF AreJoined
<1>2. PICK F, G, H : F = Held(A) /\ G = Held(B) /\ H = Held(J)
  OBVIOUS
<1>3. DOMAIN F = Places(A) /\ DOMAIN G = Places(B) /\ DOMAIN H = Places(J)
  BY <1>1, <1>2, HeldFacts
<1>4. PICK g : g = [p \in DOMAIN G |-> <<Len(A) + p[1], p[2]>>]
  OBVIOUS
<1>5. \A p \in DOMAIN G : g[p] = <<Len(A) + p[1], p[2]>>
  BY <1>4
<1>6. \A p \in DOMAIN F : p \in DOMAIN H /\ H[p] = F[p]
  <2>1. \A p \in Places(A) : p \in Places(J) /\ Held(J)[p] = Held(A)[p]
    BY JoinedHeld
  <2> QED BY <1>2, <1>3, <2>1
<1>7. \A p \in DOMAIN G : g[p] \in DOMAIN H /\ H[g[p]] = G[p]
  <2>1. \A p \in Places(B) : /\ <<Len(A) + p[1], p[2]>> \in Places(J)
                              /\ Held(J)[<<Len(A) + p[1], p[2]>>] = Held(B)[p]
    BY JoinedHeld
  <2> QED BY <1>2, <1>3, <1>5, <2>1
<1>8. \A p \in DOMAIN H : p \in DOMAIN F \/ \E q \in DOMAIN G : p = g[q]
  <2>1. \A p \in Places(J) : \/ p \in Places(A)
                             \/ \E q \in Places(B) : p = <<Len(A) + q[1], q[2]>>
    BY JoinedHeld
  <2> QED BY <1>3, <1>5, <2>1
<1>9. \A p \in DOMAIN F, q \in DOMAIN G : p # g[q]
  <2>1. \A p \in Places(A), q \in Places(B) : p # <<Len(A) + q[1], q[2]>>
    BY JoinedHeld
  <2> QED BY <1>3, <1>5, <2>1
<1>10. \A p, q \in DOMAIN G : g[p] = g[q] => p = q
  <2> SUFFICES ASSUME NEW p \in DOMAIN G, NEW q \in DOMAIN G, g[p] = g[q] PROVE p = q
    OBVIOUS
  <2>1. /\ p[1] \in 1..Len(B) /\ p = <<p[1], p[2]>>
        /\ q[1] \in 1..Len(B) /\ q = <<q[1], q[2]>>
    BY <1>3, HeldFacts
  <2>2. Len(A) \in Nat /\ Len(B) \in Nat
    BY Shape DEF Runs
  <2>3. Len(A) + p[1] = Len(A) + q[1] /\ p[2] = q[2]
    BY <1>5
  <2>4. p[1] = q[1]
    BY <2>1, <2>2, <2>3
  <2> QED BY <2>1, <2>3, <2>4
<1>11. Lacks(H, k) <=> Lacks(F, k) /\ Lacks(G, k)
  <2>1. Lacks(H, k) => Lacks(F, k)
    BY <1>6 DEF Lacks
  <2>2. Lacks(H, k) => Lacks(G, k)
    BY <1>7 DEF Lacks
  <2>3. Lacks(F, k) /\ Lacks(G, k) => Lacks(H, k)
    BY <1>6, <1>7, <1>8 DEF Lacks
  <2> QED BY <2>1, <2>2, <2>3
<1>12. ASSUME NEW v, Sole(H, k, v)
       PROVE  (Sole(F, k, v) /\ Lacks(G, k)) \/ (Lacks(F, k) /\ Sole(G, k, v))
  <2>1. CASE Lacks(F, k)
    <3>1. \A p, q \in DOMAIN G : UserKey(G[p]) = k /\ UserKey(G[q]) = k => p = q
      BY <1>7, <1>10, <1>12 DEF Sole
    <3>2. \A p \in DOMAIN G : UserKey(G[p]) = k => G[p].value = v
      BY <1>7, <1>12 DEF Sole
    <3>3. Lacks(G, k) => v = Tombstone
      BY <1>11, <1>12, <2>1 DEF Sole
    <3> QED BY <2>1, <3>1, <3>2, <3>3 DEF Sole
  <2>2. CASE ~Lacks(F, k)
    <3>1. PICK p \in DOMAIN F : UserKey(F[p]) = k
      BY <2>2 DEF Lacks
    <3>2. Lacks(G, k)
      <4> SUFFICES ASSUME NEW q \in DOMAIN G, UserKey(G[q]) = k PROVE FALSE
        BY DEF Lacks
      <4>1. p = g[q]
        BY <1>6, <1>7, <1>12, <3>1 DEF Sole
      <4> QED BY <1>9, <4>1
    <3>3. Sole(F, k, v)
      BY <1>6, <1>12, <2>2 DEF Sole
    <3> QED BY <3>2, <3>3
  <2> QED BY <2>1, <2>2
<1>13. ASSUME NEW v, Sole(F, k, v), Lacks(G, k) PROVE Sole(H, k, v)
  <2>1. \A p \in DOMAIN H : UserKey(H[p]) = k => p \in DOMAIN F /\ UserKey(F[p]) = k /\ H[p] = F[p]
    BY <1>6, <1>7, <1>8, <1>13 DEF Lacks
  <2> QED BY <1>11, <1>13, <2>1 DEF Sole
<1>14. ASSUME NEW v, Lacks(F, k), Sole(G, k, v) PROVE Sole(H, k, v)
  <2>1. \A p \in DOMAIN H : UserKey(H[p]) = k =>
          \E q \in DOMAIN G : p = g[q] /\ UserKey(G[q]) = k /\ H[p] = G[q]
    BY <1>6, <1>7, <1>8, <1>14 DEF Lacks
  <2>2. \A p, q \in DOMAIN H : UserKey(H[p]) = k /\ UserKey(H[q]) = k => p = q
    <3> SUFFICES ASSUME NEW p \in DOMAIN H, NEW q \in DOMAIN H, UserKey(H[p]) = k, UserKey(H[q]) = k
        PROVE  p = q
      OBVIOUS
    <3>1. PICK x \in DOMAIN G : p = g[x] /\ UserKey(G[x]) = k
      BY <2>1
    <3>2. PICK y \in DOMAIN G : q = g[y] /\ UserKey(G[y]) = k
      BY <2>1
    <3>3. x = y
      BY <1>14, <3>1, <3>2 DEF Sole
    <3> QED BY <3>1, <3>2, <3>3
  <2>3. \A p \in DOMAIN H : UserKey(H[p]) = k => H[p].value = v
    BY <1>14, <2>1 DEF Sole
  <2>4. Lacks(H, k) => v = Tombstone
    BY <1>11, <1>14 DEF Sole
  <2> QED BY <2>2, <2>3, <2>4 DEF Sole
<1> QED BY <1>2, <1>11, <1>12, <1>13, <1>14

\* Of the tables of L those in S are chosen.
LEMMA ChosenKeeps ==
  ASSUME NEW L, NEW S, NEW t, Runs(L), Runs(t), t = Chosen(L, S), NEW k
  PROVE  /\ Lacks(Held(L), k) => Lacks(Held(t), k)
         /\ \A v, p : /\ Sole(Held(L), k, v) /\ p \in Places(L) /\ UserKey(Held(L)[p]) = k
                      => IF p[1] \in S THEN Sole(Held(t), k, v) ELSE Lacks(Held(t), k)
<1>1. PICK f : Picks(L, S, Len(L), t, f)
  BY ChosenFacts DEF Runs
<1>2. Len(L) \in Nat /\ Len(t) \in Nat
  BY Shape DEF Runs
<1>3. /\ \A i \in 1..Len(t) : f[i] \in 1..Len(L) /\ f[i] \in S /\ t[i] = L[f[i]]
      /\ \A i, j \in 1..Len(t) : i < j => f[i] < f[j]
      /\ \A p \in 1..Len(L) : p \in S => \E i \in 1..Len(t) : f[i] = p
  BY <1>1 DEF Picks
<1>4. \A i, j \in 1..Len(t) : f[i] = f[j] => i = j
  <2> SUFFICES ASSUME NEW i \in 1..Len(t), NEW j \in 1..Len(t), f[i] = f[j] PROVE i = j
    OBVIOUS
  <2>1. ~(i < j) /\ ~(j < i)
    BY <1>2, <1>3
  <2> QED BY <1>2, <2>1
<1>5. PICK F, G : F = Held(L) /\ G = Held(t)
  OBVIOUS
<1>6. DOMAIN F = Places(L) /\ DOMAIN G = Places(t)
  BY <1>5, HeldFacts
<1>7. PICK g : g = [q \in Places(t) |-> <<f[q[1]], q[2]>>]
  OBVIOUS
<1>8. ASSUME NEW q \in Places(t)
      PROVE  g[q] \in Places(L) /\ g[q][1] = f[q[1]] /\ g[q][2] = q[2] /\ F[g[q]] = G[q]
  <2>1. PICK c, i : c = q[1] /\ i = q[2]
    OBVIOUS
  <2>2. c \in 1..Len(t) /\ i \in 1..Len(t[c]) /\ Held(t)[q] = t[c][i]
    BY <2>1, HeldFacts
  <2>3. f[c] \in 1..Len(L) /\ L[f[c]] = t[c]
    BY <1>3, <2>2
  <2>4. \A d \in 1..Len(L) : \A j \in 1..Len(L[d]) : <<d, j>> \in Places(L) /\ Held(L)[<<d, j>>] = L[d][j]
    BY HeldFacts
  <2>5. <<f[c], i>> \in Places(L) /\ Held(L)[<<f[c], i>>] = L[f[c]][i]
    BY <2>2, <2>3, <2>4
  <2>6. g[q] = <<f[c], i>>
    BY <1>7, <2>1
  <2> QED BY <1>5, <2>1, <2>2, <2>3, <2>5, <2>6
<1>9. \A p, q \in Places(t) : g[p] = g[q] => p = q
  <2> SUFFICES ASSUME NEW p \in Places(t), NEW q \in Places(t), g[p] = g[q] PROVE p = q
    OBVIOUS
  <2>1. p[1] \in 1..Len(t) /\ q[1] \in 1..Len(t) /\ p = <<p[1], p[2]>> /\ q = <<q[1], q[2]>>
    BY HeldFacts
  <2>2. f[p[1]] = f[q[1]] /\ p[2] = q[2]
    BY <1>8
  <2>3. p[1] = q[1]
    BY <1>4, <2>1, <2>2
  <2> QED BY <2>1, <2>2, <2>3
<1>10. Lacks(F, k) => Lacks(G, k)
  BY <1>6, <1>8 DEF Lacks
<1>11. ASSUME NEW v, NEW p \in Places(L), Sole(F, k, v), UserKey(F[p]) = k, p[1] \in S
       PROVE  Sole(G, k, v)
  <2>1. \A q, r \in DOMAIN G : UserKey(G[q]) = k /\ UserKey(G[r]) = k => q = r
    BY <1>6, <1>8, <1>9, <1>11 DEF Sole
  <2>2. \A q \in DOMAIN G : UserKey(G[q]) = k => G[q].value = v
    BY <1>6, <1>8, <1>11 DEF Sole
  <2>3. ~Lacks(G, k)
    <3>1. PICK c, i : c = p[1] /\ i = p[2]
      OBVIOUS
    <3>2. c \in 1..Len(L) /\ i \in 1..Len(L[c]) /\ Held(L)[p] = L[c][i]
      BY <3>1, HeldFacts
    <3>3. PICK d \in 1..Len(t) : f[d] = c
      BY <1>3, <1>11, <3>1, <3>2
    <3>4. t[d] = L[c]
      BY <1>3, <3>3
    <3>5. <<d, i>> \in Places(t)
      BY <3>2, <3>4, PlacesFacts
    <3>6. Held(t)[<<d, i>>] = t[d][i]
      BY <3>5 DEF Held, RecordAt
    <3>7. UserKey(G[<<d, i>>]) = k /\ <<d, i>> \in DOMAIN G
      BY <1>5, <1>6, <1>11, <3>2, <3>4, <3>5, <3>6
    <3> QED BY <3>7 DEF Lacks
  <2> QED BY <2>1, <2>2, <2>3 DEF Sole
<1>12. ASSUME NEW v, NEW p \in Places(L), Sole(F, k, v), UserKey(F[p]) = k, p[1] \notin S
       PROVE  Lacks(G, k)
  <2> SUFFICES ASSUME NEW q \in DOMAIN G, UserKey(G[q]) = k PROVE FALSE
    BY DEF Lacks
  <2>1. g[q] = p
    BY <1>6, <1>8, <1>12 DEF Sole
  <2>2. q[1] \in 1..Len(t)
    BY <1>6, HeldFacts
  <2>3. f[q[1]] \in S
    BY <1>3, <2>2
  <2> QED BY <1>6, <1>8, <1>12, <2>1, <2>3
<1> QED BY <1>5, <1>10, <1>11, <1>12

LEMMA MergeCarries ==
  ASSUME KeysStandApart, NEW its, NEW all, Runs(its), all = Merge(its)
  PROVE  Run(all) /\ \E f : Carries(Held(its), all, f)
<1>1. PICK f : MergeOf(its, all, f)
  BY MergeFacts
<1>2. /\ Run(all) /\ f \in [1..Len(all) -> Places(its)]
      /\ \A i \in 1..Len(all) : all[i] = RecordAt(its, f[i])
      /\ \A i, j \in 1..Len(all) : i # j => f[i] # f[j]
      /\ \A p \in Places(its) : \E i \in 1..Len(all) : f[i] = p
  BY <1>1 DEF MergeOf
<1>3. PICK F : F = Held(its)
  OBVIOUS
<1>4. DOMAIN F = Places(its) /\ DOMAIN all = 1..Len(all)
  BY <1>2, <1>3, HeldFacts, Shape DEF Run
<1>5. \A i \in 1..Len(all) : f[i] \in Places(its) /\ all[i] = F[f[i]]
  BY <1>2, <1>3 DEF Held
<1>6. Carries(F, all, f)
  <2>1. \A q \in DOMAIN all : /\ f[q] \in DOMAIN F
                              /\ UserKey(all[q]) = UserKey(F[f[q]]) /\ all[q].value = F[f[q]].value
    BY <1>4, <1>5
  <2>2. \A p, q \in DOMAIN all : f[p] = f[q] => p = q
    BY <1>2, <1>4
  <2>3. \A p \in DOMAIN F : F[p].value # Tombstone => \E q \in DOMAIN all : f[q] = p
    BY <1>2, <1>4
  <2> QED BY <2>1, <2>2, <2>3 DEF Carries
<1> QED BY <1>2, <1>3, <1>6

LEMMA KeptCarries ==
  ASSUME NEW s, NEW kept, Run(s), kept = Chosen(s, {i \in DOMAIN s : s[i].value # Tombstone})
  PROVE  Run(kept) /\ \E f : Carries(s, kept, f)
<1>1. PICK S : S = {i \in DOMAIN s : s[i].value # Tombstone}
  OBVIOUS
<1>2. PICK f : Picks(s, S, Len(s), kept, f)
  BY <1>1, ChosenFacts DEF Run
<1>3. Run(kept) /\ Len(s) \in Nat /\ DOMAIN s = 1..Len(s)
  BY <1>1, RunChosen, Shape DEF Run
<1>4. Len(kept) \in Nat /\ DOMAIN kept = 1..Len(kept)
  BY <1>3, Shape DEF Run
<1>5. /\ \A i \in 1..Len(kept) : f[i] \in 1..Len(s) /\ f[i] \in S /\ kept[i] = s[f[i]]
      /\ \A i, j \in 1..Len(kept) : i < j => f[i] < f[j]
      /\ \A p \in 1..Len(s) : p \in S => \E i \in 1..Len(kept) : f[i] = p
  BY <1>2 DEF Picks
<1>6. \A p, q \in DOMAIN kept : f[p] = f[q] => p = q
  <2> SUFFICES ASSUME NEW i \in 1..Len(kept), NEW j \in 1..Len(kept), f[i] = f[j] PROVE i = j
    BY <1>4
  <2>1. ~(i < j) /\ ~(j < i)
    BY <1>3, <1>5
  <2> QED BY <1>4, <2>1
<1>7. Carries(s, kept, f)
  BY <1>1, <1>3, <1>4, <1>5, <1>6 DEF Carries
<1> QED BY <1>3, <1>7

\* Cutting a sequence into tables keeps its records, whatever their new numbers.
LEMMA CutCarries ==
  ASSUME NEW s, NEW out, Run(s), out = Cut(s)
  PROVE  Tables(out) /\ \E f : Carries(s, Held(out), f)
<1>1. PICK n, len, m : n = TableCapacity /\ len = Len(s) /\ m = CeilDiv(Len(s), n)
  OBVIOUS
<1>2. n \in Nat \ {0} /\ len \in Nat /\ DOMAIN s = 1..len
  BY <1>1, VersionsAssumption, Shape DEF Run
<1>3. Tables(out) /\ Len(out) = m
  BY <1>1, CutFacts DEF CutOf
<1>4. m \in Nat
  BY <1>1, <1>2, CeilFacts
<1>5. \A p \in 1..m : Len(out[p]) = End(len, n, p) - n * (p - 1)
  BY <1>1, <1>3, CutFacts DEF CutOf
<1>6. \A p \in 1..m : \A i \in 1..Len(out[p]) :
        /\ UserKey(out[p][i]) = UserKey(s[n * (p - 1) + i])
        /\ out[p][i].value = s[n * (p - 1) + i].value
  <2>1. CutOf(s, n, out)
    BY <1>1, CutFacts
  <2> QED BY <1>3, <2>1 DEF CutOf
<1>7. PICK G : G = Held(out)
  OBVIOUS
<1>8. Runs(out) /\ DOMAIN G = Places(out)
  BY <1>3, <1>7, HeldFacts DEF Tables
<1>9. PICK f : f = [q \in Places(out) |-> n * (q[1] - 1) + q[2]]
  OBVIOUS
<1>10. \A p \in 1..m : /\ n * (p - 1) \in Nat /\ End(len, n, p) \in Nat
                       /\ End(len, n, p) <= n * (p - 1) + n /\ End(len, n, p) <= len
  BY <1>1, <1>2, EndFacts
<1>11. ASSUME NEW q \in Places(out)
       PROVE  /\ q[1] \in 1..m /\ q = <<q[1], q[2]>> /\ q[2] \in Nat /\ f[q] \in Nat /\ q[2] > 0
              /\ f[q] = n * (q[1] - 1) + q[2] /\ f[q] <= End(len, n, q[1])
              /\ G[q] = out[q[1]][q[2]] /\ q[2] \in 1..Len(out[q[1]])
  <2>1. q[1] \in 1..m /\ q[2] \in 1..Len(out[q[1]]) /\ q = <<q[1], q[2]>> /\ G[q] = out[q[1]][q[2]]
    BY <1>3, <1>7, <1>8, HeldFacts
  <2>2. PICK x, e : x = n * (q[1] - 1) /\ e = End(len, n, q[1])
    OBVIOUS
  <2>3. x \in Nat /\ e \in Nat /\ Len(out[q[1]]) = e - x
    BY <1>5, <1>10, <2>1, <2>2
  <2>4. f[q] = x + q[2]
    BY <1>9, <2>2
  <2>5. q[2] \in Nat /\ q[2] > 0 /\ x + q[2] \in Nat /\ x + q[2] <= e
    BY <2>1, <2>3
  <2> QED BY <2>1, <2>2, <2>4, <2>5
<1>12. ASSUME NEW q \in Places(out)
       PROVE  /\ f[q] \in DOMAIN s
              /\ UserKey(G[q]) = UserKey(s[f[q]]) /\ G[q].value = s[f[q]].value
  <2>1. f[q] \in 1..len
    <3>1. PICK x : x = n * (q[1] - 1)
      OBVIOUS
    <3>2. x \in Nat
      BY <1>10, <1>11, <3>1
    <3>3. f[q] = x + q[2]
      BY <1>11, <3>1
    <3>4. f[q] > 0
      BY <1>11, <3>2, <3>3
    <3>5. End(len, n, q[1]) \in Nat /\ End(len, n, q[1]) <= len /\ f[q] <= End(len, n, q[1])
      BY <1>10, <1>11
    <3> QED BY <1>2, <1>11, <3>4, <3>5
  <2>2. PICK c, i, x : c = q[1] /\ i = q[2] /\ x = n * (c - 1) + i
    OBVIOUS
  <2>3. c \in 1..m /\ i \in 1..Len(out[c]) /\ f[q] = x /\ G[q] = out[c][i]
    BY <1>11, <2>2
  <2>4. UserKey(out[c][i]) = UserKey(s[x]) /\ out[c][i].value = s[x].value
    BY <1>6, <2>2, <2>3
  <2> QED BY <1>2, <2>1, <2>3, <2>4
<1>13. ASSUME NEW p \in Places(out), NEW q \in Places(out), p[1] < q[1] PROVE f[p] < f[q]
  <2>1. p[1] \in 1..m /\ q[1] \in 1..m /\ q[2] \in Nat /\ q[2] > 0
    BY <1>11
  <2>2a. PICK a, b : a = p[1] - 1 /\ b = q[1] - 1
    OBVIOUS
  <2>2. a \in Nat /\ b \in Nat /\ p[1] = a + 1 /\ q[1] = b + 1
    BY <1>4, <2>1, <2>2a
  <2>3. a + 1 <= b
    BY <1>13, <2>2
  <2>4. PICK d \in Nat : b = a + 1 + d
    <3>1. b - (a + 1) \in Nat /\ b = a + 1 + (b - (a + 1))
      BY <2>2, <2>3
    <3> QED BY <3>1
  <2>5. n * b = n * a + n + n * d /\ n * a \in Nat /\ n * b \in Nat /\ n * d \in Nat
    BY <1>2, <2>2, <2>4
  <2>6. p[1] - 1 = a /\ q[1] - 1 = b
    BY <2>2
  <2>7. f[p] <= End(len, n, p[1]) /\ End(len, n, p[1]) <= n * a + n /\ End(len, n, p[1]) \in Nat
    BY <1>10, <1>11, <2>1, <2>6
  <2>8. f[q] = n * b + q[2] /\ f[p] \in Nat
    BY <1>11, <2>6
  <2>9. PICK u, w, y, e : u = n * a /\ w = n * b /\ y = n * d /\ e = End(len, n, p[1])
    OBVIOUS
  <2>10. u \in Nat /\ w = u + n + y /\ y \in Nat /\ e \in Nat /\ n \in Nat
    BY <1>2, <2>5, <2>7, <2>9
  <2>11. f[p] <= e /\ e <= u + n /\ f[q] = w + q[2] /\ f[p] \in Nat
    BY <2>7, <2>8, <2>9
  <2> QED BY <2>1, <2>10, <2>11
<1>14. ASSUME NEW p \in Places(out), NEW q \in Places(out), f[p] = f[q] PROVE p = q
  <2>1. f[p] \in Nat /\ f[q] \in Nat /\ p[1] \in 1..m /\ q[1] \in 1..m
    BY <1>11
  <2>2. ~(p[1] < q[1]) /\ ~(q[1] < p[1])
    BY <1>13, <1>14, <2>1
  <2>3. p[1] = q[1]
    BY <1>4, <2>1, <2>2
  <2>4. PICK x : x = n * (p[1] - 1)
    OBVIOUS
  <2>5. x \in Nat
    BY <1>10, <2>1, <2>4
  <2>6. x + p[2] = x + q[2] /\ p[2] \in Nat /\ q[2] \in Nat
    BY <1>11, <1>14, <2>3, <2>4
  <2>7. p[2] = q[2]
    BY <2>5, <2>6
  <2> QED BY <1>11, <2>3, <2>7
<1>15. ASSUME NEW i \in DOMAIN s PROVE \E q \in Places(out) : f[q] = i
  <2>1. PICK p \in 1..m : n * (p - 1) < i /\ i <= End(len, n, p)
    BY <1>1, <1>2, PieceOf
  <2>2. PICK x, j : x = n * (p - 1) /\ j = i - n * (p - 1)
    OBVIOUS
  <2>3. x \in Nat /\ End(len, n, p) \in Nat /\ Len(out[p]) = End(len, n, p) - x
    BY <1>5, <1>10, <2>2
  <2>4. j \in 1..Len(out[p]) /\ x + j = i
    BY <1>2, <2>1, <2>2, <2>3
  <2>5. <<p, j>> \in Places(out)
    BY <1>3, <1>8, <2>4, PlacesFacts
  <2>6. f[<<p, j>>] = x + j
    BY <1>9, <2>2, <2>5
  <2> QED BY <2>4, <2>5, <2>6
<1>16. Carries(s, G, f)
  BY <1>8, <1>12, <1>14, <1>15 DEF Carries
<1> QED BY <1>3, <1>7, <1>16

LEMMA SortCarries ==
  ASSUME NEW A, NEW B, Tables(A), B \in SortedByFirstKey(A)
  PROVE  Tables(B) /\ \E f : Carries(Held(A), Held(B), f)
<1>1. Tables(B) /\ Runs(A) /\ Runs(B) /\ Len(A) \in Nat
  BY TablesSorted, Shape DEF Tables, Runs
<1>2. PICK t : Rearranged(A, B, t)
  BY <1>1, SortedFacts DEF Runs
<1>3. PICK n : n = Len(A)
  OBVIOUS
<1>4. /\ Len(B) = n /\ t \in [1..n -> 1..n]
      /\ \A i, j \in 1..n : i # j => t[i] # t[j]
      /\ \A i \in 1..n : B[i] = A[t[i]]
  BY <1>2, <1>3 DEF Rearranged
<1>5. \A c \in 1..n : \E i \in 1..n : t[i] = c
  <2>1. t \in Injection(1..n, 1..n)
    BY <1>4 DEF Injection, IsInjective
  <2>2. IsFiniteSet(1..n)
    <3>1. 1 \in Int /\ n \in Int
      BY <1>1, <1>3
    <3> QED BY <3>1, FS_Interval
  <2>3. t \in Surjection(1..n, 1..n)
    BY <2>1, <2>2, FS_Injection
  <2> QED BY <2>3 DEF Surjection
<1>6. PICK F, G : F = Held(A) /\ G = Held(B)
  OBVIOUS
<1>7. DOMAIN F = Places(A) /\ DOMAIN G = Places(B)
  BY <1>1, <1>6, HeldFacts
<1>8. /\ \A q \in Places(A) : /\ q[1] \in 1..n /\ q[2] \in 1..Len(A[q[1]]) /\ q = <<q[1], q[2]>>
                              /\ F[q] = A[q[1]][q[2]]
      /\ \A c \in 1..n : \A i \in 1..Len(A[c]) : <<c, i>> \in Places(A) /\ F[<<c, i>>] = A[c][i]
  BY <1>1, <1>3, <1>6, HeldFacts
<1>9. /\ \A q \in Places(B) : /\ q[1] \in 1..n /\ q[2] \in 1..Len(B[q[1]]) /\ q = <<q[1], q[2]>>
                              /\ G[q] = B[q[1]][q[2]]
      /\ \A c \in 1..n : \A i \in 1..Len(B[c]) : <<c, i>> \in Places(B) /\ G[<<c, i>>] = B[c][i]
  <2>1. Runs(B)
    BY <1>1
  <2>2. /\ \A q \in Places(B) : /\ q[1] \in 1..Len(B) /\ q[2] \in 1..Len(B[q[1]])
                                /\ q = <<q[1], q[2]>> /\ Held(B)[q] = B[q[1]][q[2]]
        /\ \A c \in 1..Len(B) : \A i \in 1..Len(B[c]) :
             <<c, i>> \in Places(B) /\ Held(B)[<<c, i>>] = B[c][i]
    BY <2>1, HeldFacts
  <2> QED BY <1>4, <1>6, <2>2
<1>10. PICK f : f = [q \in Places(B) |-> <<t[q[1]], q[2]>>]
  OBVIOUS
<1>11. ASSUME NEW q \in Places(B)
       PROVE  f[q] \in Places(A) /\ F[f[q]] = G[q] /\ f[q] = <<t[q[1]], q[2]>>
  <2>1. PICK c, i : c = q[1] /\ i = q[2]
    OBVIOUS
  <2>2. c \in 1..n /\ i \in 1..Len(B[c]) /\ G[q] = B[c][i]
    BY <1>9, <2>1
  <2>3. t[c] \in 1..n /\ B[c] = A[t[c]]
    BY <1>4, <2>2
  <2>4. <<t[c], i>> \in Places(A) /\ F[<<t[c], i>>] = A[t[c]][i]
    BY <1>8, <2>2, <2>3
  <2>5. f[q] = <<t[c], i>>
    BY <1>10, <2>1
  <2> QED BY <2>1, <2>2, <2>3, <2>4, <2>5
<1>12. ASSUME NEW p \in Places(B), NEW q \in Places(B), f[p] = f[q] PROVE p = q
  <2>1. t[p[1]] = t[q[1]] /\ p[2] = q[2]
    BY <1>11, <1>12
  <2>2. p[1] \in 1..n /\ q[1] \in 1..n /\ p = <<p[1], p[2]>> /\ q = <<q[1], q[2]>>
    BY <1>9
  <2>3. p[1] = q[1]
    BY <1>4, <2>1, <2>2
  <2> QED BY <2>1, <2>2, <2>3
<1>13. ASSUME NEW p \in Places(A) PROVE \E q \in Places(B) : f[q] = p
  <2>1. PICK c, i : c = p[1] /\ i = p[2]
    OBVIOUS
  <2>2. c \in 1..n /\ i \in 1..Len(A[c]) /\ p = <<c, i>>
    BY <1>8, <2>1
  <2>3. PICK d \in 1..n : t[d] = c
    BY <1>5, <2>2
  <2>4. B[d] = A[c]
    BY <1>4, <2>3
  <2>5. <<d, i>> \in Places(B)
    BY <1>9, <2>2, <2>4
  <2>6. f[<<d, i>>] = <<t[d], i>>
    BY <1>10, <2>5
  <2> QED BY <2>2, <2>3, <2>5, <2>6
<1>14. Carries(F, G, f)
  BY <1>7, <1>11, <1>12, <1>13 DEF Carries
<1> QED BY <1>1, <1>6, <1>14

\* A compaction keeps the one version of a key, wherever it is.
LEMMA CompactKeepsSole ==
  ASSUME KeysStandApart, Tables(level0), Tables(level1),
         NEW merged, NEW kept, NEW out, NEW rest, NEW overlapping, NEW sorted,
         Compacts(merged, kept, out, rest, overlapping), sorted \in SortedByFirstKey(rest \o out),
         NEW k, NEW v, Sole(Held(level0 \o level1), k, v)
  PROVE  Sole(Held(sorted), k, v)
<1>1. PICK A, L, chosen : A = level0 /\ L = level1 /\ chosen = Chosen(level1, overlapping)
  OBVIOUS
<1>2. Tables(A) /\ Tables(L) /\ Tables(chosen) /\ Tables(rest) /\ Tables(out)
  BY <1>1, CompactsRuns, TablesChosen
<1>3. Runs(A) /\ Runs(L) /\ Runs(chosen) /\ Runs(rest) /\ Runs(out)
  BY <1>2 DEF Tables
<1>4. DOMAIN L = 1..Len(L)
  BY <1>3, Shape DEF Runs
<1>5. chosen = Chosen(L, overlapping) /\ rest = Chosen(L, DOMAIN L \ overlapping)
  BY <1>1 DEF Compacts
<1>6. PICK its : its = A \o chosen
  OBVIOUS
<1>7. Runs(its) /\ AreJoined(A, chosen, its)
  BY <1>3, <1>6, JoinedRuns, RunsJoined
<1>8. PICK f1 : Carries(Held(its), merged, f1)
  BY <1>1, <1>6, <1>7, MergeCarries DEF Compacts
<1>9. Run(merged)
  BY <1>1, <1>6, <1>7, MergeCarries DEF Compacts
<1>10. PICK f2 : Carries(merged, kept, f2)
  BY <1>9, KeptCarries DEF Compacts
<1>11. Run(kept)
  BY <1>9, KeptCarries DEF Compacts
<1>12. PICK f3 : Carries(kept, Held(out), f3)
  BY <1>11, CutCarries DEF Compacts
<1>13. Tables(rest \o out)
  BY <1>2, TablesJoined
<1>14. PICK f4 : Carries(Held(rest \o out), Held(sorted), f4)
  BY <1>13, SortCarries
<1>15. AreJoined(rest, out, rest \o out) /\ AreJoined(A, L, A \o L)
  BY <1>3, JoinedRuns
<1>16. Sole(Held(A \o L), k, v)
  BY <1>1
<1>17. \/ Sole(Held(A), k, v) /\ Lacks(Held(L), k)
       \/ Lacks(Held(A), k) /\ Sole(Held(L), k, v)
  BY <1>3, <1>15, <1>16, SoleJoined
<1>18. Lacks(Held(L), k) => Lacks(Held(chosen), k) /\ Lacks(Held(rest), k)
  BY <1>3, <1>5, ChosenKeeps
<1>19. ASSUME Sole(Held(L), k, v)
       PROVE  \/ Sole(Held(chosen), k, v) /\ Lacks(Held(rest), k)
              \/ Lacks(Held(chosen), k) /\ Sole(Held(rest), k, v)
  <2>1. CASE Lacks(Held(L), k)
    <3>1. v = Tombstone
      BY <1>19, <2>1 DEF Sole
    <3>2. Lacks(Held(chosen), k) /\ Lacks(Held(rest), k)
      BY <1>18, <2>1
    <3> QED BY <3>1, <3>2 DEF Sole, Lacks
  <2>2. CASE ~Lacks(Held(L), k)
    <3>1. DOMAIN Held(L) = Places(L)
      BY <1>3, HeldFacts
    <3>2. PICK p \in Places(L) : UserKey(Held(L)[p]) = k
      BY <2>2, <3>1 DEF Lacks
    <3>3. p[1] \in DOMAIN L
      BY <1>3, <1>4, HeldFacts
    <3>4. IF p[1] \in overlapping THEN Sole(Held(chosen), k, v) ELSE Lacks(Held(chosen), k)
      BY <1>3, <1>5, <1>19, <3>2, ChosenKeeps
    <3>5. IF p[1] \in DOMAIN L \ overlapping THEN Sole(Held(rest), k, v) ELSE Lacks(Held(rest), k)
      BY <1>3, <1>5, <1>19, <3>2, ChosenKeeps
    <3> QED BY <3>3, <3>4, <3>5
  <2> QED BY <2>1, <2>2
<1>20. \/ Sole(Held(its), k, v) /\ Lacks(Held(rest), k)
       \/ Lacks(Held(its), k) /\ Sole(Held(rest), k, v)
  <2>1. /\ Lacks(Held(its), k) <=> Lacks(Held(A), k) /\ Lacks(Held(chosen), k)
        /\ Sole(Held(its), k, v) <=> \/ Sole(Held(A), k, v) /\ Lacks(Held(chosen), k)
                                     \/ Lacks(Held(A), k) /\ Sole(Held(chosen), k, v)
    BY <1>3, <1>7, SoleJoined
  <2> QED BY <1>17, <1>18, <1>19, <2>1
<1>21. /\ Sole(Held(its), k, v) => Sole(Held(out), k, v)
       /\ Lacks(Held(its), k) => Lacks(Held(out), k)
  <2>1. /\ Sole(Held(its), k, v) => Sole(merged, k, v)
        /\ Lacks(Held(its), k) => Lacks(merged, k)
    BY <1>8, Carried
  <2>2. /\ Sole(merged, k, v) => Sole(kept, k, v)
        /\ Lacks(merged, k) => Lacks(kept, k)
    BY <1>10, Carried
  <2>3. /\ Sole(kept, k, v) => Sole(Held(out), k, v)
        /\ Lacks(kept, k) => Lacks(Held(out), k)
    BY <1>12, Carried
  <2> QED BY <2>1, <2>2, <2>3
<1>22. Sole(Held(rest \o out), k, v)
  BY <1>3, <1>15, <1>20, <1>21, SoleJoined
<1> QED BY <1>14, <1>22, Carried

-----------------------------------------------------------------------------
(* The bisection of levels_[1] *)

Smallest(t) == UserKey(t[1])
Largest(t) == UserKey(t[Len(t)])

\* The tables' ranges ascend, and at most their ends are the same.
Ascending(L) ==
  /\ Tables(L)
  /\ \A c \in 1..Len(L) - 1 : AtMost(Largest(L[c]), Smallest(L[c + 1]))

LEMMA RangeOf ==
  ASSUME NEW t, Run(t), Len(t) > 0
  PROVE  /\ ExtractUserKey(FirstKey(t)) = Smallest(t) /\ ExtractUserKey(LastKey(t)) = Largest(t)
         /\ Smallest(t) \in Bytes /\ Largest(t) \in Bytes
         /\ \A i \in 1..Len(t) : /\ UserKey(t[i]) \in Bytes
                                 /\ AtMost(Smallest(t), UserKey(t[i])) /\ AtMost(UserKey(t[i]), Largest(t))
<1>1. IsSeq(t) /\ Len(t) \in Nat
  BY Shape DEF Run
<1>2. t # <<>>
  BY EmptyIsSeq
<1>3. FirstKey(t) = t[1].key /\ LastKey(t) = t[Len(t)].key
  BY <1>2 DEF FirstKey, LastKey, Last
<1>4. 1 \in 1..Len(t) /\ Len(t) \in 1..Len(t) /\ \A i \in 1..Len(t) : 1 <= i /\ i <= Len(t)
  BY <1>1
<1>5. \A i \in 1..Len(t) : UserKey(t[i]) \in Bytes
  BY RecordShape DEF Run
<1>6. \A i \in 1..Len(t) : AtMost(Smallest(t), UserKey(t[i])) /\ AtMost(UserKey(t[i]), Largest(t))
  BY <1>4 DEF Run, Smallest, Largest
<1> QED BY <1>3, <1>4, <1>5, <1>6 DEF Smallest, Largest, UserKey

LEMMA RangesAscend ==
  ASSUME NEW L, Ascending(L)
  PROVE  \A c, d \in 1..Len(L) : c < d => AtMost(Largest(L[c]), Smallest(L[d]))
<1>0. Len(L) \in Nat /\ \A c \in 1..Len(L) : Run(L[c]) /\ Len(L[c]) > 0
  BY Shape DEF Ascending, Tables, Runs
<1>1. \A c \in 1..Len(L) : /\ Smallest(L[c]) \in Bytes /\ Largest(L[c]) \in Bytes
                           /\ AtMost(Smallest(L[c]), Largest(L[c]))
  <2> SUFFICES ASSUME NEW c \in 1..Len(L)
      PROVE  /\ Smallest(L[c]) \in Bytes /\ Largest(L[c]) \in Bytes
             /\ AtMost(Smallest(L[c]), Largest(L[c]))
    OBVIOUS
  <2>1. PICK t : t = L[c]
    OBVIOUS
  <2>2. Run(t) /\ Len(t) > 0
    BY <1>0, <2>1
  <2>3. 1 \in 1..Len(t)
    BY <2>2, Shape DEF Run
  <2>4. AtMost(UserKey(t[1]), Largest(t))
    BY <2>2, <2>3, RangeOf
  <2> QED BY <2>1, <2>2, <2>4, RangeOf DEF Smallest
<1> DEFINE S == {n \in Nat : \A c \in 1..Len(L) : c + n + 1 <= Len(L)
                               => AtMost(Largest(L[c]), Smallest(L[c + n + 1]))}
<1>2. 0 \in S
  <2> SUFFICES ASSUME NEW c \in 1..Len(L), c + 0 + 1 <= Len(L)
      PROVE  AtMost(Largest(L[c]), Smallest(L[c + 0 + 1]))
    OBVIOUS
  <2>1. c \in 1..Len(L) - 1 /\ c + 0 + 1 = c + 1
    BY <1>0
  <2> QED BY <2>1 DEF Ascending
<1>3. ASSUME NEW n \in S PROVE n + 1 \in S
  <2> SUFFICES ASSUME NEW c \in 1..Len(L), c + (n + 1) + 1 <= Len(L)
      PROVE  AtMost(Largest(L[c]), Smallest(L[c + (n + 1) + 1]))
    OBVIOUS
  <2>1. PICK d, e : d = c + n + 1 /\ e = c + (n + 1) + 1
    OBVIOUS
  <2>2. d \in 1..Len(L) /\ e \in 1..Len(L) /\ e = d + 1 /\ d \in 1..Len(L) - 1
    BY <1>0, <2>1
  <2>3. AtMost(Largest(L[c]), Smallest(L[d]))
    BY <1>0, <2>1, <2>2
  <2>4. AtMost(Largest(L[d]), Smallest(L[e]))
    BY <2>2 DEF Ascending
  <2>5. AtMost(Largest(L[c]), Largest(L[d]))
    BY <1>1, <2>2, <2>3, KeyOrder
  <2>6. AtMost(Largest(L[c]), Smallest(L[e]))
    BY <1>1, <2>2, <2>4, <2>5, KeyOrder
  <2> QED BY <2>1, <2>6
<1>4. S = Nat
  <2>1. S \in SUBSET Nat
    OBVIOUS
  <2> HIDE DEF S
  <2> QED BY <1>2, <1>3, <2>1, AllNumbers
<1> SUFFICES ASSUME NEW c \in 1..Len(L), NEW d \in 1..Len(L), c < d
    PROVE  AtMost(Largest(L[c]), Smallest(L[d]))
  OBVIOUS
<1>5. PICK n : n = d - c - 1
  OBVIOUS
<1>6. n \in Nat /\ c + n + 1 = d /\ c + n + 1 <= Len(L)
  BY <1>0, <1>5
<1> QED BY <1>4, <1>6

\* Is k before the range of the table, or behind it?
IsLower(L, k, i) == Less(k, ExtractUserKey(FirstKey(L[i])))
IsHigher(L, k, i) == Less(ExtractUserKey(LastKey(L[i])), k)

\* One step of the bisection of a level, which goes on with search.
LevelStep(L, k, search, left, right) ==
  LET mid == (left + right) \div 2
  IN  IF left > right THEN {}
      ELSE IF IsLower(L, k, mid) THEN search[<<left, mid - 1>>]
      ELSE IF IsHigher(L, k, mid) THEN search[<<mid + 1, right>>]
      ELSE TableGet(L[mid], k)

SearchLevel(L, k, n, search) ==
  [range \in (1..n + 1) \X (0..n) |-> LevelStep(L, k, search, range[1], range[2])]

LEMMA LevelMiddle ==
  ASSUME NEW n \in Nat, NEW l \in 1..n + 1, NEW r \in 0..n, l <= r
  PROVE  LET mid == (l + r) \div 2
         IN  /\ mid \in l..r /\ mid \in 1..n /\ mid + 1 \in 1..n + 1 /\ mid - 1 \in 0..n
             /\ mid - 1 - l < r - l /\ r - (mid + 1) < r - l
OBVIOUS

LEMMA LevelSearchExists ==
  ASSUME NEW n \in Nat, NEW L, NEW k
  PROVE  \E search : search = SearchLevel(L, k, n, search)
<1> DEFINE D == (1..n + 1) \X (0..n)
           table(g) == [p \in D |-> LevelStep(L, k, g, p[1], p[2])]
           solves(g, m) == \A l \in 1..n + 1, r \in 0..n :
                             r - l < m => g[<<l, r>>] = LevelStep(L, k, g, l, r)
           reached == {m \in Nat : \E g : solves(g, m)}
           agree(g, h, len) == \A i \in 1..n + 1, j \in 0..n : j - i < len => g[<<i, j>>] = h[<<i, j>>]
<1>0. ASSUME NEW g, NEW l \in 1..n + 1, NEW r \in 0..n
      PROVE  table(g)[<<l, r>>] = LevelStep(L, k, g, l, r)
  OBVIOUS
<1>a. ASSUME NEW g, NEW h, NEW l \in 1..n + 1, NEW r \in 0..n, agree(g, h, r - l)
      PROVE  LevelStep(L, k, g, l, r) = LevelStep(L, k, h, l, r)
  <2>1. CASE l > r
    BY <2>1 DEF LevelStep
  <2>2. CASE l <= r
    <3>1. PICK mid : mid = (l + r) \div 2
      OBVIOUS
    <3>2. /\ mid - 1 \in 0..n /\ mid + 1 \in 1..n + 1
          /\ mid - 1 - l < r - l /\ r - (mid + 1) < r - l
      BY <2>2, <3>1, LevelMiddle
    <3>3. g[<<l, mid - 1>>] = h[<<l, mid - 1>>] /\ g[<<mid + 1, r>>] = h[<<mid + 1, r>>]
      BY <1>a, <3>2
    <3> QED BY <3>1, <3>3 DEF LevelStep
  <2> QED BY <2>1, <2>2
<1> HIDE DEF D, table, agree
<1>1. 0 \in reached
  <2>1. PICK g : g = [p \in D |-> {}]
    OBVIOUS
  <2>2. ASSUME NEW l \in 1..n + 1, NEW r \in 0..n, r - l < 0
        PROVE  g[<<l, r>>] = LevelStep(L, k, g, l, r)
    <3>1. g[<<l, r>>] = {}
      BY <2>1 DEF D
    <3>2. l > r
      BY <2>2
    <3> QED BY <3>1, <3>2 DEF LevelStep
  <2>3. solves(g, 0)
    BY <2>2
  <2> HIDE DEF solves
  <2> QED BY <2>3
<1>2. ASSUME NEW m \in reached PROVE m + 1 \in reached
  <2>1. PICK g : solves(g, m)
    OBVIOUS
  <2>2. PICK h : h = table(g)
    OBVIOUS
  <2>3. \A l \in 1..n + 1, r \in 0..n : h[<<l, r>>] = LevelStep(L, k, g, l, r)
    BY <1>0, <2>2
  <2>4. ASSUME NEW l \in 1..n + 1, NEW r \in 0..n, r - l < m + 1
        PROVE  h[<<l, r>>] = LevelStep(L, k, h, l, r)
    <3>1. ASSUME NEW i \in 1..n + 1, NEW j \in 0..n, j - i < r - l
          PROVE  g[<<i, j>>] = h[<<i, j>>]
      <4>1. j - i < m
        BY <2>4, <3>1
      <4> QED BY <2>1, <2>3, <4>1
    <3>2. agree(g, h, r - l)
      BY <3>1 DEF agree
    <3>3. LevelStep(L, k, g, l, r) = LevelStep(L, k, h, l, r)
      BY <1>a, <3>2
    <3> QED BY <2>3, <3>3
  <2>5. solves(h, m + 1)
    BY <2>4
  <2> HIDE DEF solves
  <2> QED BY <2>5
<1>3. reached = Nat
  <2>1. reached \in SUBSET Nat
    OBVIOUS
  <2> HIDE DEF reached
  <2> QED BY <1>1, <1>2, <2>1, AllNumbers
<1>4. PICK g : solves(g, n)
  BY <1>3
<1>5. ASSUME NEW l \in 1..n + 1, NEW r \in 0..n
      PROVE  g[<<l, r>>] = LevelStep(L, k, g, l, r)
  <2>1. r - l < n
    OBVIOUS
  <2> QED BY <1>4, <2>1
<1>6. PICK h : h = table(g)
  OBVIOUS
<1>7. \A l \in 1..n + 1, r \in 0..n : h[<<l, r>>] = g[<<l, r>>]
  BY <1>0, <1>5, <1>6
<1>8. ASSUME NEW p \in D PROVE LevelStep(L, k, g, p[1], p[2]) = LevelStep(L, k, h, p[1], p[2])
  <2>1. p[1] \in 1..n + 1 /\ p[2] \in 0..n
    BY DEF D
  <2>2. agree(g, h, p[2] - p[1])
    BY <1>7 DEF agree
  <2> QED BY <1>a, <2>1, <2>2
<1>9. h = [p \in D |-> LevelStep(L, k, h, p[1], p[2])]
  BY <1>6, <1>8 DEF table
<1> QED BY <1>9 DEF D, SearchLevel

\* The comparisons lead to table c, which answers want; or want is what all answer.
Aimed(L, k, want, c) ==
  \A i \in 1..Len(L) :
    /\ IsLower(L, k, i) => want = {} \/ c < i
    /\ ~IsLower(L, k, i) /\ IsHigher(L, k, i) => want = {} \/ i < c
    /\ ~IsLower(L, k, i) /\ ~IsHigher(L, k, i) => TableGet(L[i], k) = want

LEMMA LevelGetFinds ==
  ASSUME NEW L, NEW k, NEW want, NEW c \in 1..Len(L) + 1, Len(L) \in Nat, Aimed(L, k, want, c),
         want = {} \/ c <= Len(L)
  PROVE  LevelGet(L, k) = want
<1> DEFINE n == Len(L)
           search == CHOOSE g : g = SearchLevel(L, k, n, g)
           inside(l, r) == want = {} \/ (l <= c /\ c <= r)
<1>1. LevelGet(L, k) = search[<<1, n>>]
  BY DEF LevelGet, IsLower, IsHigher, LevelStep, SearchLevel
<1>2. search = SearchLevel(L, k, n, search)
  BY LevelSearchExists
<1> HIDE DEF search
<1>3. ASSUME NEW l \in 1..n + 1, NEW r \in 0..n
      PROVE  search[<<l, r>>] = LevelStep(L, k, search, l, r)
  <2>1. SearchLevel(L, k, n, search)[<<l, r>>] = LevelStep(L, k, search, l, r)
    BY DEF SearchLevel
  <2> QED BY <1>2, <2>1
<1> DEFINE reached == {m \in Nat : \A l \in 1..n + 1, r \in 0..n :
                         r - l < m /\ inside(l, r) => search[<<l, r>>] = want}
<1>4. ASSUME NEW l \in 1..n + 1, NEW r \in 0..n, l > r, inside(l, r)
      PROVE  search[<<l, r>>] = want
  <2>1. want = {}
    BY <1>4
  <2>2. LevelStep(L, k, search, l, r) = {}
    BY <1>4 DEF LevelStep
  <2> QED BY <1>3, <2>1, <2>2
<1>5. 0 \in reached
  <2>1. ASSUME NEW l \in 1..n + 1, NEW r \in 0..n, r - l < 0, inside(l, r)
        PROVE  search[<<l, r>>] = want
    <3>1. l > r
      BY <2>1
    <3> QED BY <1>4, <2>1, <3>1
  <2> QED BY <2>1
<1>6. ASSUME NEW m \in reached PROVE m + 1 \in reached
  <2>1. ASSUME NEW l \in 1..n + 1, NEW r \in 0..n, r - l < m + 1, inside(l, r), l <= r
        PROVE  search[<<l, r>>] = want
    <3>1. PICK mid : mid = (l + r) \div 2
      OBVIOUS
    <3>2. /\ mid \in l..r /\ mid \in 1..n /\ mid + 1 \in 1..n + 1 /\ mid - 1 \in 0..n
          /\ mid - 1 - l < r - l /\ r - (mid + 1) < r - l
      BY <2>1, <3>1, LevelMiddle
    <3>3. ASSUME NEW i \in 1..n + 1, NEW j \in 0..n, j - i < r - l, inside(i, j)
          PROVE  search[<<i, j>>] = want
      <4>1. j - i < m
        BY <2>1, <3>3
      <4> QED BY <3>3, <4>1
    <3>4. search[<<l, r>>] = LevelStep(L, k, search, l, r)
      BY <1>3
    <3> HIDE DEF reached
    <3>5. CASE IsLower(L, k, mid)
      <4>1. inside(l, mid - 1)
        BY <2>1, <3>2, <3>5 DEF Aimed
      <4>2. search[<<l, mid - 1>>] = want
        BY <3>2, <3>3, <4>1
      <4> QED BY <2>1, <3>1, <3>4, <3>5, <4>2 DEF LevelStep
    <3>6. CASE ~IsLower(L, k, mid) /\ IsHigher(L, k, mid)
      <4>1. inside(mid + 1, r)
        BY <2>1, <3>2, <3>6 DEF Aimed
      <4>2. search[<<mid + 1, r>>] = want
        BY <3>2, <3>3, <4>1
      <4> QED BY <2>1, <3>1, <3>4, <3>6, <4>2 DEF LevelStep
    <3>7. CASE ~IsLower(L, k, mid) /\ ~IsHigher(L, k, mid)
      <4>1. TableGet(L[mid], k) = want
        BY <3>2, <3>7 DEF Aimed
      <4> QED BY <2>1, <3>1, <3>4, <3>7, <4>1 DEF LevelStep
    <3> QED BY <3>5, <3>6, <3>7
  <2>2. ASSUME NEW l \in 1..n + 1, NEW r \in 0..n, r - l < m + 1, inside(l, r)
        PROVE  search[<<l, r>>] = want
    BY <1>4, <2>1, <2>2
  <2> QED BY <2>2
<1>7. reached = Nat
  <2>1. reached \in SUBSET Nat
    OBVIOUS
  <2> HIDE DEF reached
  <2> QED BY <1>5, <1>6, <2>1, AllNumbers
<1>8. 1 \in 1..n + 1 /\ n \in 0..n /\ n \in reached /\ n - 1 < n /\ inside(1, n)
  BY <1>7
<1>9. search[<<1, n>>] = want
  BY <1>8
<1> QED BY <1>1, <1>9

\* A key with one version in levels_[1] is found by the bisection, and no other key is.
LEMMA LevelGetSole ==
  ASSUME KeysStandApart, NEW L, Ascending(L), NEW k \in UserKeys
  PROVE  /\ Lacks(Held(L), k) => LevelGet(L, k) = {}
         /\ \A v : Sole(Held(L), k, v) /\ ~Lacks(Held(L), k) => LevelGet(L, k) = {v}
<1>1. Runs(L) /\ Len(L) \in Nat /\ \A c \in 1..Len(L) : Run(L[c]) /\ Len(L[c]) > 0
  BY Shape DEF Ascending, Tables, Runs
<1>2. k \in Bytes
  BY UserKeyBytes
<1>3. \A c \in 1..Len(L) : /\ Smallest(L[c]) \in Bytes /\ Largest(L[c]) \in Bytes
                           /\ IsLower(L, k, c) <=> Less(k, Smallest(L[c]))
                           /\ IsHigher(L, k, c) <=> Less(Largest(L[c]), k)
  BY <1>1, RangeOf DEF IsLower, IsHigher
<1>4. ASSUME Lacks(Held(L), k) PROVE LevelGet(L, k) = {}
  <2>1. \A c \in 1..Len(L) : Lacks(L[c], k)
    BY <1>1, <1>4, LacksTables
  <2>2. \A c \in 1..Len(L) : TableGet(L[c], k) = {}
    BY <1>1, <2>1, TableGetCases
  <2>3. Aimed(L, k, {}, 1)
    BY <2>2 DEF Aimed
  <2>4. 1 \in 1..Len(L) + 1
    BY <1>1
  <2> QED BY <1>1, <2>3, <2>4, LevelGetFinds
<1>5. ASSUME NEW v, Sole(Held(L), k, v), ~Lacks(Held(L), k) PROVE LevelGet(L, k) = {v}
  <2>1. DOMAIN Held(L) = Places(L)
    BY <1>1, HeldFacts
  <2>2. PICK p \in Places(L) : UserKey(Held(L)[p]) = k
    BY <1>5, <2>1 DEF Lacks
  <2>3. PICK c, i : c = p[1] /\ i = p[2]
    OBVIOUS
  <2>4. c \in 1..Len(L) /\ i \in 1..Len(L[c]) /\ p = <<c, i>> /\ Held(L)[p] = L[c][i]
    BY <1>1, <2>3, HeldFacts
  <2>5. UserKey(L[c][i]) = k /\ L[c][i].value = v
    BY <1>5, <2>1, <2>2, <2>4 DEF Sole
  <2>6. \A d \in 1..Len(L) : \A j \in 1..Len(L[d]) :
          <<d, j>> \in Places(L) /\ Held(L)[<<d, j>>] = L[d][j]
    BY <1>1, HeldFacts
  <2>7. ASSUME NEW d \in 1..Len(L), NEW j \in 1..Len(L[d]), UserKey(L[d][j]) = k
        PROVE  d = c /\ j = i
    <3>1. <<d, j>> \in DOMAIN Held(L) /\ UserKey(Held(L)[<<d, j>>]) = k
      BY <2>1, <2>6, <2>7
    <3>2. p \in DOMAIN Held(L) /\ UserKey(Held(L)[p]) = k
      BY <2>1, <2>2
    <3>3. <<d, j>> = p
      BY <1>5, <3>1, <3>2 DEF Sole
    <3> QED BY <2>4, <3>3
  <2>8. TableGet(L[c], k) = {v}
    <3>1. \A j \in 1..Len(L[c]) : j < i => UserKey(L[c][j]) # k
      <4> SUFFICES ASSUME NEW j \in 1..Len(L[c]), j < i, UserKey(L[c][j]) = k PROVE FALSE
        OBVIOUS
      <4>1. j = i /\ j \in Nat
        BY <2>4, <2>7
      <4> QED BY <4>1
    <3>2. NewestIn(L[c], k, v)
      BY <2>4, <2>5, <3>1 DEF NewestIn
    <3> QED BY <1>1, <2>4, <3>2, TableGetCases
  <2>9. AtMost(Smallest(L[c]), k) /\ AtMost(k, Largest(L[c]))
    BY <1>1, <2>4, <2>5, RangeOf
  <2>10. ASSUME NEW d \in 1..Len(L)
         PROVE  /\ c < d => Less(k, Smallest(L[d]))
                /\ d < c => Less(Largest(L[d]), k)
    <3>1. 1 \in 1..Len(L[d]) /\ Len(L[d]) \in 1..Len(L[d])
      BY <1>1, Shape DEF Run
    <3>2. ASSUME c < d PROVE Less(k, Smallest(L[d]))
      <4>1. AtMost(Largest(L[c]), Smallest(L[d]))
        BY <2>4, <3>2, RangesAscend
      <4>2. AtMost(k, Smallest(L[d]))
        BY <1>2, <1>3, <2>4, <2>9, <4>1, KeyOrder
      <4>3. k # Smallest(L[d])
        BY <2>4, <2>7, <3>1, <3>2 DEF Smallest
      <4> QED BY <4>2, <4>3 DEF AtMost
    <3>3. ASSUME d < c PROVE Less(Largest(L[d]), k)
      <4>1. AtMost(Largest(L[d]), Smallest(L[c]))
        BY <2>4, <3>3, RangesAscend
      <4>2. AtMost(Largest(L[d]), k)
        BY <1>2, <1>3, <2>4, <2>9, <4>1, KeyOrder
      <4>3. k # Largest(L[d])
        BY <2>4, <2>7, <3>1, <3>3 DEF Largest
      <4> QED BY <4>2, <4>3 DEF AtMost
    <3> QED BY <3>2, <3>3
  <2>11. Aimed(L, k, {v}, c)
    <3> SUFFICES ASSUME NEW d \in 1..Len(L)
        PROVE  /\ IsLower(L, k, d) => c < d
               /\ IsHigher(L, k, d) => d < c
               /\ ~IsLower(L, k, d) /\ ~IsHigher(L, k, d) => TableGet(L[d], k) = {v}
      BY DEF Aimed
    <3>1. d = c => ~IsLower(L, k, d) /\ ~IsHigher(L, k, d)
      BY <1>2, <1>3, <2>4, <2>9, KeyOrder
    <3>2. c < d => IsLower(L, k, d) /\ ~IsHigher(L, k, d)
      <4> SUFFICES ASSUME c < d PROVE Less(k, Smallest(L[d])) /\ ~Less(Largest(L[d]), k)
        BY <1>3
      <4>1. Less(k, Smallest(L[d]))
        BY <2>10
      <4>2. AtMost(Smallest(L[d]), Largest(L[d]))
        <5>1. 1 \in 1..Len(L[d])
          BY <1>1, Shape DEF Run
        <5> QED BY <1>1, <5>1, RangeOf DEF Smallest
      <4>3. AtMost(k, Largest(L[d]))
        BY <1>2, <1>3, <4>1, <4>2, KeyOrder DEF AtMost
      <4> QED BY <1>2, <1>3, <4>1, <4>3, KeyOrder
    <3>3. d < c => ~IsLower(L, k, d) /\ IsHigher(L, k, d)
      <4> SUFFICES ASSUME d < c PROVE ~Less(k, Smallest(L[d])) /\ Less(Largest(L[d]), k)
        BY <1>3
      <4>1. Less(Largest(L[d]), k)
        BY <2>10
      <4>2. AtMost(Smallest(L[d]), Largest(L[d]))
        <5>1. 1 \in 1..Len(L[d])
          BY <1>1, Shape DEF Run
        <5> QED BY <1>1, <5>1, RangeOf DEF Smallest
      <4>3. AtMost(Smallest(L[d]), k)
        BY <1>2, <1>3, <4>1, <4>2, KeyOrder DEF AtMost
      <4> QED BY <1>2, <1>3, <4>1, <4>3, KeyOrder
    <3>4. c < d \/ d < c \/ d = c
      BY <1>1, <2>4
    <3> QED BY <2>8, <3>1, <3>2, <3>3, <3>4
  <2>12. c \in 1..Len(L) + 1 /\ c <= Len(L)
    BY <1>1, <2>4
  <2> QED BY <1>1, <2>11, <2>12, LevelGetFinds
<1> QED BY <1>4, <1>5


-----------------------------------------------------------------------------
(* Get *)

\* The value of the first of F that is not empty.
FirstHit(F) ==
  LET hits == {i \in DOMAIN F : F[i] # {}}
  IN  IF hits = {} THEN Tombstone ELSE CHOOSE v \in F[Min(hits)] : TRUE

LEMMA FirstHitFacts ==
  ASSUME NEW F, NEW m \in Nat, DOMAIN F = 1..m
  PROVE  /\ (\A i \in 1..m : F[i] = {}) => FirstHit(F) = Tombstone
         /\ \A v : \A j \in 1..m : F[j] = {v} /\ (\A i \in 1..m : i < j => F[i] = {}) => FirstHit(F) = v
<1> DEFINE hits == {i \in DOMAIN F : F[i] # {}}
<1>1. ASSUME \A i \in 1..m : F[i] = {} PROVE FirstHit(F) = Tombstone
  <2>1. hits = {}
    BY <1>1
  <2> QED BY <2>1 DEF FirstHit
<1>2. ASSUME NEW j \in 1..m, NEW v, F[j] = {v}, \A i \in 1..m : i < j => F[i] = {}
      PROVE  FirstHit(F) = v
  <2>1. hits \in SUBSET Nat /\ j \in hits
    BY <1>2
  <2>2. \A i \in hits : j <= i
    BY <1>2
  <2>3. Min(hits) = j
    <3> HIDE DEF hits
    <3> QED BY <2>1, <2>2, LeastIsMin
  <2>4. FirstHit(F) = CHOOSE w \in F[Min(hits)] : TRUE
    BY <2>1 DEF FirstHit
  <2> QED BY <1>2, <2>3, <2>4
<1> QED BY <1>1, <1>2

\* Where Get looks for k: the memtables, levels_[0] from its newest table, levels_[1].
LooksInto(F, k) ==
  /\ DOMAIN F = 1..Len(level0) + 3
  /\ F[1] = MemTableGet(mem.data, k) /\ F[2] = MemTableGet(imm.data, k)
  /\ \A c \in 1..Len(level0) : F[Len(level0) - c + 3] = TableGet(level0[c], k)
  /\ F[Len(level0) + 3] = LevelGet(level1, k)

LEMMA GetLooks ==
  ASSUME IsSeq(level0), NEW k
  PROVE  \E F : LooksInto(F, k) /\ Get(k) = FirstHit(F)
<1>1. PICK n \in Nat : n = Len(level0)
  BY Shape
<1>2. PICK l0 : l0 = Reverse(level0)
  OBVIOUS
<1>3. l0 = [i \in 1..n |-> level0[n - i + 1]]
  BY <1>1, <1>2 DEF Reverse
<1>4. PICK T : T = [i \in DOMAIN l0 |-> TableGet(l0[i], k)]
  OBVIOUS
<1>5. T = [i \in 1..n |-> T[i]] /\ \A i \in 1..n : T[i] = TableGet(level0[n - i + 1], k)
  BY <1>3, <1>4
<1>6. IsSeq(T) /\ Len(T) = n
  BY <1>5, Tabulated
<1>7. PICK a, b, c, two, one : /\ a = MemTableGet(mem.data, k) /\ b = MemTableGet(imm.data, k)
                               /\ c = LevelGet(level1, k) /\ two = <<a, b>> /\ one = <<c>>
  OBVIOUS
<1>8. IsSeq(two) /\ Len(two) = 2 /\ two[1] = a /\ two[2] = b
  <2>1. two = [i \in 1..2 |-> two[i]]
    BY <1>7
  <2> QED BY <1>7, <2>1, Tabulated
<1>9. IsSeq(one) /\ Len(one) = 1 /\ one[1] = c
  <2>1. one = [i \in 1..1 |-> one[i]]
    BY <1>7
  <2> QED BY <1>7, <2>1, Tabulated
<1>9a. IsSeq(two) /\ IsSeq(T) /\ IsSeq(one)
  BY <1>6, <1>8, <1>9
<1>10. PICK G : G = two \o T
  OBVIOUS
<1>10a. PICK F : F = G \o one
  OBVIOUS
<1>11. /\ IsSeq(G) /\ Len(G) = n + 2 /\ \A i \in 1..2 : G[i] = two[i]
       /\ \A i \in 1..n : G[2 + i] = T[i]
  <2>1. /\ IsSeq(G) /\ Len(G) = Len(two) + Len(T) /\ \A i \in 1..Len(two) : G[i] = two[i]
        /\ \A i \in 1..Len(T) : G[Len(two) + i] = T[i]
    BY <1>9a, <1>10, Joined
  <2> QED BY <1>6, <1>8, <2>1
<1>12. /\ IsSeq(F) /\ Len(F) = n + 3 /\ \A i \in 1..n + 2 : F[i] = G[i]
       /\ F[n + 3] = c
  <2>0. IsSeq(G)
    BY <1>11
  <2>1. /\ IsSeq(F) /\ Len(F) = Len(G) + Len(one) /\ \A i \in 1..Len(G) : F[i] = G[i]
        /\ \A i \in 1..Len(one) : F[Len(G) + i] = one[i]
    BY <1>9a, <1>10a, <2>0, Joined
  <2> QED BY <1>9, <1>11, <2>1
<1>13. F[1] = a /\ F[2] = b
  BY <1>8, <1>11, <1>12
<1>14. ASSUME NEW d \in 1..n PROVE F[n - d + 3] = TableGet(level0[d], k)
  <2>1. PICK i \in 1..n : i = n - d + 1
    OBVIOUS
  <2>2. n - d + 3 = 2 + i /\ 2 + i \in 1..n + 2 /\ n - i + 1 = d
    BY <2>1
  <2> QED BY <1>5, <1>11, <1>12, <2>2
<1>15. DOMAIN F = 1..n + 3
  BY <1>12, Shape
<1>16. LooksInto(F, k)
  BY <1>1, <1>7, <1>12, <1>13, <1>14, <1>15 DEF LooksInto
<1>17. Get(k) = FirstHit(F)
  <2>1. F = <<MemTableGet(mem.data, k), MemTableGet(imm.data, k)>> \o T \o <<LevelGet(level1, k)>>
    BY <1>7, <1>10, <1>10a
  <2> QED BY <1>2, <1>4, <2>1 DEF Get, FirstHit, NewestFirst
<1> QED BY <1>16, <1>17

\* Where the version of k is that Get is to find.
InMem(k, v) == HoldsNewest(mem.data, k, v)
InImm(k, v) == LacksKey(mem.data, k) /\ HoldsNewest(imm.data, k, v)
InLevel0(k, v) ==
  /\ LacksKey(mem.data, k) /\ LacksKey(imm.data, k)
  /\ \E c \in 1..Len(level0) : /\ NewestIn(level0[c], k, v)
                               /\ \A d \in 1..Len(level0) : c < d => Lacks(level0[d], k)
InLevel1(k, v) ==
  /\ LacksKey(mem.data, k) /\ LacksKey(imm.data, k)
  /\ \A c \in 1..Len(level0) : Lacks(level0[c], k)
  /\ Sole(Held(level1), k, v)

Located(k, v) == InMem(k, v) \/ InImm(k, v) \/ InLevel0(k, v) \/ InLevel1(k, v)

LEMMA GetFindsIt ==
  ASSUME KeysStandApart, InOrderInv, Ascending(level1), NEW k \in UserKeys, NEW v, Located(k, v)
  PROVE  Get(k) = v
<1>1. MemOK(mem.data) /\ MemOK(imm.data)
  BY DEF InOrderInv
<1>2. IsSeq(level0) /\ \A c \in 1..Len(level0) : Run(level0[c])
  BY DEF InOrderInv, Tables, Runs
<1>3. PICK n \in Nat : n = Len(level0)
  BY <1>2, Shape
<1>4. PICK F : LooksInto(F, k) /\ Get(k) = FirstHit(F)
  BY <1>2, GetLooks
<1>5. /\ DOMAIN F = 1..n + 3 /\ n + 3 \in Nat
      /\ F[1] = MemTableGet(mem.data, k) /\ F[2] = MemTableGet(imm.data, k)
      /\ \A c \in 1..n : F[n - c + 3] = TableGet(level0[c], k)
      /\ F[n + 3] = LevelGet(level1, k)
  BY <1>3, <1>4 DEF LooksInto
<1>6. /\ (\A i \in 1..n + 3 : F[i] = {}) => Get(k) = Tombstone
      /\ \A w : \A j \in 1..n + 3 : F[j] = {w} /\ (\A i \in 1..n + 3 : i < j => F[i] = {}) => Get(k) = w
  <2>1. PICK m : m = n + 3
    OBVIOUS
  <2>2. m \in Nat /\ DOMAIN F = 1..m
    BY <1>5, <2>1
  <2>3. /\ (\A i \in 1..m : F[i] = {}) => FirstHit(F) = Tombstone
        /\ \A w : \A j \in 1..m : F[j] = {w} /\ (\A i \in 1..m : i < j => F[i] = {}) => FirstHit(F) = w
    BY <2>2, FirstHitFacts
  <2> QED BY <1>4, <2>1, <2>3
<1>7. /\ LacksKey(mem.data, k) => F[1] = {}
      /\ HoldsNewest(mem.data, k, v) => F[1] = {v}
      /\ LacksKey(imm.data, k) => F[2] = {}
      /\ HoldsNewest(imm.data, k, v) => F[2] = {v}
  BY <1>1, <1>5, MemTableGetFinds
<1>8. \A c \in 1..n : /\ Lacks(level0[c], k) => F[n - c + 3] = {}
                      /\ NewestIn(level0[c], k, v) => F[n - c + 3] = {v}
  BY <1>2, <1>3, <1>5, TableGetCases
<1>9. CASE InMem(k, v)
  <2>1. F[1] = {v} /\ 1 \in 1..n + 3 /\ \A i \in 1..n + 3 : ~(i < 1)
    BY <1>7, <1>9 DEF InMem
  <2> QED BY <1>6, <2>1
<1>10. CASE InImm(k, v)
  <2>1. F[2] = {v} /\ F[1] = {} /\ 2 \in 1..n + 3 /\ \A i \in 1..n + 3 : i < 2 => i = 1
    BY <1>7, <1>10 DEF InImm
  <2> QED BY <1>6, <2>1
<1>11. CASE InLevel0(k, v)
  <2>1. F[1] = {} /\ F[2] = {}
    BY <1>7, <1>11 DEF InLevel0
  <2>2. PICK c \in 1..n : /\ NewestIn(level0[c], k, v)
                          /\ \A d \in 1..n : c < d => Lacks(level0[d], k)
    BY <1>3, <1>11 DEF InLevel0
  <2>3. PICK j : j = n - c + 3
    OBVIOUS
  <2>4. j \in 1..n + 3 /\ F[j] = {v}
    BY <1>8, <2>2, <2>3
  <2>5. ASSUME NEW i \in 1..n + 3, i < j PROVE F[i] = {}
    <3>1. CASE i = 1 \/ i = 2
      BY <2>1, <3>1
    <3>2. CASE i > 2
      <4>1. PICK d \in 1..n : d = n - i + 3
        BY <2>3, <2>5, <3>2
      <4>2. c < d /\ n - d + 3 = i
        BY <2>3, <2>5, <4>1
      <4> QED BY <1>8, <2>2, <4>2
    <3> QED BY <3>1, <3>2
  <2> QED BY <1>6, <2>4, <2>5
<1>12. CASE InLevel1(k, v)
  <2>1. F[1] = {} /\ F[2] = {}
    BY <1>7, <1>12 DEF InLevel1
  <2>2. ASSUME NEW i \in 1..n + 3, i < n + 3 PROVE F[i] = {}
    <3>1. CASE i = 1 \/ i = 2
      BY <2>1, <3>1
    <3>2. CASE i > 2
      <4>1. PICK d \in 1..n : d = n - i + 3
        BY <2>2, <3>2
      <4>2. n - d + 3 = i /\ Lacks(level0[d], k)
        BY <1>3, <1>12, <4>1 DEF InLevel1
      <4> QED BY <1>8, <4>2
    <3> QED BY <3>1, <3>2
  <2>3. n + 3 \in 1..n + 3
    OBVIOUS
  <2>4. CASE Lacks(Held(level1), k)
    <3>1. F[n + 3] = {}
      BY <1>5, <2>4, LevelGetSole
    <3>2. v = Tombstone
      BY <1>12, <2>4 DEF InLevel1, Sole
    <3>3. \A i \in 1..n + 3 : i < n + 3 \/ i = n + 3
      OBVIOUS
    <3> QED BY <1>6, <2>2, <3>1, <3>2, <3>3
  <2>5. CASE ~Lacks(Held(level1), k)
    <3>1. F[n + 3] = {v}
      BY <1>5, <1>12, <2>5, LevelGetSole DEF InLevel1
    <3> QED BY <1>6, <2>2, <2>3, <3>1
  <2> QED BY <2>4, <2>5
<1> QED BY <1>9, <1>10, <1>11, <1>12 DEF Located

LEMMA TouchingRangesAscend ==
  ASSUME InOrderInv, Level1RangesTouchAtMost
  PROVE  Ascending(level1)
<1>1. PICK L : L = level1
  OBVIOUS
<1>2. Tables(L) /\ Len(L) \in Nat
  BY <1>1, Shape DEF InOrderInv, Tables, Runs
<1>3. ASSUME NEW c \in 1..Len(L) - 1 PROVE AtMost(Largest(L[c]), Smallest(L[c + 1]))
  <2>1. c \in 1..Len(L) /\ c + 1 \in 1..Len(L)
    BY <1>2
  <2>2. AtMost(ExtractUserKey(LastKey(L[c])), ExtractUserKey(FirstKey(L[c + 1])))
    BY <1>1, <1>3 DEF Level1RangesTouchAtMost
  <2>3. /\ Run(L[c]) /\ Len(L[c]) > 0 /\ Run(L[c + 1]) /\ Len(L[c + 1]) > 0
    BY <1>2, <2>1 DEF Tables, Runs
  <2>4. ExtractUserKey(LastKey(L[c])) = Largest(L[c])
    BY <2>3, RangeOf
  <2>5. ExtractUserKey(FirstKey(L[c + 1])) = Smallest(L[c + 1])
    BY <2>3, RangeOf
  <2> QED BY <2>2, <2>4, <2>5
<1> QED BY <1>1, <1>2, <1>3 DEF Ascending

-----------------------------------------------------------------------------
(* GetsLatestUnlessExposed *)

\* The only version of k in the tables is the one that Get found.
LEMMA OnlyVersion ==
  ASSUME Tables(level0), Tables(level1), NEW k, NEW v, NEW c \in 1..Len(level0),
         NEW J, J = level0 \o level1, NewestIn(level0[c], k, v)
  PROVE  /\ Versions(level0, k) # {}
         /\ ~Several(Versions(J, k)) => Sole(Held(J), k, v)
<1>1. PICK A, B : A = level0 /\ B = level1
  OBVIOUS
<1>2. Runs(A) /\ Runs(B)
  BY <1>1 DEF Tables
<1>3. AreJoined(A, B, J)
  BY <1>1, <1>2, JoinedRuns
<1>4. PICK i \in 1..Len(A[c]) : UserKey(A[c][i]) = k /\ A[c][i].value = v
  BY <1>1 DEF NewestIn
<1>5. PICK p : p = <<c, i>>
  OBVIOUS
<1>6. p \in Places(A) /\ Held(A)[p] = A[c][i]
  BY <1>1, <1>2, <1>4, <1>5, HeldFacts
<1>7. Versions(A, k) # {}
  <2>1. RecordAt(A, p) = A[c][i]
    BY <1>5 DEF RecordAt
  <2> QED BY <1>4, <1>6, <2>1 DEF Versions
<1>8. p \in Places(J) /\ Held(J)[p] = A[c][i]
  BY <1>2, <1>3, <1>6, JoinedHeld
<1>9. DOMAIN Held(J) = Places(J) /\ \A q \in Places(J) : Held(J)[q] = RecordAt(J, q)
  BY DEF Held
<1>10. ASSUME ~Several(Versions(J, k)) PROVE Sole(Held(J), k, v)
  <2>1. \A q \in Versions(J, k) : q = p
    <3>1. p \in Versions(J, k)
      BY <1>4, <1>8, <1>9 DEF Versions
    <3> QED BY <1>10, <3>1 DEF Several
  <2>2. \A q \in Places(J) : UserKey(Held(J)[q]) = k => q = p
    BY <1>9, <2>1 DEF Versions
  <2> QED BY <1>4, <1>8, <1>9, <2>2 DEF Sole, Lacks
<1> QED BY <1>1, <1>7, <1>10

\* Every key that is not exposed has its last version where Get looks first.
KeyInv ==
  /\ InOrderInv /\ Numbered(mem) /\ (~imm.set => imm.data = {})
  /\ DOMAIN latest = UserKeys
  /\ \A k \in UserKeys \ exposed : Located(k, latest[k])

Fresh == [seq |-> 0, data |-> {}]

LEMMA FreshFacts ==
  /\ Fresh.seq = 0 /\ Fresh.data = {} /\ Numbered(Fresh)
  /\ \A k : LacksKey({}, k) /\ \A v : ~HoldsNewest({}, k, v)
BY DEF Fresh, Numbered, LacksKey, HoldsNewest, FirstOf

LEMMA InitLocates == Init => /\ Numbered(mem) /\ (~imm.set => imm.data = {})
                             /\ DOMAIN latest = UserKeys
                             /\ \A k \in UserKeys \ exposed : Located(k, latest[k])
<1> SUFFICES ASSUME Init
    PROVE  /\ Numbered(mem) /\ (~imm.set => imm.data = {})
           /\ DOMAIN latest = UserKeys
           /\ \A k \in UserKeys \ exposed : Located(k, latest[k])
  OBVIOUS
<1>1. mem = Fresh /\ imm.data = {} /\ level0 = <<>> /\ level1 = <<>>
  BY DEF Init, Fresh, NoMem
<1>2. latest = [k \in UserKeys |-> Tombstone]
  BY DEF Init
<1>3. ASSUME NEW k \in UserKeys PROVE Located(k, latest[k])
  <2>1. \A p : p \notin Places(<<>>)
    <3>1. Runs(<<>>)
      BY NoTables DEF Tables
    <3> QED BY <3>1, EmptyIsSeq, HeldFacts
  <2>2. DOMAIN Held(<<>>) = Places(<<>>)
    BY DEF Held
  <2>3. Sole(Held(<<>>), k, Tombstone)
    BY <2>1, <2>2 DEF Sole, Lacks
  <2>4. LacksKey(mem.data, k) /\ LacksKey(imm.data, k)
    BY <1>1, FreshFacts
  <2>5. \A c \in 1..Len(level0) : Lacks(level0[c], k)
    BY <1>1, EmptyIsSeq
  <2>6. InLevel1(k, latest[k])
    BY <1>1, <1>2, <2>3, <2>4, <2>5 DEF InLevel1
  <2> QED BY <2>6 DEF Located
<1> QED BY <1>1, <1>2, <1>3, FreshFacts

\* A write puts its own key into the memtable and leaves the others where they are,
\* or in the memtable that it replaced.
LEMMA WriteLocates ==
  ASSUME KeyInv, NEW l \in UserKeys, NEW w \in Nat, Write(l, w)
  PROVE  /\ Numbered(mem') /\ (~imm'.set => imm'.data = {})
         /\ DOMAIN latest' = UserKeys
         /\ \A k \in UserKeys \ exposed' : Located(k, latest[k])'
<1>1. PICK m : /\ mem' = Add(m, l, w)
               /\ \/ m = mem /\ imm' = imm
                  \/ m = Fresh /\ ~imm.set /\ imm' = [set |-> TRUE, data |-> mem.data]
  BY DEF Write, Fresh
<1>2. Numbered(m)
  BY <1>1, FreshFacts DEF KeyInv
<1>3. Numbered(mem')
  BY <1>1, <1>2, AddedIsNumbered
<1>4. ~imm'.set => imm'.data = {}
  BY <1>1 DEF KeyInv
<1>5. /\ DOMAIN latest' = UserKeys /\ latest'[l] = w
      /\ \A k \in UserKeys : k # l => latest'[k] = latest[k]
  BY DEF Write, KeyInv
<1>6. level0' = level0 /\ level1' = level1
  BY DEF Write
<1>7. exposed' = IF VersionsMixed(mem', l, w) THEN exposed \cup {l} ELSE exposed \ {l}
  BY DEF Write
<1>8. PICK new : new = mem'
  OBVIOUS
<1>9. ASSUME l \notin exposed' PROVE Located(l, latest[l])'
  <2>1. ~VersionsMixed(new, l, w)
    BY <1>7, <1>8, <1>9
  <2>2. HoldsNewest(new.data, l, w)
    BY <1>1, <1>2, <1>8, <2>1, AddedIsFirst
  <2>3. HoldsNewest(mem'.data, l, latest'[l])
    BY <1>5, <1>8, <2>2
  <2> QED BY <2>3 DEF Located, InMem
<1>10. ASSUME NEW k \in UserKeys \ exposed', k # l PROVE Located(k, latest[k])'
  <2>1. PICK v : v = latest[k] /\ v = latest'[k]
    BY <1>5, <1>10
  <2>2. Located(k, v)
    <3>1. k \notin exposed
      BY <1>7, <1>10
    <3> QED BY <2>1, <3>1 DEF KeyInv
  <2>3. /\ LacksKey(m.data, k) => LacksKey(new.data, k)
        /\ HoldsNewest(m.data, k, v) => HoldsNewest(new.data, k, v)
    BY <1>1, <1>2, <1>8, <1>10, AddedElsewhere
  <2>4. CASE m = mem /\ imm' = imm
    <3>1. /\ LacksKey(mem.data, k) => LacksKey(mem'.data, k)
          /\ HoldsNewest(mem.data, k, v) => HoldsNewest(mem'.data, k, v)
      BY <1>8, <2>3, <2>4
    <3>2. imm'.data = imm.data
      BY <2>4
    <3>3. InMem(k, v) => HoldsNewest(mem'.data, k, latest'[k])
      BY <2>1, <3>1 DEF InMem
    <3>4. InImm(k, v) => LacksKey(mem'.data, k) /\ HoldsNewest(imm'.data, k, latest'[k])
      BY <2>1, <3>1, <3>2 DEF InImm
    <3>5. InLevel0(k, v) => InLevel0(k, latest[k])'
      BY <1>6, <2>1, <3>1, <3>2 DEF InLevel0
    <3>6. InLevel1(k, v) => InLevel1(k, latest[k])'
      BY <1>6, <2>1, <3>1, <3>2 DEF InLevel1
    <3> QED BY <2>2, <3>3, <3>4, <3>5, <3>6 DEF Located, InMem, InImm
  <2>5. CASE m = Fresh /\ ~imm.set /\ imm' = [set |-> TRUE, data |-> mem.data]
    <3>1. LacksKey(mem'.data, k)
      BY <1>8, <2>3, <2>5, FreshFacts
    <3>2. imm'.data = mem.data
      BY <2>5
    <3>3. InMem(k, v) => HoldsNewest(imm'.data, k, latest'[k])
      BY <2>1, <3>2 DEF InMem
    <3>4. ~InImm(k, v)
      BY <2>5, FreshFacts DEF InImm, KeyInv
    <3>5. InLevel0(k, v) => InLevel0(k, latest[k])'
      BY <1>6, <2>1, <3>1, <3>2 DEF InLevel0
    <3>6. InLevel1(k, v) => InLevel1(k, latest[k])'
      BY <1>6, <2>1, <3>1, <3>2 DEF InLevel1
    <3> QED BY <2>2, <3>1, <3>3, <3>4, <3>5, <3>6 DEF Located, InImm
  <2> QED BY <1>1, <2>4, <2>5
<1> QED BY <1>3, <1>4, <1>5, <1>9, <1>10

\* A flush moves the version of every key of imm_ into the newest table.
LEMMA FlushLocates ==
  ASSUME KeysStandApart, KeyInv, Flush
  PROVE  /\ imm'.data = {}
         /\ \A k \in UserKeys \ exposed' : Located(k, latest[k])'
<1>1. PICK s, t : s = InOrder(imm.data) /\ t = BuildTable(s)
  OBVIOUS
<1>2. /\ imm.set /\ level0' = Append(level0, t) /\ imm'.data = {} /\ mem' = mem
      /\ level1' = level1 /\ latest' = latest /\ exposed' = exposed
  BY <1>1 DEF Flush, NoMem
<1>3. MemOK(imm.data) /\ imm.data # {} /\ IsSeq(level0)
  BY <1>2 DEF KeyInv, InOrderInv, Tables, Runs
<1>4. PICK n \in Nat : n = Len(level0)
  BY <1>3, Shape
<1>5. /\ Len(level0') = n + 1 /\ level0'[n + 1] = t
      /\ \A c \in 1..n : level0'[c] = level0[c]
  BY <1>2, <1>3, <1>4, Appended
<1>6. ASSUME NEW k \in UserKeys \ exposed' PROVE Located(k, latest[k])'
  <2>1. PICK v : v = latest[k] /\ v = latest'[k]
    BY <1>2
  <2>2. Located(k, v)
    BY <1>2, <2>1 DEF KeyInv
  <2>3. /\ LacksKey(imm.data, k) => Lacks(t, k)
        /\ HoldsNewest(imm.data, k, v) => NewestIn(t, k, v)
    BY <1>1, <1>3, FlushKeepsNewest
  <2>4. LacksKey(imm'.data, k)
    BY <1>2, FreshFacts
  <2>5. CASE InMem(k, v)
    <3>1. HoldsNewest(mem'.data, k, latest'[k])
      BY <1>2, <2>1, <2>5 DEF InMem
    <3> QED BY <3>1 DEF Located, InMem
  <2>6. CASE InImm(k, v)
    <3>1. n + 1 \in 1..n + 1 /\ \A d \in 1..n + 1 : ~(n + 1 < d)
      OBVIOUS
    <3>2. NewestIn(level0'[n + 1], k, latest'[k])
      BY <1>5, <2>1, <2>3, <2>6 DEF InImm
    <3>3. LacksKey(mem'.data, k)
      BY <1>2, <2>6 DEF InImm
    <3>4. InLevel0(k, latest[k])'
      BY <1>5, <2>4, <3>1, <3>2, <3>3 DEF InLevel0
    <3> QED BY <3>4 DEF Located
  <2>7. CASE InLevel0(k, v)
    <3>1. PICK c \in 1..n : /\ NewestIn(level0[c], k, v)
                            /\ \A d \in 1..n : c < d => Lacks(level0[d], k)
      BY <1>4, <2>7 DEF InLevel0
    <3>2. LacksKey(mem'.data, k) /\ Lacks(t, k)
      BY <1>2, <2>3, <2>7 DEF InLevel0
    <3>3. c \in 1..n + 1 /\ NewestIn(level0'[c], k, latest'[k])
      BY <1>5, <2>1, <3>1
    <3>4. ASSUME NEW d \in 1..n + 1, c < d PROVE Lacks(level0'[d], k)
      <4>1. CASE d \in 1..n
        BY <1>5, <3>1, <3>4, <4>1
      <4>2. CASE d = n + 1
        BY <1>5, <3>2, <4>2
      <4> QED BY <4>1, <4>2
    <3>5. InLevel0(k, latest[k])'
      BY <1>5, <2>4, <3>2, <3>3, <3>4 DEF InLevel0
    <3> QED BY <3>5 DEF Located
  <2>8. CASE InLevel1(k, v)
    <3>1. LacksKey(mem'.data, k) /\ Lacks(t, k)
      BY <1>2, <2>3, <2>8 DEF InLevel1
    <3>2. ASSUME NEW d \in 1..n + 1 PROVE Lacks(level0'[d], k)
      <4>1. CASE d \in 1..n
        BY <1>4, <1>5, <2>8, <4>1 DEF InLevel1
      <4>2. CASE d = n + 1
        BY <1>5, <3>1, <4>2
      <4> QED BY <4>1, <4>2
    <3>3. Sole(Held(level1'), k, latest'[k])
      BY <1>2, <2>1, <2>8 DEF InLevel1
    <3>4. InLevel1(k, latest[k])'
      BY <1>5, <2>4, <3>1, <3>2, <3>3 DEF InLevel1
    <3> QED BY <3>4 DEF Located
  <2> QED BY <2>2, <2>5, <2>6, <2>7, <2>8 DEF Located
<1> QED BY <1>2, <1>6

\* A compaction keeps the version of every key that it does not expose.
LEMMA CompactLocates ==
  ASSUME KeysStandApart, KeyInv, Compact
  PROVE  \A k \in UserKeys \ exposed' : Located(k, latest[k])'
<1>1. PICK merged, kept, out, rest, overlapping :
        Compacts(merged, kept, out, rest, overlapping) /\ level1' \in SortedByFirstKey(rest \o out)
  BY CompactSteps
<1>2. PICK J : J = level0 \o level1
  OBVIOUS
<1>3. /\ mem' = mem /\ imm' = imm /\ latest' = latest /\ level0' = <<>>
  BY DEF Compact
<1>4. \A k \in UserKeys \ exposed' :
        k \notin exposed /\ (Versions(level0, k) = {} \/ ~Several(Versions(J, k)))
  BY <1>2 DEF Compact
<1>5. Tables(level0) /\ Tables(level1) /\ Runs(level0) /\ Runs(level1)
  BY DEF KeyInv, InOrderInv, Tables
<1>6. ASSUME NEW k \in UserKeys \ exposed' PROVE Located(k, latest[k])'
  <2>1. PICK v : v = latest[k] /\ v = latest'[k]
    BY <1>3
  <2>2. Located(k, v)
    BY <1>4, <2>1 DEF KeyInv
  <2>3. CASE InMem(k, v)
    <3>1. HoldsNewest(mem'.data, k, latest'[k])
      BY <1>3, <2>1, <2>3 DEF InMem
    <3> QED BY <3>1 DEF Located, InMem
  <2>4. CASE InImm(k, v)
    <3>1. LacksKey(mem'.data, k) /\ HoldsNewest(imm'.data, k, latest'[k])
      BY <1>3, <2>1, <2>4 DEF InImm
    <3> QED BY <3>1 DEF Located, InImm
  <2>5. ASSUME LacksKey(mem.data, k), LacksKey(imm.data, k), Sole(Held(J), k, v)
        PROVE  Located(k, latest[k])'
    <3>1. Sole(Held(level1'), k, latest'[k])
      BY <1>1, <1>2, <1>5, <2>1, <2>5, CompactKeepsSole
    <3>2. \A c \in 1..Len(level0') : Lacks(level0'[c], k)
      BY <1>3, EmptyIsSeq
    <3>3. LacksKey(mem'.data, k) /\ LacksKey(imm'.data, k)
      BY <1>3, <2>5
    <3>4. InLevel1(k, latest[k])'
      BY <3>1, <3>2, <3>3 DEF InLevel1
    <3> QED BY <3>4 DEF Located
  <2>6. CASE InLevel0(k, v)
    <3>1. PICK c \in 1..Len(level0) : NewestIn(level0[c], k, v)
      BY <2>6 DEF InLevel0
    <3>2. /\ Versions(level0, k) # {}
          /\ ~Several(Versions(J, k)) => Sole(Held(J), k, v)
      BY <1>2, <1>5, <3>1, OnlyVersion
    <3> QED BY <1>4, <2>5, <2>6, <3>2 DEF InLevel0
  <2>7. CASE InLevel1(k, v)
    <3>1. Lacks(Held(level0), k)
      BY <1>5, <2>7, LacksTables DEF InLevel1
    <3>2. AreJoined(level0, level1, J)
      BY <1>2, <1>5, JoinedRuns
    <3>3. Sole(Held(J), k, v)
      BY <1>5, <2>7, <3>1, <3>2, SoleJoined DEF InLevel1
    <3> QED BY <2>5, <2>7, <3>3 DEF InLevel1
  <2> QED BY <2>2, <2>3, <2>4, <2>6, <2>7 DEF Located
<1> QED BY <1>6

LEMMA KeyInvHolds == KeysStandApart => (Spec => []KeyInv)
<1> SUFFICES ASSUME KeysStandApart PROVE Spec => []KeyInv
  OBVIOUS
<1>1. Init /\ InOrderInv => KeyInv
  BY InitLocates DEF KeyInv
<1>2. KeyInv /\ [Next]_vars /\ InOrderInv' => KeyInv'
  <2> SUFFICES ASSUME KeyInv, [Next]_vars, InOrderInv' PROVE KeyInv'
    OBVIOUS
  <2>1. ASSUME NEW k \in UserKeys, NEW v \in Nat, Write(k, v) PROVE KeyInv'
    BY <2>1, WriteLocates DEF KeyInv
  <2>2. ASSUME NEW k \in UserKeys, Put(k) \/ Delete(k) PROVE KeyInv'
    <3>1. writes + 1 \in Nat /\ Tombstone \in Nat
      BY DEF KeyInv, InOrderInv, Tombstone
    <3> QED BY <2>1, <2>2, <3>1 DEF Put, Delete
  <2>3. CASE Flush
    <3>1. mem' = mem /\ latest' = latest
      BY <2>3 DEF Flush
    <3>2. Numbered(mem') /\ DOMAIN latest' = UserKeys
      BY <3>1 DEF KeyInv
    <3>3. imm'.data = {} /\ \A k \in UserKeys \ exposed' : Located(k, latest[k])'
      BY <2>3, FlushLocates
    <3> QED BY <3>2, <3>3 DEF KeyInv
  <2>4. CASE Compact
    <3>1. mem' = mem /\ latest' = latest /\ imm' = imm
      BY <2>4 DEF Compact
    <3>2. Numbered(mem') /\ DOMAIN latest' = UserKeys /\ (~imm'.set => imm'.data = {})
      BY <3>1 DEF KeyInv
    <3>3. \A k \in UserKeys \ exposed' : Located(k, latest[k])'
      BY <2>4, CompactLocates
    <3> QED BY <3>2, <3>3 DEF KeyInv
  <2>5. CASE UNCHANGED vars
    <3>1. \A k, v : Located(k, v) <=> Located(k, v)'
      BY <2>5 DEF vars, Located, InMem, InImm, InLevel0, InLevel1
    <3>2. mem' = mem /\ imm' = imm /\ latest' = latest /\ exposed' = exposed
      BY <2>5 DEF vars
    <3> QED BY <3>1, <3>2 DEF KeyInv, Numbered
  <2> QED BY <2>2, <2>3, <2>4, <2>5 DEF Next
<1> QED BY <1>1, <1>2, InOrderInvHolds, PTL DEF Spec

\* However a key's versions are mixed up, every other key is found with its last
\* value by Get, in the memtables or any level, as long as the ranges of levels_[1]
\* allow the bisection.
THEOREM GetsAreLatest ==
  ASSUME KeysStandApart
  PROVE  Spec => []GetsLatestUnlessExposed
<1>1. KeyInv => GetsLatestUnlessExposed
  <2> SUFFICES ASSUME KeyInv, Level1RangesTouchAtMost, NEW k \in UserKeys \ exposed
      PROVE  Get(k) = latest[k]
    BY DEF GetsLatestUnlessExposed, UnexposedReadLatest
  <2>1. InOrderInv /\ Located(k, latest[k])
    BY DEF KeyInv
  <2> QED BY <2>1, TouchingRangesAscend, GetFindsIt
<1> QED BY <1>1, KeyInvHolds, PTL
=============================================================================
