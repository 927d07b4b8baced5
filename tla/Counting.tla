------------------------------ MODULE Counting ------------------------------
(***************************************************************************)
(* Facts about numbers, sequences, how often an entry occurs in a sequence *)
(* or on a set of pages, and pages that name their children, that the      *)
(* proofs of the indexes rest on.                                          *)
(***************************************************************************)
EXTENDS Integers, SequencesExt, FiniteSetTheorems, WellFoundedInduction, TLAPS

-----------------------------------------------------------------------------
(* Numbers.                                                                *)

LEMMA LeastNumber ==
  ASSUME NEW T \in SUBSET Nat, T # {}
  PROVE  \E x \in T : \A y \in T : x <= y
<1>1. PICK x \in T : \A y \in T : ~(<<y, x>> \in OpToRel(<, Nat))
  BY NatLessThanWellFounded, WFMin
<1>2. ASSUME NEW y \in T PROVE x <= y
  <2>1. y \in Nat /\ x \in Nat
    OBVIOUS
  <2>2. ~(y < x)
    BY <1>1, <2>1 DEF OpToRel
  <2> QED BY <2>1, <2>2
<1> QED BY <1>2

LEMMA LargestNumber ==
  ASSUME NEW n \in Nat, NEW T \in SUBSET (0 .. n), T # {}
  PROVE  \E x \in T : \A y \in T : y <= x
<1> DEFINE D == {d \in Nat : n - d \in T}
<1>1. \A x \in T : x \in 0 .. n /\ n - x \in D
  OBVIOUS
<1>2. PICK d \in D : \A y \in D : d <= y
  <2>1. D \in SUBSET Nat /\ D # {}
    BY <1>1
  <2> HIDE DEF D
  <2> QED BY <2>1, LeastNumber
<1>3. n - d \in T /\ d \in Nat
  OBVIOUS
<1>4. ASSUME NEW y \in T PROVE y <= n - d
  <2>1. y \in 0 .. n /\ d <= n - y
    BY <1>1, <1>2
  <2> QED BY <1>3, <2>1
<1> QED BY <1>3, <1>4

(* A set of numbers with 0, and with the next of each, has all.            *)
LEMMA AllNumbers ==
  ASSUME NEW T, 0 \in T, \A n \in Nat : n \in T => n + 1 \in T
  PROVE  Nat \subseteq T
<1> DEFINE Others == Nat \ T
<1> SUFFICES ASSUME Others # {} PROVE FALSE
  OBVIOUS
<1>1. PICK n \in Others : \A m \in Others : n <= m
  <2>1. Others \in SUBSET Nat
    OBVIOUS
  <2> HIDE DEF Others
  <2> QED BY <2>1, LeastNumber
<1>2. n \in Nat /\ n # 0 /\ n - 1 \in Nat /\ ~(n <= n - 1) /\ n \notin T
  OBVIOUS
<1>3. n - 1 \in T
  BY <1>1, <1>2
<1> QED BY <1>2, <1>3

LEMMA MinProperties ==
  ASSUME NEW T \in SUBSET Nat, T # {}
  PROVE  Min(T) \in T /\ \A y \in T : Min(T) <= y
BY LeastNumber DEF Min

(* A set of sets with the empty one and, with a part of C, that part and   *)
(* one more element of C, has C.                                           *)
LEMMA AllElements ==
  ASSUME NEW C, IsFiniteSet(C), NEW T, {} \in T,
         \A D \in SUBSET C : D \in T => \A p \in C \ D : D \cup {p} \in T
  PROVE  C \in T
<1>1. PICK n \in Nat : \E g \in Bijection(1 .. n, C) : TRUE
  BY FS_NatBijection DEF ExistsBijection
<1> PICK g \in Bijection(1 .. n, C) : TRUE
  BY <1>1
<1>2. /\ g \in [1 .. n -> C] /\ \A p \in C : \E i \in 1 .. n : g[i] = p
      /\ \A i, j \in 1 .. n : g[i] = g[j] => i = j
  BY DEF Bijection, Injection, Surjection, IsInjective
<1> DEFINE Part(k) == {g[i] : i \in 1 .. k}
           N == {k \in Nat : k <= n => Part(k) \in T}
<1>3. 0 \in N
  <2>1. Part(0) = {}
    OBVIOUS
  <2> HIDE DEF Part
  <2> QED BY <2>1
<1>4. ASSUME NEW k \in Nat, k \in N PROVE k + 1 \in N
  <2>1. SUFFICES ASSUME k + 1 <= n PROVE Part(k + 1) \in T
    OBVIOUS
  <2>2. Part(k) \in T /\ Part(k) \in SUBSET C
    BY <1>2, <1>4, <2>1
  <2>3. k + 1 \in 1 .. n /\ g[k + 1] \in C \ Part(k)
    BY <1>2, <2>1
  <2>4. Part(k + 1) = Part(k) \cup {g[k + 1]}
    OBVIOUS
  <2> HIDE DEF Part
  <2> QED BY <2>2, <2>3, <2>4
<1>5. n \in N
  <2> HIDE DEF N
  <2> QED BY <1>3, <1>4, AllNumbers
<1>6. Part(n) = C
  BY <1>2
<1>7. Part(n) \in T
  <2> HIDE DEF Part
  <2> QED BY <1>5
<1> QED BY <1>6, <1>7

-----------------------------------------------------------------------------
(* Sequences.                                                              *)

LEMMA SubSeqType ==
  ASSUME NEW S, NEW s \in Seq(S), NEW m \in Nat, NEW n \in Nat,
         1 <= m, m <= n + 1, n <= Len(s)
  PROVE  SubSeq(s, m, n) \in Seq(S) /\ Len(SubSeq(s, m, n)) = n - m + 1
OBVIOUS

LEMMA ConcatType ==
  ASSUME NEW S, NEW s \in Seq(S), NEW t \in Seq(S)
  PROVE  s \o t \in Seq(S) /\ Len(s \o t) = Len(s) + Len(t)
OBVIOUS

LEMMA SubSeqElements ==
  ASSUME NEW S, NEW s \in Seq(S), NEW m \in Nat, NEW n \in Nat,
         1 <= m, m <= n + 1, n <= Len(s), NEW i \in 1 .. n - m + 1
  PROVE  SubSeq(s, m, n)[i] = s[m + i - 1]
OBVIOUS

LEMMA ConcatElements ==
  ASSUME NEW S, NEW s \in Seq(S), NEW t \in Seq(S), NEW i \in 1 .. Len(s) + Len(t)
  PROVE  (s \o t)[i] = IF i <= Len(s) THEN s[i] ELSE t[i - Len(s)]
OBVIOUS

LEMMA AppendedThird ==
  ASSUME NEW a, NEW b, NEW d
  PROVE  Append(<<a, b>>, d) = <<a, b, d>>
<1> DEFINE S == {a, b, d}
<1>1. <<a, b>> \in Seq(S) /\ Len(<<a, b>>) = 2 /\ <<a, b>>[1] = a /\ <<a, b>>[2] = b
  OBVIOUS
<1>2. /\ <<a, b, d>> \in Seq(S) /\ Len(<<a, b, d>>) = 3
      /\ <<a, b, d>>[1] = a /\ <<a, b, d>>[2] = b /\ <<a, b, d>>[3] = d
  OBVIOUS
<1>3. PICK p, q : p = <<a, b>> /\ q = <<a, b, d>>
  OBVIOUS
<1>4. /\ Append(p, d) \in Seq(S) /\ Len(Append(p, d)) = 3
      /\ Append(p, d)[1] = a /\ Append(p, d)[2] = b /\ Append(p, d)[3] = d
  BY <1>1, <1>3
<1>5. \A i \in 1 .. 3 : i = 1 \/ i = 2 \/ i = 3
  OBVIOUS
<1>6. q \in Seq(S) /\ Len(q) = 3 /\ \A i \in 1 .. 3 : Append(p, d)[i] = q[i]
  BY <1>2, <1>3, <1>4, <1>5
<1>7. Append(p, d) = q
  BY <1>4, <1>6
<1> QED BY <1>3, <1>7

LEMMA RemoveAtType ==
  ASSUME NEW S, NEW s \in Seq(S), NEW n \in 1 .. Len(s)
  PROVE  RemoveAt(s, n) \in Seq(S) /\ Len(RemoveAt(s, n)) = Len(s) - 1
<1> DEFINE before == SubSeq(s, 1, n - 1)
           after == SubSeq(s, n + 1, Len(s))
<1>1. Len(s) \in Nat /\ n \in Nat /\ n - 1 \in Nat /\ n + 1 \in Nat /\ 1 <= n /\ n <= Len(s)
  OBVIOUS
<1>2. before \in Seq(S) /\ Len(before) = n - 1
  BY <1>1, SubSeqType
<1>3. after \in Seq(S) /\ Len(after) = Len(s) - n
  <2>1. after \in Seq(S) /\ Len(after) = Len(s) - (n + 1) + 1
    BY <1>1, SubSeqType
  <2> QED BY <1>1, <2>1
<1> HIDE DEF before, after
<1>4. before \o after \in Seq(S) /\ Len(before \o after) = Len(s) - 1
  <2>1. before \o after \in Seq(S) /\ Len(before \o after) = Len(before) + Len(after)
    BY <1>2, <1>3, ConcatType
  <2> QED BY <1>1, <1>2, <1>3, <2>1
<1> QED BY <1>4 DEF RemoveAt, before, after

LEMMA RemoveAtElements ==
  ASSUME NEW S, NEW s \in Seq(S), NEW n \in 1 .. Len(s), NEW j \in 1 .. Len(s) - 1
  PROVE  RemoveAt(s, n)[j] = IF j < n THEN s[j] ELSE s[j + 1]
<1> DEFINE before == SubSeq(s, 1, n - 1)
           after == SubSeq(s, n + 1, Len(s))
<1>1. Len(s) \in Nat /\ n \in Nat /\ n - 1 \in Nat /\ n + 1 \in Nat /\ 1 <= n /\ n <= Len(s)
      /\ j \in Nat /\ 1 <= j /\ j <= Len(s) - 1
  OBVIOUS
<1>2. before \in Seq(S) /\ Len(before) = n - 1
  BY <1>1, SubSeqType
<1>3. after \in Seq(S) /\ Len(after) = Len(s) - n
  <2>1. after \in Seq(S) /\ Len(after) = Len(s) - (n + 1) + 1
    BY <1>1, SubSeqType
  <2> QED BY <1>1, <2>1
<1>4. ASSUME NEW k \in 1 .. n - 1 PROVE before[k] = s[k]
  <2>1. k \in 1 .. (n - 1) - 1 + 1 /\ 1 + k - 1 = k
    BY <1>1
  <2> QED BY <1>1, <2>1, SubSeqElements
<1>5. ASSUME NEW k \in 1 .. Len(s) - n PROVE after[k] = s[n + k]
  <2>1. k \in 1 .. Len(s) - (n + 1) + 1 /\ (n + 1) + k - 1 = n + k
    BY <1>1
  <2> QED BY <1>1, <2>1, SubSeqElements
<1> HIDE DEF before, after
<1>6. (before \o after)[j] = IF j <= n - 1 THEN before[j] ELSE after[j - (n - 1)]
  <2>1. j \in 1 .. Len(before) + Len(after)
    BY <1>1, <1>2, <1>3
  <2> QED BY <1>2, <1>3, <2>1, ConcatElements
<1>7. RemoveAt(s, n) = before \o after
  BY DEF RemoveAt, before, after
<1>8. CASE j < n
  <2>1. j \in 1 .. n - 1 /\ j <= n - 1
    BY <1>1, <1>8
  <2> QED BY <1>4, <1>6, <1>7, <1>8, <2>1
<1>9. CASE ~(j < n)
  <2>1. ~(j <= n - 1) /\ j - (n - 1) \in 1 .. Len(s) - n /\ n + (j - (n - 1)) = j + 1
    BY <1>1, <1>9
  <2> QED BY <1>5, <1>6, <1>7, <1>9, <2>1
<1> QED BY <1>8, <1>9

FlatStep(f, seqs, i) == IF i = 1 THEN seqs[i] ELSE f[i - 1] \o seqs[i]

LEMMA FlatExists ==
  ASSUME NEW seqs, NEW last \in Nat
  PROVE  \E f : f = [i \in 1 .. last |-> FlatStep(f, seqs, i)]
<1> DEFINE Made == {n \in Nat : \E f : f = [i \in 1 .. n |-> FlatStep(f, seqs, i)]}
<1>1. 0 \in Made
  <2> DEFINE f == [i \in 1 .. 0 |-> << >>]
  <2>1. f = [i \in 1 .. 0 |-> FlatStep(f, seqs, i)]
    OBVIOUS
  <2> HIDE DEF f
  <2> QED BY <2>1
<1>2. ASSUME NEW n \in Nat, n \in Made PROVE n + 1 \in Made
  <2>1. PICK f : f = [i \in 1 .. n |-> FlatStep(f, seqs, i)]
    BY <1>2
  <2> DEFINE g == [i \in 1 .. n + 1 |-> IF i = n + 1 THEN FlatStep(f, seqs, i) ELSE f[i]]
  <2>2. ASSUME NEW i \in 1 .. n + 1 PROVE g[i] = FlatStep(g, seqs, i)
    <3>1. i \in Nat /\ i - 1 # n + 1 /\ (i # 1 => i - 1 \in 1 .. n)
      OBVIOUS
    <3>2. i # 1 => g[i - 1] = f[i - 1]
      BY <3>1
    <3>3. g[i] = FlatStep(f, seqs, i)
      <4>1. CASE i = n + 1
        BY <4>1
      <4>2. CASE i \in 1 .. n
        <5>1. f[i] = FlatStep(f, seqs, i)
          BY <2>1, <4>2
        <5> QED BY <4>2, <5>1
      <4> QED BY <4>1, <4>2
    <3> HIDE DEF g
    <3> QED BY <3>1, <3>2, <3>3 DEF FlatStep
  <2>3. g = [i \in 1 .. n + 1 |-> g[i]]
    OBVIOUS
  <2> HIDE DEF g
  <2>4. g = [i \in 1 .. n + 1 |-> FlatStep(g, seqs, i)]
    BY <2>2, <2>3
  <2>5. n + 1 \in Nat
    OBVIOUS
  <2> QED BY <2>4, <2>5
<1>3. Nat \subseteq Made
  <2> HIDE DEF Made
  <2> QED BY <1>1, <1>2, AllNumbers
<1>4. last \in Made
  BY <1>3
<1> QED BY <1>4

-----------------------------------------------------------------------------
(* How often x occurs in a sequence.                                       *)

Occ(s, x) == {i \in DOMAIN s : s[i] = x}
Times(s, x) == Cardinality(Occ(s, x))

LEMMA TimesType ==
  ASSUME NEW S, NEW s \in Seq(S), NEW x
  PROVE  /\ IsFiniteSet(Occ(s, x)) /\ Times(s, x) \in Nat
         /\ Times(s, x) = 0 <=> \A i \in DOMAIN s : s[i] # x
<1>1. IsFiniteSet(1 .. Len(s)) /\ Occ(s, x) \in SUBSET (1 .. Len(s))
  <2>1. Len(s) \in Nat /\ DOMAIN s = 1 .. Len(s)
    OBVIOUS
  <2> QED BY <2>1, FS_Interval DEF Occ
<1>2. IsFiniteSet(Occ(s, x))
  BY <1>1, FS_Subset
<1>3. Cardinality(Occ(s, x)) \in Nat /\ (Cardinality(Occ(s, x)) = 0 <=> Occ(s, x) = {})
  BY <1>2, FS_CardinalityType, FS_EmptySet
<1> QED BY <1>2, <1>3 DEF Times, Occ

(* As many, in a set that is moved by m.                                   *)
LEMMA Moved ==
  ASSUME NEW T \in SUBSET Nat, IsFiniteSet(T), NEW m \in Nat
  PROVE  /\ IsFiniteSet({i + m : i \in T})
         /\ Cardinality({i + m : i \in T}) = Cardinality(T)
<1> DEFINE U == {i + m : i \in T}
           g == [i \in T |-> i + m]
<1>1. g \in Bijection(T, U)
  BY DEF Bijection, Injection, Surjection, IsInjective
<1>2. ExistsBijection(T, U)
  BY <1>1 DEF ExistsBijection
<1> HIDE DEF U
<1>3. IsFiniteSet(U) /\ Cardinality(U) = Cardinality(T)
  BY <1>2, FS_Bijection
<1> QED BY <1>3 DEF U

LEMMA TimesConcat ==
  ASSUME NEW S, NEW s \in Seq(S), NEW t \in Seq(S), NEW x
  PROVE  Times(s \o t, x) = Times(s, x) + Times(t, x)
<1>1. PICK m \in Nat, n \in Nat : m = Len(s) /\ n = Len(t)
  OBVIOUS
<1>2. PICK r : r = s \o t
  OBVIOUS
<1>3. r \in Seq(S) /\ Len(r) = m + n
  BY <1>1, <1>2, ConcatType
<1>4. DOMAIN s = 1 .. m /\ DOMAIN t = 1 .. n /\ DOMAIN r = 1 .. m + n
  BY <1>1, <1>3
<1>5. \A i \in 1 .. m + n : r[i] = IF i <= m THEN s[i] ELSE t[i - m]
  BY <1>1, <1>2, ConcatElements
<1> DEFINE U == {j + m : j \in Occ(t, x)}
<1>6. Occ(s, x) \subseteq 1 .. m /\ Occ(t, x) \subseteq 1 .. n
  BY <1>4 DEF Occ
<1>7. Occ(r, x) = Occ(s, x) \cup U
  <2>1. ASSUME NEW i \in Occ(r, x) PROVE i \in Occ(s, x) \cup U
    <3>1. i \in 1 .. m + n /\ r[i] = x
      BY <1>4 DEF Occ
    <3>2. CASE i <= m
      <4>1. i \in 1 .. m /\ s[i] = x
        BY <1>5, <3>1, <3>2
      <4> QED BY <1>4, <4>1 DEF Occ
    <3>3. CASE ~(i <= m)
      <4>1. PICK j \in 1 .. n : i = j + m /\ j = i - m
        <5>1. i - m \in 1 .. n /\ i = (i - m) + m
          BY <3>1, <3>3
        <5> QED BY <5>1
      <4>2. t[j] = x
        BY <1>5, <3>1, <3>3, <4>1
      <4>3. j \in Occ(t, x)
        BY <1>4, <4>2 DEF Occ
      <4> QED BY <4>1, <4>3
    <3> QED BY <3>2, <3>3
  <2>2. ASSUME NEW i \in Occ(s, x) PROVE i \in Occ(r, x)
    <3>1. i \in 1 .. m /\ s[i] = x
      BY <1>4 DEF Occ
    <3>2. i \in 1 .. m + n /\ i <= m
      BY <3>1
    <3> QED BY <1>4, <1>5, <3>1, <3>2 DEF Occ
  <2>3. ASSUME NEW j \in Occ(t, x) PROVE j + m \in Occ(r, x)
    <3>1. j \in 1 .. n /\ t[j] = x
      BY <1>4 DEF Occ
    <3>2. j + m \in 1 .. m + n /\ ~(j + m <= m) /\ (j + m) - m = j
      BY <3>1
    <3>3. r[j + m] = t[j]
      BY <1>5, <3>2
    <3> QED BY <1>4, <3>1, <3>2, <3>3 DEF Occ
  <2> QED BY <2>1, <2>2, <2>3
<1>8. Occ(s, x) \cap U = {}
  BY <1>6
<1>9. /\ IsFiniteSet(Occ(s, x)) /\ Cardinality(Occ(s, x)) \in Nat
      /\ IsFiniteSet(Occ(t, x)) /\ Cardinality(Occ(t, x)) \in Nat
  BY TimesType DEF Times
<1>10. IsFiniteSet(U) /\ Cardinality(U) = Cardinality(Occ(t, x))
  <2>1. Occ(t, x) \in SUBSET Nat
    BY <1>6
  <2> QED BY <1>9, <2>1, Moved
<1> HIDE DEF U
<1>11. Cardinality(Occ(s, x) \cup U)
         = Cardinality(Occ(s, x)) + Cardinality(U) - Cardinality(Occ(s, x) \cap U)
  BY <1>9, <1>10, FS_Union
<1>12. Cardinality(Occ(s, x) \cap U) = 0
  BY <1>8, FS_EmptySet
<1>13. Cardinality(Occ(r, x)) = Cardinality(Occ(s, x)) + Cardinality(Occ(t, x))
  BY <1>7, <1>9, <1>10, <1>11, <1>12
<1> QED BY <1>2, <1>13 DEF Times

LEMMA TimesEmpty ==
  ASSUME NEW x
  PROVE  Times(<< >>, x) = 0
<1>1. Occ(<< >>, x) = {}
  BY DEF Occ
<1> QED BY <1>1, FS_EmptySet DEF Times

LEMMA TimesOne ==
  ASSUME NEW e, NEW x
  PROVE  Times(<<e>>, x) = IF e = x THEN 1 ELSE 0
<1>1. CASE e = x
  <2>1. Occ(<<e>>, x) = {1}
    BY <1>1 DEF Occ
  <2> QED BY <1>1, <2>1, FS_Singleton DEF Times
<1>2. CASE e # x
  <2>1. Occ(<<e>>, x) = {}
    BY <1>2 DEF Occ
  <2> QED BY <1>2, <2>1, FS_EmptySet DEF Times
<1> QED BY <1>1, <1>2

LEMMA TimesAppend ==
  ASSUME NEW S, NEW s \in Seq(S), NEW e \in S, NEW x
  PROVE  Times(Append(s, e), x) = Times(s, x) + IF e = x THEN 1 ELSE 0
<1>1. <<e>> \in Seq(S) /\ Append(s, e) = s \o <<e>>
  OBVIOUS
<1>2. Times(s \o <<e>>, x) = Times(s, x) + Times(<<e>>, x)
  BY <1>1, TimesConcat
<1> QED BY <1>1, <1>2, TimesOne

(* A sequence is what it starts with and what follows.                     *)
LEMMA TimesSplit ==
  ASSUME NEW S, NEW s \in Seq(S), NEW m \in 0 .. Len(s), NEW x
  PROVE  Times(s, x) = Times(SubSeq(s, 1, m), x) + Times(SubSeq(s, m + 1, Len(s)), x)
<1>1. PICK n \in Nat : n = Len(s) /\ m \in Nat /\ m <= n
  OBVIOUS
<1>2. PICK a, b : a = SubSeq(s, 1, m) /\ b = SubSeq(s, m + 1, n)
  OBVIOUS
<1>3. a \in Seq(S) /\ Len(a) = m /\ \A i \in 1 .. m : a[i] = s[i]
  <2>1. a \in Seq(S) /\ Len(a) = m - 1 + 1
    BY <1>1, <1>2, SubSeqType
  <2>2. ASSUME NEW i \in 1 .. m PROVE a[i] = s[i]
    <3>1. i \in 1 .. m - 1 + 1 /\ 1 + i - 1 = i
      BY <1>1
    <3> QED BY <1>1, <1>2, <3>1, SubSeqElements
  <2> QED BY <1>1, <2>1, <2>2
<1>4. b \in Seq(S) /\ Len(b) = n - m /\ \A i \in 1 .. n - m : b[i] = s[m + i]
  <2>1. b \in Seq(S) /\ Len(b) = n - (m + 1) + 1
    BY <1>1, <1>2, SubSeqType
  <2>2. ASSUME NEW i \in 1 .. n - m PROVE b[i] = s[m + i]
    <3>1. i \in 1 .. n - (m + 1) + 1 /\ (m + 1) + i - 1 = m + i
      BY <1>1
    <3> QED BY <1>1, <1>2, <3>1, SubSeqElements
  <2> QED BY <1>1, <2>1, <2>2
<1>5. PICK r : r = a \o b
  OBVIOUS
<1>6. r \in Seq(S) /\ Len(r) = n
  <2>1. r \in Seq(S) /\ Len(r) = Len(a) + Len(b)
    BY <1>3, <1>4, <1>5, ConcatType
  <2> QED BY <1>1, <1>3, <1>4, <2>1
<1>7. ASSUME NEW i \in 1 .. n PROVE r[i] = s[i]
  <2>1. i \in 1 .. Len(a) + Len(b)
    BY <1>1, <1>3, <1>4
  <2>2. r[i] = IF i <= Len(a) THEN a[i] ELSE b[i - Len(a)]
    BY <1>3, <1>4, <1>5, <2>1, ConcatElements
  <2>3. CASE i <= m
    <3>1. i \in 1 .. m
      BY <2>3
    <3> QED BY <1>3, <2>2, <3>1
  <2>4. CASE ~(i <= m)
    <3>1. i - m \in 1 .. n - m /\ m + (i - m) = i
      BY <1>1, <2>4
    <3> QED BY <1>3, <1>4, <2>2, <2>4, <3>1
  <2> QED BY <2>3, <2>4
<1>8. r = s
  BY <1>1, <1>6, <1>7
<1>9. Times(a \o b, x) = Times(a, x) + Times(b, x)
  BY <1>3, <1>4, TimesConcat
<1> QED BY <1>1, <1>2, <1>5, <1>8, <1>9

LEMMA TimesInsertAt ==
  ASSUME NEW S, NEW s \in Seq(S), NEW n \in 1 .. Len(s) + 1, NEW e \in S, NEW x
  PROVE  Times(InsertAt(s, n, e), x) = Times(s, x) + IF e = x THEN 1 ELSE 0
<1>1. PICK m \in 0 .. Len(s) : m = n - 1 /\ m + 1 = n
  <2>1. n - 1 \in 0 .. Len(s) /\ (n - 1) + 1 = n
    OBVIOUS
  <2> QED BY <2>1
<1>2. PICK a, b : a = SubSeq(s, 1, m) /\ b = SubSeq(s, m + 1, Len(s))
  OBVIOUS
<1>3. a \in Seq(S) /\ b \in Seq(S) /\ <<e>> \in Seq(S) /\ a \o <<e>> \in Seq(S)
  BY <1>1, <1>2
<1>4. Times(s, x) = Times(a, x) + Times(b, x)
  BY <1>2, TimesSplit
<1>5. /\ Times((a \o <<e>>) \o b, x) = Times(a \o <<e>>, x) + Times(b, x)
      /\ Times(a \o <<e>>, x) = Times(a, x) + Times(<<e>>, x)
  BY <1>3, TimesConcat
<1>6. InsertAt(s, n, e) = (a \o <<e>>) \o b
  BY <1>1, <1>2 DEF InsertAt
<1>7. Times(a, x) \in Nat /\ Times(b, x) \in Nat
  BY <1>3, TimesType
<1> QED BY <1>4, <1>5, <1>6, <1>7, TimesOne

LEMMA TimesRemoveAt ==
  ASSUME NEW S, NEW s \in Seq(S), NEW n \in 1 .. Len(s), NEW x
  PROVE  Times(s, x) = Times(RemoveAt(s, n), x) + IF s[n] = x THEN 1 ELSE 0
<1>1. PICK m \in 0 .. Len(s) : m = n - 1 /\ m + 1 = n
  <2>1. n - 1 \in 0 .. Len(s) /\ (n - 1) + 1 = n
    OBVIOUS
  <2> QED BY <2>1
<1>2. PICK a, b, c : /\ a = SubSeq(s, 1, m) /\ b = SubSeq(s, n + 1, Len(s))
                     /\ c = SubSeq(s, 1, n)
  OBVIOUS
<1>3. a \in Seq(S) /\ b \in Seq(S) /\ c \in Seq(S) /\ Len(c) = n
  BY <1>1, <1>2
<1>4. Times(s, x) = Times(c, x) + Times(b, x)
  <2>1. n \in 0 .. Len(s)
    OBVIOUS
  <2> QED BY <1>2, <2>1, TimesSplit
<1>5. Times(c, x) = Times(SubSeq(c, 1, m), x) + Times(SubSeq(c, m + 1, Len(c)), x)
  <2>1. m \in 0 .. Len(c)
    BY <1>1, <1>3
  <2> QED BY <1>3, <2>1, TimesSplit
<1>6. SubSeq(c, 1, m) = a
  BY <1>1, <1>2
<1>7. SubSeq(c, m + 1, Len(c)) = <<s[n]>>
  <2>1. PICK d : d = SubSeq(c, n, n)
    OBVIOUS
  <2>2. n \in Nat /\ 1 <= n /\ n <= n + 1 /\ n <= Len(c) /\ n <= Len(s)
    BY <1>3
  <2>3. d \in Seq(S) /\ Len(d) = n - n + 1
    BY <1>3, <2>1, <2>2, SubSeqType
  <2>4. c[n] = s[n]
    BY <1>2, <2>2
  <2>5. 1 \in 1 .. n - n + 1 /\ n + 1 - 1 = n
    OBVIOUS
  <2>6. d[1] = c[n]
    BY <1>3, <2>1, <2>2, <2>5, SubSeqElements
  <2>7. Len(d) = 1 /\ d[1] = s[n]
    BY <2>3, <2>4, <2>6
  <2>8. d = <<s[n]>>
    BY <2>3, <2>7
  <2> QED BY <1>1, <1>3, <2>1, <2>8
<1>8. RemoveAt(s, n) = a \o b
  BY <1>1, <1>2 DEF RemoveAt
<1>9. Times(a \o b, x) = Times(a, x) + Times(b, x)
  BY <1>3, TimesConcat
<1>10. Times(a, x) \in Nat /\ Times(b, x) \in Nat
  BY <1>3, TimesType
<1>11. Times(<<s[n]>>, x) = IF s[n] = x THEN 1 ELSE 0
  BY TimesOne
<1>12. PICK one \in Nat : one = IF s[n] = x THEN 1 ELSE 0
  OBVIOUS
<1>13. Times(s, x) = (Times(a, x) + one) + Times(b, x)
  BY <1>4, <1>5, <1>6, <1>7, <1>11, <1>12
<1>14. Times(RemoveAt(s, n), x) = Times(a, x) + Times(b, x)
  BY <1>8, <1>9
<1> QED BY <1>10, <1>12, <1>13, <1>14

-----------------------------------------------------------------------------
(* How often x occurs on the pages of C, page p of which holds f[p].       *)

PlacesOf(f, C) == UNION {{p} \X DOMAIN f[p] : p \in C}
Spots(f, C, x) == {at \in PlacesOf(f, C) : f[at[1]][at[2]] = x}
Total(f, C, x) == Cardinality(Spots(f, C, x))

SeqsOn(f, C, S) == \A p \in C : f[p] \in Seq(S)

LEMMA SpotsAre ==
  ASSUME NEW f, NEW C, NEW x
  PROVE  Spots(f, C, x) = UNION {{p} \X Occ(f[p], x) : p \in C}
BY DEF Spots, PlacesOf, Occ

LEMMA NoPages ==
  ASSUME NEW f, NEW x
  PROVE  IsFiniteSet(Spots(f, {}, x)) /\ Total(f, {}, x) = 0
<1>1. Spots(f, {}, x) = {}
  BY DEF Spots, PlacesOf
<1> QED BY <1>1, FS_EmptySet DEF Total

(* E is D and one more page, which holds s.                                *)
Joins(f, p, s, D, E) == p \notin D /\ E = D \cup {p} /\ s = f[p]

LEMMA OnePageMore ==
  ASSUME NEW f, NEW D, NEW p, NEW E, NEW s, Joins(f, p, s, D, E), NEW S, s \in Seq(S),
         NEW x, IsFiniteSet(Spots(f, D, x))
  PROVE  /\ IsFiniteSet(Spots(f, E, x))
         /\ Total(f, E, x) = Total(f, D, x) + Times(s, x)
<1> DEFINE here == {p} \X Occ(s, x)
<1>1. IsFiniteSet(Occ(s, x)) /\ Cardinality(Occ(s, x)) \in Nat
  BY TimesType DEF Times
<1>2. IsFiniteSet({p}) /\ Cardinality({p}) = 1
  BY FS_Singleton
<1>3. IsFiniteSet(here) /\ Cardinality(here) = Cardinality({p}) * Cardinality(Occ(s, x))
  BY <1>1, <1>2, FS_Product
<1>4. Spots(f, E, x) = Spots(f, D, x) \cup here
  BY SpotsAre DEF Joins
<1>5. Spots(f, D, x) \cap here = {}
  BY SpotsAre DEF Joins
<1> HIDE DEF here
<1>6. Cardinality(here) = Cardinality(Occ(s, x))
  BY <1>1, <1>2, <1>3
<1>7. /\ IsFiniteSet(Spots(f, D, x) \cup here)
      /\ Cardinality(Spots(f, D, x) \cup here)
           = Cardinality(Spots(f, D, x)) + Cardinality(here)
               - Cardinality(Spots(f, D, x) \cap here)
  BY <1>3, FS_Union
<1>8. Cardinality(Spots(f, D, x) \cap here) = 0
  BY <1>5, FS_EmptySet
<1>9. Cardinality(Spots(f, D, x)) \in Nat
  BY FS_CardinalityType
<1>10. Cardinality(Spots(f, D, x) \cup here)
         = Cardinality(Spots(f, D, x)) + Cardinality(Occ(s, x))
  BY <1>1, <1>6, <1>7, <1>8, <1>9
<1> QED BY <1>4, <1>7, <1>10 DEF Total, Times

LEMMA TotalType ==
  ASSUME NEW f, NEW C, IsFiniteSet(C), NEW S, SeqsOn(f, C, S), NEW x
  PROVE  IsFiniteSet(Spots(f, C, x)) /\ Total(f, C, x) \in Nat
<1> DEFINE T == {D \in SUBSET C : IsFiniteSet(Spots(f, D, x))}
<1>1. {} \in T
  BY NoPages
<1>2. ASSUME NEW D \in SUBSET C, D \in T, NEW p \in C \ D PROVE D \cup {p} \in T
  <2>1. IsFiniteSet(Spots(f, D, x)) /\ p \notin D /\ f[p] \in Seq(S)
    BY <1>2 DEF SeqsOn
  <2>2. Joins(f, p, f[p], D, D \cup {p})
    BY <1>2 DEF Joins
  <2>3. IsFiniteSet(Spots(f, D \cup {p}, x))
    BY ONLY <2>1, <2>2, OnePageMore
  <2> QED BY <2>3
<1>3. C \in T
  <2> HIDE DEF T
  <2> QED BY <1>1, <1>2, AllElements
<1>4. IsFiniteSet(Spots(f, C, x))
  BY <1>3
<1> QED BY <1>4, FS_CardinalityType DEF Total

LEMMA TotalOnePageMore ==
  ASSUME NEW f, NEW D, NEW p, NEW E, NEW s, Joins(f, p, s, D, E),
         IsFiniteSet(D), NEW S, SeqsOn(f, D, S), s \in Seq(S), NEW x
  PROVE  Total(f, E, x) = Total(f, D, x) + Times(s, x)
<1>1. IsFiniteSet(Spots(f, D, x))
  BY TotalType
<1> QED BY ONLY <1>1, Joins(f, p, s, D, E), s \in Seq(S), OnePageMore

LEMMA TotalOnePage ==
  ASSUME NEW f, NEW p, NEW s, Joins(f, p, s, {}, {p}), NEW S, s \in Seq(S), NEW x
  PROVE  Total(f, {p}, x) = Times(s, x)
<1>2. IsFiniteSet(Spots(f, {}, x)) /\ Total(f, {}, x) = 0
  BY NoPages
<1>3. Total(f, {p}, x) = Total(f, {}, x) + Times(s, x)
  BY ONLY Joins(f, p, s, {}, {p}), <1>2, s \in Seq(S), OnePageMore
<1>4. Times(s, x) \in Nat
  BY TimesType
<1> QED BY <1>2, <1>3, <1>4

(* Nothing, if no page holds it.                                           *)
LEMMA TotalZero ==
  ASSUME NEW f, NEW C, IsFiniteSet(C), NEW S, SeqsOn(f, C, S), NEW x
  PROVE  Total(f, C, x) = 0 <=> \A p \in C : Times(f[p], x) = 0
<1>1. IsFiniteSet(Spots(f, C, x))
  BY TotalType
<1>2. Total(f, C, x) = 0 <=> Spots(f, C, x) = {}
  BY <1>1, FS_EmptySet DEF Total
<1>3. Spots(f, C, x) = {} <=> \A p \in C : \A i \in DOMAIN f[p] : f[p][i] # x
  <2>1. Spots(f, C, x) = UNION {{p} \X Occ(f[p], x) : p \in C}
    BY SpotsAre
  <2>2. ASSUME NEW p \in C, NEW i \in DOMAIN f[p], f[p][i] = x
        PROVE  <<p, i>> \in Spots(f, C, x)
    BY <2>1, <2>2 DEF Occ
  <2>3. ASSUME NEW at \in Spots(f, C, x)
        PROVE  \E p \in C : \E i \in DOMAIN f[p] : f[p][i] = x
    BY <2>1 DEF Occ
  <2> QED BY <2>2, <2>3
<1>4. ASSUME NEW p \in C
      PROVE  Times(f[p], x) = 0 <=> \A i \in DOMAIN f[p] : f[p][i] # x
  <2>1. f[p] \in Seq(S)
    BY DEF SeqsOn
  <2> QED BY <2>1, TimesType
<1> QED BY <1>2, <1>3, <1>4

(* The same, if every page holds it as often.                              *)
LEMMA TotalSame ==
  ASSUME NEW f, NEW g, NEW C, IsFiniteSet(C), NEW S, SeqsOn(f, C, S), SeqsOn(g, C, S),
         NEW x, \A p \in C : Times(f[p], x) = Times(g[p], x)
  PROVE  Total(f, C, x) = Total(g, C, x)
<1> DEFINE T == {D \in SUBSET C : IsFiniteSet(D) /\ Total(f, D, x) = Total(g, D, x)}
<1>1. {} \in T
  BY NoPages, FS_EmptySet
<1>2. ASSUME NEW D \in SUBSET C, D \in T, NEW p \in C \ D PROVE D \cup {p} \in T
  <2>1. IsFiniteSet(D) /\ p \notin D /\ f[p] \in Seq(S) /\ g[p] \in Seq(S)
    BY <1>2 DEF SeqsOn
  <2>2. SeqsOn(f, D, S) /\ SeqsOn(g, D, S)
    BY DEF SeqsOn
  <2>7. PICK a, b : a = f[p] /\ b = g[p]
    OBVIOUS
  <2>8. PICK E : E = D \cup {p}
    OBVIOUS
  <2>9. a \in Seq(S) /\ b \in Seq(S) /\ Joins(f, p, a, D, E) /\ Joins(g, p, b, D, E)
    BY <2>1, <2>7, <2>8 DEF Joins
  <2>3. Total(f, E, x) = Total(f, D, x) + Times(a, x)
    BY ONLY <2>1, <2>2, <2>9, TotalOnePageMore
  <2>4. Total(g, E, x) = Total(g, D, x) + Times(b, x)
    BY ONLY <2>1, <2>2, <2>9, TotalOnePageMore
  <2>5. Total(f, D, x) = Total(g, D, x) /\ Times(a, x) = Times(b, x)
    BY <1>2, <2>7
  <2>6. IsFiniteSet(E)
    BY <2>1, <2>8, FS_AddElement
  <2> QED BY <2>3, <2>4, <2>5, <2>6, <2>8
<1>3. C \in T
  <2> HIDE DEF T
  <2> QED BY <1>1, <1>2, AllElements
<1> QED BY <1>3

(* One page that holds it more or less often.                              *)
OneDiffers(f, g, C, p, s, t, x) ==
  /\ p \in C /\ s = f[p] /\ t = g[p]
  /\ \A q \in C \ {p} : Times(f[q], x) = Times(g[q], x)

LEMMA TotalChanged ==
  ASSUME NEW f, NEW g, NEW C, IsFiniteSet(C), NEW S, SeqsOn(f, C, S), SeqsOn(g, C, S),
         NEW x, NEW p, NEW s, NEW t, OneDiffers(f, g, C, p, s, t, x)
  PROVE  Total(f, C, x) + Times(t, x) = Total(g, C, x) + Times(s, x)
<1>1. PICK D : D = C \ {p}
  OBVIOUS
<1>2. Joins(f, p, s, D, C) /\ Joins(g, p, t, D, C)
  BY <1>1 DEF Joins, OneDiffers
<1>3. IsFiniteSet(D)
  BY <1>1, FS_Difference
<1>4. SeqsOn(f, D, S) /\ SeqsOn(g, D, S) /\ s \in Seq(S) /\ t \in Seq(S)
  BY <1>1 DEF SeqsOn, OneDiffers
<1>5. Total(f, D, x) = Total(g, D, x)
  <2>1. \A q \in D : Times(f[q], x) = Times(g[q], x)
    BY <1>1 DEF OneDiffers
  <2> QED BY <1>3, <1>4, <2>1, TotalSame
<1>6. Total(f, C, x) = Total(f, D, x) + Times(s, x)
  BY ONLY <1>2, <1>3, <1>4, TotalOnePageMore
<1>7. Total(g, C, x) = Total(g, D, x) + Times(t, x)
  BY ONLY <1>2, <1>3, <1>4, TotalOnePageMore
<1>8. Total(f, D, x) \in Nat /\ Times(s, x) \in Nat /\ Times(t, x) \in Nat
  BY <1>3, <1>4, TotalType, TimesType
<1> QED BY <1>5, <1>6, <1>7, <1>8

(* Pages that do not hold it do not count.                                 *)
LEMMA TotalOfMore ==
  ASSUME NEW f, NEW C, NEW S, SeqsOn(f, C, S), NEW D \in SUBSET C,
         NEW x, \A p \in C \ D : Times(f[p], x) = 0
  PROVE  Total(f, C, x) = Total(f, D, x)
<1>1. ASSUME NEW p \in C \ D PROVE Occ(f[p], x) = {}
  <2>1. f[p] \in Seq(S) /\ Times(f[p], x) = 0
    BY DEF SeqsOn
  <2>2. \A i \in DOMAIN f[p] : f[p][i] # x
    BY <2>1, TimesType
  <2> QED BY <2>2 DEF Occ
<1>2. Spots(f, C, x) = Spots(f, D, x)
  BY <1>1, SpotsAre
<1> QED BY <1>2 DEF Total

(* The entries of pages, as a bag.                                         *)
BagOn(f, C) ==
  [e \in {f[at[1]][at[2]] : at \in PlacesOf(f, C)} |-> Total(f, C, e)]

LEMMA BagOnIs ==
  ASSUME NEW f, NEW C, IsFiniteSet(C), NEW S, SeqsOn(f, C, S), NEW x
  PROVE  /\ x \in DOMAIN BagOn(f, C) <=> Total(f, C, x) # 0
         /\ x \in DOMAIN BagOn(f, C) => BagOn(f, C)[x] = Total(f, C, x) /\ x \in S
<1>1. x \in DOMAIN BagOn(f, C) <=> Spots(f, C, x) # {}
  BY DEF BagOn, Spots
<1>2. Total(f, C, x) = 0 <=> Spots(f, C, x) = {}
  BY TotalType, FS_EmptySet DEF Total
<1>3. ASSUME x \in DOMAIN BagOn(f, C) PROVE x \in S
  <2>1. PICK p \in C : \E i \in DOMAIN f[p] : f[p][i] = x
    BY <1>3 DEF BagOn, PlacesOf
  <2>2. f[p] \in Seq(S)
    BY DEF SeqsOn
  <2> QED BY <2>1, <2>2
<1> QED BY <1>1, <1>2, <1>3 DEF BagOn

Copy(bag, x) == IF x \in DOMAIN bag THEN bag[x] ELSE 0
One(e, x) == IF x = e THEN 1 ELSE 0
PlusOne(bag, e) == [x \in DOMAIN bag \cup {e} |-> Copy(bag, x) + One(e, x)]
MinusOne(bag, e) == [x \in {d \in DOMAIN bag : bag[d] - One(e, d) > 0} |-> bag[x] - One(e, x)]

LEMMA BagOnCopies ==
  ASSUME NEW f, NEW C, IsFiniteSet(C), NEW S, SeqsOn(f, C, S), NEW x
  PROVE  Copy(BagOn(f, C), x) = Total(f, C, x) /\ Total(f, C, x) \in Nat
BY BagOnIs, TotalType DEF Copy

(* Bags with as many of everything are the same.                           *)
AsMany(f, C, g, D, S) == \A x \in S : Total(g, D, x) = Total(f, C, x)

LEMMA SameBag ==
  ASSUME NEW f, NEW C, IsFiniteSet(C), NEW g, NEW D, IsFiniteSet(D),
         NEW S, SeqsOn(f, C, S), SeqsOn(g, D, S),
         AsMany(f, C, g, D, S)
  PROVE  BagOn(g, D) = BagOn(f, C)
<1>1. PICK b, a : b = BagOn(f, C) /\ a = BagOn(g, D)
  OBVIOUS
<1>2. \A x : /\ x \in DOMAIN b <=> Total(f, C, x) # 0
             /\ x \in DOMAIN b => b[x] = Total(f, C, x) /\ x \in S
  BY <1>1, BagOnIs
<1>3. \A x : /\ x \in DOMAIN a <=> Total(g, D, x) # 0
             /\ x \in DOMAIN a => a[x] = Total(g, D, x) /\ x \in S
  BY <1>1, BagOnIs
<1>4. b = [x \in DOMAIN b |-> b[x]] /\ a = [x \in DOMAIN a |-> a[x]]
  BY <1>1 DEF BagOn
<1>5. \A x : x \in DOMAIN a <=> x \in DOMAIN b
  <2>1. \A x : x \in DOMAIN a \/ x \in DOMAIN b => x \in S
    BY <1>2, <1>3
  <2> QED BY <1>2, <1>3, <2>1 DEF AsMany
<1>6. \A x \in DOMAIN a : a[x] = b[x]
  BY <1>2, <1>3, <1>5 DEF AsMany
<1>7. DOMAIN a = DOMAIN b
  BY <1>5
<1> QED BY <1>1, <1>4, <1>6, <1>7

(* One e more on the pages of D than on those of C.                        *)
OneMore(f, C, g, D, S, e) == \A x \in S : Total(g, D, x) = Total(f, C, x) + One(e, x)

LEMMA BagPlusOne ==
  ASSUME NEW f, NEW C, IsFiniteSet(C), NEW g, NEW D, IsFiniteSet(D),
         NEW S, SeqsOn(f, C, S), SeqsOn(g, D, S), NEW e \in S,
         OneMore(f, C, g, D, S, e)
  PROVE  BagOn(g, D) = PlusOne(BagOn(f, C), e)
<1>1. PICK b, a : b = BagOn(f, C) /\ a = BagOn(g, D)
  OBVIOUS
<1>2. \A x : /\ x \in DOMAIN b <=> Total(f, C, x) # 0
             /\ x \in DOMAIN b => b[x] = Total(f, C, x) /\ x \in S
  BY <1>1, BagOnIs
<1>3. \A x : /\ x \in DOMAIN a <=> Total(g, D, x) # 0
             /\ x \in DOMAIN a => a[x] = Total(g, D, x) /\ x \in S
  BY <1>1, BagOnIs
<1>4. a = [x \in DOMAIN a |-> a[x]]
  BY <1>1 DEF BagOn
<1>5. ASSUME NEW x \in S
      PROVE  /\ x \in DOMAIN a <=> x \in DOMAIN b \cup {e}
             /\ Total(g, D, x) = Copy(b, x) + One(e, x)
  <2>1. Total(f, C, x) \in Nat
    BY TotalType
  <2>2. Total(g, D, x) = Total(f, C, x) + One(e, x)
    BY DEF OneMore
  <2>3. One(e, x) \in Nat /\ (One(e, x) # 0 <=> x = e)
    BY DEF One
  <2>4. Copy(b, x) = Total(f, C, x)
    BY <1>2 DEF Copy
  <2>5. Total(g, D, x) # 0 <=> Total(f, C, x) # 0 \/ x = e
    BY <2>1, <2>2, <2>3
  <2> QED BY <1>2, <1>3, <2>2, <2>4, <2>5
<1>6. DOMAIN a = DOMAIN b \cup {e}
  BY <1>2, <1>3, <1>5
<1>7. \A x \in DOMAIN a : a[x] = Copy(b, x) + One(e, x)
  BY <1>3, <1>5
<1> QED BY <1>1, <1>4, <1>6, <1>7 DEF PlusOne

LEMMA BagMinusOne ==
  ASSUME NEW f, NEW C, IsFiniteSet(C), NEW g, NEW D, IsFiniteSet(D),
         NEW S, SeqsOn(f, C, S), SeqsOn(g, D, S), NEW e \in S,
         OneMore(g, D, f, C, S, e)
  PROVE  e \in DOMAIN BagOn(f, C) /\ BagOn(g, D) = MinusOne(BagOn(f, C), e)
<1>1. PICK b, a : b = BagOn(f, C) /\ a = BagOn(g, D)
  OBVIOUS
<1>2. \A x : /\ x \in DOMAIN b <=> Total(f, C, x) # 0
             /\ x \in DOMAIN b => b[x] = Total(f, C, x) /\ x \in S
  BY <1>1, BagOnIs
<1>3. \A x : /\ x \in DOMAIN a <=> Total(g, D, x) # 0
             /\ x \in DOMAIN a => a[x] = Total(g, D, x) /\ x \in S
  BY <1>1, BagOnIs
<1>4. a = [x \in DOMAIN a |-> a[x]]
  BY <1>1 DEF BagOn
<1>5. ASSUME NEW x \in S
      PROVE  /\ x \in DOMAIN a <=> x \in DOMAIN b /\ b[x] - One(e, x) > 0
             /\ x \in DOMAIN a => a[x] = b[x] - One(e, x)
             /\ x = e => x \in DOMAIN b
  <2>1. Total(g, D, x) \in Nat
    BY TotalType
  <2>2. Total(f, C, x) = Total(g, D, x) + One(e, x)
    BY DEF OneMore
  <2>3. One(e, x) \in Nat /\ (x = e => One(e, x) = 1)
    BY DEF One
  <2>4. /\ x \in DOMAIN b <=> Total(f, C, x) # 0
        /\ x \in DOMAIN b => b[x] = Total(f, C, x)
    BY <1>2
  <2>5. /\ x \in DOMAIN a <=> Total(g, D, x) # 0
        /\ x \in DOMAIN a => a[x] = Total(g, D, x)
    BY <1>3
  <2>6. PICK m \in Nat, k \in Nat : m = Total(g, D, x) /\ k = One(e, x) /\ (x = e => k = 1)
    BY <2>1, <2>3
  <2>7. Total(f, C, x) = m + k
    BY <2>2, <2>6
  <2>8. CASE m = 0
    BY <2>4, <2>5, <2>6, <2>7, <2>8
  <2>9. CASE m # 0
    <3>1. m + k # 0 /\ (m + k) - k = m /\ m > 0
      BY <2>9
    <3> QED BY <2>4, <2>5, <2>6, <2>7, <2>9, <3>1
  <2> QED BY <2>8, <2>9
<1>6. e \in DOMAIN b
  BY <1>5
<1>7. DOMAIN a = {d \in DOMAIN b : b[d] - One(e, d) > 0}
  BY <1>2, <1>3, <1>5
<1>8. \A x \in DOMAIN a : a[x] = b[x] - One(e, x)
  BY <1>3, <1>5
<1> QED BY <1>1, <1>4, <1>6, <1>7, <1>8 DEF MinusOne

LEMMA ToBagIs ==
  ASSUME NEW S, NEW s \in Seq(S)
  PROVE  /\ ToBag(s) = [x \in DOMAIN ToBag(s) |-> Times(s, x)]
         /\ \A x : x \in DOMAIN ToBag(s) <=> Times(s, x) # 0
<1>1. ToBag(s) = [x \in DOMAIN ToBag(s) |-> Times(s, x)]
  BY DEF ToBag, Times, Occ
<1>2. ASSUME NEW x PROVE x \in DOMAIN ToBag(s) <=> Times(s, x) # 0
  <2>1. x \in DOMAIN ToBag(s) <=> \E i \in DOMAIN s : s[i] = x
    BY DEF ToBag, Range
  <2> QED BY <2>1, TimesType
<1> QED BY <1>1, <1>2

(* Pages put one behind the other.                                         *)
NoRepeats(c) == \A i, j \in DOMAIN c : c[i] = c[j] => i = j

LEMMA Flattened ==
  ASSUME NEW f, NEW C, NEW S, SeqsOn(f, C, S),
         NEW c \in Seq(C), Len(c) # 0, NoRepeats(c)
  PROVE  /\ FlattenSeq([i \in DOMAIN c |-> f[c[i]]]) \in Seq(S)
         /\ \A x : Times(FlattenSeq([i \in DOMAIN c |-> f[c[i]]]), x) = Total(f, ToSet(c), x)
<1>1. PICK last \in Nat : last = Len(c) /\ DOMAIN c = 1 .. last /\ last >= 1
  OBVIOUS
<1>2. PICK seqs : seqs = [i \in 1 .. last |-> f[c[i]]]
  OBVIOUS
<1>3. /\ seqs = [i \in DOMAIN c |-> f[c[i]]] /\ Len(seqs) = last
      /\ \A i \in 1 .. last : seqs[i] = f[c[i]] /\ c[i] \in C /\ seqs[i] \in Seq(S)
  BY <1>1, <1>2 DEF SeqsOn
<1> DEFINE flatten == CHOOSE g : g = [i \in 1 .. last |-> FlatStep(g, seqs, i)]
<1>4. flatten = [i \in 1 .. last |-> FlatStep(flatten, seqs, i)]
  BY FlatExists
<1>5. FlattenSeq(seqs) = flatten[last]
  <2>1. last # 0
    BY <1>1
  <2> QED BY <1>3, <2>1 DEF FlattenSeq, FlatStep
<1> HIDE DEF flatten
<1> DEFINE Part(k) == {c[i] : i \in 1 .. k}
           Right(k) == /\ flatten[k] \in Seq(S) /\ IsFiniteSet(Part(k))
                       /\ \A x : Times(flatten[k], x) = Total(f, Part(k), x)
           T == {n \in Nat : n + 1 \in 1 .. last => Right(n + 1)}
<1>6. 0 \in T
  <2>1. 1 \in 1 .. last /\ 0 + 1 = 1
    BY <1>1
  <2>2. flatten[1] = seqs[1] /\ seqs[1] = f[c[1]] /\ seqs[1] \in Seq(S)
    BY <1>3, <1>4, <2>1 DEF FlatStep
  <2>3. Part(1) = {c[1]}
    OBVIOUS
  <2>4. ASSUME NEW x PROVE Total(f, {c[1]}, x) = Times(seqs[1], x)
    <3>1. PICK p, s : p = c[1] /\ s = seqs[1] /\ s \in Seq(S) /\ Joins(f, p, s, {}, {p})
      BY <2>2 DEF Joins
    <3>2. Total(f, {p}, x) = Times(s, x)
      BY <3>1, TotalOnePage
    <3> QED BY <3>1, <3>2
  <2>5. Right(1)
    <3> HIDE DEF Part
    <3> QED BY <2>2, <2>3, <2>4, FS_Singleton
  <2> HIDE DEF Right
  <2> QED BY <2>1, <2>5
<1>7. ASSUME NEW n \in Nat, n \in T PROVE n + 1 \in T
  <2>1. PICK j \in Nat, k \in Nat : j = n + 1 /\ k = j + 1
    OBVIOUS
  <2>2. ASSUME k \in 1 .. last PROVE Right(k)
    <3>1. j \in 1 .. last /\ k # 1 /\ k - 1 = j
      BY <2>1, <2>2
    <3>2. Right(j)
      <4> HIDE DEF Right
      <4> QED BY <1>7, <2>1, <3>1
    <3>3. PICK s, r, P, Q : s = seqs[k] /\ r = flatten[j] /\ P = Part(j) /\ Q = Part(k)
      OBVIOUS
    <3>4. flatten[k] = r \o s
      BY <1>4, <2>2, <3>1, <3>3 DEF FlatStep
    <3>5. r \in Seq(S) /\ s \in Seq(S) /\ s = f[c[k]] /\ IsFiniteSet(P)
      BY <1>3, <2>2, <3>2, <3>3
    <3>6. Joins(f, c[k], s, P, Q)
      <4>1. c[k] \notin Part(j)
        <5>1. \A i \in 1 .. j : i \in 1 .. last /\ i # k
          BY <2>1, <3>1
        <5> QED BY <1>1, <2>2, <5>1 DEF NoRepeats
      <4>2. Part(k) = Part(j) \cup {c[k]}
        <5>1. 1 .. k = (1 .. j) \cup {k}
          BY <2>1
        <5> QED BY <5>1
      <4> QED BY <3>3, <3>5, <4>1, <4>2 DEF Joins
    <3>7. SeqsOn(f, P, S)
      <4>1. P \subseteq C
        <5>1. \A i \in 1 .. j : i \in 1 .. last
          BY <3>1
        <5> QED BY <1>3, <3>3, <5>1
      <4> QED BY <4>1 DEF SeqsOn
    <3>8. ASSUME NEW x PROVE Times(r \o s, x) = Total(f, Q, x)
      <4>1. Times(r \o s, x) = Times(r, x) + Times(s, x)
        BY <3>5, TimesConcat
      <4>2. Total(f, Q, x) = Total(f, P, x) + Times(s, x)
        BY ONLY <3>5, <3>6, <3>7, TotalOnePageMore
      <4>3. Times(r, x) = Total(f, P, x)
        BY <3>2, <3>3
      <4> QED BY <4>1, <4>2, <4>3
    <3>9. r \o s \in Seq(S)
      BY <3>5, ConcatType
    <3>10. IsFiniteSet(Q)
      BY <3>5, <3>6, FS_AddElement DEF Joins
    <3> HIDE DEF Part
    <3> QED BY <3>3, <3>4, <3>8, <3>9, <3>10
  <2> HIDE DEF Right
  <2> QED BY <2>1, <2>2
<1>8. Right(last)
  <2> HIDE DEF Right
  <2>1. Nat \subseteq T
    <3> HIDE DEF T
    <3> QED BY <1>6, <1>7, AllNumbers
  <2>2. PICK n \in Nat : n + 1 = last
    <3>1. last - 1 \in Nat /\ (last - 1) + 1 = last
      BY <1>1
    <3> QED BY <3>1
  <2>3. n \in T /\ n + 1 \in 1 .. last
    BY <1>1, <2>1, <2>2
  <2> QED BY <2>2, <2>3
<1>9. ToSet(c) = Part(last)
  BY <1>1 DEF ToSet
<1> QED BY <1>3, <1>5, <1>8, <1>9

(* From a number on up to another, and from it down.                       *)
LEMMA Upwards ==
  ASSUME NEW a \in Nat, NEW b \in Nat, NEW T, a <= b => a \in T,
         \A i \in Nat : a <= i /\ i < b /\ i \in T => i + 1 \in T
  PROVE  \A i \in Nat : a <= i /\ i <= b => i \in T
<1> DEFINE N == {n \in Nat : a + n <= b => a + n \in T}
<1>1. 0 \in N
  OBVIOUS
<1>2. ASSUME NEW n \in Nat, n \in N PROVE n + 1 \in N
  <2>1. PICK i \in Nat : i = a + n
    OBVIOUS
  <2>2. a + (n + 1) = i + 1
    BY <2>1
  <2>3. ASSUME i + 1 <= b PROVE i + 1 \in T
    <3>1. a <= i /\ i < b /\ i <= b
      BY <2>1, <2>3
    <3> QED BY <1>2, <2>1, <3>1
  <2> QED BY <2>2, <2>3
<1>3. Nat \subseteq N
  <2> HIDE DEF N
  <2> QED BY <1>1, <1>2, AllNumbers
<1>4. ASSUME NEW i \in Nat, a <= i, i <= b PROVE i \in T
  <2>1. i - a \in Nat /\ a + (i - a) = i
    BY <1>4
  <2> QED BY <1>3, <1>4, <2>1
<1> QED BY <1>4

LEMMA Downwards ==
  ASSUME NEW a \in Nat, NEW b \in Nat, NEW T, a <= b => b \in T,
         \A i \in Nat : a <= i /\ i < b /\ i + 1 \in T => i \in T
  PROVE  \A i \in Nat : a <= i /\ i <= b => i \in T
<1> DEFINE N == {n \in Nat : a + n <= b => b - n \in T}
<1>1. 0 \in N
  OBVIOUS
<1>2. ASSUME NEW n \in Nat, n \in N PROVE n + 1 \in N
  <2>1. ASSUME a + (n + 1) <= b PROVE b - (n + 1) \in T
    <3>1. PICK i : i = b - (n + 1)
      OBVIOUS
    <3>2. i \in Nat /\ a <= i /\ i < b /\ i + 1 = b - n /\ a + n <= b
      BY <2>1, <3>1
    <3>3. i + 1 \in T
      BY <1>2, <3>2
    <3> QED BY <3>1, <3>2, <3>3
  <2> QED BY <2>1
<1>3. Nat \subseteq N
  <2> HIDE DEF N
  <2> QED BY <1>1, <1>2, AllNumbers
<1>4. ASSUME NEW i \in Nat, a <= i, i <= b PROVE i \in T
  <2>1. b - i \in Nat /\ a + (b - i) <= b /\ b - (b - i) = i
    BY <1>4
  <2> QED BY <1>3, <2>1
<1> QED BY <1>4

-----------------------------------------------------------------------------
(* Elements put into sequences, and sequences in order.                    *)

LEMMA ShortSeq ==
  ASSUME NEW S, NEW a \in S, NEW b \in S
  PROVE  /\ <<a>> \in Seq(S) /\ Len(<<a>>) = 1
         /\ <<a, b>> \in Seq(S) /\ Len(<<a, b>>) = 2
OBVIOUS

LEMMA InsertAtType ==
  ASSUME NEW S, NEW s \in Seq(S), NEW i \in 1 .. Len(s) + 1, NEW e \in S
  PROVE  InsertAt(s, i, e) \in Seq(S) /\ Len(InsertAt(s, i, e)) = Len(s) + 1
<1> DEFINE before == SubSeq(s, 1, i - 1)
           after == SubSeq(s, i, Len(s))
<1>1. Len(s) \in Nat /\ i \in Nat /\ i - 1 \in Nat /\ 1 <= i /\ i <= Len(s) + 1
  OBVIOUS
<1>2. before \in Seq(S) /\ Len(before) = i - 1
  BY <1>1, SubSeqType
<1>3. after \in Seq(S) /\ Len(after) = Len(s) - i + 1
  BY <1>1, SubSeqType
<1>4. <<e>> \in Seq(S) /\ Len(<<e>>) = 1
  OBVIOUS
<1> HIDE DEF before, after
<1>5. before \o <<e>> \in Seq(S) /\ Len(before \o <<e>>) = i
  <2>1. /\ before \o <<e>> \in Seq(S)
        /\ Len(before \o <<e>>) = Len(before) + Len(<<e>>)
    BY <1>2, <1>4, ConcatType
  <2> QED BY <1>1, <1>2, <1>4, <2>1
<1>6. /\ (before \o <<e>>) \o after \in Seq(S)
      /\ Len((before \o <<e>>) \o after) = Len(s) + 1
  <2>1. /\ (before \o <<e>>) \o after \in Seq(S)
        /\ Len((before \o <<e>>) \o after) = Len(before \o <<e>>) + Len(after)
    BY <1>3, <1>5, ConcatType
  <2> QED BY <1>1, <1>3, <1>5, <2>1
<1> QED BY <1>6 DEF InsertAt, before, after

LEMMA SeqOfMore ==
  ASSUME NEW S, NEW T, S \subseteq T, NEW s \in Seq(S)
  PROVE  s \in Seq(T)
<1>1. s \in [1 .. Len(s) -> T] /\ Len(s) \in Nat
  OBVIOUS
<1> QED BY <1>1

LEMMA InsertAtElements ==
  ASSUME NEW S, NEW s \in Seq(S), NEW i \in 1 .. Len(s) + 1, NEW e \in S,
         NEW j \in 1 .. Len(s) + 1
  PROVE  InsertAt(s, i, e)[j] = IF j < i THEN s[j] ELSE IF j = i THEN e ELSE s[j - 1]
<1> DEFINE before == SubSeq(s, 1, i - 1)
           after == SubSeq(s, i, Len(s))
<1>1. Len(s) \in Nat /\ i \in Nat /\ i - 1 \in Nat /\ 1 <= i /\ i <= Len(s) + 1 /\ j \in Nat
      /\ 1 <= j /\ j <= Len(s) + 1
  OBVIOUS
<1>2. before \in Seq(S) /\ Len(before) = i - 1
  BY <1>1, SubSeqType
<1>3. after \in Seq(S) /\ Len(after) = Len(s) - i + 1
  BY <1>1, SubSeqType
<1>4. <<e>> \in Seq(S) /\ Len(<<e>>) = 1 /\ <<e>>[1] = e
  OBVIOUS
<1>5. ASSUME NEW k \in 1 .. i - 1 PROVE before[k] = s[k]
  <2>1. k \in 1 .. (i - 1) - 1 + 1 /\ 1 + k - 1 = k
    BY <1>1
  <2> QED BY <1>1, <2>1, SubSeqElements
<1>6. ASSUME NEW k \in 1 .. Len(s) - i + 1 PROVE after[k] = s[i + k - 1]
  BY <1>1, SubSeqElements
<1> HIDE DEF before, after
<1>7. before \o <<e>> \in Seq(S) /\ Len(before \o <<e>>) = i
  <2>1. /\ before \o <<e>> \in Seq(S)
        /\ Len(before \o <<e>>) = Len(before) + Len(<<e>>)
    BY <1>2, <1>4, ConcatType
  <2> QED BY <1>1, <1>2, <1>4, <2>1
<1>8. ((before \o <<e>>) \o after)[j]
        = IF j <= i THEN (before \o <<e>>)[j] ELSE after[j - i]
  <2>1. j \in 1 .. Len(before \o <<e>>) + Len(after)
    BY <1>1, <1>3, <1>7
  <2> QED BY <1>3, <1>7, <2>1, ConcatElements
<1>9. ASSUME j <= i
      PROVE  (before \o <<e>>)[j] = IF j <= i - 1 THEN before[j] ELSE <<e>>[j - (i - 1)]
  <2>1. j \in 1 .. Len(before) + Len(<<e>>)
    BY <1>1, <1>2, <1>4, <1>9
  <2> QED BY <1>2, <1>4, <2>1, ConcatElements
<1>10. InsertAt(s, i, e) = (before \o <<e>>) \o after
  BY DEF InsertAt, before, after
<1>11. CASE j < i
  <2>1. j \in 1 .. i - 1 /\ j <= i /\ j <= i - 1
    BY <1>1, <1>11
  <2> QED BY <1>5, <1>8, <1>9, <1>10, <1>11, <2>1
<1>12. CASE j = i
  <2>1. ~(j <= i - 1) /\ j - (i - 1) = 1 /\ j <= i /\ ~(j < i)
    BY <1>1, <1>12
  <2> QED BY <1>4, <1>8, <1>9, <1>10, <1>12, <2>1
<1>13. CASE j > i
  <2>1. ~(j <= i) /\ j - i \in 1 .. Len(s) - i + 1 /\ i + (j - i) - 1 = j - 1
        /\ ~(j < i) /\ j # i
    BY <1>1, <1>13
  <2> QED BY <1>6, <1>8, <1>10, <2>1
<1> QED BY <1>1, <1>11, <1>12, <1>13

Sorted(keys) == \A i, j \in 1 .. Len(keys) : i < j => keys[i] <= keys[j]

(* A set of numbers from 1 on without gaps.                                *)
LEMMA FromOne ==
  ASSUME NEW n \in Nat, NEW T \in SUBSET (1 .. n),
         \A i \in T : \A j \in 1 .. n : j <= i => j \in T
  PROVE  \A i \in 1 .. n : i \in T <=> i <= Cardinality(T)
<1> DEFINE Out == {i \in 1 .. n + 1 : i \notin T}
<1>1. n + 1 \in Out
  OBVIOUS
<1>2. PICK m \in Out : \A i \in Out : m <= i
  <2>1. Out \in SUBSET Nat
    OBVIOUS
  <2> HIDE DEF Out
  <2> QED BY <1>1, <2>1, LeastNumber
<1>3. \A i \in 1 .. n : i \in T <=> i <= m - 1
  <2>1. m \in 1 .. n + 1 /\ m \notin T
    OBVIOUS
  <2>2. ASSUME NEW i \in 1 .. n, i <= m - 1 PROVE i \in T
    <3>1. i \in 1 .. n + 1 /\ ~(m <= i)
      BY <2>1, <2>2
    <3> QED BY <1>2, <3>1
  <2>3. ASSUME NEW i \in 1 .. n, i \in T PROVE i <= m - 1
    <3>1. m <= i => m \in 1 .. n /\ m \in T
      BY <2>1, <2>3
    <3> QED BY <2>1, <3>1
  <2> QED BY <2>2, <2>3
<1>4. T = 1 .. m - 1 /\ m - 1 \in Nat
  <2>1. m \in 1 .. n + 1
    OBVIOUS
  <2>2. \A i \in T : i \in 1 .. n
    OBVIOUS
  <2>3. \A i \in 1 .. m - 1 : i \in 1 .. n /\ i <= m - 1
    BY <2>1
  <2> HIDE DEF Out
  <2>4. ASSUME NEW i \in T PROVE i \in 1 .. m - 1
    <3>1. i \in 1 .. n /\ i <= m - 1
      BY <1>3, <2>2
    <3> QED BY ONLY <2>1, <3>1, n \in Nat
  <2>5. ASSUME NEW i \in 1 .. m - 1 PROVE i \in T
    BY <1>3, <2>3
  <2>6. m - 1 \in Nat
    BY <2>1
  <2> QED BY ONLY <2>4, <2>5, <2>6
<1>5. Cardinality(1 .. m - 1) = IF 1 > m - 1 THEN 0 ELSE (m - 1) - 1 + 1
  BY <1>4, FS_Interval
<1>6. Cardinality(T) = m - 1
  BY <1>4, <1>5
<1> QED BY <1>3, <1>6

LEMMA SameSequence ==
  ASSUME NEW S, NEW s \in Seq(S), NEW t \in Seq(S), Len(s) = Len(t),
         \A i \in 1 .. Len(s) : s[i] = t[i]
  PROVE  s = t
OBVIOUS

(* Entries in key order, and entries whose keys are not below those that   *)
(* are routed to p.                                                        *)
ByKey(t) == \A i, j \in DOMAIN t : i < j => t[i][1] <= t[j][1]

-----------------------------------------------------------------------------
(* Every page is the child of one page, once, except those at the top.     *)

Kids(node) ==
  IF node.is_leaf THEN {} ELSE {node.children[i] : i \in 1 .. Len(node.keys) + 1}

Distinct(node) ==
  ~node.is_leaf => \A i, j \in 1 .. Len(node.keys) + 1 :
                     node.children[i] = node.children[j] => i = j

Once(file, tops) ==
  /\ \A p \in DOMAIN file : Distinct(file[p])
  /\ \A p, q \in DOMAIN file : p # q => Kids(file[p]) \cap Kids(file[q]) = {}
  /\ \A q \in DOMAIN file : q \notin tops <=> \E p \in DOMAIN file : q \in Kids(file[p])

(* A page gets more children, of those at the top.                         *)
LEMMA OnceReplaced ==
  ASSUME NEW file, NEW tops, Once(file, tops), NEW p \in DOMAIN file,
         NEW node, Distinct(node), NEW more, more \subseteq tops, more \subseteq DOMAIN file,
         \A x : x \in Kids(node) <=> x \in Kids(file[p]) \/ x \in more,
         NEW new, new = [file EXCEPT ![p] = node],
         NEW top, \A x : x \in top <=> x \in tops /\ x \notin more
  PROVE  Once(new, top)
<1>1. /\ DOMAIN new = DOMAIN file
      /\ \A q \in DOMAIN file : new[q] = IF q = p THEN node ELSE file[q]
  OBVIOUS
<1>2. \A q \in DOMAIN file : \A x :
        x \in Kids(new[q]) <=> x \in Kids(file[q]) \/ (q = p /\ x \in more)
  BY <1>1
<1>3. \A q \in DOMAIN file : \A x \in more : x \notin Kids(file[q])
  BY DEF Once
<1>4. \A q \in DOMAIN new : Distinct(new[q])
  BY <1>1 DEF Once
<1>5. ASSUME NEW q \in DOMAIN file, NEW r \in DOMAIN file, q # r, NEW x,
             x \in Kids(new[q]), x \in Kids(new[r])
      PROVE  FALSE
  <2>1. ~(x \in Kids(file[q]) /\ x \in Kids(file[r]))
    BY <1>5 DEF Once
  <2> QED BY <1>2, <1>3, <1>5, <2>1
<1>6. ASSUME NEW x \in DOMAIN file
      PROVE  x \notin top <=> \E q \in DOMAIN file : x \in Kids(new[q])
  <2>1. x \notin tops <=> \E q \in DOMAIN file : x \in Kids(file[q])
    BY DEF Once
  <2>2. (\E q \in DOMAIN file : x \in Kids(new[q]))
          <=> x \in more \/ \E q \in DOMAIN file : x \in Kids(file[q])
    BY <1>2
  <2> QED BY <2>1, <2>2
<1>7. Once(new, top)
  BY <1>1, <1>4, <1>5, <1>6 DEF Once
<1> QED BY <1>7

(* Page p is split into two, of which the second is the new page n.        *)
Halved(new, file, p, n, left, node, more) ==
  /\ \A q : q \in DOMAIN new <=> q \in DOMAIN file \/ q = n
  /\ \A q \in DOMAIN new : new[q] = IF q = n THEN node ELSE IF q = p THEN left ELSE file[q]
  /\ Distinct(left) /\ Distinct(node)
  /\ \A x : ~(x \in Kids(left) /\ x \in Kids(node))
  /\ \A x : x \in Kids(left) \/ x \in Kids(node) <=> x \in Kids(file[p]) \/ x \in more

LEMMA OnceSplit ==
  ASSUME NEW file, NEW tops, Once(file, tops), NEW p \in DOMAIN file,
         \A q \in DOMAIN file : Kids(file[q]) \subseteq DOMAIN file,
         NEW n, n \notin DOMAIN file, NEW more, more \subseteq tops, more \subseteq DOMAIN file,
         NEW left, NEW node, NEW new, Halved(new, file, p, n, left, node, more),
         NEW top, \A x : x \in top <=> (x \in tops /\ x \notin more) \/ x = n
  PROVE  Once(new, top)
<1> USE DEF Halved
<1>1. /\ DOMAIN new = DOMAIN file \cup {n}
      /\ \A q \in DOMAIN file \cup {n} :
           new[q] = IF q = n THEN node ELSE IF q = p THEN left ELSE file[q]
  OBVIOUS
<1>2. \A q \in DOMAIN file \cup {n} :
        Kids(new[q]) = IF q = n THEN Kids(node) ELSE IF q = p THEN Kids(left) ELSE Kids(file[q])
  BY <1>1
<1>3. /\ \A q \in DOMAIN file : \A x \in more : x \notin Kids(file[q])
      /\ \A x \in Kids(left) : (x \in Kids(file[p]) \/ x \in more) /\ x \notin Kids(node)
      /\ \A x \in Kids(node) : (x \in Kids(file[p]) \/ x \in more) /\ x \notin Kids(left)
      /\ \A x : x \in Kids(file[p]) \/ x \in more => x \in Kids(left) \/ x \in Kids(node)
  BY DEF Once
<1>4. \A q \in DOMAIN new : Distinct(new[q])
  BY <1>1 DEF Once
<1>5. ASSUME NEW q \in DOMAIN file \cup {n}, NEW r \in DOMAIN file \cup {n}, q # r, NEW x,
             x \in Kids(new[q]), x \in Kids(new[r])
      PROVE  FALSE
  <2>1. \A a, b \in DOMAIN file : a # b => ~(x \in Kids(file[a]) /\ x \in Kids(file[b]))
    BY DEF Once
  <2> QED BY <1>2, <1>3, <1>5, <2>1
<1>6. ASSUME NEW x \in DOMAIN file
      PROVE  x \notin top
               <=> \E q \in DOMAIN file \cup {n} : x \in Kids(new[q])
  <2>1. x \notin tops <=> \E q \in DOMAIN file : x \in Kids(file[q])
    BY DEF Once
  <2>2. (\E q \in DOMAIN file \cup {n} : x \in Kids(new[q]))
          <=> x \in more \/ \E q \in DOMAIN file : x \in Kids(file[q])
    <3>1. ASSUME NEW q \in DOMAIN file \cup {n}, x \in Kids(new[q])
          PROVE  x \in more \/ \E a \in DOMAIN file : x \in Kids(file[a])
      BY <1>2, <1>3, <3>1
    <3>2. ASSUME NEW a \in DOMAIN file, x \in Kids(file[a])
          PROVE  \E q \in DOMAIN file \cup {n} : x \in Kids(new[q])
      <4>1. CASE a = p
        <5>1. x \in Kids(new[p]) \/ x \in Kids(new[n])
          BY <1>2, <1>3, <3>2, <4>1
        <5> QED BY <5>1
      <4>2. CASE a # p
        <5>1. x \in Kids(new[a])
          BY <1>2, <3>2, <4>2
        <5> QED BY <5>1
      <4> QED BY <4>1, <4>2
    <3>3. ASSUME x \in more PROVE \E q \in DOMAIN file \cup {n} : x \in Kids(new[q])
      <4>1. x \in Kids(new[p]) \/ x \in Kids(new[n])
        BY <1>2, <1>3, <3>3
      <4> QED BY <4>1
    <3> QED BY <3>1, <3>2, <3>3
  <2>3. x # n
    OBVIOUS
  <2> QED BY <2>1, <2>2, <2>3
<1>7. ASSUME NEW q \in DOMAIN file \cup {n} PROVE n \notin Kids(new[q])
  BY <1>2, <1>3
<1>8. Once(new, top)
  <2>1. \A x \in DOMAIN new : x \notin top
                               <=> \E q \in DOMAIN new : x \in Kids(new[q])
    BY <1>1, <1>6, <1>7
  <2>2. \A q, r \in DOMAIN new : q # r => Kids(new[q]) \cap Kids(new[r]) = {}
    BY <1>1, <1>5
  <2> QED BY <1>4, <2>1, <2>2 DEF Once
<1> QED BY <1>8
=============================================================================
