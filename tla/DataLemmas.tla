----------------------------- MODULE DataLemmas -----------------------------
(***************************************************************************)
(* What the proofs use of the data that the models are built from: finite  *)
(* sets, with smallest ones, orders of them and sums over them, and ranges *)
(* of sequences and increasing sequences.                                  *)
(***************************************************************************)
EXTENDS Integers, Sequences, Functions, Sums, FiniteSetTheorems, SequenceTheorems, TLAPS

-----------------------------------------------------------------------------
(* Smallest ones.  These stand in for proofs by induction.                 *)

(* Of any natural numbers one is least.                                    *)
LEMMA LeastNat ==
    ASSUME NEW S \in SUBSET Nat, S # {}
    PROVE  \E m \in S : \A n \in S : m <= n
<1>1. PICK m \in S : \A n \in S : ~(<<n, m>> \in OpToRel(<, Nat))
    BY NatLessThanWellFounded, WFMin, Zenon
<1>2. ASSUME NEW n \in S PROVE m <= n
    <2>1. ~(n < m)
        BY <1>1, Zenon DEF OpToRel
    <2>2. m \in Nat /\ n \in Nat
        OBVIOUS
    <2> QED BY <2>1, <2>2
<1> QED BY <1>2

(* Of the sets that are bad one is smallest: it is not bad without any one *)
(* of its members.                                                         *)
LEMMA SmallestSet ==
    ASSUME NEW S, IsFiniteSet(S), NEW bad \in SUBSET (SUBSET S), bad # {}
    PROVE  \E T \in bad : \A x \in T : T \ {x} \notin bad
<1> DEFINE sizes == {Cardinality(T) : T \in bad}
<1>1. \A T \in SUBSET S : IsFiniteSet(T) /\ Cardinality(T) \in Nat
    BY FS_Subset, FS_CardinalityType
<1>2. sizes \in SUBSET Nat /\ sizes # {}
    BY <1>1
<1>3. \E m \in sizes : \A n \in sizes : m <= n
    <2> HIDE DEF sizes
    <2> QED BY <1>2, LeastNat
<1>4. PICK T \in bad : \A U \in bad : Cardinality(T) <= Cardinality(U)
    BY <1>3
<1>5. ASSUME NEW x \in T, T \ {x} \in bad PROVE FALSE
    <2>1. IsFiniteSet(T) /\ Cardinality(T) \in Nat
        BY <1>1
    <2>2. Cardinality(T \ {x}) = Cardinality(T) - 1
        BY <2>1, FS_RemoveElement
    <2> QED BY <1>4, <1>5, <2>1, <2>2
<1> QED BY <1>5

-----------------------------------------------------------------------------
(* Orders of finite sets: b[r] is what comes before r. *)

Precedes(b, S) ==
    /\ b \in [S -> SUBSET S]
    /\ \A r \in S : r \notin b[r] /\ \A s \in b[r] : b[s] \subseteq b[r]

(* What comes before another has fewer before it.                          *)
LEMMA Ranks ==
    ASSUME NEW S, IsFiniteSet(S), NEW b, Precedes(b, S), NEW r \in S
    PROVE  /\ IsFiniteSet(b[r]) /\ Cardinality(b[r]) \in Nat
           /\ \A s \in b[r] : Cardinality(b[s]) < Cardinality(b[r])
<1>1. IsFiniteSet(b[r]) /\ Cardinality(b[r]) \in Nat
    BY FS_Subset, FS_CardinalityType DEF Precedes
<1>2. ASSUME NEW s \in b[r] PROVE Cardinality(b[s]) < Cardinality(b[r])
    <2>1. b[s] \in SUBSET b[r] /\ b[s] # b[r]
        BY <1>2 DEF Precedes
    <2>2. /\ Cardinality(b[s]) <= Cardinality(b[r])
          /\ Cardinality(b[r]) = Cardinality(b[s]) => b[r] = b[s]
        BY <1>1, <2>1, FS_Subset
    <2>3. Cardinality(b[s]) \in Nat
        BY <1>1, <2>1, FS_Subset, FS_CardinalityType
    <2> QED BY <1>1, <2>1, <2>2, <2>3
<1> QED BY <1>1, <1>2

(* Of what is missing in K one comes first: all before it is in K.         *)
LEMMA FirstMissing ==
    ASSUME NEW S, IsFiniteSet(S), NEW b, Precedes(b, S), NEW K \in SUBSET S, K # S
    PROVE  \E r \in S \ K : b[r] \subseteq K
<1> DEFINE ranks == {Cardinality(b[r]) : r \in S \ K}
<1>1. ranks \in SUBSET Nat /\ ranks # {}
    BY Ranks
<1>2. \E m \in ranks : \A n \in ranks : m <= n
    <2> HIDE DEF ranks
    <2> QED BY <1>1, LeastNat
<1>3. PICK r \in S \ K : \A s \in S \ K : Cardinality(b[r]) <= Cardinality(b[s])
    BY <1>2
<1>4. ASSUME NEW s \in b[r], s \notin K PROVE FALSE
    <2>1. s \in S
        BY DEF Precedes
    <2>2. Cardinality(b[s]) < Cardinality(b[r])
        BY Ranks
    <2>3. Cardinality(b[s]) \in Nat /\ Cardinality(b[r]) \in Nat
        BY <2>1, Ranks
    <2> QED BY <1>3, <1>4, <2>1, <2>2, <2>3
<1> QED BY <1>4

(* At most k elements have less than k before them.                        *)
LEMMA FewBefore ==
    ASSUME NEW S, IsFiniteSet(S), NEW b, Precedes(b, S), NEW k \in Nat,
           \A r, s \in S : r # s => r \in b[s] \/ s \in b[r]
    PROVE  /\ IsFiniteSet({r \in S : Cardinality(b[r]) < k})
           /\ Cardinality({r \in S : Cardinality(b[r]) < k}) <= k
<1> DEFINE K == {r \in S : Cardinality(b[r]) < k}
           rank == [r \in K |-> Cardinality(b[r])]
<1>1. \A r \in K : rank[r] \in 0 .. k - 1
    BY Ranks
<1>2. ASSUME NEW r \in K, NEW s \in K, rank[r] = rank[s] PROVE r = s
    <2>1. Cardinality(b[r]) = Cardinality(b[s]) /\ r \in S /\ s \in S
        BY <1>2
    <2>2. /\ r \in b[s] => Cardinality(b[r]) < Cardinality(b[s])
          /\ s \in b[r] => Cardinality(b[s]) < Cardinality(b[r])
          /\ Cardinality(b[r]) \in Nat
        BY <2>1, Ranks
    <2> QED BY <2>1, <2>2
<1>3. rank \in Injection(K, 0 .. k - 1)
    <2>1. rank \in [K -> 0 .. k - 1]
        BY <1>1
    <2> QED BY <2>1, <1>2 DEF Injection, IsInjective
<1>4. IsFiniteSet(0 .. k - 1) /\ Cardinality(0 .. k - 1) = k
    BY FS_Interval
<1>5. IsFiniteSet(K) /\ Cardinality(K) <= Cardinality(0 .. k - 1)
    <2> HIDE DEF K, rank
    <2> QED BY <1>3, <1>4, FS_Injection
<1> QED BY <1>4, <1>5

(* What comes first has at least k elements, or is everything.             *)
LEMMA PrefixCount ==
    ASSUME NEW S, IsFiniteSet(S), NEW b, Precedes(b, S), NEW k \in Int,
           NEW K, K = {r \in S : Cardinality(b[r]) < k}
    PROVE  IsFiniteSet(K) /\ (K = S \/ Cardinality(K) >= k)
<1>1. IsFiniteSet(K) /\ Cardinality(K) \in Nat
    BY FS_Subset, FS_CardinalityType
<1>2. ASSUME K # S PROVE Cardinality(K) >= k
    <2>1. PICK r \in S \ K : b[r] \subseteq K
        BY <1>2, FirstMissing
    <2>2. Cardinality(b[r]) <= Cardinality(K)
        BY <1>1, <2>1, FS_Subset
    <2>3. Cardinality(b[r]) >= k /\ Cardinality(b[r]) \in Nat
        BY <2>1, Ranks
    <2> QED BY <1>1, <2>2, <2>3
<1> QED BY <1>1, <1>2

-----------------------------------------------------------------------------
(* Sums. *)

(* A sum of natural numbers has finitely many units.                       *)
LEMMA UnitsFinite ==
    ASSUME NEW size, NEW xs, IsFiniteSet(xs), \A x \in xs : size[x] \in Nat
    PROVE  IsFiniteSet(Units(size, xs))
<1> DEFINE block == [x \in xs |-> {x} \X (1 .. size[x])]
           blocks == {{x} \X (1 .. size[x]) : x \in xs}
<1>1. block \in Surjection(xs, blocks)
    BY DEF Surjection
<1>2. IsFiniteSet(blocks)
    <2> HIDE DEF block, blocks
    <2> QED BY <1>1, FS_Surjection
<1>3. ASSUME NEW T \in blocks
      PROVE  IsFiniteSet(T)
    <2>1. PICK x \in xs : T = {x} \X (1 .. size[x])
        OBVIOUS
    <2>2. IsFiniteSet(1 .. size[x])
        BY FS_Interval
    <2>3. IsFiniteSet({x})
        BY FS_Singleton
    <2> QED BY <2>1, <2>2, <2>3, FS_Product
<1>4. IsFiniteSet(UNION blocks)
    <2> HIDE DEF blocks
    <2> QED BY <1>2, <1>3, FS_UNION
<1> QED BY <1>4 DEF Units

(* The sum of natural numbers is a natural number.                         *)
LEMMA SumIsNat ==
    ASSUME NEW size, NEW xs, IsFiniteSet(xs), \A x \in xs : size[x] \in Nat
    PROVE  Sum(size, xs) \in Nat
BY UnitsFinite, FS_CardinalityType DEF Sum

(* A sum looks only at what it adds up.                                    *)
LEMMA SumSame ==
    ASSUME NEW f, NEW g, NEW xs, \A x \in xs : f[x] = g[x]
    PROVE  Sum(f, xs) = Sum(g, xs)
<1>1. Units(f, xs) = Units(g, xs)
    BY DEF Units
<1> QED BY <1>1 DEF Sum

(* Nothing adds up to zero.                                                *)
LEMMA SumOfNothing ==
    ASSUME NEW size
    PROVE  Sum(size, {}) = 0
<1>1. Units(size, {}) = {}
    BY DEF Units
<1> QED BY <1>1, FS_EmptySet DEF Sum

(* Fewer terms make no larger sum.                                         *)
LEMMA SumMonotone ==
    ASSUME NEW size, NEW xs, NEW ys \in SUBSET xs, IsFiniteSet(xs),
           \A x \in xs : size[x] \in Nat
    PROVE  Sum(size, ys) <= Sum(size, xs)
<1>1. Units(size, ys) \in SUBSET Units(size, xs)
    BY DEF Units
<1> QED BY <1>1, UnitsFinite, FS_Subset DEF Sum

(* A new term adds its size.                                               *)
LEMMA SumAdd ==
    ASSUME NEW size, NEW xs, IsFiniteSet(xs), \A y \in xs : size[y] \in Nat,
           NEW x, x \notin xs, size[x] \in Nat
    PROVE  Sum(size, xs \cup {x}) = Sum(size, xs) + size[x]
<1> DEFINE new == {x} \X (1 .. size[x])
<1>1. IsFiniteSet({x}) /\ Cardinality({x}) = 1
    BY FS_Singleton
<1>2. IsFiniteSet(1 .. size[x]) /\ Cardinality(1 .. size[x]) = size[x]
    <2> DEFINE k == size[x]
    <2>1. 1 \in Int /\ k \in Int /\ k \in Nat
        OBVIOUS
    <2> HIDE DEF k
    <2>2. IsFiniteSet(1 .. k) /\ Cardinality(1 .. k) = IF 1 > k THEN 0 ELSE k - 1 + 1
        BY <2>1, FS_Interval
    <2>3. Cardinality(1 .. k) = k
        BY <2>1, <2>2
    <2> QED BY <2>2, <2>3 DEF k
<1>3. IsFiniteSet(new) /\ Cardinality(new) = size[x]
    <2>1. /\ IsFiniteSet(new)
          /\ Cardinality(new) = Cardinality({x}) * Cardinality(1 .. size[x])
        BY <1>1, <1>2, FS_Product
    <2>2. 1 * size[x] = size[x]
        OBVIOUS
    <2> QED BY <2>1, <2>2, <1>1, <1>2
<1>4. Units(size, xs \cup {x}) = Units(size, xs) \cup new
    BY DEF Units
<1>5. Units(size, xs) \cap new = {}
    BY DEF Units
<1>6. IsFiniteSet(Units(size, xs)) /\ Cardinality(Units(size, xs)) \in Nat
    BY UnitsFinite, FS_CardinalityType
<1>7. Cardinality(Units(size, xs) \cup new)
        = Cardinality(Units(size, xs)) + Cardinality(new)
            - Cardinality(Units(size, xs) \cap new)
    <2> HIDE DEF new
    <2> QED BY <1>3, <1>6, FS_Union
<1>8. Cardinality({}) = 0
    BY FS_EmptySet
<1>9. Cardinality(Units(size, xs \cup {x})) = Cardinality(Units(size, xs)) + size[x]
    <2> HIDE DEF new
    <2>1. Cardinality(Units(size, xs \cup {x})) = Cardinality(Units(size, xs) \cup new)
        BY <1>4
    <2>2. Cardinality(Units(size, xs) \cap new) = 0
        BY <1>5, <1>8
    <2>3. Cardinality(new) = size[x]
        BY <1>3
    <2> QED BY <2>1, <2>2, <2>3, <1>6, <1>7
<1> QED BY <1>9 DEF Sum

(* The sum over two disjoint sets.                                         *)
LEMMA SumDisjoint ==
    ASSUME NEW size, NEW xs, NEW ys, IsFiniteSet(xs), IsFiniteSet(ys), xs \cap ys = {},
           \A x \in xs \cup ys : size[x] \in Nat
    PROVE  Sum(size, xs \cup ys) = Sum(size, xs) + Sum(size, ys)
<1>1. Units(size, xs \cup ys) = Units(size, xs) \cup Units(size, ys)
    BY DEF Units
<1>2. Units(size, xs) \cap Units(size, ys) = {}
    BY DEF Units
<1>3. IsFiniteSet(Units(size, xs)) /\ IsFiniteSet(Units(size, ys))
    BY UnitsFinite
<1>4. Cardinality(Units(size, xs)) \in Nat /\ Cardinality(Units(size, ys)) \in Nat
    BY <1>3, FS_CardinalityType
<1>5. Cardinality(Units(size, xs) \cup Units(size, ys))
        = Cardinality(Units(size, xs)) + Cardinality(Units(size, ys)) - Cardinality({})
    BY <1>2, <1>3, FS_Union
<1>6. Cardinality(Units(size, xs) \cup Units(size, ys))
        = Cardinality(Units(size, xs)) + Cardinality(Units(size, ys))
    BY <1>4, <1>5, FS_EmptySet
<1> QED BY <1>1, <1>6 DEF Sum

(* Terms of at least q add up to at least q each.                          *)
LEMMA SumAtLeast ==
    ASSUME NEW size, NEW xs, IsFiniteSet(xs), NEW q \in Nat,
           \A x \in xs : size[x] \in Nat /\ size[x] >= q
    PROVE  Sum(size, xs) >= Cardinality(xs) * q
<1>1. IsFiniteSet(1 .. q) /\ Cardinality(1 .. q) = q
    BY FS_Interval
<1>2. Cardinality(xs \X (1 .. q)) = Cardinality(xs) * Cardinality(1 .. q)
    BY <1>1, FS_Product
<1>3. xs \X (1 .. q) \in SUBSET Units(size, xs)
    BY DEF Units
<1>4. Cardinality(xs \X (1 .. q)) <= Cardinality(Units(size, xs))
    BY <1>3, UnitsFinite, FS_Subset
<1> QED BY <1>1, <1>2, <1>4 DEF Sum

(* Terms of one are counted.                                               *)
LEMMA SumOfOnes ==
    ASSUME NEW size, NEW xs, IsFiniteSet(xs), \A x \in xs : size[x] = 1
    PROVE  Sum(size, xs) = Cardinality(xs)
<1>1. PICK one \in Nat : one = 1
    OBVIOUS
<1>2. IsFiniteSet(1 .. one) /\ Cardinality(1 .. one) = one
    <2>1. \A q \in Nat : IsFiniteSet(1 .. q) /\ Cardinality(1 .. q) = q
        BY FS_Interval
    <2> QED BY <2>1
<1>3. Cardinality(xs \X (1 .. one)) = Cardinality(xs) * one /\ Cardinality(xs) \in Nat
    BY <1>2, FS_Product, FS_CardinalityType
<1>4. xs \X (1 .. one) = Units(size, xs)
    BY <1>1 DEF Units
<1>5. Cardinality(xs) * one = Cardinality(xs)
    BY <1>1, <1>3
<1> QED BY <1>3, <1>4, <1>5 DEF Sum

-----------------------------------------------------------------------------
(* Sequences. *)

LEMMA RangeOfEmpty == Range(<<>>) = {}
  BY DEF Range

LEMMA RangeOfOne == ASSUME NEW x PROVE Range(<<x>>) = {x}
  BY DEF Range

LEMMA RangeInSet ==
    ASSUME NEW S, NEW s \in Seq(S) PROVE Range(s) \subseteq S
  BY LenProperties, ElementOfSeq DEF Range

LEMMA RangeOfAppend ==
    ASSUME NEW S, NEW s \in Seq(S), NEW x \in S
    PROVE  Range(Append(s, x)) = Range(s) \cup {x}
<1>1. /\ DOMAIN Append(s, x) = 1 .. Len(s) + 1 /\ DOMAIN s = 1 .. Len(s) /\ Len(s) \in Nat
      /\ \A i \in 1 .. Len(s) : Append(s, x)[i] = s[i]
      /\ Append(s, x)[Len(s) + 1] = x
  OBVIOUS
<1>2. QED
  BY <1>1 DEF Range

LEMMA RangeOfConcat ==
    ASSUME NEW S, NEW s \in Seq(S), NEW t \in Seq(S)
    PROVE  Range(s \o t) = Range(s) \cup Range(t)
<1>1. /\ DOMAIN (s \o t) = 1 .. Len(s) + Len(t)
      /\ DOMAIN s = 1 .. Len(s) /\ DOMAIN t = 1 .. Len(t)
      /\ Len(s) \in Nat /\ Len(t) \in Nat
      /\ \A i \in 1 .. Len(s) : (s \o t)[i] = s[i]
      /\ \A i \in 1 .. Len(t) : (s \o t)[Len(s) + i] = t[i]
  OBVIOUS
<1>2. Range(s \o t) \subseteq Range(s) \cup Range(t)
  <2> SUFFICES ASSUME NEW i \in 1 .. Len(s) + Len(t)
               PROVE  (s \o t)[i] \in Range(s) \cup Range(t)
    BY <1>1 DEF Range
  <2>1. CASE i <= Len(s)
    BY <1>1, <2>1 DEF Range
  <2>2. CASE i > Len(s)
    <3>1. i - Len(s) \in 1 .. Len(t) /\ i = Len(s) + (i - Len(s))
      BY <1>1, <2>2
    <3>2. QED
      BY <1>1, <3>1 DEF Range
  <2>3. QED
    BY <1>1, <2>1, <2>2
<1>3. Range(s) \subseteq Range(s \o t)
  <2> SUFFICES ASSUME NEW i \in 1 .. Len(s) PROVE s[i] \in Range(s \o t)
    BY <1>1 DEF Range
  <2>1. i \in 1 .. Len(s) + Len(t) /\ (s \o t)[i] = s[i]
    BY <1>1
  <2>2. QED
    BY <1>1, <2>1 DEF Range
<1>4. Range(t) \subseteq Range(s \o t)
  <2> SUFFICES ASSUME NEW i \in 1 .. Len(t) PROVE t[i] \in Range(s \o t)
    BY <1>1 DEF Range
  <2>1. Len(s) + i \in 1 .. Len(s) + Len(t) /\ (s \o t)[Len(s) + i] = t[i]
    BY <1>1
  <2>2. QED
    BY <1>1, <2>1 DEF Range
<1>5. QED
  BY <1>2, <1>3, <1>4

LEMMA RangeOfTail ==
    ASSUME NEW S, NEW s \in Seq(S), s # <<>>
    PROVE  /\ Head(s) \in S /\ Tail(s) \in Seq(S)
           /\ Range(s) = {Head(s)} \cup Range(Tail(s))
<1>1. /\ DOMAIN s = 1 .. Len(s) /\ DOMAIN Tail(s) = 1 .. Len(s) - 1
      /\ Len(s) \in Nat /\ Len(s) > 0 /\ Head(s) = s[1]
      /\ \A i \in 1 .. Len(s) - 1 : Tail(s)[i] = s[i + 1]
      /\ Head(s) \in S /\ Tail(s) \in Seq(S)
  OBVIOUS
<1>2. \A i \in 2 .. Len(s) : i - 1 \in 1 .. Len(s) - 1 /\ i = (i - 1) + 1
  BY <1>1
<1>3. Range(s) \subseteq {Head(s)} \cup Range(Tail(s))
  <2> SUFFICES ASSUME NEW i \in 1 .. Len(s) PROVE s[i] \in {Head(s)} \cup Range(Tail(s))
    BY <1>1 DEF Range
  <2>1. CASE i = 1
    BY <1>1, <2>1
  <2>2. CASE i # 1
    <3>1. i - 1 \in 1 .. Len(s) - 1 /\ Tail(s)[i - 1] = s[i]
      BY <1>1, <1>2, <2>2
    <3>2. QED
      BY <1>1, <3>1 DEF Range
  <2>3. QED
    BY <2>1, <2>2
<1>4. Range(Tail(s)) \subseteq Range(s)
  <2> SUFFICES ASSUME NEW i \in 1 .. Len(s) - 1 PROVE Tail(s)[i] \in Range(s)
    BY <1>1 DEF Range
  <2>1. i + 1 \in 1 .. Len(s)
    BY <1>1
  <2>2. QED
    BY <1>1, <2>1 DEF Range
<1>5. Head(s) \in Range(s)
  BY <1>1 DEF Range
<1>6. QED
  BY <1>1, <1>3, <1>4, <1>5

(* A channel with room for one holds one when it is not empty. *)
LEMMA OneIn ==
    ASSUME NEW S, NEW s \in Seq(S), Len(s) <= 1, s # <<>>
    PROVE  s = <<Head(s)>> /\ Tail(s) = <<>> /\ Head(s) \in S /\ Range(s) = {Head(s)}
<1>1. Len(s) = 1 /\ Head(s) \in S
  OBVIOUS
<1>2. Tail(s) = <<>>
  <2>1. Tail(s) \in Seq(S) /\ Len(Tail(s)) = 0
    BY <1>1, HeadTailProperties
  <2>2. QED
    BY <2>1, EmptySeq
<1>3. s = <<Head(s)>>
  <2>1. <<Head(s)>> \in Seq(S) /\ Len(<<Head(s)>>) = 1 /\ <<Head(s)>>[1] = s[1]
    BY <1>1
  <2>2. QED
    BY <1>1, <2>1, SeqEqual
<1>4. QED
  BY <1>1, <1>2, <1>3, RangeOfOne

Increasing(s) == \A i, j \in DOMAIN s : i < j => s[i] < s[j]

LEMMA IncreasingAppend ==
    ASSUME NEW s \in Seq(Nat), NEW n \in Nat, Increasing(s), \A x \in Range(s) : x < n
    PROVE  Increasing(Append(s, n))
<1>1. /\ DOMAIN Append(s, n) = 1 .. Len(s) + 1 /\ DOMAIN s = 1 .. Len(s) /\ Len(s) \in Nat
      /\ \A i \in 1 .. Len(s) : Append(s, n)[i] = s[i]
      /\ Append(s, n)[Len(s) + 1] = n
  OBVIOUS
<1>2. SUFFICES ASSUME NEW i \in 1 .. Len(s) + 1, NEW j \in 1 .. Len(s) + 1, i < j
               PROVE  Append(s, n)[i] < Append(s, n)[j]
  BY <1>1 DEF Increasing
<1>3. i \in 1 .. Len(s) /\ (j \in 1 .. Len(s) \/ j = Len(s) + 1)
  BY <1>1, <1>2
<1>4. CASE j = Len(s) + 1
  BY <1>1, <1>3, <1>4 DEF Range
<1>5. CASE j \in 1 .. Len(s)
  BY <1>1, <1>2, <1>3, <1>5 DEF Increasing
<1>6. QED
  BY <1>3, <1>4, <1>5

LEMMA IncreasingConcat ==
    ASSUME NEW s \in Seq(Nat), NEW t \in Seq(Nat), Increasing(s), Increasing(t),
           \A x \in Range(s), y \in Range(t) : x < y
    PROVE  Increasing(s \o t)
<1>1. /\ DOMAIN (s \o t) = 1 .. Len(s) + Len(t)
      /\ DOMAIN s = 1 .. Len(s) /\ DOMAIN t = 1 .. Len(t)
      /\ Len(s) \in Nat /\ Len(t) \in Nat
      /\ \A i \in 1 .. Len(s) : (s \o t)[i] = s[i]
      /\ \A i \in 1 .. Len(t) : (s \o t)[Len(s) + i] = t[i]
  OBVIOUS
<1>2. SUFFICES ASSUME NEW i \in 1 .. Len(s) + Len(t), NEW j \in 1 .. Len(s) + Len(t), i < j
               PROVE  (s \o t)[i] < (s \o t)[j]
  BY <1>1 DEF Increasing
<1>3. \A k \in 1 .. Len(s) + Len(t) : k > Len(s) =>
         k - Len(s) \in 1 .. Len(t) /\ (s \o t)[k] = t[k - Len(s)]
  <2> SUFFICES ASSUME NEW k \in 1 .. Len(s) + Len(t), k > Len(s)
               PROVE  k - Len(s) \in 1 .. Len(t) /\ (s \o t)[k] = t[k - Len(s)]
    OBVIOUS
  <2>1. k - Len(s) \in 1 .. Len(t) /\ k = Len(s) + (k - Len(s))
    BY <1>1
  <2>2. QED
    BY <1>1, <2>1
<1>4. CASE j <= Len(s)
  <2>1. i \in 1 .. Len(s) /\ j \in 1 .. Len(s)
    BY <1>1, <1>2, <1>4
  <2>2. QED
    BY <1>1, <1>2, <2>1 DEF Increasing
<1>5. CASE i <= Len(s) /\ j > Len(s)
  <2>1. i \in 1 .. Len(s) /\ j - Len(s) \in 1 .. Len(t)
    BY <1>1, <1>3, <1>5
  <2>2. s[i] \in Range(s) /\ t[j - Len(s)] \in Range(t)
    BY <1>1, <2>1 DEF Range
  <2>3. QED
    BY <1>1, <1>3, <1>5, <2>1, <2>2
<1>6. CASE i > Len(s)
  <2>1. i - Len(s) < j - Len(s) /\ j > Len(s)
    BY <1>1, <1>2, <1>6
  <2>2. /\ i - Len(s) \in 1 .. Len(t) /\ (s \o t)[i] = t[i - Len(s)]
        /\ j - Len(s) \in 1 .. Len(t) /\ (s \o t)[j] = t[j - Len(s)]
    BY <1>1, <1>3, <1>6, <2>1
  <2>3. QED
    BY <2>1, <2>2 DEF Increasing
<1>7. j <= Len(s) \/ (i <= Len(s) /\ j > Len(s)) \/ i > Len(s)
  BY <1>1
<1>8. QED
  BY <1>4, <1>5, <1>6, <1>7

=============================================================================
