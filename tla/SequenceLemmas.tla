--------------------------- MODULE SequenceLemmas ----------------------------
(***************************************************************************)
(* Facts about sequences, their elements, recursion and sums, for the      *)
(* proofs about ids that are remembered, the queue, streaks and test runs. *)
(***************************************************************************)
EXTENDS SequencesExt, SequenceTheorems, FiniteSetTheorems, WellFoundedInduction, TLAPS

(* The elements of a sequence, by their indices.                            *)
LEMMA Elements ==
  ASSUME NEW S, NEW s \in Seq(S)
  PROVE  /\ ToSet(s) \subseteq S
         /\ \A e : e \in ToSet(s) <=> \E i \in 1 .. Len(s) : s[i] = e
         /\ ToSet(s) = {} <=> s = <<>>
  BY DEF ToSet

LEMMA ElementsOfAppend ==
  ASSUME NEW S, NEW s \in Seq(S), NEW e \in S
  PROVE  ToSet(Append(s, e)) = ToSet(s) \cup {e}
<1>1. /\ Append(s, e) \in Seq(S) /\ Len(Append(s, e)) = Len(s) + 1 /\ Len(s) \in Nat
      /\ \A i \in 1 .. Len(s) : Append(s, e)[i] = s[i]
      /\ Append(s, e)[Len(s) + 1] = e
  BY AppendProperties
<1>2. \A i : i \in 1 .. Len(Append(s, e)) <=> i \in 1 .. Len(s) \/ i = Len(s) + 1
  BY <1>1
<1>3. \A x : x \in ToSet(Append(s, e)) <=> \E i \in 1 .. Len(Append(s, e)) : Append(s, e)[i] = x
  BY <1>1, Elements
<1>4. \A x : x \in ToSet(s) <=> \E i \in 1 .. Len(s) : s[i] = x
  BY Elements
<1>5. \A x : x \in ToSet(Append(s, e)) <=> x \in ToSet(s) \/ x = e
  BY <1>1, <1>2, <1>3, <1>4
<1>6. QED
  BY <1>5

LEMMA ElementsOfConcat ==
  ASSUME NEW S, NEW s \in Seq(S), NEW t \in Seq(S)
  PROVE  ToSet(s \o t) = ToSet(s) \cup ToSet(t)
<1>1. /\ s \o t \in Seq(S) /\ Len(s \o t) = Len(s) + Len(t) /\ Len(s) \in Nat /\ Len(t) \in Nat
      /\ \A i \in 1 .. Len(s) + Len(t) : (s \o t)[i] = IF i <= Len(s) THEN s[i] ELSE t[i - Len(s)]
  BY ConcatProperties
<1>2. ASSUME NEW x \in ToSet(s \o t) PROVE x \in ToSet(s) \cup ToSet(t)
  <2>1. PICK i \in 1 .. Len(s) + Len(t) : (s \o t)[i] = x
    BY <1>1, Elements
  <2>2. CASE i <= Len(s)
    BY <1>1, <2>1, <2>2, Elements
  <2>3. CASE i > Len(s)
    <3>1. i - Len(s) \in 1 .. Len(t) /\ t[i - Len(s)] = x
      BY <1>1, <2>1, <2>3
    <3>2. QED
      BY <3>1, Elements
  <2>4. QED
    BY <1>1, <2>2, <2>3
<1>3. ASSUME NEW x \in ToSet(s) PROVE x \in ToSet(s \o t)
  <2>1. PICK i \in 1 .. Len(s) : s[i] = x
    BY Elements
  <2>2. i \in 1 .. Len(s) + Len(t) /\ (s \o t)[i] = x
    BY <1>1, <2>1
  <2>3. QED
    BY <1>1, <2>2, Elements
<1>4. ASSUME NEW x \in ToSet(t) PROVE x \in ToSet(s \o t)
  <2>1. PICK i \in 1 .. Len(t) : t[i] = x
    BY Elements
  <2>2. i + Len(s) \in 1 .. Len(s \o t) /\ (s \o t)[i + Len(s)] = x
    BY <1>1, <2>1
  <2>3. \E k \in 1 .. Len(s \o t) : (s \o t)[k] = x
    BY <2>2
  <2>4. QED
    BY <1>1, <2>3, Elements
<1>5. QED
  BY <1>2, <1>3, <1>4

(* A sequence without repetition is as long as it has elements.             *)
LEMMA InjectiveLength ==
  ASSUME NEW S, NEW s \in Seq(S), IsInjective(s)
  PROVE  IsFiniteSet(ToSet(s)) /\ Cardinality(ToSet(s)) = Len(s)
<1>1. Len(s) \in Nat /\ s \in [1 .. Len(s) -> ToSet(s)] /\ DOMAIN s = 1 .. Len(s)
  BY LenProperties, Elements
<1>2. s \in Bijection(1 .. Len(s), ToSet(s))
  BY <1>1, Elements DEF Bijection, Injection, Surjection, IsInjective
<1>3. ExistsBijection(1 .. Len(s), ToSet(s))
  BY <1>2 DEF ExistsBijection
<1>4. QED
  BY <1>1, <1>3, FS_CountingElements, FS_NatBijection

LEMMA InjectiveAppend ==
  ASSUME NEW S, NEW s \in Seq(S), IsInjective(s), NEW e \in S, e \notin ToSet(s)
  PROVE  IsInjective(Append(s, e))
<1>1. /\ DOMAIN Append(s, e) = 1 .. Len(s) + 1 /\ DOMAIN s = 1 .. Len(s) /\ Len(s) \in Nat
      /\ \A i \in 1 .. Len(s) : Append(s, e)[i] = s[i]
      /\ Append(s, e)[Len(s) + 1] = e
  BY AppendProperties, LenProperties
<1>2. \A i \in 1 .. Len(s) : s[i] # e
  BY Elements
<1>3. \A i \in 1 .. Len(s) + 1 : i \in 1 .. Len(s) \/ i = Len(s) + 1
  BY <1>1
<1>4. QED
  BY <1>1, <1>2, <1>3 DEF IsInjective

LEMMA InjectiveConcat ==
  ASSUME NEW S, NEW s \in Seq(S), NEW t \in Seq(S), IsInjective(s), IsInjective(t),
         ToSet(s) \cap ToSet(t) = {}
  PROVE  IsInjective(s \o t)
<1>1. /\ DOMAIN (s \o t) = 1 .. Len(s) + Len(t) /\ DOMAIN s = 1 .. Len(s) /\ DOMAIN t = 1 .. Len(t)
      /\ Len(s) \in Nat /\ Len(t) \in Nat
      /\ \A i \in 1 .. Len(s) + Len(t) : (s \o t)[i] = IF i <= Len(s) THEN s[i] ELSE t[i - Len(s)]
  BY ConcatProperties, LenProperties
<1>2. SUFFICES ASSUME NEW i \in 1 .. Len(s) + Len(t), NEW j \in 1 .. Len(s) + Len(t),
                      (s \o t)[i] = (s \o t)[j]
               PROVE  i = j
  BY <1>1 DEF IsInjective
<1>3. \A k \in 1 .. Len(s) : s[k] \in ToSet(s)
  BY Elements
<1>4. \A k \in 1 .. Len(t) : t[k] \in ToSet(t)
  BY Elements
<1>5. CASE i <= Len(s) /\ j <= Len(s)
  <2>1. i \in 1 .. Len(s) /\ j \in 1 .. Len(s) /\ s[i] = s[j]
    BY <1>1, <1>2, <1>5
  <2>2. QED
    BY <1>1, <2>1 DEF IsInjective
<1>6. CASE i > Len(s) /\ j > Len(s)
  <2>1. /\ i - Len(s) \in 1 .. Len(t) /\ j - Len(s) \in 1 .. Len(t)
        /\ t[i - Len(s)] = t[j - Len(s)]
    BY <1>1, <1>2, <1>6
  <2>2. i - Len(s) = j - Len(s)
    BY <1>1, <2>1 DEF IsInjective
  <2>3. QED
    BY <1>1, <2>2
<1>7. CASE i <= Len(s) /\ j > Len(s)
  <2>1. i \in 1 .. Len(s) /\ j - Len(s) \in 1 .. Len(t) /\ s[i] = t[j - Len(s)]
    BY <1>1, <1>2, <1>7
  <2>2. QED
    BY <1>3, <1>4, <2>1
<1>8. CASE i > Len(s) /\ j <= Len(s)
  <2>1. j \in 1 .. Len(s) /\ i - Len(s) \in 1 .. Len(t) /\ s[j] = t[i - Len(s)]
    BY <1>1, <1>2, <1>8
  <2>2. QED
    BY <1>3, <1>4, <2>1
<1>9. QED
  BY <1>1, <1>5, <1>6, <1>7, <1>8

(* What lists the elements of a set, as many as there are, repeats none.    *)
LEMMA ListingInjective ==
  ASSUME NEW S, IsFiniteSet(S), NEW q \in [1 .. Cardinality(S) -> S], S \subseteq ToSet(q)
  PROVE  q \in Seq(S) /\ IsInjective(q) /\ ToSet(q) = S
<1>1. Cardinality(S) \in Nat
  BY FS_CardinalityType
<1>2. q \in Seq(S) /\ ToSet(q) = S
  <2>1. q \in Seq(S)
    BY <1>1, SeqDef
  <2>2. QED
    BY <2>1, Elements
<1>3. q \in Surjection(1 .. Cardinality(S), S)
  BY <1>2, Elements DEF Surjection, ToSet
<1>4. IsFiniteSet(1 .. Cardinality(S)) /\ Cardinality(1 .. Cardinality(S)) = Cardinality(S)
  BY <1>1, FS_Interval
<1>5. q \in Injection(1 .. Cardinality(S), S)
  BY <1>3, <1>4, FS_SurjSameCardinalityImpliesInj
<1>6. IsInjective(q)
  BY <1>5 DEF Injection, IsInjective
<1>7. QED
  BY <1>2, <1>6
-----------------------------------------------------------------------------
(* Cutting a sequence in two keeps its elements, and their order.           *)
LEMMA CutInTwo ==
  ASSUME NEW S, NEW s \in Seq(S), NEW k \in 0 .. Len(s)
  PROVE  LET a == SubSeq(s, 1, k)
             b == SubSeq(s, k + 1, Len(s))
         IN  /\ a \in Seq(S) /\ Len(a) = k /\ \A i \in 1 .. k : a[i] = s[i]
             /\ b \in Seq(S) /\ Len(b) = Len(s) - k /\ \A i \in 1 .. Len(s) - k : b[i] = s[k + i]
             /\ ToSet(s) = ToSet(a) \cup ToSet(b)
             /\ IsInjective(s) => IsInjective(a) /\ IsInjective(b) /\ ToSet(a) \cap ToSet(b) = {}
<1> DEFINE a == SubSeq(s, 1, k)
           b == SubSeq(s, k + 1, Len(s))
<1>1. Len(s) \in Nat /\ k \in Nat /\ k <= Len(s) /\ DOMAIN s = 1 .. Len(s)
  BY LenProperties
<1>2. \A i \in 1 .. Len(s) : s[i] \in S
  BY <1>1
<1>3. a \in Seq(S) /\ Len(a) = k /\ \A i \in 1 .. k : a[i] = s[i]
  <2>1. \A i \in 1 .. k : s[i] \in S
    BY <1>1, <1>2
  <2>2. /\ a \in Seq(S) /\ Len(a) = IF 1 <= k THEN k - 1 + 1 ELSE 0
        /\ \A i \in 1 .. k - 1 + 1 : a[i] = s[1 + i - 1]
    BY <1>1, <2>1, SubSeqProperties
  <2>3. QED
    BY <1>1, <2>2
<1>4. b \in Seq(S) /\ Len(b) = Len(s) - k /\ \A i \in 1 .. Len(s) - k : b[i] = s[k + i]
  <2>1. \A i \in k + 1 .. Len(s) : s[i] \in S
    BY <1>1, <1>2
  <2>2. /\ b \in Seq(S) /\ Len(b) = IF k + 1 <= Len(s) THEN Len(s) - (k + 1) + 1 ELSE 0
        /\ \A i \in 1 .. Len(s) - (k + 1) + 1 : b[i] = s[k + 1 + i - 1]
    BY <1>1, <2>1, SubSeqProperties
  <2>3. QED
    BY <1>1, <2>2
<1> HIDE DEF a, b
<1>5. DOMAIN a = 1 .. k /\ DOMAIN b = 1 .. Len(s) - k
  BY <1>3, <1>4, LenProperties
<1>6. ASSUME NEW x \in ToSet(s) PROVE x \in ToSet(a) \cup ToSet(b)
  <2>1. PICK i \in 1 .. Len(s) : s[i] = x
    BY Elements
  <2>2. CASE i <= k
    <3>1. i \in 1 .. k /\ a[i] = x
      BY <1>1, <1>3, <2>1, <2>2
    <3>2. QED
      BY <1>3, <3>1, Elements
  <2>3. CASE i > k
    <3>1. i - k \in 1 .. Len(s) - k /\ b[i - k] = x
      BY <1>1, <1>4, <2>1, <2>3
    <3>2. QED
      BY <1>4, <3>1, Elements
  <2>4. QED
    BY <1>1, <2>2, <2>3
<1>7. ASSUME NEW x \in ToSet(a) PROVE \E i \in 1 .. k : s[i] = x
  BY <1>3, Elements
<1>8. ASSUME NEW x \in ToSet(b) PROVE \E i \in k + 1 .. Len(s) : s[i] = x
  <2>1. PICK i \in 1 .. Len(s) - k : b[i] = x
    BY <1>4, Elements
  <2>2. k + i \in k + 1 .. Len(s) /\ s[k + i] = x
    BY <1>1, <1>4, <2>1
  <2>3. QED
    BY <2>2
<1>9. ToSet(s) = ToSet(a) \cup ToSet(b)
  <2>1. \A x \in ToSet(a) \cup ToSet(b) : \E i \in 1 .. Len(s) : s[i] = x
    BY <1>1, <1>7, <1>8
  <2>2. ToSet(a) \cup ToSet(b) \subseteq ToSet(s)
    BY <2>1, Elements
  <2>3. QED
    BY <1>6, <2>2
<1>10. ASSUME IsInjective(s)
       PROVE  IsInjective(a) /\ IsInjective(b) /\ ToSet(a) \cap ToSet(b) = {}
  <2>1. \A i, j \in 1 .. Len(s) : s[i] = s[j] => i = j
    BY <1>1, <1>10 DEF IsInjective
  <2>2. IsInjective(a)
    BY <1>1, <1>3, <1>5, <2>1 DEF IsInjective
  <2>3. IsInjective(b)
    <3> SUFFICES ASSUME NEW i \in 1 .. Len(s) - k, NEW j \in 1 .. Len(s) - k, b[i] = b[j] PROVE i = j
      BY <1>5 DEF IsInjective
    <3>1. k + i \in 1 .. Len(s) /\ k + j \in 1 .. Len(s) /\ s[k + i] = s[k + j]
      BY <1>1, <1>4
    <3>2. k + i = k + j
      BY <2>1, <3>1
    <3>3. QED
      BY <1>1, <3>2
  <2>4. ASSUME NEW x, x \in ToSet(a), x \in ToSet(b) PROVE FALSE
    <3>1. PICK i \in 1 .. k, j \in k + 1 .. Len(s) : s[i] = x /\ s[j] = x
      BY <1>7, <1>8, <2>4
    <3>2. i \in 1 .. Len(s) /\ j \in 1 .. Len(s) /\ i # j
      BY <1>1
    <3>3. QED
      BY <2>1, <3>1, <3>2
  <2>5. QED
    BY <2>2, <2>3, <2>4
<1>11. QED
  BY <1>3, <1>4, <1>9, <1>10 DEF a, b
-----------------------------------------------------------------------------
(* Induction, as far as the provers can use it: for a set of numbers.       *)
LEMMA LeastNumber ==
  ASSUME NEW T \in SUBSET Nat, T # {}
  PROVE  \E n \in T : \A m \in T : n <= m
<1> DEFINE R == {ss \in Nat \X Nat : ss[1] < ss[2]}
<1>1. IsWellFoundedOn(R, Nat)
  BY NatLessThanWellFounded DEF OpToRel
<1>2. \A m, n \in Nat : m < n => <<m, n>> \in R
  OBVIOUS
<1> HIDE DEF R
<1>3. PICK n \in T : \A m \in T : <<m, n>> \notin R
  BY <1>1, WFMin
<1>4. \A m \in T : ~(m < n)
  BY <1>2, <1>3
<1>5. QED
  BY <1>4

LEMMA Induction ==
  ASSUME NEW n \in Nat, NEW T, 0 \in T, \A k \in 1 .. n : k - 1 \in T => k \in T
  PROVE  n \in T
<1> DEFINE U == (0 .. n) \ T
<1>1. SUFFICES ASSUME U # {} PROVE FALSE
  OBVIOUS
<1>2. PICK k \in U : \A m \in U : k <= m
  <2>1. U \in SUBSET Nat
    OBVIOUS
  <2> HIDE DEF U
  <2>2. QED
    BY <1>1, <2>1, LeastNumber
<1>3. k \in 1 .. n /\ k - 1 \in 0 .. n
  BY <1>2
<1>4. k - 1 \in T
  BY <1>2, <1>3
<1>5. QED
  BY <1>2, <1>3, <1>4

\* f[n] is what n steps make of a first value.
Computes(f, n, base, step) == f[0] = base /\ \A i \in 1 .. n : f[i] = step[<<i, f[i - 1]>>]

(* What is computed step by step from a first value exists.                 *)
LEMMA Recursion ==
  ASSUME NEW n \in Nat, NEW A, NEW base \in A, NEW step \in [(1 .. n) \X A -> A]
  PROVE  \E f \in [0 .. n -> A] : Computes(f, n, base, step)
<1> DEFINE Upto(k) == \E f \in [0 .. k -> A] : Computes(f, k, base, step)
           T       == {k \in 0 .. n : Upto(k)}
<1>1. 0 \in T
  <2> DEFINE g == [i \in 0 .. 0 |-> base]
  <2>1. g \in [0 .. 0 -> A] /\ g[0] = base
    OBVIOUS
  <2> HIDE DEF g
  <2>2. Upto(0)
    BY <2>1 DEF Computes
  <2>3. QED
    BY <2>2
<1>2. ASSUME NEW k \in 1 .. n, k - 1 \in T PROVE k \in T
  <2>1. PICK f \in [0 .. k - 1 -> A] :
               f[0] = base /\ \A i \in 1 .. k - 1 : f[i] = step[<<i, f[i - 1]>>]
    BY <1>2 DEF Computes
  <2> DEFINE g == [i \in 0 .. k |-> IF i = k THEN step[<<k, f[k - 1]>>] ELSE f[i]]
  <2>2. \A i \in 0 .. k : i = k \/ i \in 0 .. k - 1
    OBVIOUS
  <2>3. f[k - 1] \in A /\ step[<<k, f[k - 1]>>] \in A
    OBVIOUS
  <2>4. g \in [0 .. k -> A]
    BY <2>2, <2>3
  <2>5. g[0] = base
    BY <2>1
  <2>6. ASSUME NEW i \in 1 .. k PROVE g[i] = step[<<i, g[i - 1]>>]
    <3>1. i - 1 \in 0 .. k /\ i - 1 # k /\ g[i - 1] = f[i - 1]
      OBVIOUS
    <3>2. CASE i = k
      BY <3>1, <3>2
    <3>3. CASE i # k
      <4>1. i \in 1 .. k - 1 /\ g[i] = f[i]
        BY <3>3
      <4>2. QED
        BY <2>1, <3>1, <4>1
    <3>4. QED
      BY <3>2, <3>3
  <2> HIDE DEF g
  <2>7. Upto(k)
    BY <2>4, <2>5, <2>6 DEF Computes
  <2>8. QED
    BY <2>7
<1>3. n \in T
  <2> HIDE DEF T
  <2> QED
    BY <1>1, <1>2, Induction
<1>4. QED
  BY <1>3
(* The greatest of a bounded set of numbers, and the least.                 *)
LEMMA MaxIs ==
  ASSUME NEW T \in SUBSET Nat, NEW m \in T, \A x \in T : x <= m
  PROVE  Max(T) = m
  <1>1. m \in T /\ \A x \in T : m >= x
    OBVIOUS
  <1>2. \A k \in T : (\A x \in T : k >= x) => k = m
    OBVIOUS
  <1> QED BY <1>1, <1>2 DEF Max

LEMMA LeastOf ==
  ASSUME NEW T \in SUBSET Nat, NEW m \in T, \A x \in T : m <= x
  PROVE  Min(T) = m
  <1>1. m \in T /\ \A x \in T : m <= x
    OBVIOUS
  <1>2. \A k \in T : (\A x \in T : k <= x) => k = m
    OBVIOUS
  <1> QED BY <1>1, <1>2 DEF Min

\* Numbers up to a bound have a greatest one.
LEMMA GreatestNumber ==
  ASSUME NEW T \in SUBSET Nat, T # {}, NEW n \in Nat, \A x \in T : x <= n
  PROVE  \E m \in T : \A x \in T : x <= m
  <1> DEFINE U == {n - x : x \in T}
  <1>1. U \in SUBSET Nat /\ U # {}
    <2>1. \A x \in T : n - x \in Nat /\ n - x \in U
      OBVIOUS
    <2> QED BY <2>1
  <1> HIDE DEF U
  <1>2. PICK k \in U : \A j \in U : k <= j
    BY <1>1, LeastNumber
  <1> USE DEF U
  <1>3. PICK m \in T : k = n - m
    OBVIOUS
  <1>4. ASSUME NEW x \in T PROVE x <= m
    <2>1. n - x \in U /\ x \in Nat /\ m \in Nat
      OBVIOUS
    <2> HIDE DEF U
    <2> QED BY <1>2, <1>3, <2>1
  <1> QED BY <1>4
-----------------------------------------------------------------------------
\* t lists some of the entries of s, in the order they have there: m[i] is
\* the place in s of the i-th that t lists.
Picks(m, t, s) == /\ \A i, j \in 1 .. Len(t) : i < j => m[i] < m[j]
                  /\ \A i \in 1 .. Len(t) : t[i] = s[m[i]]
Subsequence(t, s) == \E m \in [1 .. Len(t) -> 1 .. Len(s)] : Picks(m, t, s)

(* What lists some entries of a sequence repeats none that is there once.   *)
LEMMA SubsequenceFacts ==
  ASSUME NEW S, NEW s \in Seq(S), NEW t \in Seq(S), Subsequence(t, s)
  PROVE  /\ ToSet(t) \subseteq ToSet(s)
         /\ IsInjective(s) => IsInjective(t)
<1>1. PICK m \in [1 .. Len(t) -> 1 .. Len(s)] :
             /\ \A i, j \in 1 .. Len(t) : i < j => m[i] < m[j]
             /\ \A i \in 1 .. Len(t) : t[i] = s[m[i]]
  BY DEF Subsequence, Picks
<1>2. Len(t) \in Nat /\ Len(s) \in Nat /\ DOMAIN t = 1 .. Len(t) /\ DOMAIN s = 1 .. Len(s)
  BY LenProperties
<1>3. \A i \in 1 .. Len(t) : m[i] \in 1 .. Len(s) /\ m[i] \in Nat
  BY <1>1, <1>2
<1>4. ToSet(t) \subseteq ToSet(s)
  BY <1>1, <1>3, Elements
<1>5. ASSUME IsInjective(s), NEW i \in 1 .. Len(t), NEW j \in 1 .. Len(t), t[i] = t[j]
      PROVE  i = j
  <2>1. m[i] = m[j]
    BY <1>1, <1>2, <1>3, <1>5 DEF IsInjective
  <2>2. ~(i < j) /\ ~(j < i)
    BY <1>1, <1>3, <2>1
  <2>3. QED
    BY <1>2, <2>2
<1>6. QED
  BY <1>2, <1>4, <1>5 DEF IsInjective

(* Both parts of a sequence that is cut in two list entries of it.          *)
LEMMA CutSubsequence ==
  ASSUME NEW S, NEW s \in Seq(S), NEW k \in 0 .. Len(s)
  PROVE  Subsequence(SubSeq(s, 1, k), s) /\ Subsequence(SubSeq(s, k + 1, Len(s)), s)
<1> DEFINE a == SubSeq(s, 1, k)
           b == SubSeq(s, k + 1, Len(s))
<1>1. /\ Len(a) = k /\ \A i \in 1 .. k : a[i] = s[i]
      /\ Len(b) = Len(s) - k /\ \A i \in 1 .. Len(s) - k : b[i] = s[k + i]
      /\ Len(s) \in Nat
  BY CutInTwo
<1> HIDE DEF a, b
<1>2. Subsequence(a, s)
  <2> DEFINE m == [i \in 1 .. k |-> i]
  <2>1. m \in [1 .. Len(a) -> 1 .. Len(s)] /\ \A i \in 1 .. Len(a) : m[i] = i
    BY <1>1
  <2> HIDE DEF m
  <2>2. QED
    BY <1>1, <2>1 DEF Subsequence, Picks
<1>3. Subsequence(b, s)
  <2> DEFINE m == [i \in 1 .. Len(s) - k |-> k + i]
  <2>1. m \in [1 .. Len(b) -> 1 .. Len(s)] /\ \A i \in 1 .. Len(b) : m[i] = k + i
    BY <1>1
  <2> HIDE DEF m
  <2>2. QED
    BY <1>1, <2>1 DEF Subsequence, Picks
<1>4. QED
  BY <1>2, <1>3 DEF a, b

(* One entry more of a sequence, behind those that were listed before it.   *)
LEMMA SubsequenceAppend ==
  ASSUME NEW S, NEW s \in Seq(S), NEW t \in Seq(S), NEW k \in 1 .. Len(s),
         NEW m \in [1 .. Len(t) -> 1 .. k - 1], Picks(m, t, s)
  PROVE  \E n \in [1 .. Len(Append(t, s[k])) -> 1 .. k] : Picks(n, Append(t, s[k]), s)
<1> DEFINE u == Append(t, s[k])
           n == [i \in 1 .. Len(t) + 1 |-> IF i = Len(t) + 1 THEN k ELSE m[i]]
<1>1. /\ Len(u) = Len(t) + 1 /\ Len(t) \in Nat /\ u[Len(t) + 1] = s[k]
      /\ \A i \in 1 .. Len(t) : u[i] = t[i]
  BY AppendProperties
<1>2. \A i \in 1 .. Len(t) + 1 : i = Len(t) + 1 \/ i \in 1 .. Len(t)
  BY <1>1
<1>3. \A i \in 1 .. Len(t) : m[i] \in 1 .. k - 1
  OBVIOUS
<1>4. n \in [1 .. Len(u) -> 1 .. k]
  BY <1>1, <1>2, <1>3
<1>5. n[Len(t) + 1] = k /\ \A i \in 1 .. Len(t) : n[i] = m[i]
  BY <1>1
<1> HIDE DEF n, u
<1>6. ASSUME NEW i \in 1 .. Len(u), NEW j \in 1 .. Len(u), i < j PROVE n[i] < n[j]
  <2>1. i \in 1 .. Len(t)
    BY <1>1, <1>6
  <2>2. CASE j = Len(t) + 1
    BY <1>3, <1>5, <2>1, <2>2
  <2>3. CASE j \in 1 .. Len(t)
    BY <1>5, <1>6, <2>1, <2>3 DEF Picks
  <2>4. QED
    BY <1>1, <1>2, <2>2, <2>3
<1>7. \A i \in 1 .. Len(u) : u[i] = s[n[i]]
  BY <1>1, <1>2, <1>5 DEF Picks
<1>8. QED
  BY <1>4, <1>6, <1>7 DEF u, Picks

(* Sequences one behind the other.                                          *)
LEMMA FlattenIn ==
  ASSUME NEW S, NEW seqs \in Seq(Seq(S))
  PROVE  FlattenSeq(seqs) \in Seq(S)
<1> DEFINE n == Len(seqs)
           step == [p \in (1 .. n) \X Seq(S) |-> p[2] \o seqs[p[1]]]
           Is(f) == f = [i \in 1 .. n |-> IF i = 1 THEN seqs[i] ELSE f[i - 1] \o seqs[i]]
<1>1. n \in Nat /\ \A i \in 1 .. n : seqs[i] \in Seq(S)
  OBVIOUS
<1>2. CASE n = 0
  <2>1. seqs = <<>>
    BY <1>2, EmptySeq
  <2>2. FlattenSeq(seqs) = <<>>
    BY <1>2, <2>1 DEF FlattenSeq
  <2>3. QED
    BY <2>2
<1>3. CASE n # 0
  <2>1. step \in [(1 .. n) \X Seq(S) -> Seq(S)]
    <3>1. \A p \in (1 .. n) \X Seq(S) : p[2] \in Seq(S) /\ seqs[p[1]] \in Seq(S)
      BY <1>1
    <3>2. \A p \in (1 .. n) \X Seq(S) : p[2] \o seqs[p[1]] \in Seq(S)
      BY <3>1, ConcatProperties
    <3>3. QED
      BY <3>2
  <2>2. PICK g \in [0 .. n -> Seq(S)] : g[0] = <<>> /\ \A i \in 1 .. n : g[i] = step[<<i, g[i - 1]>>]
    <3> HIDE DEF step, n
    <3>1. <<>> \in Seq(S)
      OBVIOUS
    <3>2. \E g \in [0 .. n -> Seq(S)] : Computes(g, n, <<>>, step)
      BY <1>1, <2>1, <3>1, Recursion
    <3>3. QED
      BY <3>2, Zenon DEF Computes
  <2>3. ASSUME NEW i \in 1 .. n PROVE g[i] = g[i - 1] \o seqs[i] /\ g[i] \in Seq(S) /\ g[i - 1] \in Seq(S)
    <3>1. i \in 0 .. n /\ i - 1 \in 0 .. n
      BY <1>1
    <3>2. <<i, g[i - 1]>> \in (1 .. n) \X Seq(S)
      BY <3>1
    <3>3. step[<<i, g[i - 1]>>] = g[i - 1] \o seqs[i]
      BY <3>2
    <3>4. QED
      BY <2>2, <3>1, <3>3
  <2>4. 1 \in 1 .. n /\ g[1] = seqs[1]
    <3>1. 1 \in 1 .. n /\ seqs[1] \in Seq(S)
      BY <1>1, <1>3
    <3>2. g[1] = g[1 - 1] \o seqs[1]
      BY <2>3, <3>1, Zenon
    <3>3. g[1] = <<>> \o seqs[1]
      <4>1. 1 - 1 = 0
        OBVIOUS
      <4>2. QED
        BY <2>2, <3>2, <4>1, Zenon
    <3>4. QED
      BY <3>1, <3>3, ConcatEmptySeq
  <2> HIDE DEF step
  <2> DEFINE h == [i \in 1 .. n |-> g[i]]
  <2>5. Is(h)
    <3>1. \A i \in 1 .. n : i = 1 \/ i - 1 \in 1 .. n
      BY <1>1
    <3>2. \A i \in 1 .. n : h[i] = IF i = 1 THEN seqs[i] ELSE h[i - 1] \o seqs[i]
      BY <2>3, <2>4, <3>1
    <3> HIDE DEF n
    <3>3. QED
      BY <3>2
  <2> DEFINE flat == CHOOSE f : Is(f)
  <2>6. Is(flat)
    <3> HIDE DEF Is, h
    <3> QED
      BY <2>5
  <2>7. FlattenSeq(seqs) = flat[n]
    BY <1>3 DEF FlattenSeq
  <2> HIDE DEF flat
  <2> DEFINE T == {k \in 0 .. n : k = 0 \/ flat[k] \in Seq(S)}
  <2>8. ASSUME NEW k \in 1 .. n, k - 1 \in T PROVE k \in T
    <3>1. flat[k] = IF k = 1 THEN seqs[k] ELSE flat[k - 1] \o seqs[k]
      BY <2>6, <2>8
    <3>2. seqs[k] \in Seq(S) /\ k \in 0 .. n
      BY <1>1
    <3>3. CASE k = 1
      BY <3>1, <3>2, <3>3
    <3>4. CASE k # 1
      <4>1. flat[k - 1] \in Seq(S)
        BY <1>1, <2>8, <3>4
      <4>2. flat[k - 1] \o seqs[k] \in Seq(S)
        BY <3>2, <4>1, ConcatProperties
      <4>3. QED
        BY <3>1, <3>2, <3>4, <4>2
    <3>5. QED
      BY <3>3, <3>4
  <2>9. n \in T
    <3>1. 0 \in T
      BY <1>1
    <3> HIDE DEF T, n
    <3> QED
      BY <1>1, <2>8, <3>1, Induction
  <2>10. QED
    BY <1>3, <2>7, <2>9
<1>4. QED
  BY <1>2, <1>3

(***************************************************************************)
(* Sums (SumFunction of the module Functions).                             *)
(***************************************************************************)
AnyOf(s) == CHOOSE x \in s : TRUE

\* A table of the sums over the subsets of the domain, and one line of it.
IsSum(iter, fun) ==
    iter = [s \in SUBSET DOMAIN fun |-> IF s = {} THEN 0
                                        ELSE LET x == CHOOSE x \in s : TRUE IN fun[x] + iter[s \ {x}]]
SumsAt(iter, fun, s) == iter[s] = IF s = {} THEN 0 ELSE fun[AnyOf(s)] + iter[s \ {AnyOf(s)}]

Small(D, m) == {s \in SUBSET D : Cardinality(s) <= m}

LEMMA SmallSets ==
  ASSUME NEW D, IsFiniteSet(D), NEW m \in Nat, NEW s \in Small(D, m), s # {}
  PROVE  m > 0 /\ AnyOf(s) \in s /\ s \ {AnyOf(s)} \in Small(D, m - 1) /\ Cardinality(s) > 0
<1>1. AnyOf(s) \in s
  BY Zenon DEF AnyOf
<1>2. IsFiniteSet(s) /\ Cardinality(s) \in Nat /\ Cardinality(s) <= m
  BY FS_Subset, FS_CardinalityType DEF Small
<1>3. Cardinality(s) # 0
  BY <1>2, FS_EmptySet
<1>4. Cardinality(s \ {AnyOf(s)}) = Cardinality(s) - 1
  BY <1>1, <1>2, FS_RemoveElement
<1>5. QED
  BY <1>1, <1>2, <1>3, <1>4 DEF Small

LEMMA SumsExist ==
  ASSUME NEW D, IsFiniteSet(D), NEW fun \in [D -> Nat]
  PROVE  \E iter \in [SUBSET D -> Nat] : IsSum(iter, fun)
<1> DEFINE Upto(m) == \E f \in [Small(D, m) -> Nat] : \A s \in Small(D, m) : SumsAt(f, fun, s)
           n == Cardinality(D)
           T == {m \in 0 .. n : Upto(m)}
<1>0. n \in Nat /\ IsFiniteSet(D)
  BY FS_CardinalityType
<1>1. 0 \in T
  <2> DEFINE f == [s \in Small(D, 0) |-> 0]
  <2>1. \A s \in Small(D, 0) : s = {}
    <3>1. SUFFICES ASSUME NEW s \in Small(D, 0), s # {} PROVE FALSE
      OBVIOUS
    <3>2. 0 > 0
      BY <3>1, SmallSets
    <3>3. QED
      BY <3>2
  <2>2. f \in [Small(D, 0) -> Nat] /\ \A s \in Small(D, 0) : SumsAt(f, fun, s)
    BY <2>1 DEF SumsAt
  <2> HIDE DEF f
  <2>3. Upto(0)
    BY <2>2
  <2>4. QED
    BY <1>0, <2>3
<1>2. ASSUME NEW m \in 1 .. n, m - 1 \in T PROVE m \in T
  <2>0. m \in Nat /\ m - 1 \in Nat /\ m \in 0 .. n /\ \A s \in Small(D, m - 1) : s \in Small(D, m)
    BY <1>0, FS_Subset, FS_CardinalityType DEF Small
  <2>1. PICK f \in [Small(D, m - 1) -> Nat] : \A s \in Small(D, m - 1) : SumsAt(f, fun, s)
    BY <1>2
  <2> DEFINE g == [s \in Small(D, m) |-> IF s \in Small(D, m - 1) THEN f[s] ELSE fun[AnyOf(s)] + f[s \ {AnyOf(s)}]]
  <2>2. ASSUME NEW s \in Small(D, m) PROVE g[s] \in Nat /\ SumsAt(g, fun, s)
    <3>1. CASE s = {}
      <4>1. s \in Small(D, m - 1)
        BY <2>0, <3>1, FS_EmptySet DEF Small
      <4>2. g[s] = f[s] /\ f[s] \in Nat /\ f[s] = 0
        BY <2>1, <3>1, <4>1 DEF SumsAt
      <4>3. QED
        BY <3>1, <4>2 DEF SumsAt
    <3>2. CASE s # {}
      <4> DEFINE less == s \ {AnyOf(s)}
      <4>1. AnyOf(s) \in s /\ less \in Small(D, m - 1) /\ less \in Small(D, m)
        BY <2>0, <3>2, SmallSets
      <4>2. fun[AnyOf(s)] \in Nat /\ f[less] \in Nat /\ g[less] = f[less]
        BY <4>1 DEF Small
      <4>3. g[s] = fun[AnyOf(s)] + f[less]
        BY <2>1, <3>2 DEF SumsAt
      <4> HIDE DEF less, g
      <4>4. g[s] \in Nat /\ g[s] = fun[AnyOf(s)] + g[less]
        BY <4>2, <4>3
      <4>5. QED
        BY <3>2, <4>4 DEF SumsAt, less
    <3>3. QED
      BY <3>1, <3>2
  <2>3. g \in [Small(D, m) -> Nat]
    BY <2>2
  <2> HIDE DEF g
  <2>4. Upto(m)
    BY <2>2, <2>3
  <2>5. QED
    BY <2>0, <2>4
<1>3. n \in T
  <2> HIDE DEF T, n
  <2> QED
    BY <1>0, <1>1, <1>2, Induction
<1>4. Small(D, n) = SUBSET D
  BY <1>0, FS_Subset DEF Small
<1>5. PICK f \in [SUBSET D -> Nat] : \A s \in SUBSET D : SumsAt(f, fun, s)
  BY <1>3, <1>4
<1>6. IsSum(f, fun)
  <2>1. f = [s \in SUBSET D |-> f[s]] /\ DOMAIN fun = D
    OBVIOUS
  <2>2. \A s \in SUBSET D : f[s] = IF s = {} THEN 0 ELSE LET x == CHOOSE x \in s : TRUE IN fun[x] + f[s \ {x}]
    BY <1>5, Zenon DEF SumsAt, AnyOf
  <2>3. QED
    BY <2>1, <2>2, Zenon DEF IsSum
<1>7. QED
  BY <1>6

\* A sum of numbers is positive if one of them is.
LEMMA SumPositive ==
  ASSUME NEW D, IsFiniteSet(D), NEW fun \in [D -> Nat]
  PROVE  /\ SumFunction(fun) \in Nat
         /\ SumFunction(fun) > 0 <=> \E x \in D : fun[x] > 0
<1> DEFINE h == CHOOSE iter : IsSum(iter, fun)
           n == Cardinality(D)
           Right(s) == h[s] \in Nat /\ (h[s] > 0 <=> \E x \in s : fun[x] > 0)
           T == {m \in 0 .. n : \A s \in Small(D, m) : Right(s)}
<1>0. n \in Nat
  BY FS_CardinalityType
<1>1. SumFunction(fun) = h[D]
  <2>1. SumFunction(fun) = h[DOMAIN fun]
    BY DEF SumFunction, SumFunctionOnSet, FoldFunctionOnSet, MapThenFoldSet, IsSum
  <2>2. QED
    BY <2>1
<1>2. IsSum(h, fun)
  BY SumsExist
<1> HIDE DEF h
<1>3. \A s \in SUBSET D : SumsAt(h, fun, s)
  <2>1. DOMAIN fun = D
    OBVIOUS
  <2>2. \A s \in SUBSET D : h[s] = IF s = {} THEN 0 ELSE LET x == CHOOSE x \in s : TRUE IN fun[x] + h[s \ {x}]
    BY <1>2, <2>1, Zenon DEF IsSum
  <2>3. QED
    BY <2>2, Zenon DEF SumsAt, AnyOf
<1>4. ASSUME NEW m \in Nat, \A s \in Small(D, m) : s = {} \/ (m > 0 /\ Right(s \ {AnyOf(s)})), NEW s \in Small(D, m)
      PROVE  Right(s)
  <2>1. s \in SUBSET D /\ SumsAt(h, fun, s)
    BY <1>3 DEF Small
  <2>2. CASE s = {}
    BY <2>1, <2>2 DEF SumsAt
  <2>3. CASE s # {}
    <3> DEFINE less == s \ {AnyOf(s)}
    <3>1. AnyOf(s) \in s /\ fun[AnyOf(s)] \in Nat
      BY <1>4, <2>1, <2>3, SmallSets
    <3>2. h[less] \in Nat /\ (h[less] > 0 <=> \E x \in less : fun[x] > 0)
      BY <1>4, <2>3
    <3>3. h[s] = fun[AnyOf(s)] + h[less]
      BY <2>1, <2>3 DEF SumsAt
    <3>4. (\E x \in s : fun[x] > 0) <=> fun[AnyOf(s)] > 0 \/ \E x \in less : fun[x] > 0
      BY <3>1
    <3> HIDE DEF less
    <3>5. QED
      BY <3>1, <3>2, <3>3, <3>4
  <2>4. QED
    BY <2>2, <2>3
<1>5. 0 \in T
  <2>1. \A s \in Small(D, 0) : s = {}
    <3>1. SUFFICES ASSUME NEW s \in Small(D, 0), s # {} PROVE FALSE
      OBVIOUS
    <3>2. 0 > 0
      BY <3>1, SmallSets
    <3>3. QED
      BY <3>2
  <2>2. QED
    BY <1>0, <1>4, <2>1
<1>6. ASSUME NEW m \in 1 .. n, m - 1 \in T PROVE m \in T
  <2>1. m \in Nat /\ m > 0 /\ m \in 0 .. n
    BY <1>0
  <2>2. \A s \in Small(D, m) : s = {} \/ (m > 0 /\ Right(s \ {AnyOf(s)}))
    BY <1>6, <2>1, SmallSets
  <2>3. QED
    BY <1>4, <2>1, <2>2
<1>7. n \in T
  <2> HIDE DEF T, n
  <2> QED
    BY <1>0, <1>5, <1>6, Induction
<1>8. D \in Small(D, n)
  BY <1>0 DEF Small
<1>9. QED
  BY <1>1, <1>7, <1>8
=============================================================================
