-------------------------- MODULE EventQueueProofs ---------------------------
(***************************************************************************)
(* The outbound queue for every number of hooks, events and sessions, and  *)
(* every bound.                                                            *)
(***************************************************************************)
EXTENDS EventQueue, SequenceLemmas

(* What is computed for each prefix of a list of events.                    *)
KeptOf(f, s, T) ==
  /\ f[0] = <<>> /\ Kept(s, T) = f[Len(s)]
  /\ \A i \in 1 .. Len(s) : f[i] = IF s[i] \in T THEN Append(f[i - 1], s[i]) ELSE f[i - 1]

LEMMA KeptByPrefix ==
  ASSUME NEW S, NEW s \in Seq(S), NEW T
  PROVE  \E f \in [0 .. Len(s) -> Seq(S)] : KeptOf(f, s, T)
<1> DEFINE n         == Len(s)
           Next1(p)  == IF s[p[1]] \in T THEN Append(p[2], s[p[1]]) ELSE p[2]
           step      == [p \in (1 .. n) \X Seq(S) |-> Next1(p)]
           Is(f)     == f = [i \in 0 .. n |->
                               IF i = 0 THEN <<>>
                               ELSE IF s[i] \in T THEN Append(f[i - 1], s[i]) ELSE f[i - 1]]
<1>1. n \in Nat /\ \A i \in 1 .. n : s[i] \in S
  OBVIOUS
<1>2. step \in [(1 .. n) \X Seq(S) -> Seq(S)]
  <2>1. ASSUME NEW p \in (1 .. n) \X Seq(S) PROVE Next1(p) \in Seq(S)
    BY <1>1
  <2>2. QED
    BY <2>1
<1>3. PICK f \in [0 .. n -> Seq(S)] :
        f[0] = <<>> /\ \A i \in 1 .. n : f[i] = step[<<i, f[i - 1]>>]
  <2> DEFINE A == Seq(S)
             first == <<>>
  <2>1. first \in A /\ step \in [(1 .. n) \X A -> A] /\ n \in Nat
    BY <1>1, <1>2, EmptySeq
  <2> HIDE DEF step, n, A, first
  <2>2. \E f \in [0 .. n -> A] : Computes(f, n, first, step)
    BY <2>1, Recursion
  <2>3. QED
    BY <2>2, Zenon DEF A, first, Computes
<1>4. \A i \in 1 .. n : f[i] = IF s[i] \in T THEN Append(f[i - 1], s[i]) ELSE f[i - 1]
  <2>1. ASSUME NEW i \in 1 .. n
        PROVE  f[i] = IF s[i] \in T THEN Append(f[i - 1], s[i]) ELSE f[i - 1]
    <3>1. f[i - 1] \in Seq(S)
      BY <1>1
    <3>2. step[<<i, f[i - 1]>>] = Next1(<<i, f[i - 1]>>)
      BY <3>1
    <3>3. QED
      BY <1>3, <3>2
  <2>2. QED
    BY <2>1
<1>5. Is(f)
  <2>1. \A i \in 0 .. n : i = 0 \/ i \in 1 .. n
    BY <1>1
  <2>2. \A i \in 0 .. n : f[i] = IF i = 0 THEN <<>>
                                 ELSE IF s[i] \in T THEN Append(f[i - 1], s[i]) ELSE f[i - 1]
    BY <1>3, <1>4, <2>1
  <2>3. QED
    BY <2>2, Zenon
<1>6. Kept(s, T) = (CHOOSE g : Is(g))[n]
  BY Zenon DEF Kept
<1> DEFINE g == CHOOSE h : Is(h)
<1>7. Is(g)
  BY <1>5
<1> HIDE DEF g
<1>8. /\ DOMAIN g = 0 .. n /\ g[0] = <<>>
      /\ \A i \in 1 .. n : g[i] = IF s[i] \in T THEN Append(g[i - 1], s[i]) ELSE g[i - 1]
  <2>1. /\ DOMAIN g = 0 .. n
        /\ \A i \in 0 .. n : g[i] = IF i = 0 THEN <<>>
                                    ELSE IF s[i] \in T THEN Append(g[i - 1], s[i]) ELSE g[i - 1]
    BY <1>7, Zenon
  <2>2. \A i \in 1 .. n : i \in 0 .. n /\ i # 0
    BY <1>1
  <2>3. 0 \in 0 .. n
    BY <1>1
  <2>4. QED
    BY <2>1, <2>2, <2>3
<1>9. \A k \in 0 .. n : g[k] = f[k]
  <2> DEFINE U == {k \in Nat : g[k] = f[k]}
  <2>1. 0 \in U /\ \A k \in 1 .. n : k - 1 \in U => k \in U
    BY <1>3, <1>4, <1>8
  <2>2. ASSUME NEW k \in 0 .. n PROVE k \in U
    <3>1. k \in Nat /\ \A i \in 1 .. k : i \in 1 .. n
      BY <1>1
    <3> HIDE DEF U
    <3>2. QED
      BY <2>1, <3>1, Induction
  <2>3. QED
    BY <2>2
<1>10. Kept(s, T) = f[n]
  <2>1. n \in 0 .. n
    BY <1>1
  <2>2. Kept(s, T) = g[n]
    BY <1>6, Zenon DEF g
  <2>3. QED
    BY <1>9, <2>1, <2>2
<1>11. QED
  BY <1>3, <1>4, <1>10 DEF KeptOf
NewOf(f, b, known) ==
  /\ f[0] = <<>> /\ New(b, known) = f[Len(b)]
  /\ \A i \in 1 .. Len(b) : f[i] = IF IdOf[b[i]] \in known \cup Ids(ToSet(f[i - 1])) THEN f[i - 1]
                                   ELSE Append(f[i - 1], b[i])

LEMMA NewByPrefix ==
  ASSUME NEW S, NEW b \in Seq(S), NEW known
  PROVE  \E f \in [0 .. Len(b) -> Seq(S)] : NewOf(f, b, known)
<1> DEFINE n         == Len(b)
           Next1(p)  == IF IdOf[b[p[1]]] \in known \cup Ids(ToSet(p[2])) THEN p[2] ELSE Append(p[2], b[p[1]])
           step      == [p \in (1 .. n) \X Seq(S) |-> Next1(p)]
           Is(f)     == f = [i \in 0 .. n |->
                               IF i = 0 THEN <<>>
                               ELSE IF IdOf[b[i]] \in known \cup Ids(ToSet(f[i - 1])) THEN f[i - 1] ELSE Append(f[i - 1], b[i])]
<1>1. n \in Nat /\ \A i \in 1 .. n : b[i] \in S
  OBVIOUS
<1>2. step \in [(1 .. n) \X Seq(S) -> Seq(S)]
  <2>1. ASSUME NEW p \in (1 .. n) \X Seq(S) PROVE Next1(p) \in Seq(S)
    BY <1>1
  <2>2. QED
    BY <2>1
<1>3. PICK f \in [0 .. n -> Seq(S)] :
        f[0] = <<>> /\ \A i \in 1 .. n : f[i] = step[<<i, f[i - 1]>>]
  <2> DEFINE A == Seq(S)
             first == <<>>
  <2>1. first \in A /\ step \in [(1 .. n) \X A -> A] /\ n \in Nat
    BY <1>1, <1>2, EmptySeq
  <2> HIDE DEF step, n, A, first
  <2>2. \E f \in [0 .. n -> A] : Computes(f, n, first, step)
    BY <2>1, Recursion
  <2>3. QED
    BY <2>2, Zenon DEF A, first, Computes
<1>4. \A i \in 1 .. n : f[i] = IF IdOf[b[i]] \in known \cup Ids(ToSet(f[i - 1])) THEN f[i - 1] ELSE Append(f[i - 1], b[i])
  <2>1. ASSUME NEW i \in 1 .. n
        PROVE  f[i] = IF IdOf[b[i]] \in known \cup Ids(ToSet(f[i - 1])) THEN f[i - 1] ELSE Append(f[i - 1], b[i])
    <3>1. f[i - 1] \in Seq(S)
      BY <1>1
    <3>2. step[<<i, f[i - 1]>>] = Next1(<<i, f[i - 1]>>)
      BY <3>1
    <3>3. QED
      BY <1>3, <3>2
  <2>2. QED
    BY <2>1
<1>5. Is(f)
  <2>1. \A i \in 0 .. n : i = 0 \/ i \in 1 .. n
    BY <1>1
  <2>2. \A i \in 0 .. n : f[i] = IF i = 0 THEN <<>>
                                 ELSE IF IdOf[b[i]] \in known \cup Ids(ToSet(f[i - 1])) THEN f[i - 1] ELSE Append(f[i - 1], b[i])
    BY <1>3, <1>4, <2>1
  <2>3. QED
    BY <2>2, Zenon
<1>6. New(b, known) = (CHOOSE g : Is(g))[n]
  BY Zenon DEF New
<1> DEFINE g == CHOOSE h : Is(h)
<1>7. Is(g)
  BY <1>5
<1> HIDE DEF g
<1>8. /\ DOMAIN g = 0 .. n /\ g[0] = <<>>
      /\ \A i \in 1 .. n : g[i] = IF IdOf[b[i]] \in known \cup Ids(ToSet(g[i - 1])) THEN g[i - 1] ELSE Append(g[i - 1], b[i])
  <2>1. /\ DOMAIN g = 0 .. n
        /\ \A i \in 0 .. n : g[i] = IF i = 0 THEN <<>>
                                    ELSE IF IdOf[b[i]] \in known \cup Ids(ToSet(g[i - 1])) THEN g[i - 1] ELSE Append(g[i - 1], b[i])
    BY <1>7, Zenon
  <2>2. \A i \in 1 .. n : i \in 0 .. n /\ i # 0
    BY <1>1
  <2>3. 0 \in 0 .. n
    BY <1>1
  <2>4. QED
    BY <2>1, <2>2, <2>3
<1>9. \A k \in 0 .. n : g[k] = f[k]
  <2> DEFINE U == {k \in Nat : g[k] = f[k]}
  <2>1. 0 \in U /\ \A k \in 1 .. n : k - 1 \in U => k \in U
    <3>1. ASSUME NEW k \in 1 .. n, k - 1 \in U PROVE k \in U
      <4>1. g[k - 1] = f[k - 1] /\ k \in Nat
        BY <1>1, <3>1
      <4>2. g[k] = f[k]
        BY <1>4, <1>8, <4>1
      <4>3. QED
        BY <4>1, <4>2
    <3>2. QED
      BY <1>3, <1>8, <3>1
  <2>2. ASSUME NEW k \in 0 .. n PROVE k \in U
    <3>1. k \in Nat /\ \A i \in 1 .. k : i \in 1 .. n
      BY <1>1
    <3> HIDE DEF U
    <3>2. QED
      BY <2>1, <3>1, Induction
  <2>3. QED
    BY <2>2
<1>10. New(b, known) = f[n]
  <2>1. n \in 0 .. n
    BY <1>1
  <2>2. New(b, known) = g[n]
    BY <1>6, Zenon DEF g
  <2>3. QED
    BY <1>9, <2>1, <2>2
<1>11. QED
  BY <1>3, <1>4, <1>10 DEF NewOf

(* What a filter keeps of a list: the entries asked for, in their order.    *)
LEMMA KeptFacts ==
  ASSUME NEW S, NEW s \in Seq(S), NEW T
  PROVE  /\ Kept(s, T) \in Seq(S) /\ Subsequence(Kept(s, T), s)
         /\ \A x : x \in ToSet(Kept(s, T)) <=> x \in ToSet(s) /\ x \in T
<1>0. PICK f \in [0 .. Len(s) -> Seq(S)] : KeptOf(f, s, T)
  BY KeptByPrefix
<1>1. /\ f[0] = <<>> /\ Kept(s, T) = f[Len(s)]
      /\ \A i \in 1 .. Len(s) : f[i] = IF s[i] \in T THEN Append(f[i - 1], s[i]) ELSE f[i - 1]
  BY <1>0 DEF KeptOf
<1> DEFINE n      == Len(s)
           Lists(k) == \E m \in [1 .. Len(f[k]) -> 1 .. k] : Picks(m, f[k], s)
           Has(k)   == \A x : x \in ToSet(f[k]) <=> x \in T /\ \E i \in 1 .. k : s[i] = x
           U        == {k \in 0 .. n : Lists(k) /\ Has(k)}
<1>2. n \in Nat /\ \A i \in 1 .. n : s[i] \in S
  OBVIOUS
<1>3. 0 \in U
  <2>1. Len(f[0]) = 0 /\ ToSet(f[0]) = {}
    BY <1>1 DEF ToSet
  <2>2. Has(0)
    BY <2>1
  <2>3. Lists(0)
    <3> DEFINE m == [i \in 1 .. 0 |-> 0]
    <3>1. m \in [1 .. Len(f[0]) -> 1 .. 0]
      BY <2>1
    <3> HIDE DEF m
    <3>2. QED
      BY <2>1, <3>1 DEF Picks
  <2>4. QED
    BY <1>2, <2>2, <2>3
<1>4. ASSUME NEW k \in 1 .. n, k - 1 \in U PROVE k \in U
  <2>1. k - 1 \in 0 .. n /\ f[k - 1] \in Seq(S) /\ s[k] \in S /\ k \in 0 .. n
    BY <1>2
  <2>2. \A i \in 1 .. k : i \in 1 .. k - 1 \/ i = k
    BY <1>2
  <2>3. Lists(k - 1) /\ Has(k - 1)
    BY <1>4
  <2>4. CASE s[k] \notin T
    <3>1. f[k] = f[k - 1]
      BY <1>1, <2>4
    <3>2. Has(k)
      BY <2>2, <2>3, <2>4, <3>1
    <3>3. PICK m \in [1 .. Len(f[k - 1]) -> 1 .. k - 1] : Picks(m, f[k - 1], s)
      BY <2>3
    <3>4. m \in [1 .. Len(f[k]) -> 1 .. k]
      BY <1>2, <3>1
    <3>5. Lists(k)
      BY <3>1, <3>3, <3>4
    <3>6. QED
      BY <2>1, <3>2, <3>5
  <2>5. CASE s[k] \in T
    <3>1. f[k] = Append(f[k - 1], s[k])
      BY <1>1, <2>5
    <3>2. ToSet(f[k]) = ToSet(f[k - 1]) \cup {s[k]}
      BY <2>1, <3>1, ElementsOfAppend
    <3>3. Has(k)
      BY <2>2, <2>3, <2>5, <3>2
    <3>4. PICK m \in [1 .. Len(f[k - 1]) -> 1 .. k - 1] : Picks(m, f[k - 1], s)
      BY <2>3
    <3>5. Lists(k)
      <4> DEFINE t == f[k - 1]
      <4>1. t \in Seq(S) /\ m \in [1 .. Len(t) -> 1 .. k - 1] /\ Picks(m, t, s)
        BY <2>1, <3>4
      <4> HIDE DEF t
      <4>2. \E l \in [1 .. Len(Append(t, s[k])) -> 1 .. k] : Picks(l, Append(t, s[k]), s)
        BY <4>1, SubsequenceAppend
      <4>3. QED
        BY <3>1, <4>2 DEF t
    <3>6. QED
      BY <2>1, <3>3, <3>5
  <2>6. QED
    BY <2>4, <2>5
<1>5. n \in U
  <2> HIDE DEF U
  <2> QED
    BY <1>2, <1>3, <1>4, Induction
<1>6. Lists(n) /\ Has(n)
  BY <1>5
<1>7. Subsequence(Kept(s, T), s)
  BY <1>1, <1>6 DEF Subsequence
<1>8. \A x : x \in ToSet(s) <=> \E i \in 1 .. n : s[i] = x
  BY Elements
<1>9. QED
  BY <1>1, <1>2, <1>6, <1>7, <1>8

\* No two of the events of T carry one eventId.
Distinct(T) == \A e, f \in T : IdOf[e] = IdOf[f] => e = f

(* What enqueue finds new: events whose ids are not known, each id once.    *)
LEMMA NewFacts ==
  ASSUME NEW S, NEW b \in Seq(S), NEW known
  PROVE  /\ New(b, known) \in Seq(S) /\ IsInjective(New(b, known))
         /\ ToSet(New(b, known)) \subseteq ToSet(b) /\ Len(New(b, known)) <= Len(b)
         /\ Distinct(ToSet(New(b, known)))
         /\ \A e \in ToSet(New(b, known)) : IdOf[e] \notin known
<1>0. PICK f \in [0 .. Len(b) -> Seq(S)] : NewOf(f, b, known)
  BY NewByPrefix
<1>1. /\ f[0] = <<>> /\ New(b, known) = f[Len(b)]
      /\ \A i \in 1 .. Len(b) : f[i] = IF IdOf[b[i]] \in known \cup Ids(ToSet(f[i - 1])) THEN f[i - 1]
                                       ELSE Append(f[i - 1], b[i])
  BY <1>0 DEF NewOf
<1> DEFINE n      == Len(b)
           Has(k) == /\ Distinct(ToSet(f[k]))
                     /\ \A x \in ToSet(f[k]) : IdOf[x] \notin known /\ x \in ToSet(b)
           U      == {k \in 0 .. n : IsInjective(f[k]) /\ Has(k) /\ Len(f[k]) <= k}
<1>2. n \in Nat /\ \A i \in 1 .. n : b[i] \in S /\ b[i] \in ToSet(b)
  BY Elements
<1>3. 0 \in U
  <2>1. Len(f[0]) = 0 /\ ToSet(f[0]) = {} /\ IsInjective(f[0])
    BY <1>1 DEF ToSet, IsInjective
  <2>2. Has(0)
    BY <2>1 DEF Distinct
  <2>3. QED
    BY <1>2, <2>1, <2>2
<1>4. ASSUME NEW k \in 1 .. n, k - 1 \in U PROVE k \in U
  <2>1. k - 1 \in 0 .. n /\ f[k - 1] \in Seq(S) /\ b[k] \in S /\ k \in 0 .. n /\ b[k] \in ToSet(b)
    BY <1>2
  <2>3. IsInjective(f[k - 1]) /\ Has(k - 1) /\ Len(f[k - 1]) <= k - 1 /\ Len(f[k - 1]) \in Nat
    BY <1>4, <2>1
  <2>4. CASE IdOf[b[k]] \in known \cup Ids(ToSet(f[k - 1]))
    <3>1. f[k] = f[k - 1]
      BY <1>1, <2>4
    <3>2. Len(f[k]) <= k
      BY <1>2, <2>3, <3>1
    <3>3. QED
      BY <2>1, <2>3, <3>1, <3>2
  <2>5. CASE IdOf[b[k]] \notin known \cup Ids(ToSet(f[k - 1]))
    <3>1. f[k] = Append(f[k - 1], b[k])
      BY <1>1, <2>5
    <3>2. ToSet(f[k]) = ToSet(f[k - 1]) \cup {b[k]}
      BY <2>1, <3>1, ElementsOfAppend
    <3>3. \A x \in ToSet(f[k - 1]) : IdOf[x] # IdOf[b[k]]
      BY <2>5 DEF Ids
    <3>4. Distinct(ToSet(f[k]))
      BY <2>3, <3>2, <3>3 DEF Distinct
    <3>5. Has(k)
      BY <2>1, <2>3, <2>5, <3>2, <3>4
    <3>6. b[k] \notin ToSet(f[k - 1])
      BY <3>3
    <3>7. IsInjective(f[k])
      BY <2>1, <2>3, <3>1, <3>6, InjectiveAppend
    <3>8. Len(f[k]) <= k
      <4>1. Len(f[k]) = Len(f[k - 1]) + 1
        BY <2>1, <3>1
      <4>2. QED
        BY <1>2, <2>3, <4>1
    <3>9. QED
      BY <2>1, <3>5, <3>7, <3>8
  <2>6. QED
    BY <2>4, <2>5
<1>5. n \in U
  <2> HIDE DEF U
  <2> QED
    BY <1>2, <1>3, <1>4, Induction
<1>6. IsInjective(f[n]) /\ Has(n) /\ Len(f[n]) <= n
  BY <1>5
<1>7. QED
  BY <1>1, <1>2, <1>6

(* Of a filter by session: the records of the session, and the others.      *)
LEMMA SessionFacts ==
  ASSUME NEW s \in Seq(Event), NEW x
  PROVE  /\ OfSession(x, s) \in Seq(Event) /\ NotOfSession(x, s) \in Seq(Event)
         /\ Subsequence(OfSession(x, s), s) /\ Subsequence(NotOfSession(x, s), s)
         /\ \A e : e \in ToSet(OfSession(x, s)) <=> e \in ToSet(s) /\ SessionOf[e] = x
         /\ \A e : e \in ToSet(NotOfSession(x, s)) <=> e \in ToSet(s) /\ SessionOf[e] # x
<1>1. /\ OfSession(x, s) \in Seq(Event) /\ Subsequence(OfSession(x, s), s)
      /\ \A e : e \in ToSet(OfSession(x, s)) <=> e \in ToSet(s) /\ SessionOf[e] = x
  <2> DEFINE T == {e \in ToSet(s) : SessionOf[e] = x}
  <2>1. \A e : e \in T <=> e \in ToSet(s) /\ SessionOf[e] = x
    OBVIOUS
  <2>2. OfSession(x, s) = Kept(s, T)
    BY DEF OfSession
  <2> HIDE DEF T
  <2>3. QED
    BY <2>1, <2>2, KeptFacts
<1>2. /\ NotOfSession(x, s) \in Seq(Event) /\ Subsequence(NotOfSession(x, s), s)
      /\ \A e : e \in ToSet(NotOfSession(x, s)) <=> e \in ToSet(s) /\ SessionOf[e] # x
  <2> DEFINE T == {e \in ToSet(s) : SessionOf[e] # x}
  <2>1. \A e : e \in T <=> e \in ToSet(s) /\ SessionOf[e] # x
    OBVIOUS
  <2>2. NotOfSession(x, s) = Kept(s, T)
    BY DEF NotOfSession
  <2> HIDE DEF T
  <2>3. QED
    BY <2>1, <2>2, KeptFacts
<1>3. QED
  BY <1>1, <1>2

\* a and b are what s is cut into.
Parts(a, b, s) ==
  /\ a \in Seq(Event) /\ b \in Seq(Event) /\ Len(a) + Len(b) = Len(s)
  /\ \A i \in 1 .. Len(a) : a[i] = s[i]
  /\ \A i \in 1 .. Len(b) : b[i] = s[Len(a) + i]
  /\ ToSet(s) = ToSet(a) \cup ToSet(b)
  /\ IsInjective(s) => IsInjective(a) /\ IsInjective(b) /\ ToSet(a) \cap ToSet(b) = {}

LEMMA PartsAt ==
  ASSUME NEW s \in Seq(Event), NEW k \in 0 .. Len(s)
  PROVE  Parts(SubSeq(s, 1, k), SubSeq(s, k + 1, Len(s)), s)
<1>1. Len(s) \in Nat
  OBVIOUS
<1> DEFINE a == SubSeq(s, 1, k)
           b == SubSeq(s, k + 1, Len(s))
<1>2. /\ a \in Seq(Event) /\ Len(a) = k /\ \A i \in 1 .. k : a[i] = s[i]
      /\ b \in Seq(Event) /\ Len(b) = Len(s) - k /\ \A i \in 1 .. Len(s) - k : b[i] = s[k + i]
      /\ ToSet(s) = ToSet(a) \cup ToSet(b)
      /\ IsInjective(s) => IsInjective(a) /\ IsInjective(b) /\ ToSet(a) \cap ToSet(b) = {}
  BY CutInTwo
<1> HIDE DEF a, b
<1>3. Len(a) + Len(b) = Len(s)
  BY <1>1, <1>2
<1>4. QED
  BY <1>2, <1>3 DEF Parts, a, b

LEMMA OldestParts ==
  ASSUME NEW s \in Seq(Event), NEW n \in Nat
  PROVE  /\ Parts(Oldest(n, s), SubSeq(s, n + 1, Len(s)), s)
         /\ Len(Oldest(n, s)) = IF Len(s) > n THEN n ELSE Len(s)
<1>1. Len(s) \in Nat
  OBVIOUS
<1>2. CASE Len(s) > n
  <2>1. n \in 0 .. Len(s)
    BY <1>1, <1>2
  <2>2. Oldest(n, s) = SubSeq(s, 1, n)
    BY <1>2, Zenon DEF Oldest
  <2>3. Len(SubSeq(s, 1, n)) = n
    BY <2>1, CutInTwo
  <2>4. QED
    BY <1>2, <2>1, <2>2, <2>3, PartsAt
<1>3. CASE ~(Len(s) > n)
  <2>1. Len(s) \in 0 .. Len(s) /\ Len(s) < n + 1
    BY <1>1, <1>3
  <2>2. Oldest(n, s) = SubSeq(s, 1, Len(s)) /\ SubSeq(s, 1, Len(s)) = s
    BY <1>3, SubSeqFull, Zenon DEF Oldest
  <2>3. SubSeq(s, n + 1, Len(s)) = <<>> /\ SubSeq(s, Len(s) + 1, Len(s)) = <<>>
    BY <1>1, <2>1, SubSeqEmpty
  <2>4. Parts(SubSeq(s, 1, Len(s)), SubSeq(s, Len(s) + 1, Len(s)), s)
    BY <2>1, PartsAt
  <2>5. QED
    BY <1>3, <2>2, <2>3, <2>4
<1>4. QED
  BY <1>2, <1>3

LEMMA NewestParts ==
  ASSUME NEW s \in Seq(Event), NEW n \in Nat
  PROVE  /\ Parts(AllButNewest(n, s), Newest(n, s), s)
         /\ Len(Newest(n, s)) = IF Len(s) > n THEN n ELSE Len(s)
<1>1. Len(s) \in Nat
  OBVIOUS
<1>2. CASE Len(s) > n
  <2> DEFINE k == Len(s) - n
  <2>1. k \in 0 .. Len(s) /\ Len(s) - k = n
    BY <1>1, <1>2
  <2>2. Newest(n, s) = SubSeq(s, k + 1, Len(s)) /\ AllButNewest(n, s) = SubSeq(s, 1, k)
    BY <1>2, Zenon DEF Newest, AllButNewest
  <2> HIDE DEF k
  <2>3. Len(SubSeq(s, k + 1, Len(s))) = n
    BY <2>1, CutInTwo
  <2>4. QED
    BY <1>2, <2>1, <2>2, <2>3, PartsAt
<1>3. CASE ~(Len(s) > n)
  <2>1. 0 \in 0 .. Len(s) /\ Len(s) - n < 1 /\ Len(s) - n \in Int
    BY <1>1, <1>3
  <2>2. Newest(n, s) = SubSeq(s, 1, Len(s)) /\ SubSeq(s, 1, Len(s)) = s
    BY <1>3, SubSeqFull, Zenon DEF Newest
  <2>3. AllButNewest(n, s) = <<>> /\ SubSeq(s, 1, 0) = <<>>
    BY <2>1, SubSeqEmpty DEF AllButNewest
  <2>4. Parts(SubSeq(s, 1, 0), SubSeq(s, 0 + 1, Len(s)), s)
    BY <2>1, PartsAt
  <2>5. SubSeq(s, 0 + 1, Len(s)) = SubSeq(s, 1, Len(s))
    OBVIOUS
  <2>6. Parts(AllButNewest(n, s), Newest(n, s), s) /\ Newest(n, s) = s
    BY <2>2, <2>3, <2>4, <2>5, Zenon
  <2>7. QED
    BY <1>3, <2>6
<1>4. QED
  BY <1>2, <1>3
-----------------------------------------------------------------------------
(* The order in which events reach the file, and lists that follow it.     *)

OlderIn(o, e, f) == \E i, j \in DOMAIN o : i < j /\ o[i] = e /\ o[j] = f

Before(o, a, b) ==
  \A e \in ToSet(a), f \in ToSet(b) : SessionOf[e] = SessionOf[f] => OlderIn(o, e, f)

\* Within a session, s is in the order o.
Sorted(o, s) ==
  \A i, j \in DOMAIN s : i < j /\ SessionOf[s[i]] = SessionOf[s[j]] => OlderIn(o, s[i], s[j])

LEMMA OlderStays ==
  ASSUME NEW o \in Seq(Event), NEW part \in Seq(Event)
  PROVE  /\ \A e, f : OlderIn(o, e, f) => OlderIn(o \o part, e, f)
         /\ \A e \in ToSet(o), f \in ToSet(part) : OlderIn(o \o part, e, f)
<1> DEFINE c == o \o part
<1>1. /\ Len(o) \in Nat /\ Len(part) \in Nat /\ Len(c) = Len(o) + Len(part) /\ DOMAIN c = 1 .. Len(c)
      /\ \A i \in 1 .. Len(o) : i \in 1 .. Len(c) /\ c[i] = o[i]
      /\ \A i \in 1 .. Len(part) : Len(o) + i \in 1 .. Len(c) /\ c[Len(o) + i] = part[i]
  OBVIOUS
<1> HIDE DEF c
<1>2. ASSUME NEW e, NEW f, OlderIn(o, e, f) PROVE OlderIn(c, e, f)
  <2>1. PICK i, j \in 1 .. Len(o) : i < j /\ o[i] = e /\ o[j] = f
    BY <1>2 DEF OlderIn
  <2>2. QED
    BY <1>1, <2>1 DEF OlderIn
<1>3. ASSUME NEW e \in ToSet(o), NEW f \in ToSet(part) PROVE OlderIn(c, e, f)
  <2>1. PICK i \in 1 .. Len(o) : o[i] = e
    BY Elements
  <2>2. PICK j \in 1 .. Len(part) : part[j] = f
    BY Elements
  <2>3. i < Len(o) + j
    BY <1>1
  <2>4. QED
    BY <1>1, <2>1, <2>2, <2>3 DEF OlderIn
<1>4. QED
  BY <1>2, <1>3 DEF c

LEMMA SortedStays ==
  ASSUME NEW o \in Seq(Event), NEW part \in Seq(Event), NEW s \in Seq(Event), Sorted(o, s)
  PROVE  Sorted(o \o part, s)
BY OlderStays DEF Sorted

LEMMA SortedAtEnd ==
  ASSUME NEW o \in Seq(Event), NEW part \in Seq(Event)
  PROVE  Sorted(o \o part, part)
<1>1. /\ Len(o) \in Nat /\ Len(part) \in Nat /\ DOMAIN (o \o part) = 1 .. Len(o) + Len(part)
      /\ \A i \in 1 .. Len(part) : /\ Len(o) + i \in 1 .. Len(o) + Len(part)
                                   /\ (o \o part)[Len(o) + i] = part[i]
  OBVIOUS
<1>2. ASSUME NEW i \in 1 .. Len(part), NEW j \in 1 .. Len(part), i < j
      PROVE  OlderIn(o \o part, part[i], part[j])
  <2>1. Len(o) + i < Len(o) + j
    BY <1>1, <1>2
  <2>2. QED
    BY <1>1, <2>1 DEF OlderIn
<1>3. DOMAIN part = 1 .. Len(part)
  OBVIOUS
<1>4. QED
  BY <1>2, <1>3 DEF Sorted

LEMMA SortedConcat ==
  ASSUME NEW o, NEW s \in Seq(Event), NEW t \in Seq(Event),
         Sorted(o, s), Sorted(o, t), Before(o, s, t)
  PROVE  Sorted(o, s \o t)
<1> DEFINE c == s \o t
           In(i, j) == i < j /\ SessionOf[c[i]] = SessionOf[c[j]]
<1>1. /\ Len(s) \in Nat /\ Len(t) \in Nat /\ DOMAIN c = 1 .. Len(s) + Len(t)
      /\ DOMAIN s = 1 .. Len(s) /\ DOMAIN t = 1 .. Len(t)
      /\ \A i \in 1 .. Len(s) : c[i] = s[i]
      /\ \A i \in 1 .. Len(s) + Len(t) :
           i \notin 1 .. Len(s) => i - Len(s) \in 1 .. Len(t) /\ c[i] = t[i - Len(s)]
  OBVIOUS
<1> HIDE DEF c
<1>2. ASSUME NEW i \in DOMAIN c, NEW j \in DOMAIN c, i < j, SessionOf[c[i]] = SessionOf[c[j]]
      PROVE  OlderIn(o, c[i], c[j])
  <2>1. CASE j \in 1 .. Len(s)
    <3>1. i \in 1 .. Len(s)
      BY <1>1, <1>2, <2>1
    <3>2. QED
      BY <1>1, <1>2, <2>1, <3>1 DEF Sorted
  <2>2. CASE i \in 1 .. Len(s) /\ j \notin 1 .. Len(s)
    <3>1. c[i] \in ToSet(s) /\ c[j] \in ToSet(t)
      BY <1>1, <2>2, Elements
    <3>2. QED
      BY <1>2, <3>1 DEF Before
  <2>3. CASE i \notin 1 .. Len(s) /\ j \notin 1 .. Len(s)
    <3>1. i - Len(s) < j - Len(s)
      BY <1>1, <1>2
    <3>2. QED
      BY <1>1, <1>2, <2>3, <3>1 DEF Sorted
  <2>4. QED
    BY <2>1, <2>2, <2>3
<1>3. QED
  BY <1>2 DEF Sorted, c

LEMMA SortedParts ==
  ASSUME NEW o, NEW s \in Seq(Event), Sorted(o, s), NEW a, NEW b, Parts(a, b, s)
  PROVE  Sorted(o, a) /\ Sorted(o, b) /\ Before(o, a, b)
<1>1. /\ Len(a) \in Nat /\ Len(b) \in Nat /\ Len(s) = Len(a) + Len(b)
      /\ DOMAIN a = 1 .. Len(a) /\ DOMAIN b = 1 .. Len(b) /\ DOMAIN s = 1 .. Len(s)
      /\ \A i \in 1 .. Len(a) : i \in 1 .. Len(s) /\ a[i] = s[i]
      /\ \A i \in 1 .. Len(b) : Len(a) + i \in 1 .. Len(s) /\ b[i] = s[Len(a) + i]
  BY DEF Parts
<1>2. Sorted(o, a)
  BY <1>1 DEF Sorted
<1>3. ASSUME NEW i \in 1 .. Len(b), NEW j \in 1 .. Len(b), i < j, SessionOf[b[i]] = SessionOf[b[j]]
      PROVE  OlderIn(o, b[i], b[j])
  <2>1. Len(a) + i < Len(a) + j
    BY <1>1, <1>3
  <2>2. QED
    BY <1>1, <1>3, <2>1 DEF Sorted
<1>4. ASSUME NEW e \in ToSet(a), NEW f \in ToSet(b), SessionOf[e] = SessionOf[f]
      PROVE  OlderIn(o, e, f)
  <2>1. PICK i \in 1 .. Len(a) : a[i] = e
    BY Elements DEF Parts
  <2>2. PICK j \in 1 .. Len(b) : b[j] = f
    BY Elements DEF Parts
  <2>3. i < Len(a) + j
    BY <1>1
  <2>4. QED
    BY <1>1, <1>4, <2>1, <2>2, <2>3 DEF Sorted
<1>5. QED
  BY <1>1, <1>2, <1>3, <1>4 DEF Sorted, Before

LEMMA SortedSubsequence ==
  ASSUME NEW o, NEW s \in Seq(Event), Sorted(o, s), NEW t \in Seq(Event), Subsequence(t, s)
  PROVE  Sorted(o, t)
<1>1. PICK m \in [1 .. Len(t) -> 1 .. Len(s)] : Picks(m, t, s)
  BY DEF Subsequence
<1>2. DOMAIN t = 1 .. Len(t) /\ DOMAIN s = 1 .. Len(s)
  OBVIOUS
<1>3. QED
  BY <1>1, <1>2 DEF Sorted, Picks
-----------------------------------------------------------------------------
(* What a flush holds: todo, group and failed of one hook.                 *)

OtherSessions(a, b) == \A e \in ToSet(a), f \in ToSet(b) : SessionOf[e] # SessionOf[f]

\* No record is in two of them, or in one of them twice; what waits is of
\* other sessions than what is sent or has failed; each is in the order o.
Lists(o, t, g, f) ==
  /\ IsInjective(t) /\ IsInjective(g) /\ IsInjective(f)
  /\ ToSet(g) \cap ToSet(f) = {}
  /\ OtherSessions(t, g) /\ OtherSessions(t, f)
  /\ \A d, e \in ToSet(g) : SessionOf[d] = SessionOf[e]
  /\ Sorted(o, t) /\ Sorted(o, g) /\ Sorted(o, f) /\ Before(o, f, g)

Held(t, g, f) == ToSet(t) \cup ToSet(g) \cup ToSet(f)

LEMMA NoElements ==
  /\ <<>> \in Seq(Event) /\ ToSet(<<>>) = {} /\ IsInjective(<<>>) /\ Len(<<>>) = 0
  /\ \A o : Sorted(o, <<>>)
<1>1. PICK z \in Seq(Event) : z = <<>>
  BY EmptySeq
<1>2. ToSet(z) = {} /\ DOMAIN z = {} /\ Len(z) = 0
  <2>1. ToSet(z) = {}
    BY <1>1, Elements
  <2>2. QED
    BY <1>1, <2>1
<1>3. IsInjective(z) /\ \A o : Sorted(o, z)
  BY <1>2 DEF Sorted, IsInjective
<1>4. QED
  BY <1>1, <1>2, <1>3

LEMMA NothingHeld ==
  ASSUME NEW o PROVE Lists(o, <<>>, <<>>, <<>>) /\ Held(<<>>, <<>>, <<>>) = {}
BY NoElements DEF Lists, Held, OtherSessions, Before

LEMMA OnlyWaiting ==
  ASSUME NEW o, NEW t \in Seq(Event), IsInjective(t), Sorted(o, t)
  PROVE  Lists(o, t, <<>>, <<>>) /\ Held(t, <<>>, <<>>) = ToSet(t)
BY NoElements DEF Lists, Held, OtherSessions, Before

LEMMA ListsStay ==
  ASSUME NEW o \in Seq(Event), NEW part \in Seq(Event),
         NEW t \in Seq(Event), NEW g \in Seq(Event), NEW f \in Seq(Event), Lists(o, t, g, f)
  PROVE  Lists(o \o part, t, g, f)
BY SortedStays, OlderStays DEF Lists, Before

LEMMA ListsBegin ==
  ASSUME NEW o, NEW t \in Seq(Event), NEW f \in Seq(Event), NEW x, Lists(o, t, <<>>, f)
  PROVE  LET n == NotOfSession(x, t)
             g == OfSession(x, t)
         IN  /\ n \in Seq(Event) /\ g \in Seq(Event)
             /\ Lists(o, n, g, f) /\ Held(n, g, f) = Held(t, <<>>, f)
<1> DEFINE n == NotOfSession(x, t)
           g == OfSession(x, t)
<1>1. /\ n \in Seq(Event) /\ g \in Seq(Event) /\ Subsequence(n, t) /\ Subsequence(g, t)
      /\ \A e : e \in ToSet(g) <=> e \in ToSet(t) /\ SessionOf[e] = x
      /\ \A e : e \in ToSet(n) <=> e \in ToSet(t) /\ SessionOf[e] # x
  BY SessionFacts
<1> HIDE DEF n, g
<1>2. IsInjective(n) /\ IsInjective(g) /\ Sorted(o, n) /\ Sorted(o, g) /\ IsInjective(f) /\ Sorted(o, f)
  BY <1>1, SubsequenceFacts, SortedSubsequence DEF Lists
<1>3. OtherSessions(n, g) /\ OtherSessions(n, f)
  BY <1>1 DEF Lists, OtherSessions
<1>4. ToSet(g) \cap ToSet(f) = {} /\ Before(o, f, g)
  BY <1>1 DEF Lists, OtherSessions, Before
<1>5. Held(n, g, f) = Held(t, <<>>, f)
  BY <1>1, NoElements DEF Held
<1>6. \A d, e \in ToSet(g) : SessionOf[d] = SessionOf[e]
  BY <1>1
<1>7. QED
  BY <1>1, <1>2, <1>3, <1>4, <1>5, <1>6 DEF Lists, n, g

\* The group goes on with r once c was answered or not.
LEMMA ListsChunk ==
  ASSUME NEW o, NEW t \in Seq(Event), NEW g \in Seq(Event), NEW f \in Seq(Event),
         Lists(o, t, g, f), NEW c, NEW r, Parts(c, r, g), NEW e, e = f \o c
  PROVE  /\ Lists(o, t, r, f) /\ Lists(o, t, r, e)
         /\ ToSet(c) \cap Held(t, r, f) = {} /\ Held(t, g, f) = Held(t, r, f) \cup ToSet(c)
         /\ Held(t, r, e) = Held(t, g, f)
<1>1. /\ c \in Seq(Event) /\ r \in Seq(Event) /\ ToSet(g) = ToSet(c) \cup ToSet(r)
      /\ IsInjective(c) /\ IsInjective(r) /\ ToSet(c) \cap ToSet(r) = {}
  BY DEF Parts, Lists
<1>2. Sorted(o, c) /\ Sorted(o, r) /\ Before(o, c, r)
  BY SortedParts DEF Lists
<1>3. Before(o, f, c) /\ Before(o, f, r)
  BY <1>1 DEF Lists, Before
<1>4. IsInjective(f \o c) /\ Sorted(o, f \o c) /\ ToSet(f \o c) = ToSet(f) \cup ToSet(c)
  <2>1. ToSet(f) \cap ToSet(c) = {} /\ IsInjective(f) /\ Sorted(o, f)
    BY <1>1 DEF Lists
  <2>2. QED
    BY <1>1, <1>2, <1>3, <2>1, SortedConcat, InjectiveConcat, ElementsOfConcat
<1>5. Lists(o, t, r, f)
  BY <1>1, <1>2, <1>3 DEF Lists, OtherSessions
<1>6. Lists(o, t, r, f \o c)
  <2>1. Before(o, f \o c, r)
    BY <1>2, <1>3, <1>4 DEF Before
  <2>2. OtherSessions(t, f \o c) /\ ToSet(r) \cap ToSet(f \o c) = {}
    BY <1>1, <1>4 DEF Lists, OtherSessions
  <2>3. QED
    BY <1>4, <1>5, <2>1, <2>2 DEF Lists
<1>7. ToSet(c) \cap Held(t, r, f) = {}
  BY <1>1 DEF Lists, OtherSessions, Held
<1>8. QED
  BY <1>1, <1>4, <1>5, <1>6, <1>7 DEF Held

\* None of the group was answered.
LEMMA ListsRest ==
  ASSUME NEW o, NEW t \in Seq(Event), NEW g \in Seq(Event), NEW f \in Seq(Event), Lists(o, t, g, f)
  PROVE  Lists(o, t, <<>>, f \o g) /\ Held(t, <<>>, f \o g) = Held(t, g, f)
<1>1. PICK z : z = <<>>
  OBVIOUS
<1>2. PICK e : e = f \o g
  OBVIOUS
<1>3. Parts(g, z, g)
  BY <1>1, NoElements DEF Parts
<1>4. Lists(o, t, z, e)
  BY <1>2, <1>3, ListsChunk
<1>5. ToSet(e) = ToSet(f) \cup ToSet(g) /\ ToSet(z) = {}
  BY <1>1, <1>2, ElementsOfConcat, NoElements
<1>6. QED
  BY <1>1, <1>2, <1>4, <1>5 DEF Held

LEMMA ListsFail ==
  ASSUME NEW o, NEW t \in Seq(Event), NEW f \in Seq(Event), NEW x, Lists(o, t, <<>>, f)
  PROVE  LET n == NotOfSession(x, t)
             e == f \o OfSession(x, t)
         IN  /\ n \in Seq(Event) /\ e \in Seq(Event)
             /\ Lists(o, n, <<>>, e) /\ Held(n, <<>>, e) = Held(t, <<>>, f)
<1> DEFINE n == NotOfSession(x, t)
           g == OfSession(x, t)
<1>1. /\ n \in Seq(Event) /\ g \in Seq(Event)
      /\ Lists(o, n, g, f) /\ Held(n, g, f) = Held(t, <<>>, f)
  BY ListsBegin
<1> HIDE DEF n, g
<1>2. f \o g \in Seq(Event)
  BY <1>1
<1>3. Lists(o, n, <<>>, f \o g) /\ Held(n, <<>>, f \o g) = Held(n, g, f)
  BY <1>1, ListsRest
<1>4. QED
  BY <1>1, <1>2, <1>3 DEF n, g
-----------------------------------------------------------------------------
(* The invariant that the others rest on.                                  *)

Posting == {"post", "refresh", "repost"}
Sending == Reading \ {"append"}
Local(h) == Held(todo[h], group[h], failed[h])

Shape ==
  /\ queue \in Seq(Event) /\ torn \in BOOLEAN
  /\ pc \in [Hook -> Reading \cup {"idle", "flush"}]
  /\ seen \in [Hook -> Seq(Event)] /\ fresh \in [Hook -> Seq(Event)]
  /\ todo \in [Hook -> Seq(Event)] /\ group \in [Hook -> Seq(Event)]
  /\ failed \in [Hook -> Seq(Event)]
  /\ order \in Seq(Event)
  /\ raced \in BOOLEAN /\ overlap \in BOOLEAN /\ kills \in 0 .. MaxKills

\* No event is in the file or in the history of the file twice.
FileInv ==
  /\ IsInjective(order)
  /\ IsInjective(queue) /\ Queued \subseteq ToSet(order) /\ Sorted(order, queue)
  /\ acked \subseteq ToSet(order) /\ shed \subseteq ToSet(order) /\ absorbed \subseteq ToSet(order)
  /\ stale \subseteq {h \in Hook : pc[h] \in Reading}

\* What a hook may hold at p, when o has reached the file.
HookIn(o, p, s, fr, t, g, f) ==
  /\ p = "append" <=> fr # <<>>
  /\ s # <<>> => p = "append"
  /\ t # <<>> => p \in Posting \cup {"token"}
  /\ p = "token" => t # <<>>
  /\ p \in Posting <=> g # <<>>
  /\ f # <<>> => p \in Sending
  /\ IsInjective(s) /\ ToSet(s) \subseteq ToSet(o) /\ Sorted(o, s)
  /\ IsInjective(fr) /\ ToSet(fr) \cap ToSet(o) = {} /\ Len(fr) <= MaxHanded
  /\ Lists(o, t, g, f) /\ Held(t, g, f) \subseteq ToSet(o)

HookInv ==
  /\ \A h \in Hook : HookIn(order, pc[h], seen[h], fresh[h], todo[h], group[h], failed[h])
  /\ \A g, h \in Hook : g # h => ToSet(fresh[g]) \cap ToSet(fresh[h]) = {}

Inv == Shape /\ FileInv /\ HookInv

LEMMA InvAtStart == Init => Inv
<1> SUFFICES ASSUME Init PROVE Inv
  OBVIOUS
<1> USE DEF Init
<1>1. Shape
  <2>1. 0 \in 0 .. MaxKills
    BY QueueAssumption
  <2>2. [h \in Hook |-> <<>>] \in [Hook -> Seq(Event)]
    BY NoElements
  <2>3. [h \in Hook |-> "idle"] \in [Hook -> Reading \cup {"idle", "flush"}]
    OBVIOUS
  <2>4. QED
    BY <2>1, <2>2, <2>3, NoElements DEF Shape
<1>2. FileInv
  BY NoElements DEF FileInv, Queued
<1>3. HookIn(<<>>, "idle", <<>>, <<>>, <<>>, <<>>, <<>>)
  BY NoElements, NothingHeld, QueueAssumption DEF HookIn, Posting
<1>4. HookInv
  BY <1>3, NoElements DEF HookInv
<1>5. QED
  BY <1>1, <1>2, <1>4 DEF Inv
-----------------------------------------------------------------------------
(* The steps by what they do.                                              *)

\* h is at p with new local values, and no other hook has moved.
Moves(h, p, s, fr, t, g, f) ==
  /\ pc' = [pc EXCEPT ![h] = p]
  /\ seen' = [seen EXCEPT ![h] = s] /\ fresh' = [fresh EXCEPT ![h] = fr]
  /\ todo' = [todo EXCEPT ![h] = t] /\ group' = [group EXCEPT ![h] = g]
  /\ failed' = [failed EXCEPT ![h] = f]

\* A step of a flush between its read and its write.
Work(h, p, t, g, f) ==
  /\ pc[h] \in Posting \cup {"token"} /\ p \in Sending
  /\ t \in Seq(Event) /\ g \in Seq(Event) /\ f \in Seq(Event)
  /\ Moves(h, p, seen[h], fresh[h], t, g, f)
  /\ HookIn(order, p, seen[h], fresh[h], t, g, f)
  /\ Held(t, g, f) \subseteq Local(h) /\ Local(h) \subseteq Held(t, g, f) \cup acked'
  /\ acked \subseteq acked' /\ acked' \subseteq acked \cup Local(h)
  /\ Held(t, g, f) \cap acked' \subseteq acked
  /\ UNCHANGED <<file, order, shed, absorbed, stale, raced, overlap, kills>>

\* What is fresh, or a part of it, is appended; behind a partial line the
\* first of it is lost.
Adds(h, p, part, new) ==
  /\ pc[h] = "append" /\ p \in {"idle", "flush"}
  /\ Len(seen[h]) + Len(fresh[h]) <= MaxQueued
  /\ part \in Seq(Event) /\ new \in Seq(Event)
  /\ IsInjective(part) /\ ToSet(part) \subseteq ToSet(fresh[h]) /\ Len(part) <= Len(fresh[h])
  /\ Subsequence(new, part) /\ Len(new) <= Len(part)
  /\ Moves(h, p, <<>>, <<>>, <<>>, <<>>, <<>>)
  /\ queue' = queue \o new /\ torn' \in BOOLEAN
  /\ order' = order \o part /\ absorbed' = absorbed \cup (ToSet(part) \ ToSet(new))
  /\ stale' = (stale \ {h}) \cup Others(h)
  /\ kills' \in 0 .. MaxKills /\ kills' >= kills
  /\ UNCHANGED <<acked, shed, raced, overlap>>

\* The file is replaced by the newest of all.
Replaces(h, p, all) ==
  /\ \/ pc[h] = "append" /\ all = seen[h] \o fresh[h] /\ p = "flush"
     \/ pc[h] = "replace" /\ all = failed[h] /\ p = "idle"
  /\ Moves(h, p, <<>>, <<>>, <<>>, <<>>, <<>>)
  /\ queue' = Newest(MaxQueued, all) /\ torn' = FALSE
  /\ shed' = shed \cup ToSet(AllButNewest(MaxQueued, all))
  /\ order' = order \o fresh[h]
  /\ raced' = (raced \/ h \in stale)
  /\ stale' = (stale \ {h}) \cup Others(h)
  /\ UNCHANGED <<acked, absorbed, overlap, kills>>

LEMMA Unmoved ==
  ASSUME NEW S, NEW v \in [Hook -> S], NEW h \in Hook
  PROVE  v = [v EXCEPT ![h] = v[h]]
OBVIOUS

LEMMA AtHook ==
  ASSUME Inv, NEW h \in Hook
  PROVE  /\ queue \in Seq(Event) /\ order \in Seq(Event)
         /\ seen[h] \in Seq(Event) /\ fresh[h] \in Seq(Event)
         /\ todo[h] \in Seq(Event) /\ group[h] \in Seq(Event) /\ failed[h] \in Seq(Event)
         /\ HookIn(order, pc[h], seen[h], fresh[h], todo[h], group[h], failed[h])
         /\ Local(h) = Held(todo[h], group[h], failed[h])
BY DEF Inv, Shape, HookInv, Local

LEMMA BeginIsWork ==
  ASSUME Inv, NEW h \in Hook, BeginGroup(h)
  PROVE  \E p, t, g, f : Work(h, p, t, g, f)
<1> DEFINE x == SessionOf[Head(todo[h])]
           t == NotOfSession(x, todo[h])
           g == OfSession(x, todo[h])
           f == failed[h]
<1>1. /\ pc[h] = "token" /\ pc' = [pc EXCEPT ![h] = "post"]
      /\ group' = [group EXCEPT ![h] = g] /\ todo' = [todo EXCEPT ![h] = t]
      /\ UNCHANGED <<file, seen, fresh, failed, history>>
  BY DEF BeginGroup, Goto
<1>2. /\ todo[h] \in Seq(Event) /\ f \in Seq(Event) /\ todo[h] # <<>> /\ group[h] = <<>>
      /\ fresh[h] = <<>> /\ seen[h] = <<>>
      /\ HookIn(order, pc[h], seen[h], fresh[h], todo[h], group[h], failed[h])
      /\ Lists(order, todo[h], <<>>, f) /\ Local(h) = Held(todo[h], <<>>, f)
      /\ Local(h) \subseteq ToSet(order)
  BY <1>1, AtHook DEF HookIn, Posting
<1>3. /\ t \in Seq(Event) /\ g \in Seq(Event)
      /\ Lists(order, t, g, f) /\ Held(t, g, f) = Local(h)
  BY <1>2, ListsBegin
<1>4. g # <<>>
  <2>1. Head(todo[h]) \in ToSet(todo[h])
    BY <1>2, Elements
  <2>2. Head(todo[h]) \in ToSet(g)
    BY <1>2, <2>1, SessionFacts
  <2>3. QED
    BY <2>2, NoElements
<1>5. Moves(h, "post", seen[h], fresh[h], t, g, f)
  BY <1>1, Unmoved DEF Moves, Inv, Shape
<1> HIDE DEF t, g, f
<1>6. HookIn(order, "post", seen[h], fresh[h], t, g, f)
  BY <1>1, <1>2, <1>3, <1>4 DEF HookIn, Posting, Sending, Reading
<1>7. Work(h, "post", t, g, f)
  BY <1>1, <1>2, <1>3, <1>5, <1>6 DEF Work, Sending, Reading, history
<1>8. QED
  BY <1>7

LEMMA FailIsWork ==
  ASSUME Inv, NEW h \in Hook, FailGroup(h)
  PROVE  \E p, t, g, f : Work(h, p, t, g, f)
<1> DEFINE x == SessionOf[Head(todo[h])]
           t == NotOfSession(x, todo[h])
           f == failed[h] \o OfSession(x, todo[h])
           p == IF t = <<>> THEN "replace" ELSE "token"
<1>1. /\ pc[h] = "token" /\ pc' = [pc EXCEPT ![h] = p]
      /\ failed' = [failed EXCEPT ![h] = f] /\ todo' = [todo EXCEPT ![h] = t]
      /\ UNCHANGED <<file, seen, fresh, group, history>>
  BY DEF FailGroup, Goto
<1>2. /\ todo[h] \in Seq(Event) /\ failed[h] \in Seq(Event) /\ group[h] = <<>>
      /\ fresh[h] = <<>> /\ seen[h] = <<>>
      /\ HookIn(order, pc[h], seen[h], fresh[h], todo[h], group[h], failed[h])
      /\ Lists(order, todo[h], <<>>, failed[h]) /\ Local(h) = Held(todo[h], <<>>, failed[h])
      /\ Local(h) \subseteq ToSet(order)
  BY <1>1, AtHook DEF HookIn, Posting
<1>3. /\ t \in Seq(Event) /\ f \in Seq(Event)
      /\ Lists(order, t, <<>>, f) /\ Held(t, <<>>, f) = Local(h)
  BY <1>2, ListsFail
<1>4. Moves(h, p, seen[h], fresh[h], t, group[h], f)
  BY <1>1, Unmoved DEF Moves, Inv, Shape
<1>5. p \in {"replace", "token"} /\ (p = "token" <=> t # <<>>)
  OBVIOUS
<1> HIDE DEF t, p, f
<1>6. HookIn(order, p, seen[h], fresh[h], t, group[h], f)
  BY <1>1, <1>2, <1>3, <1>5 DEF HookIn, Posting, Sending, Reading
<1>7. Work(h, p, t, group[h], f)
  BY <1>1, <1>2, <1>3, <1>4, <1>5, <1>6, NoElements DEF Work, Sending, Reading, history
<1>8. QED
  BY <1>7

LEMMA ChunkParts ==
  ASSUME Inv, NEW h \in Hook
  PROVE  Parts(Chunk(h), SubSeq(group[h], MaxBatch + 1, Len(group[h])), group[h])
BY AtHook, OldestParts, QueueAssumption DEF Chunk

\* The group goes on with what is left of it, the next one begins, or the
\* flush ends; what failed is f.
LEMMA NextIsMove ==
  ASSUME Inv, NEW h \in Hook, NEW f \in Seq(Event), NextChunk(h, pc[h]), pc[h] \in Posting,
         failed' = [failed EXCEPT ![h] = f],
         Lists(order, todo[h], SubSeq(group[h], MaxBatch + 1, Len(group[h])), f),
         Held(todo[h], SubSeq(group[h], MaxBatch + 1, Len(group[h])), f) \subseteq Local(h)
  PROVE  LET r == SubSeq(group[h], MaxBatch + 1, Len(group[h]))
         IN  /\ r \in Seq(Event)
             /\ \E p \in Sending : /\ Moves(h, p, seen[h], fresh[h], todo[h], r, f)
                                   /\ HookIn(order, p, seen[h], fresh[h], todo[h], r, f)
<1> DEFINE r == SubSeq(group[h], MaxBatch + 1, Len(group[h]))
           p == IF r # <<>> THEN "post" ELSE IF todo[h] # <<>> THEN "token" ELSE "replace"
<1>1. /\ pc' = [pc EXCEPT ![h] = p] /\ group' = [group EXCEPT ![h] = r]
      /\ UNCHANGED <<file, seen, fresh, todo>>
  BY Zenon DEF NextChunk, Goto
<1>2. r \in Seq(Event)
  BY ChunkParts DEF Parts
<1>3. Moves(h, p, seen[h], fresh[h], todo[h], r, f)
  BY <1>1, Unmoved DEF Moves, Inv, Shape
<1>4. p \in {"post", "token", "replace"} /\ (p = "post" <=> r # <<>>) /\ (p = "token" => todo[h] # <<>>)
      /\ (todo[h] # <<>> => p \in {"post", "token"})
  OBVIOUS
<1> HIDE DEF p
<1>5. HookIn(order, pc[h], seen[h], fresh[h], todo[h], group[h], failed[h]) /\ fresh[h] = <<>> /\ seen[h] = <<>>
  BY AtHook DEF HookIn, Posting
<1>6. Lists(order, todo[h], r, f) /\ Held(todo[h], r, f) \subseteq ToSet(order)
  BY <1>5, AtHook DEF HookIn
<1> HIDE DEF r
<1>7. HookIn(order, p, seen[h], fresh[h], todo[h], r, f)
  BY <1>4, <1>5, <1>6 DEF HookIn, Posting, Sending, Reading
<1>8. QED
  BY <1>2, <1>3, <1>4, <1>7 DEF Sending, Reading, r

LEMMA AcceptedIsWork ==
  ASSUME Inv, NEW h \in Hook, Accepted(h)
  PROVE  \E p, t, g, f : Work(h, p, t, g, f)
<1> DEFINE r == SubSeq(group[h], MaxBatch + 1, Len(group[h]))
           t == todo[h]
           f == failed[h]
<1>1. /\ NextChunk(h, pc[h]) /\ pc[h] \in Posting
      /\ acked' = acked \cup ToSet(Chunk(h))
      /\ UNCHANGED <<file, failed, order, shed, absorbed, stale, raced, overlap, kills>>
  BY DEF Accepted, Posting, NextChunk
<1>2. PICK e : e = f \o Chunk(h)
  OBVIOUS
<1>3. Parts(Chunk(h), r, group[h]) /\ Lists(order, t, group[h], f)
  BY ChunkParts, AtHook DEF HookIn
<1>4. /\ Lists(order, t, r, f) /\ ToSet(Chunk(h)) \cap Held(t, r, f) = {}
      /\ Local(h) = Held(t, r, f) \cup ToSet(Chunk(h))
  <2>1. /\ Lists(order, t, r, f) /\ ToSet(Chunk(h)) \cap Held(t, r, f) = {}
    BY <1>2, <1>3, AtHook, ListsChunk
  <2>2. ToSet(group[h]) = ToSet(Chunk(h)) \cup ToSet(r)
    BY <1>3 DEF Parts
  <2>3. QED
    BY <2>1, <2>2, AtHook DEF Held
<1>5. failed' = [failed EXCEPT ![h] = f]
  BY <1>1, Unmoved DEF Inv, Shape
<1>6. PICK p \in Sending : /\ Moves(h, p, seen[h], fresh[h], t, r, f)
                           /\ HookIn(order, p, seen[h], fresh[h], t, r, f)
  BY <1>1, <1>4, <1>5, AtHook, NextIsMove
<1>7. Work(h, p, t, r, f)
  <2>1. r \in Seq(Event)
    BY <1>3 DEF Parts
  <2>2. QED
    BY <1>1, <1>4, <1>6, <2>1, AtHook DEF Work
<1>8. QED
  BY <1>7

LEMMA RefusedIsWork ==
  ASSUME Inv, NEW h \in Hook, Refused(h) \/ RefreshFails(h)
  PROVE  \E p, t, g, f : Work(h, p, t, g, f)
<1> DEFINE r == SubSeq(group[h], MaxBatch + 1, Len(group[h]))
           t == todo[h]
<1>1. /\ NextChunk(h, pc[h]) /\ pc[h] \in Posting
      /\ failed' = [failed EXCEPT ![h] = @ \o Chunk(h)]
      /\ UNCHANGED <<file, history>>
  BY DEF Refused, RefreshFails, Posting, NextChunk, Goto
<1>2. PICK e : e = failed[h] \o Chunk(h)
  OBVIOUS
<1>3. Parts(Chunk(h), r, group[h]) /\ Lists(order, t, group[h], failed[h])
  BY ChunkParts, AtHook DEF HookIn
<1>4. /\ Lists(order, t, r, e) /\ Local(h) = Held(t, r, e)
  <2>1. /\ Lists(order, t, r, e) /\ ToSet(e) = ToSet(failed[h]) \cup ToSet(Chunk(h))
        /\ ToSet(group[h]) = ToSet(Chunk(h)) \cup ToSet(r)
    <3>1. Lists(order, t, r, e)
      BY <1>2, <1>3, AtHook, ListsChunk
    <3>2. Chunk(h) \in Seq(Event) /\ ToSet(group[h]) = ToSet(Chunk(h)) \cup ToSet(r)
      BY <1>3 DEF Parts
    <3>3. QED
      BY <1>2, <3>1, <3>2, AtHook, ElementsOfConcat
  <2>2. QED
    BY <2>1, AtHook DEF Held
<1>5. e \in Seq(Event) /\ r \in Seq(Event)
  BY <1>2, <1>3, AtHook DEF Parts
<1>6. failed' = [failed EXCEPT ![h] = e]
  BY <1>1, <1>2
<1>7. PICK p \in Sending : /\ Moves(h, p, seen[h], fresh[h], t, r, e)
                           /\ HookIn(order, p, seen[h], fresh[h], t, r, e)
  BY <1>1, <1>4, <1>5, <1>6, NextIsMove
<1>8. Work(h, p, t, r, e)
  BY <1>1, <1>4, <1>5, <1>7, AtHook DEF Work, history
<1>9. QED
  BY <1>8

LEMMA AnswerIsWork ==
  ASSUME Inv, NEW h \in Hook, Unauthorized(h) \/ RefreshWorks(h)
  PROVE  \E p, t, g, f : Work(h, p, t, g, f)
<1>1. PICK p \in {"refresh", "repost"} :
        /\ pc[h] \in Posting /\ pc' = [pc EXCEPT ![h] = p] /\ UNCHANGED <<file, locals, history>>
  BY DEF Unauthorized, RefreshWorks, Goto, Posting
<1>2. Moves(h, p, seen[h], fresh[h], todo[h], group[h], failed[h])
  BY <1>1, Unmoved DEF Moves, Inv, Shape, locals
<1>3. HookIn(order, p, seen[h], fresh[h], todo[h], group[h], failed[h])
  BY <1>1, AtHook DEF HookIn, Posting, Sending, Reading
<1>4. Work(h, p, todo[h], group[h], failed[h])
  BY <1>1, <1>2, <1>3, AtHook DEF Work, history, Sending, Reading
<1>5. QED
  BY <1>4

LEMMA WholeSubsequence ==
  ASSUME NEW s \in Seq(Event)
  PROVE  Subsequence(s, s)
<1>1. Len(s) \in 0 .. Len(s) /\ SubSeq(s, 1, Len(s)) = s
  BY SubSeqFull
<1>2. QED
  BY <1>1, CutSubsequence

\* What is appended behind a partial line, and what is lost to it.
LEMMA Appended ==
  ASSUME NEW part \in Seq(Event), IsInjective(part), NEW b \in BOOLEAN, b => part # <<>>
  PROVE  LET new  == IF b THEN Tail(part) ELSE part
             lost == IF b THEN {Head(part)} ELSE {}
         IN  /\ new \in Seq(Event) /\ Subsequence(new, part) /\ Len(new) <= Len(part)
             /\ lost = ToSet(part) \ ToSet(new)
<1>1. CASE b
  <2> DEFINE head == SubSeq(part, 1, 1)
             tail == SubSeq(part, 1 + 1, Len(part))
  <2>1. 1 \in 0 .. Len(part) /\ Len(part) \in Nat
    BY <1>1
  <2>2. Parts(head, tail, part) /\ Subsequence(tail, part) /\ Len(head) = 1
    BY <2>1, PartsAt, CutSubsequence, CutInTwo
  <2>3. Tail(part) = tail
    BY <1>1
  <2> HIDE DEF head, tail
  <2>4. head \in Seq(Event) /\ head[1] = part[1] /\ ToSet(head) = {head[1]}
    <3>1. head \in Seq(Event) /\ head[1] = part[1]
      BY <2>2 DEF Parts
    <3>2. \A e : e \in ToSet(head) <=> \E i \in 1 .. 1 : head[i] = e
      BY <2>2, <3>1, Elements
    <3>3. QED
      BY <3>1, <3>2
  <2>5. Head(part) = part[1]
    BY <1>1
  <2>6. {Head(part)} = ToSet(part) \ ToSet(tail) /\ tail \in Seq(Event) /\ Len(tail) <= Len(part)
    BY <2>1, <2>2, <2>4, <2>5 DEF Parts
  <2>7. QED
    BY <1>1, <2>2, <2>3, <2>6
<1>2. CASE ~b
  BY <1>2, WholeSubsequence
<1>3. QED
  BY <1>1, <1>2

LEMMA AppendIsAdd ==
  ASSUME Inv, NEW h \in Hook, AppendFresh(h)
  PROVE  \E p, part, new : Adds(h, p, part, new)
<1> DEFINE new  == IF torn THEN Tail(fresh[h]) ELSE fresh[h]
           lost == IF torn THEN {Head(fresh[h])} ELSE {}
<1>1. /\ pc[h] = "append" /\ pc' = [pc EXCEPT ![h] = "flush"]
      /\ Len(seen[h]) + Len(fresh[h]) <= MaxQueued
      /\ queue' = queue \o new /\ absorbed' = absorbed \cup lost /\ torn' = FALSE
      /\ order' = order \o fresh[h] /\ stale' = (stale \ {h}) \cup Others(h)
      /\ seen' = [seen EXCEPT ![h] = <<>>] /\ fresh' = [fresh EXCEPT ![h] = <<>>]
      /\ UNCHANGED <<todo, group, failed, acked, shed, raced, overlap, kills>>
  BY DEF AppendFresh, Goto, Forget, NoteOrder, NoteWrite
<1>2. /\ fresh[h] \in Seq(Event) /\ fresh[h] # <<>> /\ IsInjective(fresh[h])
      /\ todo[h] = <<>> /\ group[h] = <<>> /\ failed[h] = <<>>
  BY <1>1, AtHook DEF HookIn, Posting, Sending
<1>3. /\ new \in Seq(Event) /\ Subsequence(new, fresh[h]) /\ Len(new) <= Len(fresh[h])
      /\ lost = ToSet(fresh[h]) \ ToSet(new)
  <2>1. torn \in BOOLEAN
    BY DEF Inv, Shape
  <2>2. QED
    BY <1>2, <2>1, Appended
<1>4. Moves(h, "flush", <<>>, <<>>, <<>>, <<>>, <<>>)
  BY <1>1, <1>2, Unmoved DEF Moves, Inv, Shape
<1> HIDE DEF new, lost
<1>5. kills' \in 0 .. MaxKills /\ kills' >= kills
  BY <1>1 DEF Inv, Shape
<1>6. Len(fresh[h]) <= Len(fresh[h])
  BY <1>2
<1>7. Adds(h, "flush", fresh[h], new)
  BY <1>1, <1>2, <1>3, <1>4, <1>5, <1>6 DEF Adds
<1>8. QED
  BY <1>7

LEMMA KillInAppendIsAdd ==
  ASSUME Inv, NEW h \in Hook, KillInAppend(h)
  PROVE  \E p, part, new : Adds(h, p, part, new)
<1>1. PICK k \in 0 .. Len(fresh[h]) - 1 :
        LET whole == Oldest(k, fresh[h])
        IN /\ pc[h] = "append"
           /\ Len(seen[h]) + Len(fresh[h]) <= MaxQueued
           /\ queue' = queue \o (IF torn /\ k > 0 THEN Tail(whole) ELSE whole)
           /\ absorbed' = absorbed \cup (IF torn /\ k > 0 THEN {Head(whole)} ELSE {})
           /\ torn' = TRUE
           /\ order' = order \o whole
           /\ stale' = (stale \ {h}) \cup Others(h)
           /\ ForgetAll(h)
           /\ UNCHANGED <<acked, shed, raced, overlap>>
  BY DEF KillInAppend, NoteOrder
<1> DEFINE whole == Oldest(k, fresh[h])
           b     == torn /\ k > 0
           new   == IF b THEN Tail(whole) ELSE whole
           lost  == IF b THEN {Head(whole)} ELSE {}
<1>2. fresh[h] \in Seq(Event) /\ IsInjective(fresh[h])
  BY AtHook DEF HookIn
<1>3. k \in Nat /\ k < Len(fresh[h]) /\ Len(fresh[h]) \in Nat
  BY <1>2
<1>4. /\ whole \in Seq(Event) /\ Len(whole) = k /\ IsInjective(whole)
      /\ ToSet(whole) \subseteq ToSet(fresh[h])
  <2>1. Parts(whole, SubSeq(fresh[h], k + 1, Len(fresh[h])), fresh[h]) /\ Len(whole) = k
    BY <1>2, <1>3, OldestParts
  <2>2. QED
    BY <1>2, <2>1 DEF Parts
<1>5. b \in BOOLEAN /\ (b => whole # <<>>)
  BY <1>3, <1>4, NoElements DEF Inv, Shape
<1>6. queue' = queue \o new /\ absorbed' = absorbed \cup lost
  BY <1>1, Zenon
<1> HIDE DEF whole, b
<1>7. /\ new \in Seq(Event) /\ Subsequence(new, whole) /\ Len(new) <= Len(whole)
      /\ lost = ToSet(whole) \ ToSet(new)
  BY <1>4, <1>5, Appended
<1> HIDE DEF new, lost
<1>8. /\ pc' = [pc EXCEPT ![h] = "idle"]
      /\ seen' = [seen EXCEPT ![h] = <<>>] /\ fresh' = [fresh EXCEPT ![h] = <<>>]
      /\ todo' = [todo EXCEPT ![h] = <<>>] /\ group' = [group EXCEPT ![h] = <<>>]
      /\ failed' = [failed EXCEPT ![h] = <<>>] /\ kills < MaxKills /\ kills' = kills + 1
  BY <1>1 DEF ForgetAll, Forget
<1>9. kills' \in 0 .. MaxKills /\ kills' >= kills
  BY <1>8, QueueAssumption DEF Inv, Shape
<1>10. Adds(h, "idle", whole, new)
  <2>1. order' = order \o whole
    BY <1>1 DEF whole
  <2>2. Len(whole) <= Len(fresh[h])
    BY <1>3, <1>4
  <2>3. QED
    BY <1>1, <1>4, <1>6, <1>7, <1>8, <1>9, <2>1, <2>2 DEF Adds, Moves
<1>11. QED
  BY <1>10

LEMMA NewestIsReplace ==
  ASSUME Inv, NEW h \in Hook, ReplaceWithNewest(h)
  PROVE  \E p, all : Replaces(h, p, all)
<1> DEFINE all == seen[h] \o fresh[h]
<1>1. /\ pc[h] = "append" /\ pc' = [pc EXCEPT ![h] = "flush"]
      /\ queue' = Newest(MaxQueued, all) /\ torn' = FALSE
      /\ shed' = shed \cup ToSet(AllButNewest(MaxQueued, all))
      /\ raced' = (raced \/ h \in stale)
      /\ order' = order \o fresh[h] /\ stale' = (stale \ {h}) \cup Others(h)
      /\ seen' = [seen EXCEPT ![h] = <<>>] /\ fresh' = [fresh EXCEPT ![h] = <<>>]
      /\ UNCHANGED <<todo, group, failed, acked, absorbed, overlap, kills>>
  BY DEF ReplaceWithNewest, Goto, Forget, NoteOrder, NoteWrite
<1>2. todo[h] = <<>> /\ group[h] = <<>> /\ failed[h] = <<>>
  BY <1>1, AtHook DEF HookIn, Posting, Sending
<1>3. Moves(h, "flush", <<>>, <<>>, <<>>, <<>>, <<>>)
  BY <1>1, <1>2, Unmoved DEF Moves, Inv, Shape
<1>4. Replaces(h, "flush", all)
  BY <1>1, <1>3 DEF Replaces
<1>5. QED
  BY <1>4

LEMMA FailedIsReplace ==
  ASSUME Inv, NEW h \in Hook, ReplaceWithFailed(h)
  PROVE  \E p, all : Replaces(h, p, all)
<1>1. /\ pc[h] = "replace" /\ pc' = [pc EXCEPT ![h] = "idle"]
      /\ queue' = Newest(MaxQueued, failed[h]) /\ torn' = FALSE
      /\ shed' = shed \cup ToSet(AllButNewest(MaxQueued, failed[h]))
      /\ raced' = (raced \/ h \in stale)
      /\ stale' = (stale \ {h}) \cup Others(h)
      /\ failed' = [failed EXCEPT ![h] = <<>>]
      /\ UNCHANGED <<seen, fresh, todo, group, order, acked, absorbed, overlap, kills>>
  BY DEF ReplaceWithFailed, Goto, Forget, NoteWrite
<1>2. todo[h] = <<>> /\ group[h] = <<>> /\ fresh[h] = <<>> /\ seen[h] = <<>>
  BY <1>1, AtHook DEF HookIn, Posting
<1>3. Moves(h, "idle", <<>>, <<>>, <<>>, <<>>, <<>>)
  BY <1>1, <1>2, Unmoved DEF Moves, Inv, Shape
<1>4. order' = order \o fresh[h]
  <2>1. order \o <<>> = order
    BY AtHook
  <2>2. QED
    BY <1>1, <1>2, <2>1
<1>5. Replaces(h, "idle", failed[h])
  BY <1>1, <1>3, <1>4 DEF Replaces
<1>6. QED
  BY <1>5

LEMMA KillMoves ==
  ASSUME Inv, NEW h \in Hook, Kill(h)
  PROVE  /\ Moves(h, "idle", <<>>, <<>>, <<>>, <<>>, <<>>)
         /\ stale' = stale \ {h} /\ kills' = kills + 1 /\ kills' \in 0 .. MaxKills
         /\ UNCHANGED <<file, order, acked, shed, absorbed, raced, overlap>>
BY QueueAssumption DEF Kill, ForgetAll, Forget, Moves, Inv, Shape

LEMMA Cases ==
  ASSUME Inv, Next
  PROVE  \E h \in Hook : \/ \E b \in Batch : ReadForEnqueue(h, b)
                         \/ ReadForFlush(h)
                         \/ \E p, t, g, f : Work(h, p, t, g, f)
                         \/ \E p, part, new : Adds(h, p, part, new)
                         \/ \E p, all : Replaces(h, p, all)
                         \/ Kill(h)
<1>1. PICK h \in Hook : (\E b \in Batch : ReadForEnqueue(h, b)) \/ Continue(h) \/ Kill(h) \/ KillInAppend(h)
  BY DEF Next
<1>2. CASE Continue(h)
  <2>1. CASE BeginGroup(h) \/ FailGroup(h)
    BY <2>1, BeginIsWork, FailIsWork
  <2>2. CASE Accepted(h) \/ Refused(h) \/ RefreshFails(h) \/ Unauthorized(h) \/ RefreshWorks(h)
    BY <2>2, AcceptedIsWork, RefusedIsWork, AnswerIsWork
  <2>3. CASE AppendFresh(h) \/ ReplaceWithNewest(h) \/ ReplaceWithFailed(h)
    BY <2>3, AppendIsAdd, NewestIsReplace, FailedIsReplace
  <2>4. QED
    BY <1>2, <2>1, <2>2, <2>3 DEF Continue
<1>3. QED
  BY <1>1, <1>2, KillInAppendIsAdd
-----------------------------------------------------------------------------
(* Every step keeps the invariant.                                         *)

LEMMA HookStays ==
  ASSUME NEW o \in Seq(Event), NEW part \in Seq(Event), NEW p,
         NEW s \in Seq(Event), NEW fr \in Seq(Event),
         NEW t \in Seq(Event), NEW g \in Seq(Event), NEW f \in Seq(Event),
         HookIn(o, p, s, fr, t, g, f), ToSet(part) \cap ToSet(fr) = {}
  PROVE  HookIn(o \o part, p, s, fr, t, g, f)
<1>1. ToSet(o \o part) = ToSet(o) \cup ToSet(part)
  BY ElementsOfConcat
<1>2. Sorted(o \o part, s) /\ Lists(o \o part, t, g, f)
  BY SortedStays, ListsStay DEF HookIn
<1>3. QED
  BY <1>1, <1>2 DEF HookIn

LEMMA NothingNew ==
  ASSUME Inv, UNCHANGED order
  PROVE  order' = order \o <<>>
BY DEF Inv, Shape

LEMMA AfterMove ==
  ASSUME Inv, NEW h \in Hook, NEW p \in Reading \cup {"idle", "flush"},
         NEW s \in Seq(Event), NEW fr \in Seq(Event),
         NEW t \in Seq(Event), NEW g \in Seq(Event), NEW f \in Seq(Event),
         Moves(h, p, s, fr, t, g, f),
         NEW part \in Seq(Event), order' = order \o part,
         HookIn(order', p, s, fr, t, g, f),
         \A x \in Hook \ {h} : /\ ToSet(part) \cap ToSet(fresh[x]) = {}
                               /\ ToSet(fr) \cap ToSet(fresh[x]) = {}
  PROVE  /\ pc' \in [Hook -> Reading \cup {"idle", "flush"}]
         /\ seen' \in [Hook -> Seq(Event)] /\ fresh' \in [Hook -> Seq(Event)]
         /\ todo' \in [Hook -> Seq(Event)] /\ group' \in [Hook -> Seq(Event)]
         /\ failed' \in [Hook -> Seq(Event)] /\ order' \in Seq(Event)
         /\ HookInv'
<1>1. /\ pc' \in [Hook -> Reading \cup {"idle", "flush"}]
      /\ seen' \in [Hook -> Seq(Event)] /\ fresh' \in [Hook -> Seq(Event)]
      /\ todo' \in [Hook -> Seq(Event)] /\ group' \in [Hook -> Seq(Event)]
      /\ failed' \in [Hook -> Seq(Event)] /\ order' \in Seq(Event)
  BY DEF Inv, Shape, Moves
<1>2. /\ pc'[h] = p /\ seen'[h] = s /\ fresh'[h] = fr
      /\ todo'[h] = t /\ group'[h] = g /\ failed'[h] = f
  BY DEF Inv, Shape, Moves
<1>3. \A x \in Hook \ {h} :
        /\ pc'[x] = pc[x] /\ seen'[x] = seen[x] /\ fresh'[x] = fresh[x]
        /\ todo'[x] = todo[x] /\ group'[x] = group[x] /\ failed'[x] = failed[x]
  BY DEF Inv, Shape, Moves
<1>4. ASSUME NEW x \in Hook
      PROVE  HookIn(order', pc'[x], seen'[x], fresh'[x], todo'[x], group'[x], failed'[x])
  <2>1. CASE x = h
    BY <1>2, <2>1
  <2>2. CASE x # h
    <3>1. HookIn(order \o part, pc[x], seen[x], fresh[x], todo[x], group[x], failed[x])
      BY <2>2, AtHook, HookStays
    <3>2. QED
      BY <1>3, <2>2, <3>1
  <2>3. QED
    BY <2>1, <2>2
<1>5. \A x, y \in Hook : x # y => ToSet(fresh'[x]) \cap ToSet(fresh'[y]) = {}
  BY <1>2, <1>3 DEF Inv, HookInv
<1>6. HookInv'
  BY <1>4, <1>5 DEF HookInv
<1>7. QED
  BY <1>1, <1>6

LEMMA AfterWork ==
  ASSUME Inv, NEW h \in Hook, NEW p, NEW t, NEW g, NEW f, Work(h, p, t, g, f)
  PROVE  Inv'
<1>1. /\ order' = order \o <<>> /\ <<>> \in Seq(Event) /\ ToSet(<<>>) = {}
      /\ p \in Reading \cup {"idle", "flush"}
  BY NothingNew, NoElements DEF Work, Sending
<1>2. \A x \in Hook \ {h} : ToSet(fresh[h]) \cap ToSet(fresh[x]) = {}
  BY DEF Inv, HookInv
<1>3. HookIn(order', p, seen[h], fresh[h], t, g, f)
  BY DEF Work
<1>4. /\ pc' \in [Hook -> Reading \cup {"idle", "flush"}]
      /\ seen' \in [Hook -> Seq(Event)] /\ fresh' \in [Hook -> Seq(Event)]
      /\ todo' \in [Hook -> Seq(Event)] /\ group' \in [Hook -> Seq(Event)]
      /\ failed' \in [Hook -> Seq(Event)] /\ order' \in Seq(Event)
      /\ HookInv'
  <2>1. /\ Moves(h, p, seen[h], fresh[h], t, g, f)
        /\ t \in Seq(Event) /\ g \in Seq(Event) /\ f \in Seq(Event)
    BY DEF Work
  <2>2. PICK z \in Seq(Event) : order' = order \o z /\ ToSet(z) = {}
    BY <1>1
  <2>3. \A x \in Hook \ {h} : /\ ToSet(z) \cap ToSet(fresh[x]) = {}
                              /\ ToSet(fresh[h]) \cap ToSet(fresh[x]) = {}
    BY <1>2, <2>2
  <2>4. seen[h] \in Seq(Event) /\ fresh[h] \in Seq(Event)
    BY AtHook
  <2>5. QED
    BY <1>1, <1>3, <2>1, <2>2, <2>3, <2>4, AfterMove
<1>5. Shape'
  BY <1>4 DEF Shape, Inv, Work, file
<1>6. FileInv'
  <2>1. acked' \subseteq ToSet(order)
    BY AtHook DEF Work, Inv, FileInv, HookIn
  <2>2. \A x \in stale : pc'[x] \in Reading
    BY DEF Work, Moves, Inv, Shape, FileInv, Sending
  <2>3. QED
    BY <2>1, <2>2 DEF Work, Inv, FileInv, Queued, file
<1>7. QED
  BY <1>4, <1>5, <1>6 DEF Inv

\* The hooks whose read a write of h makes stale are still at work.
LEMMA StaleAtWork ==
  ASSUME Inv, NEW h \in Hook, NEW p, NEW s, NEW fr, NEW t, NEW g, NEW f,
         Moves(h, p, s, fr, t, g, f), stale' \subseteq (stale \ {h}) \cup Others(h)
  PROVE  stale' \subseteq {x \in Hook : pc'[x] \in Reading}
BY DEF Inv, Shape, FileInv, Others, Moves

LEMMA AfterForget ==
  ASSUME Inv, NEW h \in Hook, NEW p \in {"idle", "flush"},
         Moves(h, p, <<>>, <<>>, <<>>, <<>>, <<>>),
         NEW part \in Seq(Event), order' = order \o part,
         \A x \in Hook \ {h} : ToSet(part) \cap ToSet(fresh[x]) = {}
  PROVE  /\ pc' \in [Hook -> Reading \cup {"idle", "flush"}]
         /\ seen' \in [Hook -> Seq(Event)] /\ fresh' \in [Hook -> Seq(Event)]
         /\ todo' \in [Hook -> Seq(Event)] /\ group' \in [Hook -> Seq(Event)]
         /\ failed' \in [Hook -> Seq(Event)] /\ order' \in Seq(Event)
         /\ HookInv'
<1>1. PICK z \in Seq(Event) : z = <<>>
  BY EmptySeq
<1>2. ToSet(z) = {} /\ HookIn(order', p, z, z, z, z, z)
  <2>1. MaxHanded \in Nat
    BY QueueAssumption
  <2>2. QED
    BY <1>1, <2>1, NoElements, NothingHeld DEF HookIn, Posting
<1>3. Moves(h, p, z, z, z, z, z)
  BY <1>1
<1>4. \A x \in Hook \ {h} : /\ ToSet(part) \cap ToSet(fresh[x]) = {}
                            /\ ToSet(z) \cap ToSet(fresh[x]) = {}
  BY <1>2
<1>5. QED
  BY <1>2, <1>3, <1>4, AfterMove

LEMMA AfterAdd ==
  ASSUME Inv, NEW h \in Hook, NEW p, NEW part, NEW new, Adds(h, p, part, new)
  PROVE  Inv'
<1>1. /\ part \in Seq(Event) /\ new \in Seq(Event) /\ IsInjective(part) /\ IsInjective(new)
      /\ ToSet(part) \subseteq ToSet(fresh[h]) /\ ToSet(new) \subseteq ToSet(part)
      /\ ToSet(part) \cap ToSet(order) = {}
  BY AtHook, SubsequenceFacts DEF Adds, HookIn
<1>2. /\ order' = order \o part /\ order \o part \in Seq(Event)
      /\ queue' = queue \o new /\ queue \o new \in Seq(Event)
      /\ ToSet(order') = ToSet(order) \cup ToSet(part) /\ ToSet(queue') = ToSet(queue) \cup ToSet(new)
  BY <1>1, AtHook, ElementsOfConcat DEF Adds
<1>3. \A x \in Hook \ {h} : ToSet(part) \cap ToSet(fresh[x]) = {}
  BY <1>1 DEF Inv, HookInv
<1>6. /\ pc' \in [Hook -> Reading \cup {"idle", "flush"}]
      /\ seen' \in [Hook -> Seq(Event)] /\ fresh' \in [Hook -> Seq(Event)]
      /\ todo' \in [Hook -> Seq(Event)] /\ group' \in [Hook -> Seq(Event)]
      /\ failed' \in [Hook -> Seq(Event)] /\ order' \in Seq(Event)
      /\ HookInv'
  BY <1>1, <1>2, <1>3, AfterForget DEF Adds
<1>7. Shape'
  BY <1>2, <1>6 DEF Shape, Inv, Adds
<1>8. FileInv'
  <2>1. IsInjective(order') /\ IsInjective(queue') /\ ToSet(queue') \subseteq ToSet(order')
    <3>1. IsInjective(order) /\ IsInjective(queue) /\ ToSet(queue) \subseteq ToSet(order)
      BY DEF Inv, FileInv, Queued
    <3>2. ToSet(queue) \cap ToSet(new) = {}
      BY <1>1, <3>1
    <3>3. IsInjective(order \o part) /\ IsInjective(queue \o new)
      BY <1>1, <3>1, <3>2, AtHook, InjectiveConcat
    <3>4. QED
      BY <1>1, <1>2, <3>1, <3>3
  <2>2. Sorted(order', queue')
    <3>1. Sorted(order \o part, queue)
      BY <1>1, AtHook, SortedStays DEF Inv, FileInv
    <3>2. Sorted(order \o part, new)
      <4>1. Subsequence(new, part)
        BY DEF Adds
      <4>2. QED
        BY <1>1, <4>1, AtHook, SortedAtEnd, SortedSubsequence
    <3>3. Before(order \o part, queue, new)
      <4>1. \A e \in ToSet(order), f \in ToSet(part) : OlderIn(order \o part, e, f)
        BY <1>1, AtHook, OlderStays
      <4>2. QED
        BY <1>1, <4>1 DEF Before, Inv, FileInv, Queued
    <3>4. QED
      BY <1>1, <1>2, <3>1, <3>2, <3>3, AtHook, SortedConcat
  <2>3. /\ acked' \subseteq ToSet(order') /\ shed' \subseteq ToSet(order')
        /\ absorbed' \subseteq ToSet(order')
    BY <1>2 DEF Adds, Inv, FileInv
  <2>4. stale' \subseteq {x \in Hook : pc'[x] \in Reading}
    BY StaleAtWork DEF Adds
  <2>5. QED
    BY <2>1, <2>2, <2>3, <2>4 DEF FileInv, Queued
<1>9. QED
  BY <1>6, <1>7, <1>8 DEF Inv

\* The list a replacement is taken from.
LEMMA ReplacedBy ==
  ASSUME Inv, NEW h \in Hook, NEW p, NEW all, Replaces(h, p, all)
  PROVE  /\ all \in Seq(Event) /\ IsInjective(all)
         /\ ToSet(all) \subseteq ToSet(order') /\ Sorted(order', all)
<1>1. /\ HookIn(order, pc[h], seen[h], fresh[h], todo[h], group[h], failed[h])
      /\ order \in Seq(Event) /\ seen[h] \in Seq(Event) /\ fresh[h] \in Seq(Event)
      /\ failed[h] \in Seq(Event)
  BY AtHook
<1>2. order' = order \o fresh[h] /\ ToSet(order') = ToSet(order) \cup ToSet(fresh[h])
  BY <1>1, ElementsOfConcat DEF Replaces
<1>3. CASE all = seen[h] \o fresh[h]
  <2>1. IsInjective(all) /\ ToSet(all) = ToSet(seen[h]) \cup ToSet(fresh[h]) /\ all \in Seq(Event)
    <3>1. ToSet(seen[h]) \cap ToSet(fresh[h]) = {}
      BY <1>1 DEF HookIn
    <3>2. QED
      BY <1>1, <1>3, <3>1, InjectiveConcat, ElementsOfConcat DEF HookIn
  <2>2. Sorted(order', all)
    <3>1. Sorted(order', seen[h]) /\ Sorted(order', fresh[h])
      BY <1>1, <1>2, SortedStays, SortedAtEnd DEF HookIn
    <3>2. Before(order', seen[h], fresh[h])
      <4>1. \A e \in ToSet(order), f \in ToSet(fresh[h]) : OlderIn(order', e, f)
        BY <1>1, <1>2, OlderStays
      <4>2. QED
        BY <1>1, <4>1 DEF Before, HookIn
    <3>3. QED
      BY <1>1, <1>3, <3>1, <3>2, SortedConcat
  <2>3. QED
    BY <1>1, <1>2, <2>1, <2>2 DEF HookIn
<1>4. CASE all = failed[h]
  <2>1. Sorted(order', failed[h]) /\ IsInjective(failed[h]) /\ ToSet(failed[h]) \subseteq ToSet(order)
    BY <1>1, <1>2, SortedStays DEF HookIn, Lists, Held
  <2>2. QED
    BY <1>1, <1>2, <1>4, <2>1
<1>5. QED
  BY <1>3, <1>4 DEF Replaces

LEMMA AfterReplace ==
  ASSUME Inv, NEW h \in Hook, NEW p, NEW all, Replaces(h, p, all)
  PROVE  Inv'
<1>1. /\ all \in Seq(Event) /\ IsInjective(all)
      /\ ToSet(all) \subseteq ToSet(order') /\ Sorted(order', all)
  BY ReplacedBy
<1>2. Parts(AllButNewest(MaxQueued, all), Newest(MaxQueued, all), all)
  BY <1>1, NewestParts, QueueAssumption
<1>3. /\ order' = order \o fresh[h] /\ IsInjective(fresh[h]) /\ ToSet(order) \cap ToSet(fresh[h]) = {}
      /\ ToSet(order') = ToSet(order) \cup ToSet(fresh[h]) /\ order' \in Seq(Event)
  BY AtHook, ElementsOfConcat DEF Replaces, HookIn
<1>4. \A x \in Hook \ {h} : ToSet(fresh[h]) \cap ToSet(fresh[x]) = {}
  BY DEF Inv, HookInv
<1>5. /\ pc' \in [Hook -> Reading \cup {"idle", "flush"}]
      /\ seen' \in [Hook -> Seq(Event)] /\ fresh' \in [Hook -> Seq(Event)]
      /\ todo' \in [Hook -> Seq(Event)] /\ group' \in [Hook -> Seq(Event)]
      /\ failed' \in [Hook -> Seq(Event)] /\ order' \in Seq(Event)
      /\ HookInv'
  <2>1. p \in {"idle", "flush"} /\ Moves(h, p, <<>>, <<>>, <<>>, <<>>, <<>>)
    BY DEF Replaces
  <2>2. QED
    BY <1>3, <1>4, <2>1, AtHook, AfterForget
<1>6. /\ queue' = Newest(MaxQueued, all) /\ queue' \in Seq(Event)
      /\ ToSet(queue') \subseteq ToSet(all) /\ IsInjective(queue')
      /\ ToSet(AllButNewest(MaxQueued, all)) \subseteq ToSet(all)
  BY <1>1, <1>2 DEF Replaces, Parts
<1>7. Shape'
  <2>1. raced' \in BOOLEAN
    BY DEF Replaces
  <2>2. QED
    BY <1>5, <1>6, <2>1 DEF Shape, Inv, Replaces
<1>8. FileInv'
  <2>1. IsInjective(order')
    BY <1>3, AtHook, InjectiveConcat DEF Inv, FileInv
  <2>2. Sorted(order', queue')
    BY <1>1, <1>2, <1>6, SortedParts
  <2>3. /\ acked' \subseteq ToSet(order') /\ shed' \subseteq ToSet(order')
        /\ absorbed' \subseteq ToSet(order') /\ ToSet(queue') \subseteq ToSet(order')
    BY <1>1, <1>3, <1>6 DEF Replaces, Inv, FileInv
  <2>4. stale' \subseteq {x \in Hook : pc'[x] \in Reading}
    BY StaleAtWork DEF Replaces
  <2>5. QED
    BY <1>6, <2>1, <2>2, <2>3, <2>4 DEF FileInv, Queued
<1>9. QED
  BY <1>5, <1>7, <1>8 DEF Inv

\* A step that leaves the file and its history alone.
LEMMA FileStays ==
  ASSUME Inv, UNCHANGED <<file, order, acked, shed, absorbed>>,
         stale' \subseteq {x \in Hook : pc'[x] \in Reading}
  PROVE  FileInv'
BY DEF Inv, FileInv, Queued, file

LEMMA AfterKill ==
  ASSUME Inv, NEW h \in Hook, Kill(h)
  PROVE  Inv'
<1>1. /\ Moves(h, "idle", <<>>, <<>>, <<>>, <<>>, <<>>)
      /\ stale' = stale \ {h} /\ kills' \in 0 .. MaxKills
      /\ UNCHANGED <<file, order, acked, shed, absorbed, raced, overlap>>
  BY KillMoves
<1>2. /\ pc' \in [Hook -> Reading \cup {"idle", "flush"}]
      /\ seen' \in [Hook -> Seq(Event)] /\ fresh' \in [Hook -> Seq(Event)]
      /\ todo' \in [Hook -> Seq(Event)] /\ group' \in [Hook -> Seq(Event)]
      /\ failed' \in [Hook -> Seq(Event)] /\ order' \in Seq(Event)
      /\ HookInv'
  <2>1. <<>> \in Seq(Event) /\ \A x \in Hook \ {h} : ToSet(<<>>) \cap ToSet(fresh[x]) = {}
    BY NoElements
  <2>2. QED
    BY <1>1, <2>1, NothingNew, AfterForget
<1>3. Shape'
  BY <1>1, <1>2 DEF Shape, Inv, file
<1>4. FileInv'
  BY <1>1, StaleAtWork, FileStays
<1>5. QED
  BY <1>2, <1>3, <1>4 DEF Inv

\* What a read leaves h with.
LEMMA EnqueueMoves ==
  ASSUME Inv, NEW h \in Hook, NEW b \in Batch, ReadForEnqueue(h, b)
  PROVE  \E fr \in Seq(Event) :
           /\ \/ fr = <<>> /\ Moves(h, "flush", <<>>, <<>>, <<>>, <<>>, <<>>)
              \/ fr # <<>> /\ Moves(h, "append", queue, fr, <<>>, <<>>, <<>>)
           /\ pc[h] = "idle" /\ IsInjective(fr) /\ Len(fr) <= MaxHanded
           /\ ToSet(fr) \cap ToSet(order) = {}
           /\ \A x \in Hook : ToSet(fr) \cap ToSet(fresh[x]) = {}
           /\ Distinct(ToSet(fr)) /\ \A e \in ToSet(fr), f \in Queued : IdOf[e] # IdOf[f]
<1> DEFINE new == New(b, Ids(ToSet(queue)))
<1>1. b \in Seq(Event) /\ Len(b) \in Nat /\ Len(b) <= MaxHanded /\ MaxHanded \in Nat
  BY QueueAssumption
<1>2. /\ new \in Seq(Event) /\ IsInjective(new) /\ ToSet(new) \subseteq ToSet(b)
      /\ Len(new) <= Len(b) /\ Distinct(ToSet(new))
      /\ \A e \in ToSet(new) : IdOf[e] \notin Ids(ToSet(queue))
  BY <1>1, NewFacts
<1>3. /\ pc[h] = "idle" /\ \A e \in ToSet(b) : ~HandedIn(e)
      /\ pc' = [pc EXCEPT ![h] = IF new = <<>> THEN "flush" ELSE "append"]
      /\ seen' = [seen EXCEPT ![h] = IF new = <<>> THEN <<>> ELSE queue]
      /\ fresh' = [fresh EXCEPT ![h] = new]
      /\ UNCHANGED <<todo, group, failed>>
  BY DEF ReadForEnqueue
<1> HIDE DEF new
<1>4. todo[h] = <<>> /\ group[h] = <<>> /\ failed[h] = <<>>
  BY <1>3, AtHook DEF HookIn, Posting, Sending, Reading
<1>5. ToSet(new) \cap ToSet(order) = {} /\ \A x \in Hook : ToSet(new) \cap ToSet(fresh[x]) = {}
  BY <1>2, <1>3 DEF HandedIn
<1>6. Len(new) <= MaxHanded /\ \A e \in ToSet(new), f \in Queued : IdOf[e] # IdOf[f]
  BY <1>1, <1>2 DEF Ids, Queued
<1>7. todo' = [todo EXCEPT ![h] = <<>>] /\ group' = [group EXCEPT ![h] = <<>>] /\ failed' = [failed EXCEPT ![h] = <<>>]
  BY <1>3, <1>4, Unmoved DEF Inv, Shape
<1>8. CASE new = <<>>
  <2>1. Moves(h, "flush", <<>>, <<>>, <<>>, <<>>, <<>>)
    BY <1>3, <1>7, <1>8 DEF Moves
  <2>2. QED
    BY <1>2, <1>3, <1>5, <1>6, <1>8, <2>1
<1>9. CASE new # <<>>
  <2>1. Moves(h, "append", queue, new, <<>>, <<>>, <<>>)
    BY <1>3, <1>7, <1>9 DEF Moves
  <2>2. QED
    BY <1>2, <1>3, <1>5, <1>6, <1>9, <2>1
<1>10. QED
  BY <1>8, <1>9

LEMMA AfterEnqueueRead ==
  ASSUME Inv, NEW h \in Hook, NEW b \in Batch, ReadForEnqueue(h, b)
  PROVE  Inv'
<1>1. PICK fr \in Seq(Event) :
           /\ \/ fr = <<>> /\ Moves(h, "flush", <<>>, <<>>, <<>>, <<>>, <<>>)
              \/ fr # <<>> /\ Moves(h, "append", queue, fr, <<>>, <<>>, <<>>)
           /\ pc[h] = "idle" /\ IsInjective(fr) /\ Len(fr) <= MaxHanded
           /\ ToSet(fr) \cap ToSet(order) = {}
           /\ \A x \in Hook : ToSet(fr) \cap ToSet(fresh[x]) = {}
  BY EnqueueMoves
<1>2. /\ UNCHANGED <<file, order, acked, shed, absorbed, stale, raced, kills>>
      /\ overlap' = (overlap \/ Others(h) # {})
  BY DEF ReadForEnqueue, NoteRead
<1>3. PICK z \in Seq(Event) : z = <<>> /\ order' = order \o z /\ ToSet(z) = {}
  BY <1>2, NothingNew, NoElements
<1>4. /\ pc' \in [Hook -> Reading \cup {"idle", "flush"}]
      /\ seen' \in [Hook -> Seq(Event)] /\ fresh' \in [Hook -> Seq(Event)]
      /\ todo' \in [Hook -> Seq(Event)] /\ group' \in [Hook -> Seq(Event)]
      /\ failed' \in [Hook -> Seq(Event)] /\ order' \in Seq(Event)
      /\ HookInv'
  <2>1. CASE fr = <<>>
    BY <1>1, <1>3, <2>1, AfterForget
  <2>2. CASE fr # <<>>
    <3>1. HookIn(order', "append", queue, fr, z, z, z)
      BY <1>1, <1>2, <1>3, <2>2, NothingHeld DEF HookIn, Posting, Inv, FileInv, Queued
    <3>2. Moves(h, "append", queue, fr, z, z, z) /\ "append" \in Reading
      BY <1>1, <1>3, <2>2 DEF Reading
    <3>3. \A x \in Hook \ {h} : /\ ToSet(z) \cap ToSet(fresh[x]) = {}
                                /\ ToSet(fr) \cap ToSet(fresh[x]) = {}
      BY <1>1, <1>3
    <3>4. QED
      BY <1>3, <3>1, <3>2, <3>3, AtHook, AfterMove
  <2>3. QED
    BY <2>1, <2>2
<1>5. Shape'
  BY <1>2, <1>4 DEF Shape, Inv, file
<1>6. FileInv'
  <2>1. h \notin stale
    BY <1>1 DEF Inv, FileInv, Reading
  <2>2. stale' \subseteq {x \in Hook : pc'[x] \in Reading}
    BY <1>1, <1>2, <2>1, StaleAtWork
  <2>3. QED
    BY <1>2, <2>2, FileStays
<1>7. QED
  BY <1>4, <1>5, <1>6 DEF Inv

LEMMA FlushMoves ==
  ASSUME Inv, NEW h \in Hook, ReadForFlush(h)
  PROVE  \E p \in {"idle", "token"} :
           /\ Moves(h, p, <<>>, <<>>, queue, <<>>, <<>>)
           /\ pc[h] = "flush" /\ (p = "token" <=> queue # <<>>)
<1> DEFINE p == IF queue = <<>> THEN "idle" ELSE "token"
<1>1. /\ pc[h] = "flush" /\ pc' = [pc EXCEPT ![h] = p]
      /\ todo' = [todo EXCEPT ![h] = queue] /\ UNCHANGED <<seen, fresh, group, failed>>
  BY DEF ReadForFlush, Goto
<1>2. seen[h] = <<>> /\ fresh[h] = <<>> /\ group[h] = <<>> /\ failed[h] = <<>>
  BY <1>1, AtHook DEF HookIn, Posting, Sending, Reading
<1>3. Moves(h, p, <<>>, <<>>, queue, <<>>, <<>>)
  BY <1>1, <1>2, Unmoved DEF Moves, Inv, Shape
<1>4. QED
  BY <1>1, <1>3

LEMMA AfterFlushRead ==
  ASSUME Inv, NEW h \in Hook, ReadForFlush(h)
  PROVE  Inv'
<1>1. PICK p \in {"idle", "token"} :
        /\ Moves(h, p, <<>>, <<>>, queue, <<>>, <<>>)
        /\ pc[h] = "flush" /\ (p = "token" <=> queue # <<>>)
  BY FlushMoves
<1>2. /\ UNCHANGED <<file, order, acked, shed, absorbed, stale, raced, kills>>
      /\ overlap' = (overlap \/ Others(h) # {})
  BY DEF ReadForFlush, NoteRead
<1>3. PICK z \in Seq(Event) : z = <<>> /\ order' = order \o z /\ ToSet(z) = {}
  BY <1>2, NothingNew, NoElements
<1>4. HookIn(order', p, z, z, queue, z, z)
  <2>1. queue \in Seq(Event) /\ IsInjective(queue) /\ Sorted(order, queue) /\ ToSet(queue) \subseteq ToSet(order)
    BY DEF Inv, Shape, FileInv, Queued
  <2>2. Lists(order, queue, z, z) /\ Held(queue, z, z) = ToSet(queue)
    BY <1>3, <2>1, OnlyWaiting
  <2>3. IsInjective(z) /\ Sorted(order, z) /\ Len(z) = 0 /\ MaxHanded \in Nat
    BY <1>3, NoElements, QueueAssumption
  <2>4. QED
    BY <1>1, <1>2, <1>3, <2>1, <2>2, <2>3 DEF HookIn, Posting
<1>5. /\ pc' \in [Hook -> Reading \cup {"idle", "flush"}]
      /\ seen' \in [Hook -> Seq(Event)] /\ fresh' \in [Hook -> Seq(Event)]
      /\ todo' \in [Hook -> Seq(Event)] /\ group' \in [Hook -> Seq(Event)]
      /\ failed' \in [Hook -> Seq(Event)] /\ order' \in Seq(Event)
      /\ HookInv'
  <2>1. Moves(h, p, z, z, queue, z, z) /\ p \in Reading \cup {"idle", "flush"}
    BY <1>1, <1>3 DEF Reading
  <2>2. \A x \in Hook \ {h} : ToSet(z) \cap ToSet(fresh[x]) = {}
    BY <1>3
  <2>3. QED
    BY <1>3, <1>4, <2>1, <2>2, AtHook, AfterMove
<1>6. Shape'
  BY <1>2, <1>5 DEF Shape, Inv, file
<1>7. FileInv'
  <2>1. h \notin stale
    BY <1>1 DEF Inv, FileInv, Reading
  <2>2. stale' \subseteq {x \in Hook : pc'[x] \in Reading}
    BY <1>1, <1>2, <2>1, StaleAtWork
  <2>3. QED
    BY <1>2, <2>2, FileStays
<1>8. QED
  BY <1>5, <1>6, <1>7 DEF Inv

LEMMA InvStep == Inv /\ [Next]_vars => Inv'
<1>1. ASSUME Inv, UNCHANGED vars PROVE Inv'
  BY <1>1 DEF vars, file, locals, history, Inv, Shape, FileInv, HookInv, Queued
<1>2. ASSUME Inv, Next PROVE Inv'
  <2>1. PICK h \in Hook : \/ \E b \in Batch : ReadForEnqueue(h, b)
                          \/ ReadForFlush(h)
                          \/ \E p, t, g, f : Work(h, p, t, g, f)
                          \/ \E p, part, new : Adds(h, p, part, new)
                          \/ \E p, all : Replaces(h, p, all)
                          \/ Kill(h)
    BY <1>2, Cases
  <2>2. QED
    BY <1>2, <2>1, AfterEnqueueRead, AfterFlushRead, AfterWork, AfterAdd, AfterReplace, AfterKill
<1>3. QED
  BY <1>1, <1>2

LEMMA InvAlways == Spec => []Inv
BY InvAtStart, InvStep, PTL DEF Spec

LEMMA InvTypes == Inv => TypeOK
<1> SUFFICES ASSUME Inv PROVE TypeOK
  OBVIOUS
<1>1. ToSet(order) \subseteq Event /\ Len(order) = Cardinality(ToSet(order))
  BY Elements, InjectiveLength DEF Inv, Shape, FileInv
<1>2. ASSUME NEW h \in Hook
      PROVE  /\ {seen[h], fresh[h], todo[h], group[h], failed[h]} \subseteq Seq(Event)
             /\ pc[h] = "append" <=> fresh[h] # <<>>
             /\ pc[h] \in {"post", "refresh", "repost"} <=> group[h] # <<>>
             /\ pc[h] = "token" => todo[h] # <<>>
             /\ failed[h] # <<>> => pc[h] \in Reading \ {"append"}
  BY AtHook DEF HookIn, Posting, Sending
<1>3. QED
  BY <1>1, <1>2 DEF TypeOK, Inv, Shape, FileInv

\* Types, where a hook may be with what it holds, and that no list of events
\* repeats one: enqueue queues no event that is known (queue.rs:43-53).
THEOREM QueueTypes == Spec => []TypeOK
BY InvAlways, InvTypes, PTL
-----------------------------------------------------------------------------
(* What a hook that writes the file still knows of it.                     *)

\* Unless the file has moved on since its read.
LostInv ==
  \A h \in Hook : h \notin stale =>
    /\ pc[h] = "append" => seen[h] = queue
    /\ pc[h] \in Sending => Queued \subseteq Local(h) \cup acked

LEMMA MoveAt ==
  ASSUME Inv, NEW h \in Hook, NEW p, NEW s, NEW fr, NEW t, NEW g, NEW f,
         Moves(h, p, s, fr, t, g, f)
  PROVE  /\ pc'[h] = p /\ seen'[h] = s /\ fresh'[h] = fr /\ Local(h)' = Held(t, g, f)
         /\ \A x \in Hook \ {h} : /\ pc'[x] = pc[x] /\ seen'[x] = seen[x] /\ fresh'[x] = fresh[x]
                                  /\ Local(x)' = Local(x)
BY DEF Moves, Inv, Shape, Local

LEMMA LostAtStart == Init => LostInv /\ LostOnlyByRace
BY NoElements DEF Init, LostInv, LostOnlyByRace, Sending, Reading

LEMMA LostAfterRead ==
  ASSUME Inv, LostInv, LostOnlyByRace, NEW h \in Hook,
         (\E b \in Batch : ReadForEnqueue(h, b)) \/ ReadForFlush(h)
  PROVE  LostInv' /\ LostOnlyByRace'
<1>1. UNCHANGED <<file, order, acked, shed, absorbed, stale, raced, kills>>
  BY DEF ReadForFlush, ReadForEnqueue
<1>2. PICK p, s, fr, t :
        /\ Moves(h, p, s, fr, t, <<>>, <<>>)
        /\ p = "append" => s = queue
        /\ p \in Sending => t = queue
  <2>1. CASE \E b \in Batch : ReadForEnqueue(h, b)
    BY <2>1, EnqueueMoves DEF Sending, Reading
  <2>2. CASE ReadForFlush(h)
    BY <2>2, FlushMoves DEF Sending, Reading
  <2>3. QED
    BY <2>1, <2>2
<1>3. LostInv'
  <2>1. ASSUME NEW x \in Hook, x \notin stale'
        PROVE  /\ pc'[x] = "append" => seen'[x] = queue'
               /\ pc'[x] \in Sending => Queued' \subseteq Local(x)' \cup acked'
    <3>1. CASE x = h
      BY <1>1, <1>2, <3>1, MoveAt DEF Held, Queued, file
    <3>2. CASE x # h
      BY <1>1, <1>2, <2>1, <3>2, MoveAt DEF LostInv, Queued, file
    <3>3. QED
      BY <3>1, <3>2
  <2>2. QED
    BY <2>1 DEF LostInv
<1>4. QED
  BY <1>1, <1>3 DEF LostOnlyByRace, Queued, file

LEMMA LostAfterWork ==
  ASSUME Inv, LostInv, LostOnlyByRace, NEW h \in Hook,
         NEW p, NEW t, NEW g, NEW f, Work(h, p, t, g, f)
  PROVE  LostInv' /\ LostOnlyByRace'
<1>1. ASSUME NEW x \in Hook, x \notin stale'
      PROVE  /\ pc'[x] = "append" => seen'[x] = queue'
             /\ pc'[x] \in Sending => Queued' \subseteq Local(x)' \cup acked'
  <2>1. Moves(h, p, seen[h], fresh[h], t, g, f) /\ UNCHANGED <<queue, stale>> /\ acked \subseteq acked'
    BY DEF Work, file
  <2>2. CASE x = h
    <3>1. pc[h] \in Sending /\ p \in Sending /\ Local(h) \subseteq Held(t, g, f) \cup acked'
      BY DEF Work, Sending, Reading, Posting
    <3>2. QED
      BY <1>1, <2>1, <2>2, <3>1, MoveAt DEF LostInv, Sending, Queued
  <2>3. CASE x # h
    BY <1>1, <2>1, <2>3, MoveAt DEF LostInv, Queued
  <2>4. QED
    BY <2>2, <2>3
<1>2. LostOnlyByRace'
  BY DEF Work, LostOnlyByRace, Queued, file
<1>3. QED
  BY <1>1, <1>2 DEF LostInv

\* A write leaves no hook at work that believes its read.
LEMMA LostAfterWrite ==
  ASSUME Inv, NEW h \in Hook, NEW p \in {"idle", "flush"},
         Moves(h, p, <<>>, <<>>, <<>>, <<>>, <<>>), stale' = (stale \ {h}) \cup Others(h)
  PROVE  LostInv'
<1>1. ASSUME NEW x \in Hook, x \notin stale' PROVE pc'[x] # "append" /\ pc'[x] \notin Sending
  <2>1. CASE x = h
    BY <2>1, MoveAt DEF Sending, Reading
  <2>2. CASE x # h
    BY <1>1, <2>2, MoveAt DEF Sending, Others, Reading
  <2>3. QED
    BY <2>1, <2>2
<1>2. QED
  BY <1>1 DEF LostInv

LEMMA LostAfterAdd ==
  ASSUME Inv, LostOnlyByRace, NEW h \in Hook, NEW p, NEW part, NEW new, Adds(h, p, part, new)
  PROVE  LostInv' /\ LostOnlyByRace'
<1>1. LostInv'
  BY LostAfterWrite DEF Adds
<1>2. /\ ToSet(order') = ToSet(order) \cup ToSet(part)
      /\ ToSet(queue') = ToSet(queue) \cup ToSet(new)
  BY AtHook, ElementsOfConcat DEF Adds
<1>3. QED
  BY <1>1, <1>2 DEF Adds, LostOnlyByRace, Queued

LEMMA LostAfterReplace ==
  ASSUME Inv, LostInv, LostOnlyByRace, NEW h \in Hook, NEW p, NEW all, Replaces(h, p, all)
  PROVE  LostInv' /\ LostOnlyByRace'
<1>1. LostInv'
  BY LostAfterWrite DEF Replaces
<1>2. ToSet(order') = ToSet(order) \cup ToSet(fresh[h])
  BY AtHook, ElementsOfConcat DEF Replaces
<1>3. ToSet(all) = ToSet(queue') \cup ToSet(AllButNewest(MaxQueued, all))
  <2>1. Parts(AllButNewest(MaxQueued, all), Newest(MaxQueued, all), all)
    BY ReplacedBy, NewestParts, QueueAssumption
  <2>2. QED
    BY <2>1 DEF Parts, Replaces
<1>4. h \in stale \/ Queued \cup ToSet(fresh[h]) \subseteq ToSet(all) \cup acked
  <2>1. CASE pc[h] = "append" /\ all = seen[h] \o fresh[h] /\ h \notin stale
    BY <2>1, AtHook, ElementsOfConcat DEF LostInv, Queued
  <2>2. CASE pc[h] = "replace" /\ all = failed[h] /\ h \notin stale
    <3>1. todo[h] = <<>> /\ group[h] = <<>> /\ fresh[h] = <<>>
      BY <2>2, AtHook DEF HookIn, Posting
    <3>2. Local(h) = ToSet(failed[h]) /\ ToSet(fresh[h]) = {}
      BY <3>1, NoElements DEF Local, Held
    <3>3. QED
      BY <2>2, <3>2 DEF LostInv, Sending, Reading
  <2>3. QED
    BY <2>1, <2>2 DEF Replaces
<1>5. LostOnlyByRace'
  BY <1>2, <1>3, <1>4 DEF Replaces, LostOnlyByRace, Queued
<1>6. QED
  BY <1>1, <1>5

LEMMA LostAfterKill ==
  ASSUME Inv, LostInv, LostOnlyByRace, NEW h \in Hook, Kill(h)
  PROVE  LostInv' /\ LostOnlyByRace'
<1>1. /\ Moves(h, "idle", <<>>, <<>>, <<>>, <<>>, <<>>)
      /\ stale' = stale \ {h} /\ UNCHANGED <<file, order, acked, shed, absorbed, raced, overlap>>
  BY KillMoves
<1>2. ASSUME NEW x \in Hook, x \notin stale'
      PROVE  /\ pc'[x] = "append" => seen'[x] = queue'
             /\ pc'[x] \in Sending => Queued' \subseteq Local(x)' \cup acked'
  <2>1. CASE x = h
    BY <1>1, <2>1, MoveAt DEF Sending, Reading
  <2>2. CASE x # h
    BY <1>1, <1>2, <2>2, MoveAt DEF LostInv, Queued, file
  <2>3. QED
    BY <2>1, <2>2
<1>3. QED
  BY <1>1, <1>2 DEF LostInv, LostOnlyByRace, Queued, file

LEMMA LostStep == Inv /\ LostInv /\ LostOnlyByRace /\ [Next]_vars => LostInv' /\ LostOnlyByRace'
<1>1. ASSUME Inv, LostInv, LostOnlyByRace, UNCHANGED vars PROVE LostInv' /\ LostOnlyByRace'
  BY <1>1 DEF vars, file, locals, history, LostInv, LostOnlyByRace, Queued, Local
<1>2. ASSUME Inv, LostInv, LostOnlyByRace, Next PROVE LostInv' /\ LostOnlyByRace'
  <2>1. PICK h \in Hook : \/ \E b \in Batch : ReadForEnqueue(h, b)
                          \/ ReadForFlush(h)
                          \/ \E p, t, g, f : Work(h, p, t, g, f)
                          \/ \E p, part, new : Adds(h, p, part, new)
                          \/ \E p, all : Replaces(h, p, all)
                          \/ Kill(h)
    BY <1>2, Cases
  <2>2. QED
    BY <1>2, <2>1, LostAfterRead, LostAfterWork, LostAfterAdd, LostAfterReplace, LostAfterKill
<1>3. QED
  BY <1>1, <1>2

\* "Nothing is ever lost, only delayed", kills included, unless a hook
\* replaced the file after another had written it (queue.rs:77, 136-143).
THEOREM NothingLostButByRace == Spec => []LostOnlyByRace
<1>1. Init => Inv /\ LostInv /\ LostOnlyByRace
  BY InvAtStart, LostAtStart
<1>2. Inv /\ LostInv /\ LostOnlyByRace /\ [Next]_vars => (Inv /\ LostInv /\ LostOnlyByRace)'
  BY InvStep, LostStep
<1>3. QED
  BY <1>1, <1>2, PTL DEF Spec
-----------------------------------------------------------------------------
(* Hooks that do not overlap.                                              *)

\* One hook at most is between its read and its write, and what it sends is
\* what is queued.
AloneInv ==
  ~overlap =>
    /\ Len(queue) <= MaxQueued /\ stale = {} /\ ~raced
    /\ \A g, h \in Hook : pc[g] \in Reading /\ pc[h] \in Reading => g = h
    /\ \A h \in Hook : pc[h] \in Sending => Local(h) \subseteq Queued

\* Nothing that is queued, or that a flush holds, was answered before.
CleanInv ==
  ~overlap /\ kills = 0 =>
    /\ (\A h \in Hook : pc[h] \notin Sending) => Queued \cap acked = {}
    /\ \A h \in Hook : pc[h] \in Sending => Local(h) \cap acked = {}

LEMMA AloneAtStart == Init => AloneInv /\ CleanInv
BY NoElements, QueueAssumption DEF Init, AloneInv, CleanInv, Sending, Reading, Queued

\* Where the hooks are after a step by h.
LEMMA AloneAfterMove ==
  ASSUME Inv, NEW h \in Hook, NEW p, NEW s, NEW fr, NEW t, NEW g, NEW f,
         Moves(h, p, s, fr, t, g, f),
         \A x \in Hook \ {h} : p \in Reading => pc[x] \notin Reading,
         \A x, y \in Hook : pc[x] \in Reading /\ pc[y] \in Reading => x = y
  PROVE  \A x, y \in Hook : pc'[x] \in Reading /\ pc'[y] \in Reading => x = y
BY MoveAt

LEMMA AloneAfterRead ==
  ASSUME Inv, AloneInv, CleanInv, NEW h \in Hook,
         (\E b \in Batch : ReadForEnqueue(h, b)) \/ ReadForFlush(h)
  PROVE  AloneInv' /\ CleanInv'
<1> SUFFICES ASSUME ~overlap' PROVE AloneInv' /\ CleanInv'
  BY DEF AloneInv, CleanInv
<1>1. /\ UNCHANGED <<queue, order, acked, shed, absorbed, stale, raced, kills>>
      /\ overlap' = (overlap \/ Others(h) # {})
  BY DEF ReadForFlush, ReadForEnqueue, NoteRead, file
<1>2. PICK p, s, fr, t :
        /\ Moves(h, p, s, fr, t, <<>>, <<>>)
        /\ pc[h] \notin Reading /\ p \in Sending => t = queue
  <2>1. CASE \E b \in Batch : ReadForEnqueue(h, b)
    BY <2>1, EnqueueMoves DEF Sending, Reading
  <2>2. CASE ReadForFlush(h)
    BY <2>2, FlushMoves DEF Sending, Reading
  <2>3. QED
    BY <2>1, <2>2
<1>3. \A x \in Hook : pc[x] \notin Reading
  <2>1. pc[h] \notin Reading
    <3>1. CASE \E b \in Batch : ReadForEnqueue(h, b)
      BY <3>1 DEF ReadForEnqueue, Reading
    <3>2. CASE ReadForFlush(h)
      BY <3>2 DEF ReadForFlush, Goto, Reading
    <3>3. QED
      BY <3>1, <3>2
  <2>2. QED
    BY <1>1, <2>1 DEF Others
<1>4. \A x \in Hook \ {h} : pc'[x] \notin Reading /\ pc'[x] \notin Sending
  BY <1>2, <1>3, MoveAt DEF Sending
<1>5. pc'[h] \in Sending => Local(h)' = Queued
  <2>1. pc'[h] = p /\ Local(h)' = Held(t, <<>>, <<>>)
    BY <1>2, MoveAt
  <2>2. p \in Sending => t = queue
    BY <1>2, <1>3
  <2>3. Held(queue, <<>>, <<>>) = Queued
    BY NoElements DEF Held, Queued
  <2>4. QED
    BY <2>1, <2>2, <2>3
<1>6. AloneInv'
  <2>1. Len(queue') <= MaxQueued /\ stale' = {} /\ ~raced'
    BY <1>1 DEF AloneInv
  <2>2. \A x, y \in Hook : pc'[x] \in Reading /\ pc'[y] \in Reading => x = y
    BY <1>4
  <2>3. \A x \in Hook : pc'[x] \in Sending => Local(x)' \subseteq Queued'
    BY <1>1, <1>4, <1>5 DEF Queued
  <2>4. QED
    BY <2>1, <2>2, <2>3 DEF AloneInv
<1>7. CleanInv'
  <2>1. SUFFICES ASSUME kills' = 0 PROVE CleanInv'
    BY DEF CleanInv
  <2>2. Queued \cap acked = {}
    BY <1>1, <1>3, <2>1 DEF CleanInv, Sending
  <2>3. QED
    BY <1>1, <1>4, <1>5, <2>2 DEF CleanInv, Queued
<1>8. QED
  BY <1>6, <1>7

LEMMA AloneAfterWork ==
  ASSUME Inv, AloneInv, CleanInv, NEW h \in Hook,
         NEW p, NEW t, NEW g, NEW f, Work(h, p, t, g, f)
  PROVE  AloneInv' /\ CleanInv'
<1> SUFFICES ASSUME ~overlap' PROVE AloneInv' /\ CleanInv'
  BY DEF AloneInv, CleanInv
<1>1. /\ Moves(h, p, seen[h], fresh[h], t, g, f) /\ UNCHANGED <<queue, stale, raced, overlap, kills>>
      /\ pc[h] \in Sending /\ pc[h] \in Reading
      /\ Held(t, g, f) \subseteq Local(h) /\ Held(t, g, f) \cap acked' \subseteq acked
  BY DEF Work, file, Sending, Reading, Posting
<1>2. \A x \in Hook \ {h} : pc[x] \notin Reading
  BY <1>1 DEF AloneInv
<1>3. Local(h)' = Held(t, g, f) /\ pc'[h] \in Sending /\ \A x \in Hook \ {h} : pc'[x] \notin Reading
  BY <1>1, <1>2, MoveAt DEF Work
<1>4. AloneInv'
  <2>1. Len(queue') <= MaxQueued /\ stale' = {} /\ ~raced' /\ Local(h) \subseteq Queued'
    BY <1>1 DEF AloneInv, Queued
  <2>2. \A x \in Hook : pc'[x] \in Sending => Local(x)' \subseteq Queued'
    BY <1>1, <1>3, <2>1 DEF Sending
  <2>3. QED
    BY <1>3, <2>1, <2>2 DEF AloneInv
<1>5. CleanInv'
  BY <1>1, <1>3 DEF CleanInv, Sending
<1>6. QED
  BY <1>4, <1>5

\* What a hook that is alone with the file writes to it.
LEMMA AloneAtWrite ==
  ASSUME Inv, LostInv, AloneInv, CleanInv, ~overlap, NEW h \in Hook, pc[h] \in Reading
  PROVE  /\ \A x \in Hook \ {h} : pc[x] \notin Reading
         /\ Others(h) = {} /\ h \notin stale
         /\ pc[h] = "append" => /\ seen[h] = queue
                                /\ kills = 0 => (Queued \cup ToSet(fresh[h])) \cap acked = {}
         /\ pc[h] = "replace" => /\ Local(h) = ToSet(failed[h])
                                 /\ kills = 0 => ToSet(failed[h]) \cap acked = {}
<1>1. \A x \in Hook \ {h} : pc[x] \notin Reading
  BY DEF AloneInv
<1>2. Others(h) = {} /\ h \notin stale
  BY <1>1 DEF Others, AloneInv
<1>3. ASSUME pc[h] = "append"
      PROVE  seen[h] = queue /\ (kills = 0 => (Queued \cup ToSet(fresh[h])) \cap acked = {})
  <2>1. seen[h] = queue
    BY <1>2, <1>3 DEF LostInv
  <2>2. ToSet(fresh[h]) \cap acked = {}
    BY AtHook DEF HookIn, Inv, FileInv
  <2>3. kills = 0 => Queued \cap acked = {}
    BY <1>1, <1>3 DEF CleanInv, Sending
  <2>4. QED
    BY <2>1, <2>2, <2>3
<1>4. ASSUME pc[h] = "replace"
      PROVE  Local(h) = ToSet(failed[h]) /\ (kills = 0 => ToSet(failed[h]) \cap acked = {})
  <2>1. todo[h] = <<>> /\ group[h] = <<>>
    BY <1>4, AtHook DEF HookIn, Posting
  <2>2. Local(h) = ToSet(failed[h])
    BY <2>1, NoElements DEF Local, Held
  <2>3. QED
    BY <1>4, <2>2 DEF CleanInv, Sending, Reading
<1>5. QED
  BY <1>1, <1>2, <1>3, <1>4

LEMMA AloneAfterForget ==
  ASSUME Inv, NEW h \in Hook, NEW p \in {"idle", "flush"},
         Moves(h, p, <<>>, <<>>, <<>>, <<>>, <<>>), \A x \in Hook \ {h} : pc[x] \notin Reading
  PROVE  \A x \in Hook : pc'[x] \notin Reading /\ pc'[x] \notin Sending
<1>1. pc'[h] = p /\ \A x \in Hook \ {h} : pc'[x] = pc[x]
  BY MoveAt
<1>2. QED
  BY <1>1 DEF Reading, Sending

LEMMA AloneAfterAdd ==
  ASSUME Inv, LostInv, AloneInv, CleanInv, NEW h \in Hook,
         NEW p, NEW part, NEW new, Adds(h, p, part, new)
  PROVE  AloneInv' /\ CleanInv'
<1> SUFFICES ASSUME ~overlap' PROVE AloneInv' /\ CleanInv'
  BY DEF AloneInv, CleanInv
<1>1. /\ pc[h] = "append" /\ pc[h] \in Reading /\ ~overlap /\ UNCHANGED <<acked, raced, overlap>>
      /\ Len(seen[h]) + Len(fresh[h]) <= MaxQueued
      /\ part \in Seq(Event) /\ new \in Seq(Event) /\ Subsequence(new, part)
      /\ ToSet(part) \subseteq ToSet(fresh[h]) /\ Len(part) <= Len(fresh[h]) /\ Len(new) <= Len(part)
      /\ queue' = queue \o new /\ stale' = (stale \ {h}) \cup Others(h)
      /\ p \in {"idle", "flush"} /\ Moves(h, p, <<>>, <<>>, <<>>, <<>>, <<>>)
      /\ kills \in Nat /\ kills' \in Nat /\ kills' >= kills
  BY DEF Adds, Reading, Inv, Shape
<1>2. /\ \A x \in Hook \ {h} : pc[x] \notin Reading
      /\ Others(h) = {} /\ seen[h] = queue
      /\ kills = 0 => (Queued \cup ToSet(fresh[h])) \cap acked = {}
  BY <1>1, AloneAtWrite
<1>3. \A x \in Hook : pc'[x] \notin Reading /\ pc'[x] \notin Sending
  BY <1>1, <1>2, AloneAfterForget
<1>4. Len(queue') <= MaxQueued
  <2>1. /\ Len(queue \o new) = Len(queue) + Len(new) /\ Len(queue) \in Nat /\ Len(new) \in Nat
        /\ Len(part) \in Nat /\ Len(fresh[h]) \in Nat /\ MaxQueued \in Nat
    BY <1>1, AtHook, QueueAssumption
  <2>2. QED
    BY <1>1, <1>2, <2>1
<1>5. AloneInv'
  BY <1>1, <1>2, <1>3, <1>4 DEF AloneInv
<1>6. CleanInv'
  <2>1. SUFFICES ASSUME kills' = 0 PROVE CleanInv'
    BY DEF CleanInv
  <2>2. ToSet(queue') = Queued \cup ToSet(new) /\ ToSet(new) \subseteq ToSet(part)
    BY <1>1, AtHook, ElementsOfConcat, SubsequenceFacts DEF Queued
  <2>3. kills = 0
    BY <1>1, <2>1
  <2>4. ToSet(queue') \cap acked' = {}
    BY <1>1, <1>2, <2>2, <2>3
  <2>5. QED
    BY <1>3, <2>4 DEF CleanInv, Queued
<1>7. QED
  BY <1>5, <1>6

LEMMA AloneAfterReplace ==
  ASSUME Inv, LostInv, AloneInv, CleanInv, NEW h \in Hook, NEW p, NEW all, Replaces(h, p, all)
  PROVE  AloneInv' /\ CleanInv'
<1> SUFFICES ASSUME ~overlap' PROVE AloneInv' /\ CleanInv'
  BY DEF AloneInv, CleanInv
<1>1. /\ pc[h] \in {"append", "replace"} /\ pc[h] \in Reading /\ ~overlap /\ UNCHANGED <<acked, overlap, kills>>
      /\ queue' = Newest(MaxQueued, all) /\ stale' = (stale \ {h}) \cup Others(h)
      /\ raced' = (raced \/ h \in stale)
      /\ p \in {"idle", "flush"} /\ Moves(h, p, <<>>, <<>>, <<>>, <<>>, <<>>)
  BY DEF Replaces, Reading
<1>2. /\ \A x \in Hook \ {h} : pc[x] \notin Reading
      /\ Others(h) = {} /\ h \notin stale
      /\ pc[h] = "append" => /\ seen[h] = queue
                             /\ kills = 0 => (Queued \cup ToSet(fresh[h])) \cap acked = {}
      /\ pc[h] = "replace" /\ kills = 0 => ToSet(failed[h]) \cap acked = {}
  BY <1>1, AloneAtWrite
<1>3. \A x \in Hook : pc'[x] \notin Reading /\ pc'[x] \notin Sending
  BY <1>1, <1>2, AloneAfterForget
<1>4. Len(queue') <= MaxQueued /\ ToSet(queue') \subseteq ToSet(all)
  <2>1. /\ Parts(AllButNewest(MaxQueued, all), Newest(MaxQueued, all), all) /\ all \in Seq(Event)
        /\ Len(Newest(MaxQueued, all)) = IF Len(all) > MaxQueued THEN MaxQueued ELSE Len(all)
    BY ReplacedBy, NewestParts, QueueAssumption
  <2>2. Len(all) \in Nat /\ MaxQueued \in Nat
    BY <2>1, QueueAssumption
  <2>3. QED
    BY <1>1, <2>1, <2>2 DEF Parts
<1>5. AloneInv'
  BY <1>1, <1>2, <1>3, <1>4 DEF AloneInv
<1>6. CleanInv'
  <2>1. SUFFICES ASSUME kills' = 0 PROVE CleanInv'
    BY DEF CleanInv
  <2>2. ToSet(all) \cap acked = {}
    <3>1. CASE pc[h] = "append" /\ all = seen[h] \o fresh[h]
      <4>1. ToSet(all) = ToSet(seen[h]) \cup ToSet(fresh[h])
        BY <3>1, AtHook, ElementsOfConcat
      <4>2. QED
        BY <1>1, <1>2, <2>1, <3>1, <4>1 DEF Queued
    <3>2. CASE pc[h] = "replace" /\ all = failed[h]
      BY <1>1, <1>2, <2>1, <3>2
    <3>3. QED
      BY <3>1, <3>2 DEF Replaces
  <2>3. QED
    BY <1>1, <1>3, <1>4, <2>2 DEF CleanInv, Queued
<1>7. QED
  BY <1>5, <1>6

LEMMA AloneAfterKill ==
  ASSUME Inv, AloneInv, NEW h \in Hook, Kill(h)
  PROVE  AloneInv' /\ CleanInv'
<1>1. /\ Moves(h, "idle", <<>>, <<>>, <<>>, <<>>, <<>>)
      /\ stale' = stale \ {h} /\ kills' = kills + 1 /\ kills \in Nat
      /\ UNCHANGED <<queue, acked, raced, overlap>>
  BY KillMoves DEF file, Inv, Shape
<1>2. /\ pc'[h] = "idle"
      /\ \A x \in Hook \ {h} : pc'[x] = pc[x] /\ Local(x)' = Local(x)
  BY <1>1, MoveAt
<1>3. AloneInv'
  BY <1>1, <1>2 DEF AloneInv, Sending, Reading, Queued
<1>4. CleanInv'
  BY <1>1 DEF CleanInv
<1>5. QED
  BY <1>3, <1>4

LEMMA AloneStep ==
  Inv /\ LostInv /\ AloneInv /\ CleanInv /\ [Next]_vars => AloneInv' /\ CleanInv'
<1>1. ASSUME AloneInv, CleanInv, UNCHANGED vars PROVE AloneInv' /\ CleanInv'
  BY <1>1 DEF vars, file, locals, history, AloneInv, CleanInv, Queued, Local
<1>2. ASSUME Inv, LostInv, AloneInv, CleanInv, Next PROVE AloneInv' /\ CleanInv'
  <2>1. PICK h \in Hook : \/ \E b \in Batch : ReadForEnqueue(h, b)
                          \/ ReadForFlush(h)
                          \/ \E p, t, g, f : Work(h, p, t, g, f)
                          \/ \E p, part, new : Adds(h, p, part, new)
                          \/ \E p, all : Replaces(h, p, all)
                          \/ Kill(h)
    BY <1>2, Cases
  <2>2. QED
    BY <1>2, <2>1, AloneAfterRead, AloneAfterWork, AloneAfterAdd, AloneAfterReplace, AloneAfterKill
<1>3. QED
  BY <1>1, <1>2

\* No two queued events carry one eventId, nor would they if a hook that is
\* about to append did.
IdInv == ~overlap => /\ Distinct(Queued)
                     /\ \A h \in Hook : Distinct(Queued \cup ToSet(fresh[h]))

LEMMA SubsetDistinct == \A S, T : S \subseteq T /\ Distinct(T) => Distinct(S)
BY DEF Distinct

LEMMA IdsAtStart == Init => IdInv
BY NoElements DEF Init, IdInv, Distinct, Queued

LEMMA IdsAfterRead ==
  ASSUME Inv, IdInv, NEW h \in Hook, (\E b \in Batch : ReadForEnqueue(h, b)) \/ ReadForFlush(h)
  PROVE  IdInv'
<1> SUFFICES ASSUME ~overlap' PROVE IdInv'
  BY DEF IdInv
<1>1. Queued' = Queued /\ Distinct(Queued) /\ \A x \in Hook : Distinct(Queued \cup ToSet(fresh[x]))
  BY DEF ReadForEnqueue, ReadForFlush, NoteRead, file, Queued, IdInv
<1>2. CASE \E b \in Batch : ReadForEnqueue(h, b)
  <2>1. PICK fr \in Seq(Event) :
          /\ \E p, s : Moves(h, p, s, fr, <<>>, <<>>, <<>>)
          /\ Distinct(ToSet(fr)) /\ \A e \in ToSet(fr), f \in Queued : IdOf[e] # IdOf[f]
    BY <1>2, EnqueueMoves
  <2>2. fresh'[h] = fr /\ \A x \in Hook \ {h} : fresh'[x] = fresh[x]
    BY <2>1, MoveAt
  <2>3. Distinct(Queued \cup ToSet(fr))
    BY <1>1, <2>1 DEF Distinct
  <2>4. \A x \in Hook : Distinct(Queued' \cup ToSet(fresh'[x]))
    BY <1>1, <2>2, <2>3
  <2>5. QED
    BY <1>1, <2>4 DEF IdInv
<1>3. CASE ReadForFlush(h)
  BY <1>1, <1>3 DEF ReadForFlush, IdInv
<1>4. QED
  BY <1>2, <1>3

LEMMA IdsAfterWork ==
  ASSUME Inv, IdInv, NEW h \in Hook, NEW p, NEW t, NEW g, NEW f, Work(h, p, t, g, f)
  PROVE  IdInv'
<1>1. Moves(h, p, seen[h], fresh[h], t, g, f) /\ UNCHANGED <<queue, overlap>>
  BY DEF Work, file
<1>2. \A x \in Hook : fresh'[x] = fresh[x]
  BY <1>1, MoveAt
<1>3. QED
  BY <1>1, <1>2 DEF IdInv, Queued

\* A write by a hook that is alone with the file.
LEMMA IdsAfterWrite ==
  ASSUME Inv, LostInv, AloneInv, CleanInv, IdInv, ~overlap, NEW h \in Hook, pc[h] \in Reading,
         NEW p \in {"idle", "flush"}, Moves(h, p, <<>>, <<>>, <<>>, <<>>, <<>>),
         Queued' \subseteq Queued \cup ToSet(fresh[h])
  PROVE  IdInv'
<1>1. \A x \in Hook : ToSet(fresh'[x]) = {}
  <2>1. ToSet(fresh'[h]) = {}
    BY MoveAt, NoElements
  <2>2. ASSUME NEW x \in Hook \ {h} PROVE ToSet(fresh'[x]) = {}
    <3>1. pc[x] # "append" /\ fresh'[x] = fresh[x]
      BY <2>2, AloneAtWrite, MoveAt DEF Reading
    <3>2. fresh[x] = <<>>
      BY <3>1, AtHook DEF HookIn
    <3>3. QED
      BY <3>1, <3>2, NoElements
  <2>3. QED
    BY <2>1, <2>2
<1>2. Distinct(Queued')
  BY SubsetDistinct DEF IdInv
<1>3. QED
  BY <1>1, <1>2 DEF IdInv

LEMMA IdsAfterAdd ==
  ASSUME Inv, LostInv, AloneInv, CleanInv, IdInv, NEW h \in Hook,
         NEW p, NEW part, NEW new, Adds(h, p, part, new)
  PROVE  IdInv'
<1> SUFFICES ASSUME ~overlap' PROVE IdInv'
  BY DEF IdInv
<1>1. /\ pc[h] = "append" /\ pc[h] \in Reading /\ ~overlap
      /\ part \in Seq(Event) /\ new \in Seq(Event) /\ Subsequence(new, part)
      /\ ToSet(part) \subseteq ToSet(fresh[h]) /\ queue' = queue \o new
      /\ p \in {"idle", "flush"} /\ Moves(h, p, <<>>, <<>>, <<>>, <<>>, <<>>)
  BY DEF Adds, Reading
<1>2. ToSet(queue') = Queued \cup ToSet(new) /\ ToSet(new) \subseteq ToSet(part)
  BY <1>1, AtHook, ElementsOfConcat, SubsequenceFacts DEF Queued
<1>3. Queued' \subseteq Queued \cup ToSet(fresh[h])
  BY <1>1, <1>2 DEF Queued
<1>4. QED
  BY <1>1, <1>3, IdsAfterWrite

LEMMA IdsAfterReplace ==
  ASSUME Inv, LostInv, AloneInv, CleanInv, IdInv, NEW h \in Hook, NEW p, NEW all, Replaces(h, p, all)
  PROVE  IdInv'
<1> SUFFICES ASSUME ~overlap' PROVE IdInv'
  BY DEF IdInv
<1>1. /\ pc[h] \in {"append", "replace"} /\ pc[h] \in Reading /\ ~overlap
      /\ queue' = Newest(MaxQueued, all)
      /\ p \in {"idle", "flush"} /\ Moves(h, p, <<>>, <<>>, <<>>, <<>>, <<>>)
  BY DEF Replaces, Reading
<1>2. ToSet(queue') \subseteq ToSet(all)
  BY <1>1, ReplacedBy, NewestParts, QueueAssumption DEF Parts
<1>3. ToSet(all) \subseteq Queued \cup ToSet(fresh[h])
  <2>1. CASE pc[h] = "append" /\ all = seen[h] \o fresh[h]
    <3>1. ToSet(all) = ToSet(seen[h]) \cup ToSet(fresh[h])
      BY <2>1, AtHook, ElementsOfConcat
    <3>2. QED
      BY <1>1, <2>1, <3>1, AloneAtWrite DEF Queued
  <2>2. CASE pc[h] = "replace" /\ all = failed[h]
    <3>1. Local(h) = ToSet(failed[h])
      BY <1>1, <2>2, AloneAtWrite
    <3>2. QED
      BY <1>1, <2>2, <3>1 DEF AloneInv, Sending, Reading
  <2>3. QED
    BY <2>1, <2>2 DEF Replaces
<1>4. Queued' \subseteq Queued \cup ToSet(fresh[h])
  BY <1>2, <1>3 DEF Queued
<1>5. QED
  BY <1>1, <1>4, IdsAfterWrite

LEMMA IdsAfterKill ==
  ASSUME Inv, IdInv, NEW h \in Hook, Kill(h)
  PROVE  IdInv'
<1> SUFFICES ASSUME ~overlap' PROVE IdInv'
  BY DEF IdInv
<1>1. Moves(h, "idle", <<>>, <<>>, <<>>, <<>>, <<>>) /\ UNCHANGED <<queue, overlap>>
  BY KillMoves DEF file
<1>2. \A x \in Hook : ToSet(fresh'[x]) \subseteq ToSet(fresh[x])
  BY <1>1, MoveAt, NoElements
<1>3. Distinct(Queued) /\ Queued' = Queued
  BY <1>1 DEF IdInv, Queued
<1>4. ASSUME NEW x \in Hook PROVE Distinct(Queued' \cup ToSet(fresh'[x]))
  <2>1. Distinct(Queued \cup ToSet(fresh[x]))
    BY <1>1 DEF IdInv
  <2>2. QED
    BY <1>2, <1>3, <2>1, SubsetDistinct
<1>5. QED
  BY <1>3, <1>4 DEF IdInv

LEMMA IdStep == Inv /\ LostInv /\ AloneInv /\ CleanInv /\ IdInv /\ [Next]_vars => IdInv'
<1>1. ASSUME IdInv, UNCHANGED vars PROVE IdInv'
  BY <1>1 DEF vars, file, locals, history, IdInv, Queued
<1>2. ASSUME Inv, LostInv, AloneInv, CleanInv, IdInv, Next PROVE IdInv'
  <2>1. PICK h \in Hook : \/ \E b \in Batch : ReadForEnqueue(h, b)
                          \/ ReadForFlush(h)
                          \/ \E p, t, g, f : Work(h, p, t, g, f)
                          \/ \E p, part, new : Adds(h, p, part, new)
                          \/ \E p, all : Replaces(h, p, all)
                          \/ Kill(h)
    BY <1>2, Cases
  <2>2. QED
    BY <1>2, <2>1, IdsAfterRead, IdsAfterWork, IdsAfterAdd, IdsAfterReplace, IdsAfterKill
<1>3. QED
  BY <1>1, <1>2

QueueInv == Inv /\ LostInv /\ LostOnlyByRace /\ AloneInv /\ CleanInv /\ IdInv

LEMMA QueueInvAlways == Spec => []QueueInv
<1>1. Init => QueueInv
  BY InvAtStart, LostAtStart, AloneAtStart, IdsAtStart DEF QueueInv
<1>2. QueueInv /\ [Next]_vars => QueueInv'
  BY InvStep, LostStep, AloneStep, IdStep DEF QueueInv
<1>3. QED
  BY <1>1, <1>2, PTL DEF Spec

LEMMA AcceptedOnce ==
  ASSUME QueueInv, NEW h \in Hook, Accepted(h), ~overlap, kills = 0,
         NEW e \in ToSet(Chunk(h))
  PROVE  e \notin acked /\ \A f \in Queued : IdOf[f] = IdOf[e] => f = e
<1>1. pc[h] \in Sending
  BY DEF Accepted, Sending, Reading
<1>2. ToSet(Chunk(h)) \subseteq Local(h)
  BY ChunkParts DEF QueueInv, Parts, Local, Held
<1>3. e \notin acked
  BY <1>1, <1>2 DEF QueueInv, CleanInv
<1>4. e \in Queued
  BY <1>1, <1>2 DEF QueueInv, AloneInv
<1>5. QED
  BY <1>3, <1>4 DEF QueueInv, IdInv, Distinct

\* What was handed in once and answered with a 2xx is sent again only after
\* two hooks overlapped or one was killed before it wrote what is left
\* (queue.rs:128, 136-143), and while it waits it is the only event of its id.
THEOREM SentOnce == Spec => NoResend
<1>1. QueueInv => \A h \in Hook : Accepted(h) /\ ~overlap /\ kills = 0 =>
                    \A e \in ToSet(Chunk(h)) :
                      /\ e \notin acked
                      /\ \A f \in Queued : IdOf[f] = IdOf[e] => f = e
  BY AcceptedOnce
<1>2. QED
  BY <1>1, QueueInvAlways, PTL DEF Spec, NoResend
-----------------------------------------------------------------------------
(* What the bound drops.                                                   *)

LEMMA OlderOneWay ==
  ASSUME NEW o, IsInjective(o), NEW e, NEW f, OlderIn(o, e, f), DOMAIN o \subseteq Int
  PROVE  ~OlderIn(o, f, e)
BY DEF OlderIn, IsInjective

LEMMA ShedInOrder ==
  ASSUME Inv, [Next]_vars
  PROVE  \A e \in DroppedNow, f \in Queued' : SessionOf[e] = SessionOf[f] => ~OlderThan(f, e)'
<1>1. CASE shed' = shed
  BY <1>1 DEF DroppedNow
<1>2. ASSUME NEW h \in Hook, NEW p, NEW all, Replaces(h, p, all)
      PROVE  \A e \in DroppedNow, f \in Queued' : SessionOf[e] = SessionOf[f] => ~OlderThan(f, e)'
  <2>1. /\ all \in Seq(Event) /\ Sorted(order', all)
        /\ Parts(AllButNewest(MaxQueued, all), Newest(MaxQueued, all), all)
    BY <1>2, ReplacedBy, NewestParts, QueueAssumption
  <2>2. Before(order', AllButNewest(MaxQueued, all), Newest(MaxQueued, all))
    BY <2>1, SortedParts
  <2>3. /\ DroppedNow \subseteq ToSet(AllButNewest(MaxQueued, all))
        /\ Queued' = ToSet(Newest(MaxQueued, all))
    BY <1>2 DEF Replaces, DroppedNow, Queued
  <2>4. IsInjective(order') /\ DOMAIN order' \subseteq Int
    <3>1. Inv'
      BY <1>2, AfterReplace
    <3>2. QED
      BY <3>1 DEF Inv, Shape, FileInv
  <2>5. ASSUME NEW e \in DroppedNow, NEW f \in Queued', SessionOf[e] = SessionOf[f]
        PROVE  ~OlderThan(f, e)'
    <3>1. OlderIn(order', e, f)
      BY <2>2, <2>3, <2>5 DEF Before
    <3>2. ~OlderIn(order', f, e)
      BY <2>4, <3>1, OlderOneWay
    <3>3. QED
      BY <3>2 DEF OlderIn, OlderThan
  <2>6. QED
    BY <2>5
<1>3. CASE Next
  <2>1. PICK h \in Hook : \/ \E b \in Batch : ReadForEnqueue(h, b)
                          \/ ReadForFlush(h)
                          \/ \E p, t, g, f : Work(h, p, t, g, f)
                          \/ \E p, part, new : Adds(h, p, part, new)
                          \/ \E p, all : Replaces(h, p, all)
                          \/ Kill(h)
    BY <1>3, Cases
  <2>2. (\E p, all : Replaces(h, p, all)) \/ shed' = shed
    BY <2>1 DEF ReadForEnqueue, ReadForFlush, Work, Adds, Kill
  <2>3. QED
    BY <1>1, <1>2, <2>2
<1>4. CASE UNCHANGED vars
  BY <1>1, <1>4 DEF vars, history
<1>5. QED
  BY <1>3, <1>4

\* Within a session the bound drops the oldest first, races of hooks over the
\* file included (queue.rs:57-69).
THEOREM OldestShedFirst == Spec => SessionShedsOldest
<1>1. Inv /\ [Next]_vars =>
        \A e \in DroppedNow, f \in Queued' : SessionOf[e] = SessionOf[f] => ~OlderThan(f, e)'
  BY ShedInOrder
<1>2. QED
  BY <1>1, InvAlways, PTL DEF Spec, SessionShedsOldest
-----------------------------------------------------------------------------
(* The bound of the file.                                                  *)

\* The hooks that are about to append: each found room for what it adds.
Adders == {h \in Hook : pc[h] = "append" /\ Len(seen[h]) + Len(fresh[h]) <= MaxQueued}

\* There is room for what one of the hooks in A adds and for one hand-in of
\* each of the others, or for one of each.
Fits(A, fr, room) ==
  \/ Cardinality(A) * MaxHanded <= room
  \/ \E h \in A : Len(fr[h]) + (Cardinality(A) - 1) * MaxHanded <= room

Room == MaxQueued + (Cardinality(Hook) - 1) * MaxHanded - Len(queue)
RoomInv == overlap => Fits(Adders, fresh, Room)

LEMMA Times ==
  ASSUME NEW n \in Nat, NEW m \in Nat, n <= m
  PROVE  /\ n * MaxHanded \in Nat /\ n * MaxHanded <= m * MaxHanded
         /\ (n - 1) * MaxHanded = n * MaxHanded - MaxHanded /\ (n - 1) * MaxHanded \in Int
         /\ 0 * MaxHanded = 0
<1>1. MaxHanded \in Nat
  BY QueueAssumption
<1>2. PICK d \in Nat : m = n + d
  <2>1. m - n \in Nat /\ m = n + (m - n)
    OBVIOUS
  <2>2. QED
    BY <2>1
<1>3. /\ n * MaxHanded \in Nat /\ d * MaxHanded \in Nat /\ m * MaxHanded = n * MaxHanded + d * MaxHanded
  BY <1>1, <1>2
<1>4. (n - 1) * MaxHanded = n * MaxHanded - MaxHanded
  BY <1>1
<1>5. QED
  BY <1>1, <1>3, <1>4

LEMMA HookSets ==
  ASSUME NEW A \in SUBSET Hook
  PROVE  /\ IsFiniteSet(A) /\ Cardinality(A) \in Nat /\ Cardinality(A) <= Cardinality(Hook)
         /\ Cardinality(Hook) \in Nat
         /\ \A h \in A : /\ Cardinality(A \ {h}) = Cardinality(A) - 1
                         /\ Cardinality(A \ {h}) \in Nat /\ Cardinality(A) >= 1
<1>1. IsFiniteSet(Hook)
  BY QueueAssumption
<1>2. IsFiniteSet(A) /\ Cardinality(A) <= Cardinality(Hook)
  BY <1>1, FS_Subset
<1>3. Cardinality(A) \in Nat /\ Cardinality(Hook) \in Nat
  BY <1>1, <1>2, FS_CardinalityType
<1>4. ASSUME NEW h \in A
      PROVE  /\ Cardinality(A \ {h}) = Cardinality(A) - 1
             /\ Cardinality(A \ {h}) \in Nat /\ Cardinality(A) >= 1
  <2>1. IsFiniteSet(A \ {h}) /\ Cardinality(A \ {h}) = Cardinality(A) - 1
    BY <1>2, FS_RemoveElement
  <2>2. Cardinality(A \ {h}) \in Nat
    BY <2>1, FS_CardinalityType
  <2>3. QED
    BY <1>3, <2>1, <2>2
<1>5. QED
  BY <1>2, <1>3, <1>4

\* h has added c events, or none, and is no longer about to.
LEMMA FitsWithout ==
  ASSUME NEW A \in SUBSET Hook, NEW h \in Hook, NEW fr \in [Hook -> Seq(Event)], NEW fn,
         NEW room \in Int, NEW room2 \in Int, NEW c \in Nat,
         Fits(A, fr, room), room2 >= room - c,
         h \in A => c <= Len(fr[h]) /\ Len(fr[h]) <= MaxHanded, h \notin A => c = 0,
         \A x \in A \ {h} : fn[x] = fr[x]
  PROVE  Fits(A \ {h}, fn, room2)
<1> DEFINE n == Cardinality(A)
           m == Cardinality(A \ {h})
<1>1. /\ n \in Nat /\ m \in Nat /\ (h \in A => m = n - 1 /\ n >= 1)
      /\ MaxHanded \in Nat /\ \A x \in Hook : Len(fr[x]) \in Nat
  <2>1. n \in Nat /\ (h \in A => m = n - 1 /\ n >= 1)
    BY HookSets
  <2>2. A \ {h} \in SUBSET Hook
    OBVIOUS
  <2>3. m \in Nat
    BY <2>2, HookSets
  <2>4. QED
    BY <2>1, <2>3, QueueAssumption
<1>2. CASE h \notin A
  <2>1. A \ {h} = A /\ \A x \in A : fn[x] = fr[x]
    BY <1>2
  <2>2. room <= room2
    BY <1>2
  <2>3. CASE n * MaxHanded <= room
    <3>1. n * MaxHanded \in Nat
      BY <1>1, Times
    <3>2. n * MaxHanded <= room2
      BY <2>2, <2>3, <3>1
    <3>3. QED
      BY <2>1, <3>2 DEF Fits
  <2>4. CASE \E x \in A : Len(fr[x]) + (n - 1) * MaxHanded <= room
    <3>1. PICK x \in A : Len(fr[x]) + (n - 1) * MaxHanded <= room
      BY <2>4
    <3>2. (n - 1) * MaxHanded \in Int /\ Len(fr[x]) \in Nat
      BY <1>1, Times
    <3>3. Len(fn[x]) + (n - 1) * MaxHanded <= room2
      BY <2>1, <2>2, <3>1, <3>2
    <3>4. QED
      BY <2>1, <3>3 DEF Fits
  <2>5. QED
    BY <2>3, <2>4 DEF Fits
<1>3. CASE h \in A
  <2>1. /\ m = n - 1 /\ n * MaxHanded \in Nat /\ m * MaxHanded \in Nat
        /\ (n - 1) * MaxHanded = n * MaxHanded - MaxHanded
        /\ (m - 1) * MaxHanded = m * MaxHanded - MaxHanded
        /\ c <= Len(fr[h]) /\ Len(fr[h]) <= MaxHanded
    BY <1>1, <1>3, Times
  <2>2. CASE n * MaxHanded <= room
    <3>1. m * MaxHanded <= room2
      BY <1>1, <2>1, <2>2
    <3>2. QED
      BY <3>1 DEF Fits
  <2>3. CASE Len(fr[h]) + (n - 1) * MaxHanded <= room
    <3>1. m * MaxHanded <= room2
      BY <1>1, <2>1, <2>3
    <3>2. QED
      BY <3>1 DEF Fits
  <2>4. CASE \E x \in A \ {h} : Len(fr[x]) + (n - 1) * MaxHanded <= room
    <3>1. PICK x \in A \ {h} : Len(fr[x]) + (n - 1) * MaxHanded <= room
      BY <2>4
    <3>2. PICK u \in Int : u = (n - 1) * MaxHanded /\ u = m * MaxHanded /\ u - MaxHanded = (m - 1) * MaxHanded
      BY <1>1, <2>1
    <3>3. Len(fr[x]) + u <= room /\ Len(fr[x]) \in Nat /\ Len(fr[h]) \in Nat
      BY <1>1, <3>1, <3>2
    <3>4. Len(fr[x]) + (u - MaxHanded) <= room2
      <4>1. c <= MaxHanded /\ MaxHanded \in Nat
        BY <1>1, <1>3, <3>3
      <4>2. QED
        BY <3>2, <3>3, <4>1
    <3>5. Len(fn[x]) + (m - 1) * MaxHanded <= room2
      BY <3>1, <3>2, <3>4
    <3>6. QED
      BY <3>1, <3>5 DEF Fits
  <2>5. QED
    BY <2>2, <2>3, <2>4 DEF Fits
<1>4. QED
  BY <1>2, <1>3

\* There is room for all of them.
LEMMA FitsAll ==
  ASSUME NEW A \in SUBSET Hook, NEW h \in Hook \ A, NEW fr, NEW room \in Int,
         (Cardinality(Hook) - 1) * MaxHanded <= room
  PROVE  Fits(A, fr, room)
<1>1. /\ Cardinality(A) \in Nat /\ Cardinality(Hook \ {h}) \in Nat
      /\ Cardinality(Hook \ {h}) = Cardinality(Hook) - 1
  BY HookSets
<1>2. Cardinality(A) <= Cardinality(Hook \ {h})
  <2>1. IsFiniteSet(Hook \ {h}) /\ A \subseteq Hook \ {h}
    BY HookSets
  <2>2. QED
    BY <2>1, FS_Subset
<1>3. /\ Cardinality(A) * MaxHanded \in Nat /\ (Cardinality(Hook) - 1) * MaxHanded \in Nat
      /\ Cardinality(A) * MaxHanded <= (Cardinality(Hook) - 1) * MaxHanded
  BY <1>1, <1>2, Times
<1>4. QED
  BY <1>3 DEF Fits

LEMMA FitsFirst ==
  ASSUME NEW A \in SUBSET Hook, NEW h \in A, NEW fr \in [Hook -> Seq(Event)], NEW room \in Int,
         Len(fr[h]) + (Cardinality(Hook) - 1) * MaxHanded <= room
  PROVE  Fits(A, fr, room)
<1> DEFINE n == Cardinality(A)
           m == Cardinality(Hook)
<1>1. n \in Nat /\ m \in Nat /\ n <= m /\ n >= 1 /\ MaxHanded \in Nat /\ Len(fr[h]) \in Nat
  <2>1. n \in Nat /\ m \in Nat /\ n <= m /\ n >= 1
    BY HookSets
  <2>2. QED
    BY <2>1, QueueAssumption
<1>2. /\ n * MaxHanded \in Nat /\ m * MaxHanded \in Nat /\ n * MaxHanded <= m * MaxHanded
      /\ (n - 1) * MaxHanded = n * MaxHanded - MaxHanded
      /\ (m - 1) * MaxHanded = m * MaxHanded - MaxHanded
  BY <1>1, Times
<1>3. Len(fr[h]) + (n - 1) * MaxHanded <= room
  BY <1>1, <1>2
<1>4. QED
  BY <1>3 DEF Fits

\* One hook at most is about to append, and has room.
LEMMA FitsOne ==
  ASSUME NEW A \in SUBSET Hook, NEW fr, NEW room \in Nat,
         \A g, h \in A : g = h, \A h \in A : Len(fr[h]) <= room /\ Len(fr[h]) \in Nat
  PROVE  Fits(A, fr, room)
<1>1. CASE A = {}
  <2>1. Cardinality(A) = 0
    BY <1>1, FS_EmptySet
  <2>2. 0 * MaxHanded = 0
    BY QueueAssumption
  <2>3. QED
    BY <2>1, <2>2 DEF Fits
<1>2. CASE A # {}
  <2>1. PICK h \in A : A = {h}
    BY <1>2
  <2>2. Cardinality(A) = 1
    BY <2>1, FS_Singleton
  <2>3. (1 - 1) * MaxHanded = 0
    BY QueueAssumption
  <2>4. Len(fr[h]) + (1 - 1) * MaxHanded <= room
    BY <2>3
  <2>5. QED
    BY <2>2, <2>4 DEF Fits
<1>3. QED
  BY <1>1, <1>2

LEMMA AddersAfter ==
  ASSUME Inv, NEW h \in Hook, NEW p, NEW s, NEW fr, NEW t, NEW g, NEW f,
         Moves(h, p, s, fr, t, g, f)
  PROVE  /\ Adders' \ {h} = Adders \ {h} /\ Adders' \in SUBSET Hook /\ Adders \in SUBSET Hook
         /\ h \in Adders' <=> p = "append" /\ Len(s) + Len(fr) <= MaxQueued
         /\ \A x \in Adders' \ {h} : fresh'[x] = fresh[x]
<1>1. /\ pc'[h] = p /\ seen'[h] = s /\ fresh'[h] = fr
      /\ \A x \in Hook \ {h} : pc'[x] = pc[x] /\ seen'[x] = seen[x] /\ fresh'[x] = fresh[x]
  BY MoveAt
<1>2. \A x \in Hook : x \in Adders' <=> pc'[x] = "append" /\ Len(seen'[x]) + Len(fresh'[x]) <= MaxQueued
  BY DEF Adders
<1>3. \A x \in Hook : x \in Adders <=> pc[x] = "append" /\ Len(seen[x]) + Len(fresh[x]) <= MaxQueued
  BY DEF Adders
<1>4. Adders' \in SUBSET Hook /\ Adders \in SUBSET Hook
  BY DEF Adders
<1>5. ASSUME NEW x \in Hook \ {h} PROVE x \in Adders' <=> x \in Adders
  BY <1>1, <1>2, <1>3
<1>6. h \in Adders' <=> p = "append" /\ Len(s) + Len(fr) <= MaxQueued
  BY <1>1, <1>2
<1>7. QED
  BY <1>1, <1>4, <1>5, <1>6

LEMMA Rooms ==
  ASSUME Inv
  PROVE  /\ fresh \in [Hook -> Seq(Event)] /\ Room \in Int
         /\ \A h \in Hook : Len(fresh[h]) \in Nat /\ Len(fresh[h]) <= MaxHanded
         /\ MaxQueued \in Nat /\ Len(queue) \in Nat
         /\ (Cardinality(Hook) - 1) * MaxHanded \in Int
         /\ Hook # {} => (Cardinality(Hook) - 1) * MaxHanded \in Nat
<1>1. fresh \in [Hook -> Seq(Event)] /\ Len(queue) \in Nat /\ MaxQueued \in Nat
  BY QueueAssumption DEF Inv, Shape
<1>2. \A h \in Hook : Len(fresh[h]) \in Nat /\ Len(fresh[h]) <= MaxHanded
  BY AtHook DEF HookIn
<1>3. Cardinality(Hook) \in Nat /\ (Hook # {} => Cardinality(Hook) - 1 \in Nat)
  BY HookSets
<1>4. /\ (Cardinality(Hook) - 1) * MaxHanded \in Int
      /\ Hook # {} => (Cardinality(Hook) - 1) * MaxHanded \in Nat
  <2>1. MaxHanded \in Nat
    BY QueueAssumption
  <2>2. QED
    BY <1>3, <2>1, Times
<1>5. Room \in Int
  BY <1>1, <1>4 DEF Room
<1>6. QED
  BY <1>1, <1>2, <1>4, <1>5

LEMMA RoomAtStart == Init => RoomInv
BY DEF Init, RoomInv

\* A step after which h does not append, with c more records in the file, the
\* ones that h has appended.
LEMMA RoomAfterLeaving ==
  ASSUME Inv, Inv', RoomInv, NEW h \in Hook, overlap' = overlap,
         NEW p, NEW s, NEW fr, NEW t, NEW g, NEW f, Moves(h, p, s, fr, t, g, f), p # "append",
         NEW c \in Nat, Len(queue') = Len(queue) + c, h \in Adders => c <= Len(fresh[h]),
         h \notin Adders => c = 0
  PROVE  RoomInv'
<1>1. Adders' = Adders \ {h} /\ Adders \in SUBSET Hook /\ \A x \in Adders \ {h} : fresh'[x] = fresh[x]
  BY AddersAfter
<1>2. Room' = Room - c /\ Room' \in Int /\ Room \in Int
  <2>1. PICK u \in Int : u = (Cardinality(Hook) - 1) * MaxHanded
    BY Rooms
  <2>2. Room = MaxQueued + u - Len(queue) /\ Room' = MaxQueued + u - Len(queue')
    BY <2>1 DEF Room
  <2>3. QED
    BY <2>1, <2>2, Rooms
<1>3. CASE overlap
  <2>1. Fits(Adders, fresh, Room)
    BY <1>3 DEF RoomInv
  <2>2. Room' >= Room - c
    BY <1>2
  <2>3. Fits(Adders \ {h}, fresh', Room')
    BY <1>1, <1>2, <2>1, <2>2, Rooms, FitsWithout
  <2>4. QED
    BY <1>1, <2>3 DEF RoomInv
<1>4. CASE ~overlap
  BY <1>4 DEF RoomInv
<1>5. QED
  BY <1>3, <1>4

\* The hook that is alone with the file has room for what it adds.
LEMMA RoomWhenAlone ==
  ASSUME Inv, LostInv, AloneInv, ~overlap, Hook # {}
  PROVE  /\ Room \in Nat /\ \A g, h \in Adders : g = h
         /\ \A h \in Adders : Len(fresh[h]) <= Room /\ Len(fresh[h]) \in Nat
<1>1. PICK u \in Nat : u = (Cardinality(Hook) - 1) * MaxHanded
  BY Rooms
<1>2. Room = MaxQueued + u - Len(queue) /\ Len(queue) <= MaxQueued
  BY <1>1 DEF Room, AloneInv
<1>3. MaxQueued \in Nat /\ Len(queue) \in Nat
  BY Rooms
<1>4. ASSUME NEW h \in Adders PROVE Len(fresh[h]) <= Room /\ Len(fresh[h]) \in Nat
  <2>1. h \in Hook /\ pc[h] = "append" /\ Len(seen[h]) + Len(fresh[h]) <= MaxQueued
    BY DEF Adders
  <2>2. seen[h] = queue
    BY <2>1 DEF LostInv, AloneInv
  <2>3. Len(fresh[h]) \in Nat
    BY <2>1, Rooms
  <2>4. QED
    BY <1>1, <1>2, <1>3, <2>1, <2>2, <2>3
<1>5. \A g, h \in Adders : g = h
  BY DEF Adders, AloneInv, Reading
<1>6. QED
  BY <1>1, <1>2, <1>3, <1>4, <1>5

LEMMA RoomAfterRead ==
  ASSUME Inv, Inv', LostInv, AloneInv, RoomInv, NEW h \in Hook,
         (\E b \in Batch : ReadForEnqueue(h, b)) \/ ReadForFlush(h)
  PROVE  RoomInv'
<1>1. UNCHANGED queue
  BY DEF ReadForFlush, ReadForEnqueue, file
<1>2. PICK p, s, fr, t :
        /\ Moves(h, p, s, fr, t, <<>>, <<>>)
        /\ pc[h] # "append" /\ p = "append" => s = queue
  <2>1. CASE \E b \in Batch : ReadForEnqueue(h, b)
    BY <2>1, EnqueueMoves
  <2>2. CASE ReadForFlush(h)
    BY <2>2, FlushMoves
  <2>3. QED
    BY <2>1, <2>2
<1>3. pc[h] # "append"
  <2>1. CASE \E b \in Batch : ReadForEnqueue(h, b)
    BY <2>1 DEF ReadForEnqueue
  <2>2. CASE ReadForFlush(h)
    BY <2>2 DEF ReadForFlush, Goto
  <2>3. QED
    BY <2>1, <2>2
<1>4. /\ Adders' \ {h} = Adders \ {h} /\ Adders' \in SUBSET Hook /\ Adders \in SUBSET Hook
      /\ h \in Adders' <=> p = "append" /\ Len(s) + Len(fr) <= MaxQueued
      /\ \A x \in Adders' \ {h} : fresh'[x] = fresh[x]
      /\ h \notin Adders
  BY <1>2, <1>3, AddersAfter DEF Adders
<1>5. Room' = Room /\ Room \in Int /\ fresh' \in [Hook -> Seq(Event)]
  BY <1>1, Rooms DEF Room, Inv, Shape
<1>6. CASE h \in Adders'
  <2>1. Len(queue) + Len(fresh'[h]) <= MaxQueued
    BY <1>2, <1>3, <1>4, <1>6, MoveAt
  <2>2. Len(fresh'[h]) \in Nat
    BY <1>5
  <2>3. PICK u \in Int : u = (Cardinality(Hook) - 1) * MaxHanded
    BY Rooms
  <2>4. Room' = MaxQueued + u - Len(queue)
    BY <1>5, <2>3 DEF Room
  <2>5. Len(fresh'[h]) + u <= Room'
    BY <2>1, <2>2, <2>3, <2>4, Rooms
  <2>6. Fits(Adders', fresh', Room')
    BY <1>4, <1>5, <1>6, <2>3, <2>5, FitsFirst
  <2>7. QED
    BY <2>6 DEF RoomInv
<1>7. CASE h \notin Adders'
  <2>1. Adders' = Adders \ {h} /\ Adders = Adders \ {h} /\ \A x \in Adders \ {h} : fresh'[x] = fresh[x]
    BY <1>4, <1>7
  <2>2. CASE overlap
    <3>1. Fits(Adders, fresh, Room)
      BY <2>2 DEF RoomInv
    <3>2. Room >= Room - 0 /\ 0 \in Nat
      BY <1>5
    <3>3. Fits(Adders \ {h}, fresh', Room)
      BY <1>4, <1>5, <2>1, <3>1, <3>2, Rooms, FitsWithout
    <3>4. QED
      BY <1>5, <2>1, <3>3 DEF RoomInv
  <2>3. CASE ~overlap
    <3>1. /\ Room \in Nat /\ \A x, y \in Adders : x = y
          /\ \A x \in Adders : Len(fresh'[x]) <= Room /\ Len(fresh'[x]) \in Nat
      BY <2>1, <2>3, RoomWhenAlone
    <3>2. Fits(Adders, fresh', Room)
      BY <1>4, <3>1, FitsOne
    <3>3. Adders' = Adders /\ Room' = Room
      BY <1>5, <2>1
    <3>4. QED
      BY <3>2, <3>3 DEF RoomInv
  <2>4. QED
    BY <2>2, <2>3
<1>8. QED
  BY <1>6, <1>7

LEMMA RoomAfterReplace ==
  ASSUME Inv, Inv', NEW h \in Hook, NEW p, NEW all, Replaces(h, p, all)
  PROVE  RoomInv'
<1>1. p \in {"idle", "flush"} /\ Moves(h, p, <<>>, <<>>, <<>>, <<>>, <<>>) /\ queue' = Newest(MaxQueued, all)
  BY DEF Replaces
<1>2. Len(queue') <= MaxQueued /\ Len(queue') \in Nat
  <2>1. /\ all \in Seq(Event) /\ MaxQueued \in Nat
        /\ Len(Newest(MaxQueued, all)) = IF Len(all) > MaxQueued THEN MaxQueued ELSE Len(all)
    BY ReplacedBy, NewestParts, QueueAssumption
  <2>2. Len(all) \in Nat
    BY <2>1
  <2>3. QED
    BY <1>1, <2>1, <2>2
<1>3. Adders' \in SUBSET Hook /\ h \in Hook \ Adders'
  BY <1>1, AddersAfter
<1>4. PICK u \in Int : u = (Cardinality(Hook) - 1) * MaxHanded
  BY Rooms
<1>5. Room' = MaxQueued + u - Len(queue')
  BY <1>4 DEF Room
<1>6. u <= Room' /\ Room' \in Int
  BY <1>2, <1>4, <1>5, Rooms
<1>7. Fits(Adders', fresh', Room')
  BY <1>3, <1>4, <1>6, FitsAll
<1>8. QED
  BY <1>7 DEF RoomInv

LEMMA RoomAfterNext ==
  ASSUME QueueInv, QueueInv', RoomInv, Next
  PROVE  RoomInv'
<1> USE DEF QueueInv
<1>1. PICK h \in Hook : \/ \E b \in Batch : ReadForEnqueue(h, b)
                        \/ ReadForFlush(h)
                        \/ \E p, t, g, f : Work(h, p, t, g, f)
                        \/ \E p, part, new : Adds(h, p, part, new)
                        \/ \E p, all : Replaces(h, p, all)
                        \/ Kill(h)
  BY Cases
<1>2. Len(queue) \in Nat /\ \A x \in Hook : Len(fresh[x]) \in Nat
  BY Rooms
<1>3. CASE (\E b \in Batch : ReadForEnqueue(h, b)) \/ ReadForFlush(h)
  BY <1>3, RoomAfterRead
<1>4. ASSUME NEW p, NEW t, NEW g, NEW f, Work(h, p, t, g, f) PROVE RoomInv'
  <2>1. /\ Moves(h, p, seen[h], fresh[h], t, g, f) /\ p # "append" /\ UNCHANGED <<queue, overlap>>
        /\ pc[h] # "append"
    BY <1>4 DEF Work, file, Sending, Posting
  <2>2. h \notin Adders
    BY <2>1 DEF Adders
  <2>3. Len(queue') = Len(queue) + 0 /\ 0 \in Nat
    BY <1>2, <2>1
  <2>4. QED
    BY <2>1, <2>2, <2>3, RoomAfterLeaving
<1>5. ASSUME NEW p, NEW part, NEW new, Adds(h, p, part, new) PROVE RoomInv'
  <2>1. /\ Moves(h, p, <<>>, <<>>, <<>>, <<>>, <<>>) /\ p # "append" /\ UNCHANGED overlap
        /\ h \in Adders /\ queue' = queue \o new /\ new \in Seq(Event) /\ part \in Seq(Event)
        /\ Len(part) <= Len(fresh[h]) /\ Len(new) <= Len(part)
    BY <1>5 DEF Adds, Adders
  <2>2. Len(queue') = Len(queue) + Len(new) /\ Len(new) \in Nat /\ Len(new) <= Len(fresh[h])
    <3>1. queue \in Seq(Event) /\ Len(part) \in Nat /\ Len(new) \in Nat
      BY <2>1, AtHook
    <3>2. QED
      BY <1>2, <2>1, <3>1
  <2>3. QED
    BY <2>1, <2>2, RoomAfterLeaving
<1>6. CASE \E p, all : Replaces(h, p, all)
  BY <1>6, RoomAfterReplace
<1>7. CASE Kill(h)
  <2>1. Moves(h, "idle", <<>>, <<>>, <<>>, <<>>, <<>>) /\ UNCHANGED <<queue, overlap>>
    BY <1>7, KillMoves DEF file
  <2>2. Len(queue') = Len(queue) + 0 /\ 0 \in Nat /\ 0 <= Len(fresh[h])
    BY <1>2, <2>1
  <2>3. QED
    BY <2>1, <2>2, RoomAfterLeaving
<1>8. QED
  BY <1>1, <1>3, <1>4, <1>5, <1>6, <1>7

LEMMA RoomStep == QueueInv /\ QueueInv' /\ RoomInv /\ [Next]_vars => RoomInv'
<1>1. ASSUME RoomInv, UNCHANGED vars PROVE RoomInv'
  BY <1>1 DEF vars, file, locals, history, RoomInv, Room, Adders
<1>2. QED
  BY <1>1, RoomAfterNext

LEMMA RoomBounds == QueueInv /\ RoomInv => QueueBounded
<1> SUFFICES ASSUME QueueInv, RoomInv PROVE QueueBounded
  OBVIOUS
<1> USE DEF QueueInv
<1>1. PICK u \in Int : u = (Cardinality(Hook) - 1) * MaxHanded
  BY Rooms
<1>2. MaxQueued \in Nat /\ Len(queue) \in Nat /\ Adders \in SUBSET Hook /\ Room = MaxQueued + u - Len(queue)
  BY <1>1, Rooms DEF Adders, Room
<1>3. CASE overlap
  <2>1. Fits(Adders, fresh, Room)
    BY <1>3 DEF RoomInv
  <2>2. Cardinality(Adders) \in Nat /\ Cardinality(Adders) * MaxHanded \in Nat
    BY <1>2, HookSets, Times
  <2>3. ASSUME NEW h \in Adders
        PROVE  Len(fresh[h]) \in Nat /\ (Cardinality(Adders) - 1) * MaxHanded \in Nat
    <3>1. Cardinality(Adders) - 1 \in Nat
      BY <1>2, <2>2, HookSets
    <3>2. Len(fresh[h]) \in Nat
      BY <1>2, Rooms
    <3>3. QED
      BY <3>1, <3>2, Times
  <2>4. Room >= 0
    <3>1. CASE Cardinality(Adders) * MaxHanded <= Room
      BY <1>1, <1>2, <2>2, <3>1
    <3>2. CASE \E h \in Adders : Len(fresh[h]) + (Cardinality(Adders) - 1) * MaxHanded <= Room
      BY <1>1, <1>2, <2>3, <3>2
    <3>3. QED
      BY <2>1, <3>1, <3>2 DEF Fits
  <2>5. QED
    BY <1>1, <1>2, <1>3, <2>4 DEF QueueBounded
<1>4. CASE ~overlap
  BY <1>2, <1>4 DEF AloneInv, QueueBounded
<1>5. QED
  BY <1>3, <1>4

\* The file stays within its bound while hooks do not overlap, and over it by
\* at most one hand-in for every other hook (queue.rs:57-69, store.rs:157-189).
THEOREM QueueStaysBounded == Spec => []QueueBounded
<1>1. Init => RoomInv
  BY RoomAtStart
<1>2. QueueInv /\ QueueInv' /\ RoomInv /\ [Next]_vars => RoomInv'
  BY RoomStep
<1>3. QueueInv /\ RoomInv => QueueBounded
  BY RoomBounds
<1>4. QED
  BY <1>1, <1>2, <1>3, QueueInvAlways, PTL DEF Spec
-----------------------------------------------------------------------------
(* One hook at a time: the queue is the buffer of module Outbox.           *)

LEMMA NoOthers ==
  ASSUME NEW h, Hook = {h}, Inv, Next, ~overlap
  PROVE  ~overlap'
<1>1. PICK x \in Hook : \/ \E b \in Batch : ReadForEnqueue(x, b)
                        \/ ReadForFlush(x)
                        \/ \E p, t, g, f : Work(x, p, t, g, f)
                        \/ \E p, part, new : Adds(x, p, part, new)
                        \/ \E p, all : Replaces(x, p, all)
                        \/ Kill(x)
  BY Cases
<1>2. Others(x) = {}
  BY DEF Others
<1>3. QED
  BY <1>1, <1>2 DEF ReadForEnqueue, ReadForFlush, NoteRead, Work, Adds, Replaces, Kill

\* A step that the buffer does not see.
LEMMA SameBuffer ==
  ASSUME Queued' = Queued, acked' = acked
  PROVE  [Promise!Next]_<<Queued \ acked, Queued \cap acked, acked>>
OBVIOUS

\* What a flush gets answered.
LEMMA WorkDelivers ==
  ASSUME QueueInv, ~overlap, NEW h \in Hook, NEW p, NEW t, NEW g, NEW f, Work(h, p, t, g, f)
  PROVE  [Promise!Next]_<<Queued \ acked, Queued \cap acked, acked>>
<1> DEFINE S == acked' \ acked
<1>1. Queued' = Queued
  BY DEF Work, file, Queued
<1>2. Local(h) \subseteq Queued /\ acked \subseteq acked' /\ acked' \subseteq acked \cup Local(h)
  BY DEF QueueInv, AloneInv, Work, Sending, Reading, Posting
<1>3. CASE S = {}
  BY <1>1, <1>2, <1>3, SameBuffer
<1>4. CASE S # {}
  <2>1. S \in SUBSET (Queued \ acked)
    BY <1>2
  <2>2. Promise!Deliver(S)
    BY <1>1, <1>2, <1>4 DEF Promise!Deliver
  <2>3. Promise!Next
    BY <2>1, <2>2 DEF Promise!Next
  <2>4. QED
    BY <2>3
<1>5. QED
  BY <1>3, <1>4

\* The buffer counts its events as the queue does.
LEMMA SameSize == \A T : Promise!Cardinality(T) = Cardinality(T)
BY Zenon DEF Promise!Cardinality, Cardinality

\* New events come in, and the file is left full or with all of them.
LEMMA WriteAccepts ==
  ASSUME Inv, Inv', NEW S \in SUBSET Event, S # {}, S \cap ToSet(order) = {}, UNCHANGED acked,
         Distinct(Queued \cup S),
         Queued' \subseteq Queued \cup S,
         Len(queue') = IF Cardinality(Queued \cup S) > MaxQueued THEN MaxQueued ELSE Cardinality(Queued \cup S)
  PROVE  [Promise!Next]_<<Queued \ acked, Queued \cap acked, acked>>
<1>1. (Queued \ acked) \cup (Queued \cap acked) \cup S = Queued \cup S
  OBVIOUS
<1>2. Cardinality(Queued') = Len(queue')
  BY InjectiveLength DEF Inv, Shape, FileInv, Queued
<1>3. S \cap ((Queued \ acked) \cup acked) = {}
  BY DEF Inv, FileInv
<1>4. \E K \in SUBSET ((Queued \ acked) \cup (Queued \cap acked) \cup S) :
         /\ Cardinality(K) = IF Cardinality((Queued \ acked) \cup (Queued \cap acked) \cup S) > MaxQueued
                             THEN MaxQueued ELSE Cardinality((Queued \ acked) \cup (Queued \cap acked) \cup S)
         /\ Queued' \ acked' = K \ acked
         /\ Queued' \cap acked' = K \cap acked
  <2>1. /\ Queued' \in SUBSET (Queued \cup S)
        /\ Cardinality(Queued') = IF Cardinality(Queued \cup S) > MaxQueued THEN MaxQueued ELSE Cardinality(Queued \cup S)
        /\ Queued' \ acked' = Queued' \ acked /\ Queued' \cap acked' = Queued' \cap acked
    BY <1>2
  <2>2. QED
    BY <1>1, <2>1
<1>5. Promise!Accept(S)
  <2>1. S \cap ((Queued \ acked) \cup acked) = {} /\ S # {} /\ acked' = acked
    BY <1>3
  <2>2. Promise!NewIdsTo(S, (Queued \ acked) \cup (Queued \cap acked))
    BY DEF Promise!NewIdsTo, Distinct
  <2>3. QED
    BY <1>4, <2>1, <2>2, SameSize DEF Promise!Accept
<1>6. Promise!Next
  BY <1>5 DEF Promise!Next
<1>7. QED
  BY <1>6

LEMMA AddAccepts ==
  ASSUME QueueInv, QueueInv', ~overlap, NEW h \in Hook,
         NEW p, NEW part, NEW new, Adds(h, p, part, new)
  PROVE  [Promise!Next]_<<Queued \ acked, Queued \cap acked, acked>>
<1> USE DEF QueueInv
<1>1. /\ queue' = queue \o new /\ new \in Seq(Event) /\ part \in Seq(Event)
      /\ ToSet(part) \subseteq ToSet(fresh[h]) /\ Subsequence(new, part) /\ UNCHANGED <<acked, overlap>>
  BY DEF Adds
<1>2. Queued' = Queued \cup ToSet(new) /\ ToSet(new) \subseteq ToSet(fresh[h])
  BY <1>1, AtHook, ElementsOfConcat, SubsequenceFacts DEF Queued
<1>3. CASE ToSet(new) = {}
  BY <1>1, <1>2, <1>3, SameBuffer
<1>4. CASE ToSet(new) # {}
  <2>1. ToSet(new) \cap ToSet(order) = {} /\ ToSet(new) \in SUBSET Event
    BY <1>1, <1>2, AtHook, Elements DEF HookIn
  <2>2. Cardinality(Queued') = Len(queue') /\ Len(queue') \in Nat /\ MaxQueued \in Nat
    BY InjectiveLength, QueueAssumption DEF Inv, Shape, FileInv, Queued
  <2>3. Len(queue') <= MaxQueued
    BY <1>1 DEF AloneInv
  <2>4. Len(queue') = IF Cardinality(Queued \cup ToSet(new)) > MaxQueued
                      THEN MaxQueued ELSE Cardinality(Queued \cup ToSet(new))
    BY <1>2, <2>2, <2>3
  <2>5. Distinct(Queued \cup ToSet(new))
    BY <1>2, SubsetDistinct DEF IdInv
  <2>6. QED
    BY <1>1, <1>2, <1>4, <2>1, <2>4, <2>5, WriteAccepts
<1>5. QED
  BY <1>3, <1>4

LEMMA NewestAccepts ==
  ASSUME QueueInv, QueueInv', ~overlap, NEW h \in Hook, NEW p, NEW all, Replaces(h, p, all),
         pc[h] = "append"
  PROVE  [Promise!Next]_<<Queued \ acked, Queued \cap acked, acked>>
<1> USE DEF QueueInv
<1>1. seen[h] = queue /\ all = queue \o fresh[h] /\ queue' = Newest(MaxQueued, all) /\ UNCHANGED acked
  BY AloneAtWrite DEF Replaces, Reading
<1>2. /\ fresh[h] # <<>> /\ ToSet(fresh[h]) \cap ToSet(order) = {}
      /\ fresh[h] \in Seq(Event) /\ queue \in Seq(Event)
  BY AtHook DEF HookIn
<1>3. ToSet(fresh[h]) # {} /\ ToSet(fresh[h]) \in SUBSET Event
  BY <1>2, Elements
<1>4. all \in Seq(Event) /\ IsInjective(all)
  BY ReplacedBy
<1>5. ToSet(all) = Queued \cup ToSet(fresh[h]) /\ Cardinality(ToSet(all)) = Len(all)
  <2>1. ToSet(queue \o fresh[h]) = ToSet(queue) \cup ToSet(fresh[h])
    BY <1>2, ElementsOfConcat
  <2>2. Cardinality(ToSet(all)) = Len(all)
    BY <1>4, InjectiveLength
  <2>3. QED
    BY <1>1, <2>1, <2>2 DEF Queued
<1>6. /\ ToSet(Newest(MaxQueued, all)) \subseteq ToSet(all)
      /\ Len(Newest(MaxQueued, all)) = IF Len(all) > MaxQueued THEN MaxQueued ELSE Len(all)
  BY <1>4, NewestParts, QueueAssumption DEF Parts
<1>7. Distinct(Queued \cup ToSet(fresh[h]))
  BY DEF IdInv
<1>8. QED
  BY <1>1, <1>2, <1>3, <1>5, <1>6, <1>7, WriteAccepts DEF Queued

LEMMA FailedClears ==
  ASSUME QueueInv, ~overlap, NEW h \in Hook, NEW p, NEW all, Replaces(h, p, all),
         pc[h] = "replace"
  PROVE  [Promise!Next]_<<Queued \ acked, Queued \cap acked, acked>>
<1> USE DEF QueueInv
<1>1. /\ all = failed[h] /\ queue' = Newest(MaxQueued, all) /\ UNCHANGED acked
      /\ all \in Seq(Event) /\ IsInjective(all)
  BY ReplacedBy DEF Replaces
<1>2. ToSet(all) \subseteq Queued /\ Queued \subseteq ToSet(all) \cup acked
  <2>1. Local(h) = ToSet(failed[h]) /\ h \notin stale
    BY AloneAtWrite DEF Reading
  <2>2. QED
    BY <1>1, <2>1 DEF AloneInv, LostInv, Sending, Reading
<1>3. Len(all) <= MaxQueued /\ Len(all) \in Nat /\ MaxQueued \in Nat
  <2>1. IsFiniteSet(Queued) /\ Cardinality(Queued) = Len(queue) /\ Cardinality(ToSet(all)) = Len(all)
    BY <1>1, InjectiveLength DEF Inv, Shape, FileInv, Queued
  <2>2. Cardinality(ToSet(all)) <= Cardinality(Queued)
    BY <1>2, <2>1, FS_Subset
  <2>3. Len(queue) <= MaxQueued /\ Len(queue) \in Nat /\ MaxQueued \in Nat /\ Len(all) \in Nat
    BY <1>1, Rooms DEF AloneInv
  <2>4. QED
    BY <2>1, <2>2, <2>3
<1>4. Queued' = ToSet(all)
  <2>1. /\ Parts(AllButNewest(MaxQueued, all), Newest(MaxQueued, all), all)
        /\ Len(Newest(MaxQueued, all)) = Len(all)
    BY <1>1, <1>3, NewestParts
  <2>2. ToSet(AllButNewest(MaxQueued, all)) = {}
    <3>1. PICK z \in Seq(Event) : z = AllButNewest(MaxQueued, all) /\ Len(z) = 0
      BY <1>3, <2>1 DEF Parts
    <3>2. z = <<>>
      BY <3>1
    <3>3. ToSet(z) = {}
      BY <3>2, NoElements
    <3>4. QED
      BY <3>1, <3>3
  <2>3. QED
    BY <1>1, <2>1, <2>2 DEF Parts, Queued
<1> DEFINE S == Queued \ Queued'
<1>5. CASE S = {}
  BY <1>1, <1>2, <1>4, <1>5, SameBuffer
<1>6. CASE S # {}
  <2>1. S \in SUBSET (Queued \cap acked)
    BY <1>2, <1>4
  <2>2. Promise!Clear(S)
    BY <1>1, <1>2, <1>4, <1>6, <2>1 DEF Promise!Clear
  <2>3. Promise!Next
    BY <2>1, <2>2 DEF Promise!Next
  <2>4. QED
    BY <2>3
<1>7. QED
  BY <1>5, <1>6

LEMMA StepMapsToOutbox ==
  ASSUME QueueInv, QueueInv', ~overlap, [Next]_vars
  PROVE  [Promise!Next]_<<Queued \ acked, Queued \cap acked, acked>>
<1>1. CASE UNCHANGED vars
  BY <1>1, SameBuffer DEF vars, file, history, Queued
<1>2. CASE Next
  <2>1. PICK h \in Hook : \/ \E b \in Batch : ReadForEnqueue(h, b)
                          \/ ReadForFlush(h)
                          \/ \E p, t, g, f : Work(h, p, t, g, f)
                          \/ \E p, part, new : Adds(h, p, part, new)
                          \/ \E p, all : Replaces(h, p, all)
                          \/ Kill(h)
    BY <1>2, Cases DEF QueueInv
  <2>2. CASE (\E b \in Batch : ReadForEnqueue(h, b)) \/ ReadForFlush(h) \/ Kill(h)
    <3>1. Queued' = Queued /\ acked' = acked
      BY <2>2 DEF ReadForEnqueue, ReadForFlush, Kill, file, Queued
    <3>2. QED
      BY <3>1, SameBuffer
  <2>3. CASE \E p, t, g, f : Work(h, p, t, g, f)
    BY <2>3, WorkDelivers
  <2>4. CASE \E p, part, new : Adds(h, p, part, new)
    BY <2>4, AddAccepts
  <2>5. ASSUME NEW p, NEW all, Replaces(h, p, all)
        PROVE  [Promise!Next]_<<Queued \ acked, Queued \cap acked, acked>>
    <3>1. pc[h] = "append" \/ pc[h] = "replace"
      BY <2>5 DEF Replaces
    <3>2. QED
      BY <2>5, <3>1, NewestAccepts, FailedClears
  <2>6. QED
    BY <2>1, <2>2, <2>3, <2>4, <2>5
<1>3. QED
  BY <1>1, <1>2

\* A hook that has the queue to itself sees a bounded store-and-forward
\* buffer: enqueue accepts, a 2xx delivers and the rewrite of a flush clears,
\* kills at any step included (queue.rs:38-143).
THEOREM QueueIsOutbox ==
  ASSUME NEW h, Hook = {h}
  PROVE  Spec => ImplementsOutbox
<1>1. Init => ~overlap /\ Promise!Init
  BY NoElements DEF Init, Promise!Init, Queued
<1>2. Inv /\ ~overlap /\ [Next]_vars => ~overlap'
  <2>1. ASSUME overlap' = overlap, ~overlap PROVE ~overlap'
    BY <2>1
  <2>2. QED
    BY <2>1, NoOthers DEF vars, history
<1>3. QueueInv => Inv
  BY DEF QueueInv
<1>4. QueueInv /\ QueueInv' /\ ~overlap /\ [Next]_vars
        => [Promise!Next]_<<Queued \ acked, Queued \cap acked, acked>>
  BY StepMapsToOutbox
<1>5. QED
  BY <1>1, <1>2, <1>3, <1>4, QueueInvAlways, PTL DEF Spec, ImplementsOutbox, Promise!Spec
=============================================================================
