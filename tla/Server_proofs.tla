---------------------------- MODULE Server_proofs ----------------------------
(***************************************************************************)
(* Proofs about Server, for any number of listeners, connections, threads  *)
(* and clients, every length of the pool's queue and of epoll's batch, and *)
(* with and without timeouts.                                              *)
(***************************************************************************)
EXTENDS Server, FiniteSetTheorems, SequenceTheorems, WellFoundedInduction, TLAPS

-----------------------------------------------------------------------------
(* Induction, by way of a set: a set of numbers has a smallest one.        *)

LEMMA Smallest ==
    ASSUME NEW T, T \subseteq Nat, T # {}
    PROVE  \E m \in T : \A k \in T : m <= k
  <1>1. PICK x \in T : \A y \in T : ~ (<<y, x>> \in OpToRel(<, Nat))
    BY WFMin, NatLessThanWellFounded
  <1>2. \A y \in T : ~ (y < x)
    <2> TAKE y \in T
    <2>1. <<y, x>> \in Nat \X Nat
      OBVIOUS
    <2>2. ~ (<<y, x>> \in {ss \in Nat \X Nat : ss[1] < ss[2]})
      BY <1>1, Zenon DEF OpToRel
    <2> QED BY <2>1, <2>2
  <1> QED BY <1>2

LEMMA SetInduction ==
    ASSUME NEW Q, 0 \in Q, \A n \in Nat : n \in Q => n + 1 \in Q
    PROVE  \A n \in Nat : n \in Q
  <1> SUFFICES ASSUME NEW n \in Nat, n \notin Q PROVE FALSE
    OBVIOUS
  <1> DEFINE T == {m \in Nat : m \notin Q}
  <1>1. PICK m \in T : \A k \in T : m <= k
    <2>1. T \subseteq Nat /\ T # {}
      OBVIOUS
    <2> HIDE DEF T
    <2> QED BY <2>1, Smallest
  <1>2. m - 1 \in Nat /\ m - 1 \notin T
    BY <1>1
  <1> QED BY <1>2

-----------------------------------------------------------------------------
(* Lists.                                                                  *)

\* Append()
LEMMA AppendList ==
    ASSUME NEW S, NEW s \in Seq(S), NEW x \in S
    PROVE  /\ Append(s, x) \in Seq(S) /\ Append(s, x) # <<>>
           /\ \A y : Has(Append(s, x), y) <=> Has(s, y) \/ y = x
           /\ Distinct(s) /\ ~Has(s, x) => Distinct(Append(s, x))
  <1> DEFINE t == Append(s, x)
  <1>1. /\ t \in Seq(S) /\ t # <<>> /\ Len(t) = Len(s) + 1 /\ t[Len(s) + 1] = x
        /\ \A i \in 1 .. Len(s) : t[i] = s[i]
    OBVIOUS
  <1>2. Len(s) \in Nat
    OBVIOUS
  <1> HIDE DEF t
  <1>3. \A y : Has(t, y) <=> Has(s, y) \/ y = x
    BY <1>1, <1>2 DEF Has
  <1>4. Distinct(s) /\ ~Has(s, x) => Distinct(t)
    <2> SUFFICES ASSUME Distinct(s), ~Has(s, x), NEW i \in 1 .. Len(t), NEW j \in 1 .. Len(t),
                        t[i] = t[j]
                 PROVE  i = j
      BY Zenon DEF Distinct
    <2>1. CASE i \in 1 .. Len(s) /\ j \in 1 .. Len(s)
      BY <2>1, <1>1 DEF Distinct
    <2>2. CASE i \notin 1 .. Len(s) \/ j \notin 1 .. Len(s)
      BY <2>2, <1>1, <1>2 DEF Has
    <2> QED BY <2>1, <2>2
  <1> QED BY <1>1, <1>3, <1>4 DEF t

\* Tail() and Head()
LEMMA TailList ==
    ASSUME NEW S, NEW s \in Seq(S), s # <<>>
    PROVE  /\ Tail(s) \in Seq(S) /\ Head(s) \in S /\ Has(s, Head(s))
           /\ \A y : Has(Tail(s), y) => Has(s, y)
           /\ \A y : Has(s, y) => Has(Tail(s), y) \/ y = Head(s)
           /\ Distinct(s) => Distinct(Tail(s)) /\ ~Has(Tail(s), Head(s))
  <1> DEFINE t == Tail(s)
  <1>1. /\ t \in Seq(S) /\ Len(s) \in Nat /\ Len(s) >= 1 /\ Len(t) = Len(s) - 1
        /\ \A i \in 1 .. Len(t) : t[i] = s[i + 1]
        /\ Head(s) = s[1] /\ s[1] \in S
    OBVIOUS
  <1> HIDE DEF t
  <1>2. Has(s, Head(s)) /\ \A y : Has(t, y) => Has(s, y)
    <2>1. Has(s, Head(s))
      BY <1>1 DEF Has
    <2>2. \A i \in 1 .. Len(t) : i + 1 \in 1 .. Len(s)
      BY <1>1
    <2> QED BY <1>1, <2>1, <2>2 DEF Has
  <1>3. ASSUME NEW y, Has(s, y) PROVE Has(t, y) \/ y = Head(s)
    <2>1. PICK i \in 1 .. Len(s) : s[i] = y
      BY <1>3 DEF Has
    <2>2. i # 1 => i - 1 \in 1 .. Len(t) /\ t[i - 1] = y
      BY <2>1, <1>1
    <2> QED BY <2>1, <2>2, <1>1 DEF Has
  <1>4. ASSUME Distinct(s) PROVE Distinct(t) /\ ~Has(t, Head(s))
    <2>1. \A i, j \in 1 .. Len(t) : i + 1 \in 1 .. Len(s) /\ j + 1 \in 1 .. Len(s)
                                    /\ (i + 1 = j + 1 => i = j) /\ i + 1 # 1
      BY <1>1
    <2>2. 1 \in 1 .. Len(s)
      BY <1>1
    <2> QED BY <1>1, <1>4, <2>1, <2>2 DEF Distinct, Has
  <1> QED BY <1>1, <1>2, <1>3, <1>4 DEF t

\* A part of a list
LEMMA SubSeqList ==
    ASSUME NEW S, NEW s \in Seq(S), NEW m \in Nat, NEW n \in Nat, m >= 1, n <= Len(s)
    PROVE  /\ SubSeq(s, m, n) \in Seq(S)
           /\ Len(SubSeq(s, m, n)) = IF m <= n THEN n - m + 1 ELSE 0
           /\ \A i \in 1 .. n - m + 1 : SubSeq(s, m, n)[i] = s[m + i - 1]
  <1>1. \A i \in m .. n : s[i] \in S
    OBVIOUS
  <1> QED BY <1>1, SubSeqProperties

\* The rest of a list
LEMMA RestList ==
    ASSUME NEW S, NEW s \in Seq(S), NEW m \in Nat, m >= 1, Distinct(s)
    PROVE  /\ SubSeq(s, m, Len(s)) \in Seq(S) /\ Distinct(SubSeq(s, m, Len(s)))
           /\ \A y : Has(SubSeq(s, m, Len(s)), y)
                       <=> \E i \in m .. Len(s) : s[i] = y
  <1> DEFINE n == Len(s)
             t == SubSeq(s, m, n)
  <1>1. /\ n \in Nat /\ t \in Seq(S) /\ Len(t) = IF m <= n THEN n - m + 1 ELSE 0
        /\ \A i \in 1 .. n - m + 1 : t[i] = s[m + i - 1]
    BY SubSeqList
  <1>2. \A i, j \in 1 .. n : s[i] = s[j] => i = j
    BY DEF Distinct
  <1> HIDE DEF n, t
  <1>3. \A i \in 1 .. Len(t) : t[i] = s[m + i - 1] /\ m + i - 1 \in m .. n
    BY <1>1
  <1>4. \A i \in m .. n : i - m + 1 \in 1 .. Len(t) /\ t[i - m + 1] = s[i]
    BY <1>1
  <1>5. Distinct(t)
    <2> SUFFICES ASSUME NEW i \in 1 .. Len(t), NEW j \in 1 .. Len(t), t[i] = t[j]
                 PROVE  i = j
      BY Zenon DEF Distinct
    <2>1. m + i - 1 \in 1 .. n /\ m + j - 1 \in 1 .. n
      BY <1>3, <1>1
    <2>2. m + i - 1 = m + j - 1
      BY <2>1, <1>2, <1>3
    <2> QED BY <2>2, <1>1
  <1>6. \A y : Has(t, y) <=> \E i \in m .. n : s[i] = y
    BY <1>3, <1>4 DEF Has
  <1> QED BY <1>1, <1>5, <1>6 DEF n, t

\* Without() takes the element out.
LEMMA WithoutList ==
    ASSUME NEW S, NEW s \in Seq(S), NEW x, Distinct(s)
    PROVE  /\ Without(s, x) \in Seq(S) /\ Distinct(Without(s, x))
           /\ \A y : Has(Without(s, x), y) <=> Has(s, y) /\ y # x
           /\ Len(Without(s, x)) >= Len(s) - 1
  <1> DEFINE t == Without(s, x)
             n == Len(s)
  <1>0. n \in Nat
    OBVIOUS
  <1>1. CASE ~Has(s, x)
    <2>1. t = s
      BY <1>1 DEF Without
    <2> QED BY <2>1, <1>1, <1>0
  <1>2. CASE Has(s, x)
    <2> DEFINE p == Position(s, x)
               a == SubSeq(s, 1, p - 1)
               b == SubSeq(s, p + 1, n)
    <2>1. p \in 1 .. n /\ s[p] = x
      BY <1>2 DEF Has, Position
    <2>2. t = a \o b
      BY <1>2 DEF Without, RemoveAt
    <2> HIDE DEF t, n, p
    <2>3. p - 1 \in Nat /\ p + 1 \in Nat /\ p - 1 <= n
      BY <2>1, <1>0
    <2>4. /\ a \in Seq(S) /\ Len(a) = p - 1
          /\ \A i \in 1 .. p - 1 : a[i] = s[i]
      <3> DEFINE q == p - 1
      <3>1. q \in Nat /\ q <= Len(s)
        BY <2>3 DEF n
      <3> HIDE DEF q
      <3>2. /\ SubSeq(s, 1, q) \in Seq(S)
            /\ Len(SubSeq(s, 1, q)) = IF 1 <= q THEN q - 1 + 1 ELSE 0
            /\ \A i \in 1 .. q - 1 + 1 : SubSeq(s, 1, q)[i] = s[1 + i - 1]
        BY <3>1, SubSeqList
      <3>3. \A i \in 1 .. q : SubSeq(s, 1, q)[i] = s[i]
        BY <3>1, <3>2
      <3>4. Len(SubSeq(s, 1, q)) = q
        BY <3>1, <3>2
      <3> QED BY <3>2, <3>3, <3>4 DEF q
    <2>5. /\ b \in Seq(S) /\ Len(b) = n - p
          /\ \A i \in 1 .. n - p : b[i] = s[p + i]
      <3> DEFINE q == p + 1
      <3>1. q \in Nat /\ q >= 1
        BY <2>1, <2>3
      <3> HIDE DEF q
      <3>2. /\ SubSeq(s, q, n) \in Seq(S)
            /\ Len(SubSeq(s, q, n)) = IF q <= n THEN n - q + 1 ELSE 0
            /\ \A i \in 1 .. n - q + 1 : SubSeq(s, q, n)[i] = s[q + i - 1]
        BY <3>1, <1>0, SubSeqList DEF n
      <3>3. \A i \in 1 .. n - p : SubSeq(s, q, n)[i] = s[p + i]
        <4> TAKE i \in 1 .. n - p
        <4>1. i \in 1 .. n - q + 1 /\ q + i - 1 = p + i
          BY <2>1, <1>0 DEF q
        <4> QED BY <4>1, <3>2
      <3>4. Len(SubSeq(s, q, n)) = n - p
        BY <3>2, <2>1, <1>0 DEF q
      <3> QED BY <3>2, <3>3, <3>4 DEF q
    <2> HIDE DEF a, b
    <2>6. /\ t \in Seq(S) /\ Len(t) = n - 1
          /\ \A i \in 1 .. n - 1 : t[i] = IF i < p THEN s[i] ELSE s[i + 1]
      <3>1. /\ a \o b \in Seq(S) /\ Len(a \o b) = Len(a) + Len(b)
            /\ \A i \in 1 .. Len(a) + Len(b) :
                  (a \o b)[i] = IF i <= Len(a) THEN a[i] ELSE b[i - Len(a)]
        BY <2>4, <2>5, ConcatProperties
      <3>2. Len(a) + Len(b) = n - 1
        BY <2>4, <2>5, <2>1, <1>0
      <3>3. ASSUME NEW i \in 1 .. n - 1 PROVE t[i] = IF i < p THEN s[i] ELSE s[i + 1]
        <4>0. t[i] = IF i <= Len(a) THEN a[i] ELSE b[i - Len(a)]
          BY <3>1, <3>2, <2>2
        <4>1. CASE i < p
          <5>1. i <= p - 1 /\ i \in 1 .. p - 1
            BY <4>1, <2>1
          <5> QED BY <4>0, <4>1, <5>1, <2>4
        <4>2. CASE ~(i < p)
          <5>1. ~(i <= p - 1) /\ i - (p - 1) \in 1 .. n - p /\ p + (i - (p - 1)) = i + 1
            BY <4>2, <2>1, <1>0
          <5>2. b[i - (p - 1)] = s[p + (i - (p - 1))]
            BY <5>1, <2>5
          <5> QED BY <4>0, <4>2, <5>1, <5>2, <2>4
        <4> QED BY <4>1, <4>2
      <3> QED BY <3>1, <3>2, <3>3, <2>2
    <2>7. \A i, j \in 1 .. n : s[i] = s[j] => i = j
      BY DEF Distinct, n
    <2> DEFINE g(i) == IF i < p THEN i ELSE i + 1
    <2>8. \A i \in 1 .. n - 1 : g(i) \in 1 .. n /\ g(i) # p /\ t[i] = s[g(i)]
      BY <2>6, <2>1, <1>0
    <2>9. \A i, j \in 1 .. n - 1 : g(i) = g(j) => i = j
      BY <2>1, <1>0
    <2>10. \A j \in 1 .. n : j # p => \E i \in 1 .. n - 1 : t[i] = s[j]
      <3> SUFFICES ASSUME NEW j \in 1 .. n, j # p PROVE \E i \in 1 .. n - 1 : t[i] = s[j]
        OBVIOUS
      <3>1. CASE j < p
        <4>1. j \in 1 .. n - 1
          BY <3>1, <2>1, <1>0
        <4> QED BY <4>1, <3>1, <2>6
      <3>2. CASE j > p
        <4>1. j - 1 \in 1 .. n - 1 /\ ~(j - 1 < p) /\ (j - 1) + 1 = j
          BY <3>2, <2>1, <1>0
        <4>2. t[j - 1] = s[j]
          BY <4>1, <2>6
        <4> QED BY <4>1, <4>2
      <3> QED BY <3>1, <3>2, <2>1
    <2> HIDE DEF g
    <2>11. Distinct(t)
      <3> SUFFICES ASSUME NEW i \in 1 .. n - 1, NEW j \in 1 .. n - 1, t[i] = t[j]
                   PROVE  i = j
        BY <2>6 DEF Distinct
      <3> QED BY <2>7, <2>8, <2>9
    <2>12. \A y : Has(t, y) <=> Has(s, y) /\ y # x
      <3>1. ASSUME NEW y, Has(t, y) PROVE Has(s, y) /\ y # x
        <4>1. PICK i \in 1 .. n - 1 : t[i] = y
          BY <3>1, <2>6 DEF Has
        <4>2. g(i) \in 1 .. n /\ g(i) # p /\ s[g(i)] = y
          BY <4>1, <2>8
        <4> QED BY <4>2, <2>1, <2>7 DEF Has, n
      <3>2. ASSUME NEW y, Has(s, y), y # x PROVE Has(t, y)
        <4>1. PICK j \in 1 .. n : s[j] = y
          BY <3>2 DEF Has, n
        <4>2. j # p
          BY <4>1, <3>2, <2>1
        <4> QED BY <4>1, <4>2, <2>10, <2>6 DEF Has
      <3> QED BY <3>1, <3>2
    <2> QED BY <2>6, <2>11, <2>12, <1>0 DEF t, n
  <1> QED BY <1>1, <1>2

\* With() puts it in.
LEMMA WithList ==
    ASSUME NEW S, NEW s \in Seq(S), NEW x \in S
    PROVE  /\ With(s, x) \in Seq(S) /\ With(s, x) # <<>>
           /\ \A y : Has(With(s, x), y) <=> Has(s, y) \/ y = x
           /\ Distinct(s) => Distinct(With(s, x))
  <1>1. CASE Has(s, x)
    <2>1. With(s, x) = s
      BY <1>1 DEF With
    <2>2. s # <<>>
      BY <1>1 DEF Has
    <2> QED BY <2>1, <2>2, <1>1
  <1>2. CASE ~Has(s, x)
    <2>1. With(s, x) = Append(s, x)
      BY <1>2 DEF With
    <2> QED BY <2>1, <1>2, AppendList
  <1> QED BY <1>1, <1>2

\* SetToSeq() lists every element once.
LEMMA SetToSeqList ==
    ASSUME NEW S, IsFiniteSet(S)
    PROVE  /\ SetToSeq(S) \in Seq(S) /\ Distinct(SetToSeq(S))
           /\ \A x \in S : Has(SetToSeq(S), x)
  <1> DEFINE n == Cardinality(S)
             D == 1 .. n
             f == SetToSeq(S)
  <1>1. n \in Nat /\ ExistsBijection(D, S)
    BY FS_CardinalityType
  <1>2. PICK b \in Bijection(D, S) : TRUE
    BY <1>1 DEF ExistsBijection
  <1>3. b \in [D -> S] /\ IsInjective(b)
    BY <1>2 DEF Bijection, Injection
  <1>4. f \in [D -> S] /\ IsInjective(f)
    <2>1. f = CHOOSE g \in [D -> S] : IsInjective(g)
      BY DEF SetToSeq
    <2> HIDE DEF f
    <2> QED BY <1>3, <2>1
  <1>5. f \in Injection(D, S)
    BY <1>4 DEF Injection
  <1>6. IsFiniteSet(D) /\ Cardinality(D) = n
    BY <1>1, FS_Interval
  <1>7. f \in Surjection(D, S)
    <2> HIDE DEF f, D
    <2> QED BY <1>5, <1>6, FS_Injection
  <1> HIDE DEF f
  <1>8. f \in Seq(S) /\ Len(f) = n
    BY <1>1, <1>4
  <1>9. Distinct(f)
    BY <1>1, <1>4, <1>8 DEF IsInjective, Distinct
  <1>10. \A x \in S : Has(f, x)
    BY <1>7, <1>8 DEF Surjection, Has
  <1> QED BY <1>8, <1>9, <1>10 DEF f

\* The first n elements of s that are in T, and what is to be known of them.
FilterStep(s, T, F, i) ==
    IF i = 0 THEN <<>>
    ELSE IF s[i] \in T THEN Append(F[i - 1], s[i]) ELSE F[i - 1]

\* The recursive function of Filter() exists.
LEMMA FilterExists ==
    ASSUME NEW S, NEW s \in Seq(S), NEW T
    PROVE  \E F \in [0 .. Len(s) -> Seq(S)] :
              \A i \in 0 .. Len(s) : F[i] = FilterStep(s, T, F, i)
  <1> DEFINE Is(F, n) == /\ F \in [0 .. n -> Seq(S)]
                         /\ \A i \in 0 .. n : F[i] = FilterStep(s, T, F, i)
             Q == {n \in Nat : n <= Len(s) => \E F : Is(F, n)}
  <1>1. 0 \in Q
    <2> DEFINE F == [i \in 0 .. 0 |-> <<>>]
    <2>1. Is(F, 0)
      BY DEF FilterStep
    <2> HIDE DEF F, Is
    <2> QED BY <2>1
  <1>2. \A n \in Nat : n \in Q => n + 1 \in Q
    <2> SUFFICES ASSUME NEW n \in Nat, n \in Q, n + 1 <= Len(s)
                 PROVE  \E G : Is(G, n + 1)
      <3> HIDE DEF Is
      <3> QED OBVIOUS
    <2>0. n <= Len(s) /\ n + 1 \in 1 .. Len(s)
      OBVIOUS
    <2>1. PICK F : Is(F, n)
      <3> HIDE DEF Is
      <3> QED BY <2>0
    <2> DEFINE l == IF s[n + 1] \in T THEN Append(F[n], s[n + 1]) ELSE F[n]
               G == [i \in 0 .. n + 1 |-> IF i <= n THEN F[i] ELSE l]
    <2>2. l \in Seq(S)
      BY <2>0, <2>1
    <2>3. G \in [0 .. n + 1 -> Seq(S)]
      BY <2>1, <2>2
    <2>4. \A i \in 0 .. n + 1 : G[i] = FilterStep(s, T, G, i)
      <3> TAKE i \in 0 .. n + 1
      <3>1. ASSUME i <= n PROVE G[i] = FilterStep(s, T, G, i)
        <4>1. G[i] = F[i] /\ i \in 0 .. n
          BY <3>1
        <4>2. i # 0 => i - 1 \in 0 .. n /\ G[i - 1] = F[i - 1]
          BY <3>1
        <4> HIDE DEF G
        <4> QED BY <2>1, <4>1, <4>2 DEF FilterStep
      <3>2. ASSUME i = n + 1 PROVE G[i] = FilterStep(s, T, G, i)
        BY <3>2 DEF FilterStep
      <3> QED BY <3>1, <3>2
    <2> QED BY <2>3, <2>4
  <1>3. Len(s) \in Q
    <2> HIDE DEF Q
    <2> QED BY <1>1, <1>2, SetInduction
  <1> QED BY <1>3

\* Filter() is the last value of that function.
LEMMA FilterIs ==
    ASSUME NEW S, NEW s \in Seq(S), NEW T
    PROVE  \E F \in [0 .. Len(s) -> Seq(S)] :
              /\ \A i \in 0 .. Len(s) : F[i] = FilterStep(s, T, F, i)
              /\ Filter(s, T) = F[Len(s)]
  <1> DEFINE Rec(F) == [i \in 0 .. Len(s) |->
                           IF i = 0 THEN <<>>
                           ELSE IF s[i] \in T THEN Append(F[i - 1], s[i]) ELSE F[i - 1]]
             C == CHOOSE F : F = Rec(F)
  <1>1. Filter(s, T) = C[Len(s)]
    BY DEF Filter
  <1>2. PICK F \in [0 .. Len(s) -> Seq(S)] :
                \A i \in 0 .. Len(s) : F[i] = FilterStep(s, T, F, i)
    BY FilterExists
  <1>3. F = Rec(F)
    BY <1>2 DEF FilterStep
  <1>4. C = Rec(C)
    BY <1>3
  <1>5. \A i \in 0 .. Len(s) : C[i] = FilterStep(s, T, C, i)
    BY <1>4 DEF FilterStep
  <1> DEFINE Q == {n \in Nat : n <= Len(s) => C[n] = F[n]}
  <1> HIDE DEF C
  <1>6. 0 \in Q
    BY <1>2, <1>5 DEF FilterStep
  <1>7. \A n \in Nat : n \in Q => n + 1 \in Q
    <2> SUFFICES ASSUME NEW n \in Nat, n \in Q, n + 1 <= Len(s)
                 PROVE  C[n + 1] = F[n + 1]
      OBVIOUS
    <2>1. n + 1 \in 0 .. Len(s) /\ n + 1 # 0 /\ C[n] = F[n] /\ (n + 1) - 1 = n
      OBVIOUS
    <2>2. C[n + 1] = FilterStep(s, T, C, n + 1) /\ F[n + 1] = FilterStep(s, T, F, n + 1)
      BY <2>1, <1>2, <1>5
    <2>3. FilterStep(s, T, C, n + 1) = FilterStep(s, T, F, n + 1)
      BY <2>1, Zenon DEF FilterStep
    <2> QED BY <2>2, <2>3
  <1>8. Len(s) \in Q
    <2>1. Len(s) \in Nat
      OBVIOUS
    <2> HIDE DEF Q
    <2> QED BY <2>1, <1>6, <1>7, SetInduction
  <1> QED BY <1>1, <1>2, <1>8

\* Filter() keeps what is in the set, once if it was there once.
LEMMA FilterKeeps ==
    ASSUME NEW S, NEW s \in Seq(S), Distinct(s), NEW T
    PROVE  /\ Filter(s, T) \in Seq(S) /\ Distinct(Filter(s, T))
           /\ \A x : Has(Filter(s, T), x) <=> Has(s, x) /\ x \in T
  <1>1. PICK F \in [0 .. Len(s) -> Seq(S)] :
              /\ \A i \in 0 .. Len(s) : F[i] = FilterStep(s, T, F, i)
              /\ Filter(s, T) = F[Len(s)]
    BY FilterIs, SMTT(20)
  <1> DEFINE Before(n, x) == \E j \in 1 .. n : s[j] = x
             Good(n) == /\ Distinct(F[n])
                        /\ \A x : Has(F[n], x) <=> Before(n, x) /\ x \in T
             Q == {n \in Nat : n <= Len(s) => Good(n)}
  <1>2. 0 \in Q
    <2>1. F[0] = <<>>
      BY <1>1 DEF FilterStep
    <2> QED BY <2>1 DEF Distinct, Has
  <1>3. \A n \in Nat : n \in Q => n + 1 \in Q
    <2> SUFFICES ASSUME NEW n \in Nat, n \in Q, n + 1 <= Len(s)
                 PROVE  Good(n + 1)
      <3> HIDE DEF Good
      <3> QED OBVIOUS
    <2>1. /\ n + 1 \in 0 .. Len(s) /\ n \in 0 .. Len(s) /\ n + 1 # 0 /\ (n + 1) - 1 = n
          /\ n + 1 \in 1 .. Len(s) /\ s[n + 1] \in S
      OBVIOUS
    <2>2. Good(n)
      <3> HIDE DEF Good
      <3> QED BY <2>1
    <2>3. F[n] \in Seq(S) /\ F[n + 1] \in Seq(S)
      BY <2>1, <1>1
    <2>4. F[n + 1] = IF s[n + 1] \in T THEN Append(F[n], s[n + 1]) ELSE F[n]
      <3>1. F[n + 1] = FilterStep(s, T, F, n + 1)
        BY <2>1, <1>1
      <3>2. FilterStep(s, T, F, n + 1)
               = IF s[n + 1] \in T THEN Append(F[n], s[n + 1]) ELSE F[n]
        BY <2>1, Zenon DEF FilterStep
      <3> QED BY <3>1, <3>2
    <2>5. ~Before(n, s[n + 1])
      BY <2>1 DEF Distinct
    <2>6. \A x : Before(n + 1, x) <=> Before(n, x) \/ x = s[n + 1]
      BY <2>1
    <2> HIDE DEF Before
    <2>7. CASE s[n + 1] \in T
      <3>1. F[n + 1] = Append(F[n], s[n + 1]) /\ ~Has(F[n], s[n + 1])
        BY <2>7, <2>4, <2>2, <2>5
      <3>2. /\ Distinct(Append(F[n], s[n + 1]))
            /\ \A x : Has(Append(F[n], s[n + 1]), x) <=> Has(F[n], x) \/ x = s[n + 1]
        BY <3>1, <2>1, <2>2, <2>3, AppendList
      <3> QED BY <3>1, <3>2, <2>2, <2>6, <2>7, Zenon
    <2>8. CASE s[n + 1] \notin T
      <3>1. F[n + 1] = F[n]
        BY <2>8, <2>4
      <3> QED BY <3>1, <2>2, <2>6, <2>8, Zenon
    <2> QED BY <2>7, <2>8
  <1>4. Len(s) \in Q
    <2>1. Len(s) \in Nat
      OBVIOUS
    <2> HIDE DEF Q
    <2> QED BY <2>1, <1>2, <1>3, SetInduction
  <1>5. Good(Len(s)) /\ F[Len(s)] \in Seq(S)
    <2>1. Len(s) \in Nat /\ Len(s) <= Len(s) /\ Len(s) \in 0 .. Len(s)
      OBVIOUS
    <2> HIDE DEF Good
    <2> QED BY <2>1, <1>1, <1>4
  <1>6. \A x : Before(Len(s), x) <=> Has(s, x)
    BY DEF Has
  <1> HIDE DEF Before
  <1> QED BY <1>1, <1>5, <1>6, Zenon

-----------------------------------------------------------------------------
(* What a step does to the connections, the sockets and epoll's list.      *)

\* Flags, callbacks and marks change, input comes or goes, and a client's socket
\* that is served may become ready.
Plain ==
    /\ UNCHANGED <<used, unused, backlog, arrived>>
    /\ conn' \in [Conn -> ConnRec] /\ sock' \in [Client -> SockRec]
    /\ \A c \in Conn :
          /\ conn'[c].client = conn[c].client
          /\ conn'[c].changeCount = conn[c].changeCount
          /\ conn'[c].marked => InUse(c)
    /\ \A k \in Client : sock'[k].state = sock[k].state
    /\ \/ ready' = ready
       \/ \E c \in Conn : InUse(c) /\ ready' = With(ready, conn[c].client)

\* epoll_wait() takes some of the ready list.
Polls ==
    /\ UNCHANGED <<used, unused, conn, sock, backlog, arrived>>
    /\ \E m \in Nat : m >= 1 /\ ready' = SubSeq(Filter(ready, Reported), m,
                                                Len(Filter(ready, Reported)))

\* A connection is removed, by the master or by a worker.
Frees(c) ==
    /\ InUse(c) /\ ~Locked(c) /\ removeConnection(c)
    /\ UNCHANGED <<backlog, arrived>>

\* accept() takes a client from the backlog.
Accepts ==
    waiting # <<>> /\ unused # <<>> /\ UNCHANGED arrived /\ addConnection

\* The listening sockets are closed.
GoesDeaf == UNCHANGED <<used, unused, conn, arrived>> /\ ListenersClose

Changes ==
    \/ Plain \/ Polls \/ Accepts \/ GoesDeaf
    \/ \E c \in Conn : Frees(c)
    \/ \E l \in Listener : Connect(l)

\* Nothing of it changes.
LEMMA Untouched ==
    ASSUME IInv, UNCHANGED <<used, unused, conn, sock, backlog, arrived, ready>>
    PROVE  Plain
  BY DEF Plain, IInv, TypeOK, connTypeOK, kernelTypeOK, ListsApart, InUse

\* Only flags and callbacks of connections change, or marks of those in use.
LEMMA OnlyConns ==
    ASSUME IInv, UNCHANGED <<used, unused, sock, backlog, arrived, ready>>,
           NEW c \in Conn, NEW r \in ConnRec, conn' = [conn EXCEPT ![c] = r],
           r.client = conn[c].client, r.changeCount = conn[c].changeCount,
           r.marked => InUse(c)
    PROVE  Plain
  BY DEF Plain, IInv, TypeOK, connTypeOK, kernelTypeOK, ListsApart, InUse

\* The same, and a client's socket changes, or becomes ready.
LEMMA ConnAndSock ==
    ASSUME IInv, UNCHANGED <<used, unused, backlog, arrived>>,
           NEW c \in Conn, NEW r \in ConnRec, conn' = [conn EXCEPT ![c] = r],
           r.client = conn[c].client, r.changeCount = conn[c].changeCount,
           r.marked => InUse(c),
           NEW k \in Client, NEW q \in SockRec, sock' = [sock EXCEPT ![k] = q],
           q.state = sock[k].state,
           \/ ready' = ready
           \/ \E d \in Conn : InUse(d) /\ ready' = With(ready, conn[d].client)
    PROVE  Plain
  BY DEF Plain, IInv, TypeOK, connTypeOK, kernelTypeOK, ListsApart, InUse

\* checkTryRemoveConnection() removes or marks.
LEMMA TryRemoveChanges ==
    ASSUME IInv, NEW c \in Conn, InUse(c), checkTryRemoveConnection(c),
           UNCHANGED <<backlog, arrived>>
    PROVE  Plain \/ Frees(c)
  <1>1. CASE Removes(c)
    BY <1>1 DEF Removes, Frees
  <1>2. CASE MarksForRemoval(c)
    <2> DEFINE r == [conn[c] EXCEPT !.marked = TRUE]
    <2>1. conn[c] \in ConnRec
      BY DEF IInv, TypeOK, connTypeOK
    <2>2. r \in ConnRec /\ r.client = conn[c].client /\ r.changeCount = conn[c].changeCount
      BY <2>1 DEF ConnRec
    <2>3. conn' = [conn EXCEPT ![c] = r]
      BY <1>2 DEF MarksForRemoval
    <2> HIDE DEF r
    <2> QED BY <1>2, <2>2, <2>3, OnlyConns DEF MarksForRemoval
  <1> QED BY <1>1, <1>2 DEF checkTryRemoveConnection

\* accept() takes a client or finds none.
LEMMA AcceptChanges ==
    ASSUME IInv, accept, waiting # <<>>, unused # <<>>, UNCHANGED arrived
    PROVE  Plain \/ Accepts
  <1>1. CASE NothingToAccept
    BY <1>1, Untouched DEF NothingToAccept
  <1> QED BY <1>1 DEF accept, Accepts

LEMMA SockCounts ==
    ASSUME NEW q \in SockRec, NEW m \in Nat, NEW n \in Nat
    PROVE  /\ [q EXCEPT !.sent = m, !.unread = n] \in SockRec
           /\ [q EXCEPT !.sent = m, !.unread = n].state = q.state
  BY DEF SockRec

\* Every step is one of these.
LEMMA EveryStepChanges == IInv /\ [Next]_vars => Changes
  <1> SUFFICES ASSUME IInv, [Next]_vars PROVE Changes
    OBVIOUS
  <1>a. /\ used \in Seq(Conn) /\ waiting \in Seq(Listener) /\ conn \in [Conn -> ConnRec]
        /\ task \in [Thread -> TaskRec] /\ sock \in [Client -> SockRec]
        /\ MasterInStep /\ ListsApart /\ TasksFresh /\ MasterAlone
    BY DEF IInv, TypeOK, listTypeOK, connTypeOK, workerTypeOK, kernelTypeOK
  <1>h. used # <<>> => Head(used) \in Conn /\ InUse(Head(used))
    BY <1>a, TailList DEF ListsApart
  <1>t. \A w \in Thread : task[w].conn \in Conn /\ conn[task[w].conn] \in ConnRec
    BY <1>a DEF TaskRec
  <1>s. ASSUME NEW w \in Thread, wpc[w] \in Serving PROVE InUse(task[w].conn)
    <2>1. wpc[w] # "idle"
      BY <1>s DEF Serving
    <2> QED BY <1>a, <1>s, <2>1 DEF TasksFresh, Fresh
  <1> USE DEF listVars, masterVars, workerVars, kernelVars
  <1>1. CASE LockTop \/ Clock \/ LoopDone \/ LookDone \/ LockEvents \/ ListenerDown
             \/ ListenerEvent \/ EventOfRemoved \/ ConnectionEvent \/ RunTask \/ Relock
             \/ EventsDone \/ ShutdownLock \/ Terminated \/ AcceptAsserts \/ PoolDestroyed
             \/ DestroyEnds
    <2>1. UNCHANGED <<used, unused, conn, sock, backlog, arrived, ready>>
      BY <1>1, Zenon DEF LockTop, Clock, LoopDone, LookDone, LockEvents, ListenerDown,
         ListenerEvent, EventOfRemoved, ConnectionEvent, RunTask, Relock, EventsDone,
         ShutdownLock, Terminated, vars, AcceptAsserts, PoolDestroyed, DestroyEnds
    <2> QED BY <2>1, Untouched DEF Changes
  <1>2. CASE RemoveVeryOld
    <2>1. used # <<>>
      <3>1. veryOld > 0 /\ veryOld \in Nat /\ veryOld <= Len(used)
        BY <1>2, <1>a DEF RemoveVeryOld, MasterInStep, IInv, TypeOK, masterTypeOK
      <3>2. used = <<>> => Len(used) = 0
        OBVIOUS
      <3> QED BY <3>1, <3>2
    <2>2. checkTryRemoveConnection(Head(used)) /\ UNCHANGED <<backlog, arrived>>
      BY <1>2 DEF RemoveVeryOld, checkTryRemoveConnection
    <2> QED BY <2>1, <2>2, <1>h, TryRemoveChanges DEF Changes
  <1>3. CASE AcceptWaiting
    BY <1>3, AcceptChanges DEF AcceptWaiting, Changes
  <1>4. CASE LookRemoves
    <2>1. used # <<>>
      BY <1>4 DEF LookRemoves, LookGoesOn
    <2>2. checkTryRemoveConnection(Head(used)) /\ UNCHANGED <<backlog, arrived>>
      BY <1>4 DEF LookRemoves, checkTryRemoveConnection
    <2> QED BY <2>1, <2>2, <1>h, TryRemoveChanges DEF Changes
  <1>5. CASE LookAccepts
    BY <1>5, <1>a, AcceptChanges DEF LookAccepts, MasterInStep, Changes
  <1>6. CASE EpollWait
    <2> DEFINE now == Filter(ready, Reported)
               n   == IF Len(now) < MaxEvents THEN Len(now) ELSE MaxEvents
    <2>1. now \in Seq(Listener \cup Client)
      BY FilterKeeps DEF IInv, TypeOK, kernelTypeOK, ReadyAreServed
    <2>2. ready' = SubSeq(now, n + 1, Len(now))
      BY <1>6 DEF EpollWait
    <2> HIDE DEF now
    <2>3. n + 1 \in Nat /\ n + 1 >= 1
      BY <2>1, EventsAssumption
    <2>4. UNCHANGED <<used, unused, conn, sock, backlog, arrived>>
      BY <1>6 DEF EpollWait
    <2> QED BY <2>2, <2>3, <2>4 DEF Changes, Polls, now
  <1>7. CASE EventAccepts
    BY <1>7, <1>a, AcceptChanges DEF EventAccepts, MasterInStep, Changes
  <1>8. CASE EventWithoutCallback
    BY <1>8, TryRemoveChanges DEF EventWithoutCallback, Changes
  <1>9. CASE FlagEvent
    <2> DEFINE c == ev.ptr
               r == Flagged(conn[c])
    <2>1. c \in Conn /\ conn[c] \in ConnRec
      BY <1>9, <1>a DEF FlagEvent, MasterInStep
    <2>2. /\ conn' = [conn EXCEPT ![c] = r]
          /\ UNCHANGED <<used, unused, sock, backlog, arrived, ready>>
      BY <1>9 DEF FlagEvent
    <2> HIDE DEF c
    <2>3. r \in ConnRec /\ r.client = conn[c].client /\ r.changeCount = conn[c].changeCount
          /\ r.marked = conn[c].marked
      BY <2>1 DEF ConnRec, Flagged
    <2> HIDE DEF r
    <2> QED BY <2>1, <2>2, <2>3, <1>a, OnlyConns DEF ListsApart, Changes
  <1>10. CASE EventEnds
    <2>1. ev.ptr \in Conn
      BY <1>10, <1>a DEF EventEnds, MasterInStep
    <2>2. CASE InUse(ev.ptr) /\ "HUP" \in ev.mask
      BY <2>1, <2>2, <1>10, TryRemoveChanges DEF EventEnds, Changes
    <2>3. CASE ~(InUse(ev.ptr) /\ "HUP" \in ev.mask)
      BY <2>3, <1>10, Untouched DEF EventEnds, Changes
    <2> QED BY <2>2, <2>3
  <1>11. CASE shutdown \/ DestroyBegins
    <2>1. GoesDeaf
      BY <1>11 DEF shutdown, DestroyBegins, GoesDeaf, ListenersClose
    <2> QED BY <2>1 DEF Changes
  <1>19. CASE DestroyRemoves
    <2>1. \A w \in Thread : wpc[w] = "idle"
      BY <1>19, <1>a DEF DestroyRemoves, MasterAlone, IdleThreads
    <2>2. ~Locked(Head(used))
      BY <2>1 DEF Locked, Serving
    <2> QED BY <2>2, <1>19, <1>h DEF DestroyRemoves, Frees, Changes
  <1>12. ASSUME NEW w \in Thread,
                TakeTask(w) \/ LockConn(w) \/ TooLate(w) \/ ReadStage(w) \/ WriteStage(w)
                \/ LockServer(w)
         PROVE  Changes
    <2>1. UNCHANGED <<used, unused, conn, sock, backlog, arrived, ready>>
      BY <1>12, Zenon DEF TakeTask, LockConn, TooLate, ReadStage, WriteStage, LockServer
    <2> QED BY <2>1, Untouched DEF Changes
  <1>13. ASSUME NEW w \in Thread,
                CallbackReturns(w) \/ CallbackCloses(w) \/ setReadCallback(w)
                \/ setWriteCallback(w)
         PROVE  Changes
    <2> DEFINE c == task[w].conn
    <2>1. UNCHANGED <<used, unused, sock, backlog, arrived, ready>>
      BY <1>13, Zenon DEF CallbackReturns, CallbackCloses, setReadCallback, setWriteCallback
    <2>2. PICK r \in ConnRec : /\ conn' = [conn EXCEPT ![c] = r]
                               /\ r.client = conn[c].client
                               /\ r.changeCount = conn[c].changeCount
                               /\ r.marked = conn[c].marked
      <3>1. CASE CallbackReturns(w) /\ caller[w] = "read"
        <4> DEFINE r == [conn[c] EXCEPT !.readReady = @ /\ ~conn[c].readCb]
        <4>1. conn' = [conn EXCEPT ![c] = r]
          BY <3>1 DEF CallbackReturns
        <4>2. r \in ConnRec /\ r.client = conn[c].client
              /\ r.changeCount = conn[c].changeCount /\ r.marked = conn[c].marked
          BY <1>t DEF ConnRec
        <4> QED BY <4>1, <4>2
      <3>2. CASE CallbackReturns(w) /\ caller[w] # "read"
        <4> DEFINE r == [conn[c] EXCEPT !.writeReady = @ /\ ~conn[c].writeCb]
        <4>1. conn' = [conn EXCEPT ![c] = r]
          BY <3>2 DEF CallbackReturns
        <4>2. r \in ConnRec /\ r.client = conn[c].client
              /\ r.changeCount = conn[c].changeCount /\ r.marked = conn[c].marked
          BY <1>t DEF ConnRec
        <4> QED BY <4>1, <4>2
      <3>3. CASE CallbackCloses(w)
        <4> DEFINE r == [conn[c] EXCEPT !.readCb = FALSE, !.writeCb = FALSE]
        <4>1. conn' = [conn EXCEPT ![c] = r]
          BY <3>3, <1>t, <1>a DEF CallbackCloses
        <4>2. r \in ConnRec /\ r.client = conn[c].client
              /\ r.changeCount = conn[c].changeCount /\ r.marked = conn[c].marked
          BY <1>t DEF ConnRec
        <4> QED BY <4>1, <4>2
      <3>4. CASE setReadCallback(w)
        <4> DEFINE r == [conn[c] EXCEPT !.readCb = TRUE]
        <4>1. conn' = [conn EXCEPT ![c] = r]
          BY <3>4 DEF setReadCallback
        <4>2. r \in ConnRec /\ r.client = conn[c].client
              /\ r.changeCount = conn[c].changeCount /\ r.marked = conn[c].marked
          BY <1>t DEF ConnRec
        <4> QED BY <4>1, <4>2
      <3>5. CASE setWriteCallback(w)
        <4> DEFINE r == [conn[c] EXCEPT !.writeCb = TRUE]
        <4>1. conn' = [conn EXCEPT ![c] = r]
          BY <3>5 DEF setWriteCallback
        <4>2. r \in ConnRec /\ r.client = conn[c].client
              /\ r.changeCount = conn[c].changeCount /\ r.marked = conn[c].marked
          BY <1>t DEF ConnRec
        <4> QED BY <4>1, <4>2
      <3> QED BY <1>13, <3>1, <3>2, <3>3, <3>4, <3>5
    <2>3. c \in Conn /\ (conn[c].marked => InUse(c))
      BY <1>t, <1>a DEF ListsApart
    <2> HIDE DEF c
    <2> QED BY <2>1, <2>2, <2>3, OnlyConns DEF Changes
  <1>14. ASSUME NEW w \in Thread, FinishService(w) PROVE Changes
    <2> DEFINE c == task[w].conn
    <2>1. CASE MustRemove(w)
      <3>1. wpc[w] # "idle"
        BY <1>14 DEF FinishService
      <3>2. InUse(c)
        BY <2>1, <3>1, <1>a, <1>t DEF MustRemove, TasksFresh, Fresh, ListsApart
      <3>3. Frees(c)
        BY <2>1, <3>2, <1>14 DEF FinishService, Frees
      <3> QED BY <3>3, <1>t DEF Changes
    <2>2. CASE ~MustRemove(w)
      BY <2>2, <1>14, Untouched DEF FinishService, Changes
    <2> QED BY <2>1, <2>2
  <1>15. ASSUME NEW l \in Listener, Connect(l) PROVE Changes
    BY <1>15 DEF Changes
  <1>16. CASE UNCHANGED vars
    BY <1>16, Untouched DEF vars, Changes
  <1>17. ASSUME NEW w \in Thread, echoRequest(w) \/ echoWrite(w) PROVE Changes
    <2> DEFINE c == task[w].conn
               k == conn[c].client
    <2>1. UNCHANGED <<used, unused, backlog, arrived, ready>>
      BY <1>17, Zenon DEF echoRequest, echoWrite
    <2>2. wpc[w] \in Serving
      BY <1>17 DEF echoRequest, echoWrite, Serving
    <2>3. /\ c \in Conn /\ conn[c] \in ConnRec /\ InUse(c)
      BY <1>t, <2>2, <1>s
    <2>4. k \in Client /\ sock[k] \in SockRec
      BY <2>3, <1>a DEF ConnRec, InUse
    <2>5. PICK r \in ConnRec, q \in SockRec :
             /\ conn' = [conn EXCEPT ![c] = r] /\ sock' = [sock EXCEPT ![k] = q]
             /\ r.client = conn[c].client /\ r.changeCount = conn[c].changeCount
             /\ q.state = sock[k].state
      <3>1. conn = [conn EXCEPT ![c] = conn[c]] /\ sock = [sock EXCEPT ![k] = sock[k]]
        BY <1>a, <2>3, <2>4
      <3>2. CASE echoRequest(w) /\ sock[k].unread > 0
        <4> DEFINE q == [sock[k] EXCEPT !.unread = sock[k].unread - 1]
                   r == [conn[c] EXCEPT !.readCb = FALSE]
        <4>1. sock' = [sock EXCEPT ![k] = q] /\ conn' = [conn EXCEPT ![c] = r]
          <5>1. sock[k].unread # 0
            BY <3>2, <2>4 DEF SockRec
          <5> QED BY <3>2, <5>1, Zenon DEF echoRequest
        <4>2. q \in SockRec /\ q.state = sock[k].state
          <5> DEFINE n == sock[k].unread - 1
          <5>1. n \in Nat
            BY <2>4, <3>2 DEF SockRec
          <5> HIDE DEF n
          <5>2. q = [sock[k] EXCEPT !.unread = n]
            BY Zenon DEF n
          <5> HIDE DEF q
          <5> QED BY <2>4, <5>1, <5>2 DEF SockRec
        <4>3. r \in ConnRec /\ r.client = conn[c].client /\ r.changeCount = conn[c].changeCount
          BY <2>3 DEF ConnRec
        <4> HIDE DEF r, q
        <4> QED BY <4>1, <4>2, <4>3
      <3>3. CASE echoRequest(w) /\ ~(sock[k].unread > 0)
        <4>1. conn' = conn /\ sock' = sock
          BY <3>3 DEF echoRequest
        <4> QED BY <4>1, <3>1, <2>3, <2>4
      <3>4. CASE echoWrite(w)
        <4> DEFINE q == [sock[k] EXCEPT !.writable = FALSE]
                   r == [conn[c] EXCEPT !.writeCb = FALSE]
        <4>1. \/ sock' = sock /\ conn' = [conn EXCEPT ![c] = r]
              \/ sock' = [sock EXCEPT ![k] = q] /\ conn' = conn
          BY <3>4 DEF echoWrite
        <4>2. q \in SockRec /\ q.state = sock[k].state
          BY <2>4 DEF SockRec
        <4>3. r \in ConnRec /\ r.client = conn[c].client /\ r.changeCount = conn[c].changeCount
          BY <2>3 DEF ConnRec
        <4> HIDE DEF r, q
        <4> QED BY <4>1, <4>2, <4>3, <3>1, <2>3, <2>4
      <3> QED BY <1>17, <3>2, <3>3, <3>4
    <2> HIDE DEF c, k
    <2> QED BY <2>1, <2>3, <2>4, <2>5, ConnAndSock DEF Changes
  <1>18. ASSUME NEW k \in Client, Send(k) \/ Drain(k) \/ HangUp(k) PROVE Changes
    <2>1. UNCHANGED <<used, unused, conn, backlog, arrived>>
      BY <1>18, Zenon DEF Send, Drain, HangUp
    <2>2. Raise(k)
      BY <1>18, Zenon DEF Send, Drain, HangUp
    <2>3. \/ ready' = ready
          \/ \E d \in Conn : InUse(d) /\ ready' = With(ready, conn[d].client)
      <3>1. CASE \E d \in Conn : conn[d].client = k
        <4>1. PICK d \in Conn : conn[d].client = k
          BY <3>1
        <4>2. InUse(d)
          BY <4>1, BoundsAssumption DEF InUse, Client, NoClient
        <4> QED BY <4>1, <4>2, <2>2, <3>1 DEF Raise
      <3> QED BY <3>1, <2>2 DEF Raise
    <2>4. sock[k] \in SockRec
      BY <1>a
    <2>5. PICK q \in SockRec : sock' = [sock EXCEPT ![k] = q] /\ q.state = sock[k].state
      <3>1. CASE Send(k)
        <4> DEFINE q == [sock[k] EXCEPT !.sent = sock[k].sent + 1,
                                        !.unread = sock[k].unread + 1]
        <4>1. sock' = [sock EXCEPT ![k] = q]
          BY <3>1, <1>a DEF Send
        <4>2. sock[k].sent + 1 \in Nat /\ sock[k].unread + 1 \in Nat
          BY <2>4 DEF SockRec
        <4>3. q \in SockRec /\ q.state = sock[k].state
          BY <4>2, <2>4, SockCounts
        <4> HIDE DEF q
        <4> QED BY <4>1, <4>3
      <3>2. CASE Drain(k)
        <4> DEFINE q == [sock[k] EXCEPT !.writable = TRUE]
        <4>1. sock' = [sock EXCEPT ![k] = q]
          BY <3>2 DEF Drain
        <4>2. q \in SockRec /\ q.state = sock[k].state
          BY <2>4 DEF SockRec
        <4> HIDE DEF q
        <4> QED BY <4>1, <4>2
      <3>3. CASE HangUp(k)
        <4> DEFINE q == [sock[k] EXCEPT !.hup = TRUE]
        <4>1. sock' = [sock EXCEPT ![k] = q]
          BY <3>3 DEF HangUp
        <4>2. q \in SockRec /\ q.state = sock[k].state
          BY <2>4 DEF SockRec
        <4> HIDE DEF q
        <4> QED BY <4>1, <4>2
      <3> QED BY <1>18, <3>1, <3>2, <3>3
    <2>6. \A c \in Conn : /\ conn[c] \in ConnRec /\ conn' = [conn EXCEPT ![c] = conn[c]]
                          /\ conn[c].marked => InUse(c)
      BY <1>a, <2>1 DEF ListsApart
    <2>7. PICK c \in Conn : TRUE
      BY ListsAssumption
    <2> QED BY <2>1, <2>3, <2>5, <2>6, <2>7, ConnAndSock DEF Changes
  <1> QED BY <1>1, <1>2, <1>3, <1>4, <1>5, <1>6, <1>7, <1>8, <1>9, <1>10, <1>11, <1>12,
             <1>13, <1>14, <1>15, <1>16, <1>17, <1>18, <1>19
          DEF Next, MasterStep, ThreadStep, ClientStep, destroy

-----------------------------------------------------------------------------
(* The lists, the connections and the kernel stay in step.                 *)

Data ==
    /\ used \in Seq(Conn) /\ unused \in Seq(Conn) /\ connTypeOK /\ kernelTypeOK
    /\ ListsApart /\ ClientsApart /\ ReadyAreServed

LEMMA IInvData == IInv => Data /\ waiting \in Seq(Listener)
  BY DEF IInv, Data, TypeOK, listTypeOK

\* A client is not the absence of a client.
LEMMA ClientIsSome == NoClient \notin Client /\ Client \subseteq Nat
  BY BoundsAssumption DEF NoClient, Client

LEMMA PlainData ==
    ASSUME Data, Plain PROVE Data'
  <1>1. /\ used' = used /\ unused' = unused /\ backlog' = backlog /\ arrived' = arrived
        /\ \A c \in Conn : conn'[c].client = conn[c].client /\ ((InUse(c))' <=> InUse(c))
    BY DEF Plain, InUse
  <1>2. connTypeOK' /\ used' \in Seq(Conn) /\ unused' \in Seq(Conn)
    BY DEF Plain, Data, connTypeOK
  <1>3. ready' \in Seq(Listener \cup Client) /\ ReadyAreServed'
    <2>1. CASE ready' = ready
      BY <2>1, <1>1 DEF Data, kernelTypeOK, ReadyAreServed
    <2>2. ASSUME NEW c \in Conn, InUse(c), ready' = With(ready, conn[c].client)
          PROVE  ready' \in Seq(Listener \cup Client) /\ ReadyAreServed'
      <3>1. conn[c].client \in Client /\ ready \in Seq(Listener \cup Client) /\ Distinct(ready)
        BY <2>2 DEF Data, connTypeOK, ConnRec, InUse, kernelTypeOK, ReadyAreServed
      <3>2. /\ ready' \in Seq(Listener \cup Client) /\ Distinct(ready')
            /\ \A y : Has(ready', y) <=> Has(ready, y) \/ y = conn[c].client
        <4> DEFINE S == Listener \cup Client
                   k == conn[c].client
        <4>1. k \in S /\ ready \in Seq(S) /\ Distinct(ready) /\ ready' = With(ready, k)
          BY <3>1, <2>2
        <4> HIDE DEF S, k
        <4>2. /\ With(ready, k) \in Seq(S) /\ Distinct(With(ready, k))
              /\ \A y : Has(With(ready, k), y) <=> Has(ready, y) \/ y = k
          BY <4>1, WithList
        <4> QED BY <4>1, <4>2, Zenon DEF S, k
      <3>3. ASSUME NEW i \in 1 .. Len(ready'), ready'[i] \in Client
            PROVE  \E d \in Conn : conn'[d].client = ready'[i]
        <4>1. Has(ready', ready'[i])
          BY DEF Has
        <4>2. CASE ready'[i] = conn[c].client
          BY <4>2, <1>1
        <4>3. CASE Has(ready, ready'[i])
          BY <4>3, <3>3, <1>1 DEF Has, Data, ReadyAreServed
        <4> QED BY <4>1, <4>2, <4>3, <3>2
      <3> QED BY <3>2, <3>3 DEF ReadyAreServed
    <2> QED BY <2>1, <2>2 DEF Plain
  <1>4. kernelTypeOK'
    BY <1>1, <1>3 DEF Plain, Data, kernelTypeOK
  <1>5. ListsApart'
    BY <1>1 DEF Plain, Data, ListsApart
  <1>6. ClientsApart'
    <2>1. \A k \in Client : sock'[k].state = sock[k].state
      BY DEF Plain
    <2>2. \A c \in Conn : InUse(c) => conn[c].client \in Client
      BY DEF Data, connTypeOK, ConnRec, InUse
    <2>3. \A l \in Listener : \A i \in 1 .. Len(backlog[l]) : backlog[l][i] \in Client
      BY DEF Data, kernelTypeOK
    <2> QED BY <2>1, <2>2, <2>3, <1>1 DEF Data, ClientsApart
  <1> QED BY <1>2, <1>3, <1>4, <1>5, <1>6 DEF Data

LEMMA PollsData ==
    ASSUME Data, Polls PROVE Data'
  <1> DEFINE now == Filter(ready, Reported)
  <1>1. PICK m \in Nat : m >= 1 /\ ready' = SubSeq(now, m, Len(now))
    BY DEF Polls
  <1>2. /\ now \in Seq(Listener \cup Client) /\ Distinct(now)
        /\ \A x : Has(now, x) => Has(ready, x)
    BY FilterKeeps DEF Data, kernelTypeOK, ReadyAreServed
  <1> HIDE DEF now
  <1>3. /\ ready' \in Seq(Listener \cup Client) /\ Distinct(ready')
        /\ \A x : Has(ready', x) => Has(ready, x)
    <2>1. /\ ready' \in Seq(Listener \cup Client) /\ Distinct(ready')
          /\ \A y : Has(ready', y) <=> \E i \in m .. Len(now) : now[i] = y
      BY <1>1, <1>2, RestList
    <2>2. \A y : (\E i \in m .. Len(now) : now[i] = y) => Has(now, y)
      BY <1>1, <1>2 DEF Has
    <2> QED BY <2>1, <2>2, <1>2
  <1>4. UNCHANGED <<used, unused, conn, sock, backlog, arrived>>
    BY DEF Polls
  <1>5. ReadyAreServed'
    <2>1. ASSUME NEW i \in 1 .. Len(ready'), ready'[i] \in Client
          PROVE  \E d \in Conn : conn'[d].client = ready'[i]
      <3>1. Has(ready', ready'[i])
        BY DEF Has
      <3> QED BY <3>1, <1>3, <1>4, <2>1 DEF Has, Data, ReadyAreServed
    <2> QED BY <2>1, <1>3 DEF ReadyAreServed
  <1> QED BY <1>3, <1>4, <1>5 DEF Data, connTypeOK, kernelTypeOK, ListsApart, ClientsApart, InUse

LEMMA FreesData ==
    ASSUME Data, NEW c \in Conn, Frees(c) PROVE Data'
  <1> DEFINE k == conn[c].client
  <1>1. k \in Client /\ InUse(c) /\ conn \in [Conn -> ConnRec] /\ conn[c].changeCount \in Nat
    BY DEF Frees, Data, connTypeOK, ConnRec, InUse
  <1>2. /\ used' = Without(used, c) /\ unused' = Append(unused, c)
        /\ conn' = [conn EXCEPT ![c] = FreeConn(conn[c].changeCount + 1)]
        /\ sock' = [sock EXCEPT ![k] = ClosedSock]
        /\ ready' = Without(ready, k)
        /\ backlog' = backlog /\ arrived' = arrived
    BY DEF Frees, removeConnection
  <1> HIDE DEF k
  <1>3. FreeConn(conn[c].changeCount + 1) \in ConnRec
    <2> DEFINE n == conn[c].changeCount + 1
    <2>1. n \in Nat
      BY <1>1
    <2> HIDE DEF n
    <2>2. FreeConn(n) \in ConnRec
      BY <2>1 DEF FreeConn, ConnRec
    <2> QED BY <2>2 DEF n
  <1>4. /\ connTypeOK' /\ conn'[c].client = NoClient /\ ~conn'[c].marked
        /\ \A d \in Conn : d # c => conn'[d] = conn[d]
    BY <1>1, <1>2, <1>3 DEF connTypeOK, FreeConn
  <1>5. /\ used' \in Seq(Conn) /\ Distinct(used')
        /\ \A y : Has(used', y) <=> Has(used, y) /\ y # c
    BY <1>2, WithoutList DEF Data, ListsApart
  <1>6. /\ unused' \in Seq(Conn) /\ Distinct(unused')
        /\ \A y : Has(unused', y) <=> Has(unused, y) \/ y = c
    <2>1. ~Has(unused, c)
      BY <1>1 DEF Data, ListsApart
    <2> QED BY <2>1, <1>2, AppendList DEF Data, ListsApart
  <1>7. ListsApart'
    <2>1. \A d \in Conn : (InUse(d))' = (InUse(d) /\ d # c)
      BY <1>4 DEF InUse
    <2>2. \A d, e \in Conn : (InUse(d) /\ conn[d].client = conn[e].client => d = e)'
      BY <1>4, <2>1 DEF Data, ListsApart, InUse
    <2>3. \A d \in Conn : (conn[d].marked => InUse(d))'
      BY <1>4, <2>1 DEF Data, ListsApart
    <2>4. \A d \in Conn : (InUse(d) <=> Has(used, d))' /\ (~InUse(d) <=> Has(unused, d))'
      BY <2>1, <1>5, <1>6, <1>1, Zenon DEF Data, ListsApart
    <2> QED BY <2>2, <2>3, <2>4, <1>5, <1>6 DEF ListsApart
  <1>8. ClosedSock \in SockRec
    BY DEF ClosedSock, NewSock, SockRec
  <1>9. /\ ready' \in Seq(Listener \cup Client) /\ Distinct(ready')
        /\ \A y : Has(ready', y) <=> Has(ready, y) /\ y # k
    BY <1>2, WithoutList DEF Data, kernelTypeOK, ReadyAreServed
  <1>10. kernelTypeOK'
    BY <1>1, <1>2, <1>8, <1>9 DEF Data, kernelTypeOK
  <1>11. ReadyAreServed'
    <2>1. ASSUME NEW i \in 1 .. Len(ready'), ready'[i] \in Client
          PROVE  \E d \in Conn : conn'[d].client = ready'[i]
      <3>1. Has(ready', ready'[i])
        BY DEF Has
      <3>2. Has(ready, ready'[i]) /\ ready'[i] # k
        BY <3>1, <1>9
      <3>3. PICK d \in Conn : conn[d].client = ready'[i]
        BY <3>2, <2>1 DEF Has, Data, ReadyAreServed
      <3> QED BY <3>2, <3>3, <1>4 DEF k
    <2> QED BY <2>1, <1>9 DEF ReadyAreServed
  <1>12. ClientsApart'
    <2>1. \A j \in Client : j # k => sock'[j] = sock[j]
      BY <1>1, <1>2 DEF Data, kernelTypeOK
    <2>2. \A d \in Conn : (InUse(d))' => InUse(d) /\ conn'[d] = conn[d]
                                         /\ conn[d].client \in Client /\ conn[d].client # k
      BY <1>1, <1>4 DEF InUse, Data, ListsApart, k, ConnRec
    <2>3. \A l \in Listener : \A i \in 1 .. Len(backlog[l]) :
             backlog[l][i] \in Client /\ backlog[l][i] # k
      BY DEF Data, kernelTypeOK, ClientsApart, k
    <2>4. \A d \in Conn : conn'[d].client = conn[d].client \/ conn'[d].client = NoClient
      BY <1>4
    <2>5. \A d \in Conn : (InUse(d) => conn[d].client <= arrived
                                        /\ sock[conn[d].client].state = "open")'
      BY <2>1, <2>2, <1>2 DEF Data, ClientsApart
    <2>6. \A l \in Listener : \A i \in 1 .. Len(backlog[l]) :
             /\ backlog[l][i] <= arrived /\ sock'[backlog[l][i]].state = "open"
             /\ \A d \in Conn : conn'[d].client # backlog[l][i]
      <3> TAKE l \in Listener
      <3> TAKE i \in 1 .. Len(backlog[l])
      <3> DEFINE j == backlog[l][i]
      <3>1. j \in Client /\ j # k
        BY <2>3
      <3>2. j <= arrived /\ sock[j].state = "open" /\ \A d \in Conn : conn[d].client # j
        BY DEF Data, ClientsApart
      <3> HIDE DEF j
      <3>3. j <= arrived /\ sock'[j].state = "open" /\ \A d \in Conn : conn'[d].client # j
        BY <3>1, <3>2, <2>1, <2>4, ClientIsSome
      <3> QED BY <3>3 DEF j
    <2> QED BY <2>5, <2>6, <1>2 DEF Data, ClientsApart
  <1> QED BY <1>4, <1>5, <1>6, <1>7, <1>10, <1>11, <1>12 DEF Data

\* accept() takes a client that is open, in no other place and not served.
LEMMA BacklogTaken ==
    ASSUME Data, waiting \in Seq(Listener), waiting # <<>>, TakeFromBacklog
    PROVE  /\ Accepted \in Client /\ Accepted <= arrived
           /\ sock[Accepted].state = "open"
           /\ \A c \in Conn : conn[c].client # Accepted
           /\ backlog' \in [Listener -> Seq(Client)]
           /\ \A l \in Listener : \A i \in 1 .. Len(backlog'[l]) :
                 /\ backlog'[l][i] \in Client /\ backlog'[l][i] # Accepted
                 /\ backlog'[l][i] <= arrived /\ sock[backlog'[l][i]].state = "open"
                 /\ \A c \in Conn : conn[c].client # backlog'[l][i]
           /\ \A l, m \in Listener :
                 \A i \in 1 .. Len(backlog'[l]), j \in 1 .. Len(backlog'[m]) :
                    backlog'[l][i] = backlog'[m][j] => l = m /\ i = j
  <1> DEFINE h == Head(waiting)
             b == backlog[h]
             off(m) == IF m = h THEN 1 ELSE 0
  <1>1. h \in Listener /\ backlog \in [Listener -> Seq(Client)] /\ b \in Seq(Client)
    BY TailList DEF Data, kernelTypeOK
  <1>2. /\ b # <<>> /\ backlog' = [backlog EXCEPT ![h] = Tail(b)] /\ Accepted = b[1]
        /\ Len(b) \in Nat /\ 1 \in 1 .. Len(b)
    BY <1>1 DEF TakeFromBacklog, Accepted
  <1>3. backlog' \in [Listener -> Seq(Client)]
    BY <1>1, <1>2
  <1>4. \A m \in Listener : \A i \in 1 .. Len(backlog'[m]) :
           /\ backlog'[m][i] = backlog[m][i + off(m)] /\ i + off(m) \in 1 .. Len(backlog[m])
           /\ i \in Nat
    <2> SUFFICES ASSUME NEW m \in Listener, NEW i \in 1 .. Len(backlog'[m])
                 PROVE  /\ backlog'[m][i] = backlog[m][i + off(m)]
                        /\ i + off(m) \in 1 .. Len(backlog[m]) /\ i \in Nat
      OBVIOUS
    <2>1. CASE m = h
      <3>1. backlog'[m] = Tail(b)
        BY <1>1, <1>2, <2>1
      <3>2. Len(Tail(b)) = Len(b) - 1 /\ \A j \in 1 .. Len(Tail(b)) : Tail(b)[j] = b[j + 1]
        BY <1>1, <1>2
      <3> HIDE DEF b
      <3>3. i \in 1 .. Len(b) - 1 /\ i \in Nat /\ backlog'[m][i] = b[i + 1] /\ off(m) = 1
        BY <3>1, <3>2, <2>1, <1>2
      <3> QED BY <3>3, <1>2, <2>1 DEF b
    <2>2. CASE m # h
      <3>1. backlog'[m] = backlog[m] /\ off(m) = 0 /\ backlog[m] \in Seq(Client)
        BY <1>1, <1>2, <2>2
      <3>2. i \in 1 .. Len(backlog[m]) /\ i \in Nat /\ i + 0 = i
        BY <3>1
      <3> QED BY <3>1, <3>2
    <2> QED BY <2>1, <2>2
  <1>5. Accepted = backlog[h][1]
    BY <1>2
  <1>6. \A l \in Listener : \A i \in 1 .. Len(backlog'[l]) : backlog'[l][i] # Accepted
    <2> SUFFICES ASSUME NEW l \in Listener, NEW i \in 1 .. Len(backlog'[l]),
                        backlog'[l][i] = Accepted
                 PROVE  FALSE
      OBVIOUS
    <2>1. /\ backlog[l][i + off(l)] = backlog[h][1] /\ i + off(l) \in 1 .. Len(backlog[l])
          /\ i \in Nat /\ i >= 1
      BY <1>4, <1>5
    <2>2. l = h /\ i + off(l) = 1
      BY <2>1, <1>1, <1>2 DEF Data, ClientsApart
    <2> QED BY <2>1, <2>2
  <1> HIDE DEF off, h, b
  <1>7. \A l, m \in Listener :
           \A i \in 1 .. Len(backlog'[l]), j \in 1 .. Len(backlog'[m]) :
              backlog'[l][i] = backlog'[m][j] => l = m /\ i = j
    <2> SUFFICES ASSUME NEW l \in Listener, NEW m \in Listener,
                        NEW i \in 1 .. Len(backlog'[l]), NEW j \in 1 .. Len(backlog'[m]),
                        backlog'[l][i] = backlog'[m][j]
                 PROVE  l = m /\ i = j
      OBVIOUS
    <2>1. l = m /\ i + off(l) = j + off(m)
      <3>1. /\ i + off(l) \in 1 .. Len(backlog[l]) /\ j + off(m) \in 1 .. Len(backlog[m])
            /\ backlog[l][i + off(l)] = backlog[m][j + off(m)]
        BY <1>4
      <3>2. ClientsApart
        BY DEF Data
      <3> QED BY <3>1, <3>2 DEF ClientsApart
    <2> QED BY <2>1, <1>4 DEF off
  <1>8. \A l \in Listener : \A i \in 1 .. Len(backlog[l]) :
           /\ backlog[l][i] \in Client
           /\ backlog[l][i] <= arrived /\ sock[backlog[l][i]].state = "open"
           /\ \A c \in Conn : conn[c].client # backlog[l][i]
    BY DEF Data, ClientsApart, kernelTypeOK
  <1>9. /\ Accepted \in Client /\ Accepted <= arrived /\ sock[Accepted].state = "open"
        /\ \A c \in Conn : conn[c].client # Accepted
    <2>1. 1 \in 1 .. Len(backlog[h])
      BY <1>2 DEF b
    <2> QED BY <2>1, <1>1, <1>5, <1>8
  <1>10. \A l \in Listener : \A i \in 1 .. Len(backlog'[l]) :
           /\ backlog'[l][i] \in Client
           /\ backlog'[l][i] <= arrived /\ sock[backlog'[l][i]].state = "open"
           /\ \A c \in Conn : conn[c].client # backlog'[l][i]
    <2> TAKE l \in Listener
    <2> TAKE i \in 1 .. Len(backlog'[l])
    <2>1. PICK j \in 1 .. Len(backlog[l]) : backlog'[l][i] = backlog[l][j]
      BY <1>4
    <2> QED BY <2>1, <1>8, Zenon
  <1> QED BY <1>3, <1>6, <1>7, <1>9, <1>10

LEMMA AddsData ==
    ASSUME Data, waiting \in Seq(Listener), waiting # <<>>, unused # <<>>,
           arrived' = arrived, addConnection
    PROVE  Data'
  <1> DEFINE k == Accepted
             c == Head(unused)
             r == [conn[c] EXCEPT !.client = k, !.readCb = TRUE]
  <1>1. /\ TakeFromBacklog /\ sock' = sock /\ used' = Append(used, c)
        /\ unused' = Tail(unused) /\ ready' = Append(ready, k)
    BY DEF addConnection
  <1>2. /\ k \in Client /\ \A d \in Conn : conn[d].client # k
        /\ k <= arrived /\ sock[k].state = "open"
        /\ backlog' \in [Listener -> Seq(Client)]
        /\ \A l \in Listener : \A i \in 1 .. Len(backlog'[l]) :
              /\ backlog'[l][i] \in Client /\ backlog'[l][i] # k
              /\ backlog'[l][i] <= arrived /\ sock[backlog'[l][i]].state = "open"
              /\ \A d \in Conn : conn[d].client # backlog'[l][i]
        /\ \A l, m \in Listener :
              \A i \in 1 .. Len(backlog'[l]), j \in 1 .. Len(backlog'[m]) :
                 backlog'[l][i] = backlog'[m][j] => l = m /\ i = j
    BY <1>1, BacklogTaken
  <1>3. /\ c \in Conn /\ ~InUse(c) /\ Has(unused, c) /\ ~Has(used, c)
        /\ conn \in [Conn -> ConnRec] /\ conn[c] \in ConnRec /\ ~conn[c].marked
    <2>1. c \in Conn /\ Has(unused, c)
      BY TailList DEF Data
    <2> QED BY <2>1 DEF Data, ListsApart, connTypeOK
  <1>4. conn' = [conn EXCEPT ![c] = r]
    BY <1>3 DEF addConnection
  <1>5. r \in ConnRec /\ r.client = k /\ ~r.marked
    BY <1>2, <1>3 DEF ConnRec
  <1> HIDE DEF k, c, r
  <1>6. /\ connTypeOK' /\ conn'[c].client = k /\ ~conn'[c].marked
        /\ \A d \in Conn : d # c => conn'[d] = conn[d]
    BY <1>3, <1>4, <1>5 DEF connTypeOK
  <1>7. k # NoClient
    BY <1>2, ClientIsSome
  <1>8. \A d \in Conn : (InUse(d))' <=> InUse(d) \/ d = c
    BY <1>6, <1>7 DEF InUse
  <1>9. /\ used' \in Seq(Conn) /\ Distinct(used')
        /\ \A y : Has(used', y) <=> Has(used, y) \/ y = c
    BY <1>1, <1>3, AppendList DEF Data, ListsApart
  <1>10. /\ unused' \in Seq(Conn) /\ Distinct(unused')
         /\ \A d \in Conn : Has(unused', d) <=> Has(unused, d) /\ d # c
    <2>1. /\ Tail(unused) \in Seq(Conn) /\ Distinct(Tail(unused)) /\ ~Has(Tail(unused), c)
          /\ \A y : Has(Tail(unused), y) => Has(unused, y)
          /\ \A y : Has(unused, y) => Has(Tail(unused), y) \/ y = c
      BY TailList DEF Data, ListsApart, c
    <2> QED BY <2>1, <1>1
  <1>11. ListsApart'
    <2>1. \A d, e \in Conn : (InUse(d) /\ conn[d].client = conn[e].client => d = e)'
      <3> TAKE d, e \in Conn
      <3> HAVE (InUse(d) /\ conn[d].client = conn[e].client)'
      <3>1. CASE d = c
        BY <3>1, <1>2, <1>6
      <3>2. CASE d # c /\ e = c
        BY <3>2, <1>2, <1>6
      <3>3. CASE d # c /\ e # c
        BY <3>3, <1>6, <1>8 DEF Data, ListsApart
      <3> QED BY <3>1, <3>2, <3>3
    <2>2. \A d \in Conn : (conn[d].marked => InUse(d))'
      BY <1>6, <1>8 DEF Data, ListsApart
    <2>3. \A d \in Conn : (InUse(d) <=> Has(used, d))' /\ (~InUse(d) <=> Has(unused, d))'
      BY <1>8, <1>9, <1>10, Zenon DEF Data, ListsApart
    <2> QED BY <2>1, <2>2, <2>3, <1>9, <1>10 DEF ListsApart
  <1>12. /\ ready' \in Seq(Listener \cup Client) /\ Distinct(ready')
         /\ \A y : Has(ready', y) <=> Has(ready, y) \/ y = k
    <2>1. ~Has(ready, k)
      <3> SUFFICES ASSUME Has(ready, k) PROVE FALSE
        OBVIOUS
      <3>1. PICK i \in 1 .. Len(ready) : ready[i] = k
        BY DEF Has
      <3>2. ready[i] \in Client => \E d \in Conn : conn[d].client = ready[i]
        BY DEF Data, ReadyAreServed
      <3> QED BY <3>1, <3>2, <1>2
    <2> DEFINE S == Listener \cup Client
    <2>2. k \in S /\ ready \in Seq(S) /\ Distinct(ready)
      BY <1>2 DEF Data, kernelTypeOK, ReadyAreServed
    <2> HIDE DEF S
    <2>3. /\ Append(ready, k) \in Seq(S) /\ Distinct(Append(ready, k))
          /\ \A y : Has(Append(ready, k), y) <=> Has(ready, y) \/ y = k
      BY <2>1, <2>2, AppendList
    <2> QED BY <2>3, <1>1, Zenon DEF S
  <1>13. kernelTypeOK'
    BY <1>1, <1>2, <1>12 DEF Data, kernelTypeOK
  <1>14. ReadyAreServed'
    <2>1. ASSUME NEW i \in 1 .. Len(ready'), ready'[i] \in Client
          PROVE  \E d \in Conn : conn'[d].client = ready'[i]
      <3>1. Has(ready', ready'[i])
        BY DEF Has
      <3>2. CASE ready'[i] = k
        BY <3>2, <1>3, <1>6
      <3>3. CASE Has(ready, ready'[i])
        <4>1. PICK d \in Conn : conn[d].client = ready'[i]
          BY <3>3, <2>1 DEF Has, Data, ReadyAreServed
        <4>2. d # c
          BY <4>1, <2>1, <1>3, ClientIsSome DEF InUse
        <4> QED BY <4>1, <4>2, <1>6
      <3> QED BY <3>1, <3>2, <3>3, <1>12
    <2> QED BY <2>1, <1>12 DEF ReadyAreServed
  <1>15. ClientsApart'
    <2>1. \A d \in Conn : (InUse(d) => conn[d].client <= arrived
                                        /\ sock[conn[d].client].state = "open")'
      <3> TAKE d \in Conn
      <3>1. ClientsApart /\ arrived' = arrived /\ sock' = sock
        BY <1>1 DEF Data, addConnection
      <3>2. CASE d = c
        BY <3>1, <3>2, <1>2, <1>6
      <3>3. CASE d # c
        BY <3>1, <3>3, <1>6, <1>8 DEF ClientsApart
      <3> QED BY <3>2, <3>3
    <2>2. \A l \in Listener : \A i \in 1 .. Len(backlog'[l]) :
             /\ backlog'[l][i] <= arrived' /\ sock'[backlog'[l][i]].state = "open"
             /\ \A d \in Conn : conn'[d].client # backlog'[l][i]
      <3> TAKE l \in Listener
      <3> TAKE i \in 1 .. Len(backlog'[l])
      <3> DEFINE b == backlog'[l][i]
      <3>1. b # k /\ b <= arrived /\ sock[b].state = "open" /\ \A d \in Conn : conn[d].client # b
        BY <1>2
      <3> HIDE DEF b
      <3>2. b <= arrived' /\ sock'[b].state = "open" /\ \A d \in Conn : conn'[d].client # b
        BY <3>1, <1>1, <1>6
      <3> QED BY <3>2 DEF b
    <2> QED BY <2>1, <2>2, <1>2 DEF ClientsApart
  <1> QED BY <1>6, <1>9, <1>10, <1>11, <1>13, <1>14, <1>15 DEF Data

LEMMA ConnectData ==
    ASSUME Data, NEW l \in Listener, Connect(l) PROVE Data'
  <1> DEFINE n == arrived + 1
             b == backlog[l]
  <1>1. /\ arrived < NumClients /\ arrived' = n
        /\ backlog' = [backlog EXCEPT ![l] = Append(b, n)]
        /\ sock' = [sock EXCEPT ![n] = NewSock]
        /\ ready' = With(ready, l)
        /\ UNCHANGED <<used, unused, conn>>
    BY DEF Connect, listVars
  <1>2. /\ arrived \in Nat /\ n \in Client /\ n \in Nat /\ ~(n <= arrived) /\ n \in 0 .. NumClients
        /\ \A k \in Nat : k <= arrived => k <= n
    BY <1>1, BoundsAssumption DEF Data, kernelTypeOK, Client
  <1>3. b \in Seq(Client) /\ NewSock \in SockRec /\ NewSock.state = "open"
    BY DEF Data, kernelTypeOK, NewSock, SockRec
  <1>4. \A d \in Conn : conn[d].client # n
    BY <1>2, ClientIsSome DEF Data, ClientsApart, InUse
  <1>5. \A m \in Listener : \A i \in 1 .. Len(backlog[m]) :
           /\ backlog[m][i] \in Client /\ backlog[m][i] # n
    BY <1>2 DEF Data, ClientsApart, kernelTypeOK
  <1>6. /\ ready' \in Seq(Listener \cup Client) /\ Distinct(ready')
        /\ \A y : Has(ready', y) <=> Has(ready, y) \/ y = l
    <2> DEFINE S == Listener \cup Client
    <2>1. l \in S /\ ready \in Seq(S) /\ Distinct(ready)
      BY DEF Data, kernelTypeOK, ReadyAreServed
    <2> HIDE DEF S
    <2>2. /\ With(ready, l) \in Seq(S) /\ Distinct(With(ready, l))
          /\ \A y : Has(With(ready, l), y) <=> Has(ready, y) \/ y = l
      BY <2>1, WithList
    <2> QED BY <2>2, <1>1, Zenon DEF S
  <1> HIDE DEF n
  <1>7. Append(b, n) \in Seq(Client)
    BY <1>2, <1>3
  <1>8. kernelTypeOK'
    <2>1. backlog' \in [Listener -> Seq(Client)]
      BY <1>1, <1>7 DEF Data, kernelTypeOK
    <2>2. sock' \in [Client -> SockRec]
      BY <1>1, <1>2, <1>3 DEF Data, kernelTypeOK
    <2> QED BY <2>1, <2>2, <1>1, <1>2, <1>6 DEF kernelTypeOK
  <1>9. used' \in Seq(Conn) /\ unused' \in Seq(Conn) /\ connTypeOK' /\ ListsApart'
    BY <1>1 DEF Data, connTypeOK, ListsApart, InUse
  <1>10. ReadyAreServed'
    <2>1. ASSUME NEW i \in 1 .. Len(ready'), ready'[i] \in Client
          PROVE  \E d \in Conn : conn'[d].client = ready'[i]
      <3>1. Has(ready', ready'[i])
        BY DEF Has
      <3>2. ready'[i] # l
        BY <2>1, ListsAssumption DEF Client
      <3>3. Has(ready, ready'[i])
        BY <3>1, <3>2, <1>6
      <3>4. ReadyAreServed /\ conn' = conn
        BY <1>1 DEF Data
      <3> QED BY <3>3, <3>4, <2>1 DEF Has, ReadyAreServed
    <2> QED BY <2>1, <1>6 DEF ReadyAreServed
  <1>11. /\ backlog'[l] = Append(b, n) /\ \A m \in Listener : m # l => backlog'[m] = backlog[m]
         /\ Len(Append(b, n)) = Len(b) + 1 /\ Append(b, n)[Len(b) + 1] = n
         /\ Len(b) \in Nat /\ \A i \in 1 .. Len(b) : Append(b, n)[i] = b[i]
    BY <1>1, <1>2, <1>3 DEF Data, kernelTypeOK
  <1>12. \A m \in Listener : \A i \in 1 .. Len(backlog'[m]) :
            \/ i \in 1 .. Len(backlog[m]) /\ backlog'[m][i] = backlog[m][i]
            \/ m = l /\ i = Len(b) + 1 /\ backlog'[m][i] = n
    <2> TAKE m \in Listener
    <2> TAKE i \in 1 .. Len(backlog'[m])
    <2>1. CASE m = l
      <3>1. i \in 1 .. Len(b) + 1
        BY <2>1, <1>11
      <3> QED BY <3>1, <2>1, <1>11
    <2>2. CASE m # l
      BY <2>2, <1>11
    <2> QED BY <2>1, <2>2
  <1> HIDE DEF b
  <1>13. ClientsApart'
    <2>1. \A k \in Client : k # n => sock'[k] = sock[k]
      BY <1>1 DEF Data, kernelTypeOK
    <2>2. \A d \in Conn : InUse(d) => conn[d].client \in Client
      BY DEF Data, connTypeOK, ConnRec, InUse
    <2>3. \A d \in Conn : (InUse(d) => conn[d].client <= arrived
                                        /\ sock[conn[d].client].state = "open")'
      <3> TAKE d \in Conn
      <3> HAVE (InUse(d))'
      <3>1. InUse(d) /\ conn'[d].client = conn[d].client /\ conn[d].client \in Client
        BY <2>2, <1>1 DEF InUse
      <3>2. sock'[conn[d].client] = sock[conn[d].client]
        BY <3>1, <1>4, <2>1
      <3>3. conn[d].client <= arrived /\ sock[conn[d].client].state = "open"
            /\ conn[d].client \in Nat
        BY <3>1, ClientIsSome DEF Data, ClientsApart
      <3> QED BY <3>1, <3>2, <3>3, <1>1, <1>2
    <2>4. \A m \in Listener : \A i \in 1 .. Len(backlog'[m]) :
             /\ backlog'[m][i] <= arrived' /\ sock'[backlog'[m][i]].state = "open"
             /\ \A d \in Conn : conn'[d].client # backlog'[m][i]
      <3> TAKE m \in Listener
      <3> TAKE i \in 1 .. Len(backlog'[m])
      <3> DEFINE k == backlog'[m][i]
      <3> HIDE DEF k
      <3>1. CASE k = n
        <4>1. sock'[n] = NewSock /\ n <= arrived' /\ \A d \in Conn : conn'[d].client # n
          BY <1>1, <1>2, <1>4 DEF Data, kernelTypeOK
        <4> QED BY <4>1, <3>1, <1>3 DEF k
      <3>2. CASE k # n
        <4>1. PICK j \in 1 .. Len(backlog[m]) : backlog[m][j] = k
          BY <1>12, <3>2 DEF k
        <4>2. k \in Client /\ k <= arrived /\ sock[k].state = "open"
              /\ \A d \in Conn : conn[d].client # k
          BY <4>1, <1>5 DEF Data, ClientsApart
        <4>3. k <= arrived' /\ sock'[k].state = "open" /\ \A d \in Conn : conn'[d].client # k
          BY <4>2, <3>2, <2>1, <1>1, <1>2, ClientIsSome
        <4> QED BY <4>3 DEF k
      <3> QED BY <3>1, <3>2
    <2>5. \A p, m \in Listener :
             \A i \in 1 .. Len(backlog'[p]), j \in 1 .. Len(backlog'[m]) :
                backlog'[p][i] = backlog'[m][j] => p = m /\ i = j
      <3> SUFFICES ASSUME NEW p \in Listener, NEW m \in Listener,
                          NEW i \in 1 .. Len(backlog'[p]), NEW j \in 1 .. Len(backlog'[m]),
                          backlog'[p][i] = backlog'[m][j]
                   PROVE  p = m /\ i = j
        OBVIOUS
      <3>1. CASE backlog'[p][i] = n
        <4>1. p = l /\ i = Len(b) + 1
          BY <3>1, <1>12, <1>5
        <4>2. m = l /\ j = Len(b) + 1
          <5>1. backlog'[m][j] = n
            BY <3>1
          <5> QED BY <5>1, <1>12, <1>5
        <4> QED BY <4>1, <4>2
      <3>2. CASE backlog'[p][i] # n
        <4>1. /\ i \in 1 .. Len(backlog[p]) /\ backlog'[p][i] = backlog[p][i]
              /\ j \in 1 .. Len(backlog[m]) /\ backlog'[m][j] = backlog[m][j]
          BY <3>2, <1>12
        <4>2. backlog[p][i] = backlog[m][j]
          BY <4>1
        <4>3. \A u, v \in Listener :
                 \A e \in 1 .. Len(backlog[u]), f \in 1 .. Len(backlog[v]) :
                    backlog[u][e] = backlog[v][f] => u = v /\ e = f
          BY DEF Data, ClientsApart
        <4>4. \A e \in 1 .. Len(backlog[p]), f \in 1 .. Len(backlog[m]) :
                 backlog[p][e] = backlog[m][f] => p = m /\ e = f
          BY <4>3
        <4> QED BY <4>1, <4>2, <4>4
      <3> QED BY <3>1, <3>2
    <2> QED BY <2>3, <2>4, <2>5 DEF ClientsApart
  <1> QED BY <1>8, <1>9, <1>10, <1>13 DEF Data

LEMMA DeafData ==
    ASSUME Data, GoesDeaf PROVE Data'
  <1>1. used' = used /\ unused' = unused /\ conn' = conn /\ arrived' = arrived
    BY DEF GoesDeaf
  <1>2. used' \in Seq(Conn) /\ unused' \in Seq(Conn) /\ connTypeOK' /\ ListsApart'
    BY <1>1 DEF Data, connTypeOK, ListsApart, InUse
  <1>3. CASE UNCHANGED <<backlog, ready, sock>>
    <2>1. kernelTypeOK' /\ ClientsApart' /\ ReadyAreServed'
      BY <1>1, <1>3 DEF Data, kernelTypeOK, ClientsApart, ReadyAreServed, InUse
    <2> QED BY <2>1, <1>2 DEF Data
  <1>4. ASSUME /\ backlog' = [m \in Listener |-> <<>>]
               /\ ready' = Filter(ready, Client)
               /\ sock' = [k \in Client |-> IF InBacklog(k) THEN ClosedSock ELSE sock[k]]
        PROVE  Data'
    <2>1. /\ ready' \in Seq(Listener \cup Client) /\ Distinct(ready')
          /\ \A x : Has(ready', x) => Has(ready, x)
      BY <1>4, FilterKeeps DEF Data, kernelTypeOK, ReadyAreServed
    <2>2. ClosedSock \in SockRec
      BY DEF ClosedSock, NewSock, SockRec
    <2>3. sock' \in [Client -> SockRec]
      BY <1>4, <2>2 DEF Data, kernelTypeOK
    <2>4. backlog' \in [Listener -> Seq(Client)] /\ \A m \in Listener : backlog'[m] = <<>>
      BY <1>4
    <2>5. kernelTypeOK'
      BY <1>1, <2>1, <2>3, <2>4 DEF Data, kernelTypeOK
    <2>6. ReadyAreServed'
      <3>1. ASSUME NEW i \in 1 .. Len(ready'), ready'[i] \in Client
            PROVE  \E d \in Conn : conn'[d].client = ready'[i]
        <4>1. Has(ready', ready'[i])
          BY DEF Has
        <4> QED BY <4>1, <2>1, <1>1, <3>1 DEF Has, Data, ReadyAreServed
      <3> QED BY <3>1, <2>1 DEF ReadyAreServed
    <2>7. \A d \in Conn : (InUse(d) => conn[d].client <= arrived
                                        /\ sock[conn[d].client].state = "open")'
      <3> TAKE d \in Conn
      <3> HAVE (InUse(d))'
      <3> DEFINE k == conn[d].client
      <3>1. InUse(d) /\ conn'[d].client = k /\ k \in Client
        BY <1>1 DEF Data, connTypeOK, ConnRec, InUse
      <3>2. ~InBacklog(k)
        BY DEF Data, ClientsApart, InBacklog
      <3>3. k <= arrived /\ sock[k].state = "open"
        BY <3>1 DEF Data, ClientsApart
      <3> HIDE DEF k
      <3>4. sock'[k] = sock[k]
        BY <1>4, <3>1, <3>2
      <3> QED BY <3>1, <3>3, <3>4, <1>1
    <2>8. ClientsApart'
      <3>1. \A m \in Listener : Len(backlog'[m]) = 0
        BY <2>4
      <3>2. 1 .. 0 = {}
        OBVIOUS
      <3> QED BY <3>1, <3>2, <2>7 DEF ClientsApart
    <2> QED BY <1>2, <2>5, <2>6, <2>8 DEF Data
  <1> QED BY <1>3, <1>4 DEF GoesDeaf, ListenersClose

\* Every step keeps the lists, the connections and the kernel in step.
LEMMA DataKept == IInv /\ [Next]_vars => Data'
  <1> SUFFICES ASSUME IInv, [Next]_vars PROVE Data'
    OBVIOUS
  <1>1. Data /\ waiting \in Seq(Listener)
    BY IInvData
  <1>2. CASE Accepts
    BY <1>1, <1>2, AddsData DEF Accepts
  <1> QED BY <1>1, <1>2, EveryStepChanges, PlainData, PollsData, FreesData, ConnectData,
             DeafData DEF Changes

-----------------------------------------------------------------------------
(* The uses of a connection struct, counted by conn->changeCount.          *)

\* It goes on being used, or unused; or it is freed, or given to a client, both
\* without anyone at its mutex.
UseStep(c) ==
    \/ conn'[c].client = conn[c].client /\ conn'[c].changeCount = conn[c].changeCount
    \/ /\ ~Locked(c) /\ ~(InUse(c))'
       /\ conn'[c].changeCount = conn[c].changeCount + 1
    \/ /\ ~Locked(c) /\ ~InUse(c) /\ (InUse(c))'
       /\ conn'[c].changeCount = conn[c].changeCount

LEMMA UseSteps == IInv /\ [Next]_vars => \A c \in Conn : UseStep(c)
  <1> SUFFICES ASSUME IInv, [Next]_vars, NEW c \in Conn PROVE UseStep(c)
    OBVIOUS
  <1>1. Data /\ waiting \in Seq(Listener) /\ conn \in [Conn -> ConnRec]
    BY IInvData DEF Data, connTypeOK
  <1>2. CASE conn' = conn
    BY <1>2 DEF UseStep
  <1>3. CASE Plain
    BY <1>3 DEF Plain, UseStep
  <1>4. ASSUME NEW d \in Conn, NEW r, ~Locked(d), conn' = [conn EXCEPT ![d] = r],
               r = FreeConn(conn[d].changeCount + 1)
        PROVE  UseStep(c)
    <2>1. CASE c = d
      <3>1. conn'[c] = r /\ r.client = NoClient /\ r.changeCount = conn[d].changeCount + 1
        BY <1>1, <1>4, <2>1 DEF FreeConn
      <3> QED BY <3>1, <2>1, <1>4 DEF UseStep, InUse
    <2>2. CASE c # d
      BY <1>4, <2>2 DEF UseStep
    <2> QED BY <2>1, <2>2
  <1>5. ASSUME NEW d \in Conn, Frees(d) PROVE UseStep(c)
    BY <1>4, <1>5 DEF Frees, removeConnection
  <1>7. CASE Accepts
    <2> DEFINE h == Head(unused)
    <2>1. h \in Conn /\ ~InUse(h) /\ waiting # <<>>
      BY <1>1, <1>7, TailList DEF Accepts, Data, ListsApart
    <2>4. addConnection
      BY <1>7 DEF Accepts
    <2>5. UseStep(c)
      <3> DEFINE r == [conn[h] EXCEPT !.client = Accepted, !.readCb = TRUE]
      <3>1. conn' = [conn EXCEPT ![h] = r] /\ ~Locked(h) /\ TakeFromBacklog
        BY <2>1, <2>4, <1>1 DEF addConnection
      <3>2. Accepted \in Client
        BY <1>1, <2>1, <3>1, BacklogTaken
      <3>3. r.client = Accepted /\ r.changeCount = conn[h].changeCount
        BY <1>1, <2>1 DEF ConnRec
      <3> HIDE DEF r, h
      <3>4. CASE c = h
        <4>1. conn'[c] = r
          BY <3>1, <3>4, <1>1
        <4> QED BY <4>1, <3>1, <3>2, <3>3, <3>4, <2>1, ClientIsSome DEF UseStep, InUse
      <3>5. CASE c # h
        BY <3>1, <3>5 DEF UseStep
      <3> QED BY <3>4, <3>5
    <2> QED BY <2>5
  <1> QED BY <1>2, <1>3, <1>5, <1>7, EveryStepChanges
          DEF Changes, Polls, GoesDeaf, Connect

\* A connection whose mutex is held keeps its use.
LEMMA LockedStays ==
    ASSUME IInv, [Next]_vars, NEW c \in Conn, Locked(c)
    PROVE  conn'[c].client = conn[c].client /\ conn'[c].changeCount = conn[c].changeCount
  BY UseSteps DEF UseStep

\* A task does not get ahead of its connection.
LEMMA FreshStays ==
    ASSUME IInv, [Next]_vars, NEW t \in TaskRec, Fresh(t)
    PROVE  Fresh(t)'
  <1> DEFINE c == t.conn
             n == conn[c].changeCount
             m == conn'[c].changeCount
  <1>1. c \in Conn /\ t.count \in Nat /\ n \in Nat /\ t.count <= n /\ (t.count = n => InUse(c))
    BY DEF TaskRec, Fresh, IInv, TypeOK, connTypeOK, ConnRec
  <1>2. UseStep(c)
    BY <1>1, UseSteps
  <1>3. CASE conn'[c].client = conn[c].client /\ m = n
    BY <1>1, <1>3 DEF Fresh, InUse
  <1>4. CASE m = n + 1
    <2>1. t.count <= m /\ t.count # m
      BY <1>1, <1>4
    <2> QED BY <2>1 DEF Fresh
  <1>5. CASE (InUse(c))' /\ m = n
    BY <1>1, <1>5 DEF Fresh
  <1> QED BY <1>2, <1>3, <1>4, <1>5 DEF UseStep

-----------------------------------------------------------------------------
(* How the threads move, and the mutexes.                                  *)

WorkerMoves(w) ==
    /\ UNCHANGED <<waiting, listening, masterVars>>
    /\ \/ TakeTask(w)
       \/ ThreadIdles(w) /\ UNCHANGED tasks /\ wpc[w] # "idle"
       \/ /\ UNCHANGED <<tasks, task>>
          /\ removeMe' \in [Thread -> BOOLEAN] /\ caller' \in [Thread -> {"read", "write"}]
          /\ \/ wpc[w] \in Serving /\ \E p \in Serving \cup {"gap"} : Goto(w, p)
             \/ /\ wpc[w] = "lock" /\ ~Locked(task[w].conn)
                /\ \/ Goto(w, "stale")
                   \/ /\ task[w].count = conn[task[w].conn].changeCount
                      /\ Goto(w, "readStage")
             \/ wpc[w] = "gap" /\ ~ServerLocked /\ Goto(w, "both")

LEMMA WorkersMove ==
    ASSUME IInv, NEW w \in Thread, ThreadStep(w)
    PROVE  WorkerMoves(w)
  <1>0. removeMe \in [Thread -> BOOLEAN] /\ caller \in [Thread -> {"read", "write"}]
    BY DEF IInv, TypeOK, workerTypeOK
  <1> USE DEF listVars, masterVars
  <1>1. CASE TakeTask(w)
    BY <1>1 DEF WorkerMoves, TakeTask
  <1>2. CASE LockConn(w)
    BY <1>0, <1>2 DEF WorkerMoves, LockConn, Goto
  <1>3. CASE TooLate(w)
    BY <1>3 DEF WorkerMoves, TooLate
  <1>4. CASE ReadStage(w)
    BY <1>0, <1>4 DEF WorkerMoves, ReadStage, Goto, Serving
  <1>5. CASE WriteStage(w)
    <2> DEFINE b == removeMe[w] \/ NoCallback(task[w].conn)
    <2>1. b \in BOOLEAN
      BY <1>0, Zenon
    <2>2. \/ caller' = [caller EXCEPT ![w] = "write"] /\ removeMe' = removeMe
             /\ Goto(w, "inWrite")
          \/ removeMe' = [removeMe EXCEPT ![w] = b] /\ caller' = caller /\ Goto(w, "gap")
      BY <1>5, Zenon DEF WriteStage
    <2> HIDE DEF b
    <2>3. removeMe' \in [Thread -> BOOLEAN] /\ caller' \in [Thread -> {"read", "write"}]
      BY <1>0, <2>1, <2>2
    <2>4. \E p \in Serving \cup {"gap"} : Goto(w, p)
      BY <2>2 DEF Serving
    <2>5. /\ wpc[w] \in Serving /\ UNCHANGED <<tasks, task, waiting, listening, masterVars>>
      BY <1>5 DEF WriteStage, Serving
    <2> QED BY <2>3, <2>4, <2>5 DEF WorkerMoves
  <1>6. CASE CallbackReturns(w)
    <2> DEFINE b == NoCallback(task[w].conn)
    <2>1. b \in BOOLEAN
      BY Zenon DEF NoCallback
    <2>2. /\ \/ removeMe' = removeMe /\ Goto(w, "writeStage")
             \/ removeMe' = [removeMe EXCEPT ![w] = b] /\ Goto(w, "gap")
          /\ caller' = caller
      BY <1>6, Zenon DEF CallbackReturns
    <2> HIDE DEF b
    <2>3. removeMe' \in [Thread -> BOOLEAN] /\ caller' \in [Thread -> {"read", "write"}]
      BY <1>0, <2>1, <2>2
    <2>4. \E p \in Serving \cup {"gap"} : Goto(w, p)
      BY <2>2 DEF Serving
    <2>5. /\ wpc[w] \in Serving /\ UNCHANGED <<tasks, task, waiting, listening, masterVars>>
      BY <1>6 DEF CallbackReturns, Serving
    <2> QED BY <2>3, <2>4, <2>5 DEF WorkerMoves
  <1>7. CASE CallbackCloses(w)
    <2>1. removeMe' \in [Thread -> BOOLEAN] /\ caller' \in [Thread -> {"read", "write"}]
      BY <1>0, <1>7 DEF CallbackCloses
    <2> QED BY <2>1, <1>7 DEF WorkerMoves, CallbackCloses, Goto, Serving
  <1>8. CASE echoRequest(w)
    <2>1. Goto(w, "setWrite") \/ Goto(w, "returned")
      BY <1>8 DEF echoRequest
    <2> QED BY <1>0, <2>1, <1>8 DEF WorkerMoves, echoRequest, Serving
  <1>9. CASE echoWrite(w)
    <2>1. Goto(w, "setRead") \/ Goto(w, "returned")
      BY <1>9 DEF echoWrite
    <2> QED BY <1>0, <2>1, <1>9 DEF WorkerMoves, echoWrite, Serving
  <1>10. CASE setReadCallback(w)
    BY <1>0, <1>10 DEF WorkerMoves, setReadCallback, Goto, Serving
  <1>11. CASE setWriteCallback(w)
    BY <1>0, <1>11 DEF WorkerMoves, setWriteCallback, Goto, Serving
  <1>12. CASE LockServer(w)
    BY <1>0, <1>12 DEF WorkerMoves, LockServer
  <1>13. CASE FinishService(w)
    BY <1>13 DEF WorkerMoves, FinishService
  <1> QED BY <1>1, <1>2, <1>3, <1>4, <1>5, <1>6, <1>7, <1>8, <1>9, <1>10, <1>11, <1>12,
             <1>13 DEF ThreadStep

\* A step of the master, of whoever shuts down, or of a client.
OtherStep == MasterStep \/ shutdown \/ destroy \/ ClientStep \/ UNCHANGED vars

\* The master gets s->mutex only when nobody has it.
OtherMoves ==
    /\ UNCHANGED workerVars
    /\ MasterHolds' => MasterHolds \/ ~ServerLocked
    /\ tasks' = tasks \/ RunTask

LEMMA OthersMove ==
    ASSUME IInv, OtherStep
    PROVE  OtherMoves
  <1> USE DEF MasterHolds
  <1>1. UNCHANGED workerVars
    BY Zenon DEF OtherStep, MasterStep, LockTop, Clock, RemoveVeryOld, AcceptWaiting,
       LoopDone, LookRemoves, LookAccepts, LookDone, EpollWait, LockEvents, ListenerDown,
       ListenerEvent, EventAccepts, EventOfRemoved, EventWithoutCallback, ConnectionEvent,
       FlagEvent, RunTask, Relock, EventEnds, EventsDone, ShutdownLock, shutdown, destroy,
       DestroyBegins, PoolDestroyed, DestroyRemoves, DestroyEnds, AcceptAsserts,
       ClientStep, Connect, Send, Drain, HangUp, vars
  <1>2. tasks' = tasks \/ RunTask
    BY Zenon DEF OtherStep, MasterStep, LockTop, Clock, RemoveVeryOld, AcceptWaiting,
       LoopDone, LookRemoves, LookAccepts, LookDone, EpollWait, LockEvents, ListenerDown,
       ListenerEvent, EventAccepts, EventOfRemoved, EventWithoutCallback, ConnectionEvent,
       FlagEvent, RunTask, Relock, EventEnds, EventsDone, ShutdownLock, shutdown, destroy,
       DestroyBegins, PoolDestroyed, DestroyRemoves, DestroyEnds, AcceptAsserts,
       ClientStep, Connect, Send, Drain, HangUp, vars
  <1>3. MasterHolds' => MasterHolds \/ ~ServerLocked
    <2>1. CASE mpc' = mpc
      BY <2>1
    <2>2. CASE LockTop \/ LockEvents \/ Relock \/ ShutdownLock
      BY <2>2 DEF LockTop, LockEvents, Relock, ShutdownLock
    <2>3. CASE Clock \/ LoopDone \/ LookRemoves \/ LookAccepts \/ LookDone \/ ListenerDown
               \/ ListenerEvent \/ EventAccepts \/ EventOfRemoved \/ EventWithoutCallback
               \/ ConnectionEvent \/ FlagEvent \/ EventEnds \/ EventsDone \/ AcceptAsserts
      BY <2>3 DEF AcceptAsserts, Clock, LoopDone, LookRemoves, LookAccepts, LookDone,
         ListenerDown,
         ListenerEvent, EventAccepts, EventOfRemoved, EventWithoutCallback,
         ConnectionEvent, FlagEvent, EventEnds, EventsDone
    <2>4. CASE EpollWait \/ RunTask \/ shutdown \/ DestroyBegins \/ PoolDestroyed
      BY <2>4 DEF EpollWait, RunTask, shutdown, DestroyBegins, PoolDestroyed
    <2>6. CASE DestroyEnds
      <3>1. ~MasterHolds /\ \A w \in Thread : wpc[w] = "idle"
        BY <2>6 DEF DestroyEnds, IInv, MasterAlone, IdleThreads
      <3> QED BY <3>1 DEF ServerLocked
    <2>5. CASE RemoveVeryOld \/ AcceptWaiting \/ ClientStep \/ DestroyRemoves \/ UNCHANGED vars
      <3>1. mpc' = mpc
        BY <2>5, Zenon DEF DestroyRemoves, RemoveVeryOld, AcceptWaiting, ClientStep,
           Connect, Send, Drain,
           HangUp, vars, masterVars
      <3> QED BY <3>1, <2>1
    <2> QED BY <2>2, <2>3, <2>4, <2>5, <2>6 DEF OtherStep, MasterStep, destroy
  <1> QED BY <1>1, <1>2, <1>3 DEF OtherMoves

LEMMA StepsAre == [Next]_vars => OtherStep \/ \E w \in Thread : ThreadStep(w)
  BY DEF Next, OtherStep, Terminated

LEMMA MutexesKept == IInv /\ [Next]_vars => MutexesExclude'
  <1> SUFFICES ASSUME IInv, [Next]_vars PROVE MutexesExclude'
    OBVIOUS
  <1>0. /\ wpc \in [Thread -> Serving \cup {"idle", "lock", "stale", "gap", "both"}]
        /\ task \in [Thread -> TaskRec] /\ MutexesExclude
    BY DEF IInv, TypeOK, workerTypeOK
  <1>1. CASE OtherStep
    <2>1. wpc' = wpc /\ task' = task /\ (MasterHolds' => MasterHolds \/ ~ServerLocked)
      BY <1>1, OthersMove DEF OtherMoves, workerVars
    <2> QED BY <2>1, <1>0 DEF MutexesExclude, ServerLocked
  <1>2. ASSUME NEW w \in Thread, ThreadStep(w) PROVE MutexesExclude'
    <2>1. WorkerMoves(w) /\ mpc' = mpc /\ (MasterHolds' <=> MasterHolds)
      BY <1>2, WorkersMove DEF WorkerMoves, masterVars, MasterHolds
    <2>2. ASSUME NEW p, wpc' = [wpc EXCEPT ![w] = p], p # "both", p \notin Holding
          PROVE  MutexesExclude'
      <3>1. wpc'[w] = p /\ \A v \in Thread : v # w => wpc'[v] = wpc[v] /\ task'[v] = task[v]
        <4>1. \/ task' = task
              \/ \E t : task' = [task EXCEPT ![w] = t]
          BY <2>1 DEF WorkerMoves, TakeTask, ThreadIdles
        <4> QED BY <4>1, <2>2, <1>0
      <3> QED BY <3>1, <2>2, <2>1, <1>0 DEF MutexesExclude
    <2>3. CASE TakeTask(w)
      BY <2>2, <2>3 DEF TakeTask, Goto, Holding, Serving
    <2>4. CASE ThreadIdles(w)
      BY <2>2, <2>4 DEF ThreadIdles, Goto, Holding, Serving
    <2>5. ASSUME task' = task, NEW p \in Serving \cup {"gap"}, wpc[w] \in Serving, Goto(w, p)
          PROVE  MutexesExclude'
      <3>1. wpc'[w] = p /\ \A v \in Thread : v # w => wpc'[v] = wpc[v]
        BY <2>5, <1>0 DEF Goto
      <3>2. p # "both" /\ wpc[w] \in Holding
        BY <2>5 DEF Serving, Holding
      <3> QED BY <3>1, <3>2, <2>5, <2>1, <1>0 DEF MutexesExclude
    <2>6. ASSUME task' = task, NEW p \in {"stale", "readStage"}, ~Locked(task[w].conn),
                 Goto(w, p)
          PROVE  MutexesExclude'
      <3>1. wpc'[w] = p /\ \A v \in Thread : v # w => wpc'[v] = wpc[v]
        BY <2>6, <1>0 DEF Goto
      <3>2. \A v \in Thread : task[v].conn = task[w].conn => wpc[v] \notin Holding
        BY <2>6 DEF Locked, Holding
      <3> QED BY <3>1, <3>2, <2>6, <2>1, <1>0 DEF MutexesExclude
    <2>7. ASSUME task' = task, ~ServerLocked, Goto(w, "both")
          PROVE  MutexesExclude'
      <3>1. wpc'[w] = "both" /\ \A v \in Thread : v # w => wpc'[v] = wpc[v]
        BY <2>7, <1>0 DEF Goto
      <3>2. ~MasterHolds' /\ \A v \in Thread : wpc[v] # "both"
        BY <2>7, <2>1 DEF ServerLocked
      <3>3. "both" \notin Holding
        BY DEF Holding, Serving
      <3> QED BY <3>1, <3>2, <3>3, <2>7, <1>0 DEF MutexesExclude
    <2> QED BY <2>1, <2>3, <2>4, <2>5, <2>6, <2>7 DEF WorkerMoves
  <1> QED BY <1>1, <1>2, StepsAre

-----------------------------------------------------------------------------
(* The tasks.                                                              *)

LEMMA NoTaskType == NoTask \in TaskRec
  BY ListsAssumption DEF NoTask, TaskRec

LEMMA WorkerTypesKept == IInv /\ [Next]_vars => workerTypeOK'
  <1> SUFFICES ASSUME IInv, [Next]_vars PROVE workerTypeOK'
    OBVIOUS
  <1>0. workerTypeOK /\ mtask \in TaskRec
    BY DEF IInv, TypeOK, masterTypeOK
  <1>1. CASE OtherStep
    <2>1. UNCHANGED workerVars /\ (tasks' = tasks \/ tasks' = Append(tasks, mtask))
      BY <1>1, OthersMove DEF OtherMoves, RunTask
    <2>2. tasks' \in Seq(TaskRec)
      BY <2>1, <1>0, AppendList DEF workerTypeOK
    <2> QED BY <2>1, <2>2, <1>0 DEF workerTypeOK, workerVars
  <1>2. ASSUME NEW w \in Thread, ThreadStep(w) PROVE workerTypeOK'
    <2>1. WorkerMoves(w)
      BY <1>2, WorkersMove
    <2>2. CASE TakeTask(w)
      <3>1. tasks \in Seq(TaskRec) /\ tasks # <<>>
        BY <1>0, <2>2 DEF workerTypeOK, TakeTask
      <3>2. Head(tasks) \in TaskRec /\ Tail(tasks) \in Seq(TaskRec)
        BY <3>1
      <3> QED BY <3>2, <1>0, <2>2 DEF workerTypeOK, TakeTask, Goto
    <2>3. CASE ThreadIdles(w) /\ UNCHANGED tasks
      BY <1>0, <2>3, NoTaskType DEF workerTypeOK, ThreadIdles, Goto
    <2>4. ASSUME UNCHANGED <<tasks, task>>, removeMe' \in [Thread -> BOOLEAN],
                 caller' \in [Thread -> {"read", "write"}],
                 NEW p \in Serving \cup {"gap", "stale", "both"}, Goto(w, p)
          PROVE  workerTypeOK'
      BY <1>0, <2>4 DEF workerTypeOK, Goto
    <2>5. "readStage" \in Serving
      BY DEF Serving
    <2> QED BY <2>1, <2>2, <2>3, <2>4, <2>5 DEF WorkerMoves
  <1> QED BY <1>1, <1>2, StepsAre

LEMMA TasksFreshKept == IInv /\ [Next]_vars => TasksFresh'
  <1> SUFFICES ASSUME IInv, [Next]_vars PROVE TasksFresh'
    OBVIOUS
  <1>0. /\ workerTypeOK /\ masterTypeOK /\ TasksFresh /\ MasterInStep
        /\ conn \in [Conn -> ConnRec]
    BY DEF IInv, TypeOK, connTypeOK
  <1>1. \A w \in Thread : wpc[w] \in Serving =>
           /\ task[w].count = conn[task[w].conn].changeCount
           /\ conn'[task[w].conn].changeCount = conn[task[w].conn].changeCount
    <2> SUFFICES ASSUME NEW w \in Thread, wpc[w] \in Serving
                 PROVE  /\ task[w].count = conn[task[w].conn].changeCount
                        /\ conn'[task[w].conn].changeCount = conn[task[w].conn].changeCount
      OBVIOUS
    <2>1. task[w].conn \in Conn /\ Locked(task[w].conn)
      BY <1>0 DEF workerTypeOK, TaskRec, Locked
    <2> QED BY <2>1, <1>0, LockedStays DEF TasksFresh
  <1> DEFINE Later(t) == /\ t.count <= conn'[t.conn].changeCount
                         /\ t.count = conn'[t.conn].changeCount
                               => conn'[t.conn].client # NoClient
  <1>2. \A t \in TaskRec : Fresh(t) => Later(t)
    BY FreshStays DEF Fresh, InUse
  <1>3. TasksFresh' <=> /\ mpc' = "runTask" => Later(mtask')
                        /\ \A i \in 1 .. Len(tasks') : Later(tasks'[i])
                        /\ \A w \in Thread : wpc'[w] # "idle" => Later(task'[w])
                        /\ \A w \in Thread : wpc'[w] \in Serving =>
                              task'[w].count = conn'[task'[w].conn].changeCount
    BY DEF TasksFresh, Fresh, InUse
  <1> HIDE DEF Later
  <1>4. \A i \in 1 .. Len(tasks) : Later(tasks[i])
    BY <1>0, <1>2 DEF workerTypeOK, TasksFresh
  <1>5. \A w \in Thread : wpc[w] # "idle" => Later(task[w])
    BY <1>0, <1>2 DEF workerTypeOK, TasksFresh
  <1>6. mpc = "runTask" => Later(mtask)
    BY <1>0, <1>2 DEF masterTypeOK, TasksFresh
  <1>7. CASE OtherStep
    <2>1. wpc' = wpc /\ task' = task /\ (tasks' = tasks \/ RunTask)
      BY <1>7, OthersMove DEF OtherMoves, workerVars
    <2>2. \A i \in 1 .. Len(tasks') : Later(tasks'[i])
      <3>1. CASE tasks' = tasks
        BY <3>1, <1>4
      <3>2. CASE RunTask
        <4>1. tasks' = Append(tasks, mtask) /\ Later(mtask)
          BY <3>2, <1>6 DEF RunTask
        <4>2. \A i \in 1 .. Len(tasks') : tasks'[i] = mtask \/ \E j \in 1 .. Len(tasks) : tasks'[i] = tasks[j]
          <5> SUFFICES ASSUME NEW i \in 1 .. Len(tasks')
                       PROVE  tasks'[i] = mtask \/ \E j \in 1 .. Len(tasks) : tasks'[i] = tasks[j]
            OBVIOUS
          <5>1. /\ tasks \in Seq(TaskRec) /\ mtask \in TaskRec
            BY <1>0 DEF workerTypeOK, masterTypeOK
          <5>2. Has(Append(tasks, mtask), tasks'[i])
            BY <4>1 DEF Has
          <5>3. Has(tasks, tasks'[i]) \/ tasks'[i] = mtask
            BY <5>1, <5>2, AppendList
          <5> QED BY <5>3 DEF Has
        <4> QED BY <4>1, <4>2, <1>4
      <3> QED BY <2>1, <3>1, <3>2
    <2>3. mpc' = "runTask" => Later(mtask')
      <3>1. CASE mpc' = mpc /\ mtask' = mtask
        BY <3>1, <1>6
      <3>2. CASE FlagEvent
        <4> SUFFICES ASSUME mpc' = "runTask" PROVE Later(mtask')
          OBVIOUS
        <4> DEFINE c == ev.ptr
                   t == [conn |-> c, count |-> conn[c].changeCount]
        <4>1. mtask' = t
          BY <3>2 DEF FlagEvent
        <4>2. c \in Conn /\ InUse(c)
          BY <3>2, <1>0 DEF FlagEvent, MasterInStep
        <4> HIDE DEF c
        <4>3. t \in TaskRec /\ Fresh(t)
          BY <4>2, <1>0 DEF TaskRec, Fresh, ConnRec
        <4> QED BY <4>1, <4>3, <1>2
      <3>3. CASE LockTop \/ Clock \/ LoopDone \/ LookRemoves \/ LookAccepts \/ LookDone
                 \/ EpollWait \/ LockEvents \/ ListenerDown \/ ListenerEvent \/ EventAccepts
                 \/ EventOfRemoved \/ EventWithoutCallback \/ ConnectionEvent \/ RunTask
                 \/ Relock \/ EventEnds \/ EventsDone \/ ShutdownLock \/ shutdown
                 \/ AcceptAsserts \/ DestroyBegins \/ PoolDestroyed \/ DestroyEnds
        <4>1. mpc' # "runTask"
          BY <3>3 DEF LockTop, Clock, LoopDone, LookRemoves, LookAccepts, LookDone,
             EpollWait,
             LockEvents, ListenerDown, ListenerEvent, EventAccepts, EventOfRemoved,
             EventWithoutCallback, ConnectionEvent, RunTask, Relock, EventEnds, EventsDone,
             ShutdownLock, shutdown, AcceptAsserts, DestroyBegins, PoolDestroyed,
             DestroyEnds, LookEnds, EventDone
        <4> QED BY <4>1
      <3>4. CASE RemoveVeryOld \/ AcceptWaiting \/ DestroyRemoves \/ ClientStep
                 \/ UNCHANGED vars
        <4>1. mpc' = mpc /\ mtask' = mtask
          BY <3>4, Zenon DEF RemoveVeryOld, DestroyRemoves, AcceptWaiting, ClientStep,
             Connect, Send, Drain,
             HangUp, vars, masterVars
        <4> QED BY <4>1, <3>1
      <3> QED BY <1>7, <3>2, <3>3, <3>4 DEF OtherStep, MasterStep, destroy
    <2>4. \A w \in Thread : wpc'[w] # "idle" => Later(task'[w])
      BY <2>1, <1>5
    <2>5. \A w \in Thread : wpc'[w] \in Serving =>
                 task'[w].count = conn'[task'[w].conn].changeCount
      BY <2>1, <1>1
    <2> QED BY <2>2, <2>3, <2>4, <2>5, <1>3
  <1>8. ASSUME NEW w \in Thread, ThreadStep(w) PROVE TasksFresh'
    <2>1. WorkerMoves(w) /\ mpc' = mpc /\ mtask' = mtask
      BY <1>8, WorkersMove DEF WorkerMoves, masterVars
    <2>0. /\ tasks \in Seq(TaskRec) /\ task \in [Thread -> TaskRec]
          /\ wpc \in [Thread -> Serving \cup {"idle", "lock", "stale", "gap", "both"}]
      BY <1>0 DEF workerTypeOK
    <2>2. CASE TakeTask(w)
      <3>1. tasks # <<>> /\ tasks' = Tail(tasks) /\ task' = [task EXCEPT ![w] = Head(tasks)]
            /\ wpc' = [wpc EXCEPT ![w] = "lock"]
        BY <2>2 DEF TakeTask, Goto
      <3>2. Has(tasks, Head(tasks)) /\ \A y : Has(Tail(tasks), y) => Has(tasks, y)
        BY <3>1, <2>0, TailList
      <3>3. \A i \in 1 .. Len(tasks') : Later(tasks'[i])
        <4> TAKE i \in 1 .. Len(tasks')
        <4>1. Has(tasks, tasks'[i])
          BY <3>1, <3>2 DEF Has
        <4> QED BY <4>1, <1>4 DEF Has
      <3>4. Later(Head(tasks))
        BY <3>2, <1>4 DEF Has
      <3>5. /\ task'[w] = Head(tasks) /\ wpc'[w] = "lock" /\ "lock" \notin Serving
            /\ \A v \in Thread : v # w => task'[v] = task[v] /\ wpc'[v] = wpc[v]
        BY <3>1, <2>0 DEF Serving
      <3> QED BY <3>3, <3>4, <3>5, <2>1, <1>1, <1>3, <1>5, <1>6
    <2>3. CASE ThreadIdles(w) /\ UNCHANGED tasks
      <3>1. /\ wpc'[w] = "idle" /\ "idle" \notin Serving
            /\ \A v \in Thread : v # w => task'[v] = task[v] /\ wpc'[v] = wpc[v]
        BY <2>3, <2>0 DEF ThreadIdles, Goto, Serving
      <3> QED BY <3>1, <2>1, <2>3, <1>1, <1>3, <1>4, <1>5, <1>6
    <2>4. ASSUME UNCHANGED <<tasks, task>>, wpc[w] # "idle", NEW p, Goto(w, p),
                 p \in Serving => task[w].count = conn'[task[w].conn].changeCount
          PROVE  TasksFresh'
      <3>1. wpc'[w] = p /\ \A v \in Thread : v # w => wpc'[v] = wpc[v]
        BY <2>4, <2>0 DEF Goto
      <3> QED BY <3>1, <2>1, <2>4, <1>1, <1>3, <1>4, <1>5, <1>6
    <2>5. CASE wpc[w] \in Serving /\ UNCHANGED <<tasks, task>>
               /\ \E p \in Serving \cup {"gap"} : Goto(w, p)
      <3>1. wpc[w] # "idle"
        BY <2>5 DEF Serving
      <3> QED BY <3>1, <2>4, <2>5, <1>1
    <2>6. CASE wpc[w] = "lock" /\ UNCHANGED <<tasks, task>> /\ Goto(w, "stale")
      BY <2>4, <2>6 DEF Serving
    <2>7. CASE /\ wpc[w] = "lock" /\ UNCHANGED <<tasks, task>> /\ Goto(w, "readStage")
               /\ task[w].count = conn[task[w].conn].changeCount
      <3>1. conn' = conn
        <4>1. wpc'[w] = "readStage"
          BY <2>7, <2>0 DEF Goto
        <4> QED BY <4>1, <2>7, <1>8, Zenon DEF ThreadStep, TakeTask, LockConn, TooLate, ReadStage, WriteStage,
               CallbackReturns, CallbackCloses, echoRequest, echoWrite, setReadCallback,
               setWriteCallback, LockServer, FinishService
      <3> QED BY <3>1, <2>4, <2>7
    <2>8. CASE wpc[w] = "gap" /\ UNCHANGED <<tasks, task>> /\ Goto(w, "both")
      BY <2>4, <2>8 DEF Serving
    <2> QED BY <2>1, <2>2, <2>3, <2>5, <2>6, <2>7, <2>8 DEF WorkerMoves
  <1> QED BY <1>7, <1>8, StepsAre

-----------------------------------------------------------------------------
(* The master.                                                             *)

\* A batch of events goes on with its tail.
LEMMA BatchGoesOn ==
    ASSUME batch \in Seq(EventRec), batch # <<>>
    PROVE  Tail(batch) \in Seq(EventRec) /\ ev \in EventRec
  BY DEF ev

\* epoll_wait() names listeners, and connections in use.
LEMMA EventTypes ==
    ASSUME Data, NEW x, Has(ready, x)
    PROVE  /\ Event(x) \in EventRec
           /\ x \notin Listener =>
                 x \in Client /\ ConnOf(x) \in Conn /\ conn[ConnOf(x)].client = x
  <1>1. x \in Listener \cup Client
    BY DEF Has, Data, kernelTypeOK
  <1>2. ASSUME x \notin Listener
        PROVE  x \in Client /\ ConnOf(x) \in Conn /\ conn[ConnOf(x)].client = x
    <2>1. x \in Client
      BY <1>1, <1>2
    <2>2. \E c \in Conn : conn[c].client = x
      BY <2>1 DEF Has, Data, ReadyAreServed
    <2> QED BY <2>1, <2>2 DEF ConnOf
  <1>3. Mask(x) \in SUBSET {"IN", "OUT", "HUP"}
    BY DEF Mask
  <1>4. (IF x \in Listener THEN x ELSE ConnOf(x)) \in Listener \cup Conn
    BY <1>2
  <1> QED BY <1>1, <1>2, <1>3, <1>4 DEF Event, EventRec

\* The variables of the master that only it changes.
LEMMA MasterTypesKept ==
    IInv /\ [Next]_vars => masterTypeOK' /\ waiting' \in Seq(Listener) /\ listening' \in BOOLEAN
  <1> SUFFICES ASSUME IInv, [Next]_vars
               PROVE  masterTypeOK' /\ waiting' \in Seq(Listener) /\ listening' \in BOOLEAN
    OBVIOUS
  <1>0. /\ masterTypeOK /\ waiting \in Seq(Listener) /\ listening \in BOOLEAN
        /\ used \in Seq(Conn) /\ unused \in Seq(Conn) /\ MasterInStep /\ Data
        /\ conn \in [Conn -> ConnRec]
    BY IInvData DEF IInv, TypeOK, listTypeOK, connTypeOK
  <1>1. /\ batch \in Seq(EventRec) /\ mtask \in TaskRec /\ veryOld \in Nat /\ old \in Nat
        /\ Len(used) \in Nat
    BY <1>0 DEF masterTypeOK
  <1> USE DEF listVars, masterVars
  <1>2. CASE UNCHANGED <<waiting, listening, masterVars>>
    BY <1>2, <1>0 DEF masterTypeOK
  <1>3. ASSUME accept, waiting # <<>> PROVE waiting' \in Seq(Listener)
    <2>1. waiting' = waiting \/ waiting' = Tail(waiting)
      BY <1>3, Zenon DEF accept, NothingToAccept, addConnection, TakeFromBacklog
    <2>2. waiting \in Seq(Listener) /\ Tail(waiting) \in Seq(Listener)
      <3>1. waiting \in Seq(Listener) /\ waiting # <<>>
        BY <1>0, <1>3
      <3> QED BY <3>1, TailList
    <2> QED BY <2>1, <2>2
  <1>4. ASSUME waiting' \in Seq(Listener), UNCHANGED <<listening, veryOld, old, mtask>>,
               batch' \in Seq(EventRec),
               mpc' \in {"top", "clock", "loop", "look", "lookAccept", "epoll",
                         "lockEvents", "event", "evAccept", "evLock", "runTask", "relock",
                         "evPost", "shutdownLock", "drained", "asserted", "poolWait",
                         "removing", "destroyed"}
        PROVE  masterTypeOK' /\ waiting' \in Seq(Listener) /\ listening' \in BOOLEAN
    BY <1>0, <1>1, <1>4 DEF masterTypeOK, Destroying
  <1>5. CASE LockTop \/ LockEvents \/ Relock \/ EventsDone \/ ShutdownLock \/ ConnectionEvent
             \/ AcceptAsserts \/ DestroyBegins \/ PoolDestroyed \/ DestroyEnds
    BY <1>0, <1>1, <1>4, <1>5
       DEF LockTop, LockEvents, Relock, EventsDone, ShutdownLock, ConnectionEvent,
           AcceptAsserts, DestroyBegins, PoolDestroyed, DestroyEnds
  <1>6. CASE ListenerDown \/ EventOfRemoved \/ EventWithoutCallback
    <2>1. batch # <<>> /\ EventDone /\ UNCHANGED <<listening, veryOld, old, mtask, waiting>>
      BY <1>6, Zenon DEF ListenerDown, EventOfRemoved, EventWithoutCallback
    <2> QED BY <2>1, <1>0, <1>1, <1>4, BatchGoesOn DEF EventDone
  <1>7. CASE EventEnds
    <2>1. batch # <<>> /\ EventDone /\ UNCHANGED <<listening, veryOld, old, mtask, waiting>>
      BY <1>7, <1>0 DEF EventEnds, MasterInStep
    <2> QED BY <2>1, <1>0, <1>1, <1>4, BatchGoesOn DEF EventDone
  <1>8. CASE EventAccepts
    <2>1. /\ batch # <<>> /\ waiting # <<>> /\ accept /\ EventDone
          /\ UNCHANGED <<listening, veryOld, old, mtask>>
      BY <1>8, <1>0 DEF EventAccepts, MasterInStep
    <2> QED BY <2>1, <1>1, <1>3, <1>4, BatchGoesOn DEF EventDone
  <1>9. CASE LookAccepts
    <2>1. /\ waiting # <<>> /\ accept /\ mpc' = "look"
          /\ UNCHANGED <<listening, veryOld, old, mtask, batch>>
      BY <1>9, <1>0 DEF LookAccepts, MasterInStep
    <2> QED BY <2>1, <1>1, <1>3, <1>4
  <1>10. CASE AcceptWaiting
    <2>1. /\ waiting # <<>> /\ accept
          /\ UNCHANGED <<mpc, listening, veryOld, old, mtask, batch>>
      BY <1>10 DEF AcceptWaiting
    <2>2. waiting' \in Seq(Listener)
      BY <2>1, <1>3
    <2> QED BY <2>1, <2>2, <1>0 DEF masterTypeOK
  <1>11. CASE Clock
    <2>1. veryOld' \in Nat
      BY <1>1, <1>11 DEF Clock
    <2>2. old' \in Nat
      BY <1>1, <1>11, <2>1 DEF Clock
    <2>3. mpc' = "loop" /\ UNCHANGED <<waiting, listening, batch, mtask>>
      BY <1>11 DEF Clock
    <2> QED BY <2>1, <2>2, <2>3, <1>0, <1>1 DEF masterTypeOK
  <1>12. CASE RemoveVeryOld
    <2>1. veryOld' \in Nat
      BY <1>1, <1>12 DEF RemoveVeryOld
    <2>2. old' \in Nat
      BY <1>1, <1>12 DEF RemoveVeryOld
    <2>3. UNCHANGED <<mpc, waiting, listening, batch, mtask>>
      BY <1>12 DEF RemoveVeryOld
    <2> QED BY <2>1, <2>2, <2>3, <1>0, <1>1 DEF masterTypeOK
  <1>13. CASE LoopDone
    <2>1. old' \in Nat /\ mpc' \in {"look", "epoll"}
      BY <1>1, <1>13 DEF LoopDone
    <2>2. UNCHANGED <<waiting, listening, batch, mtask, veryOld>>
      BY <1>13 DEF LoopDone
    <2> QED BY <2>1, <2>2, <1>0, <1>1 DEF masterTypeOK
  <1>14. ASSUME LookEnds, UNCHANGED <<waiting, listening, mtask, veryOld>>
         PROVE  masterTypeOK' /\ waiting' \in Seq(Listener) /\ listening' \in BOOLEAN
    <2>1. batch' \in Seq(EventRec) /\ mpc' \in {"epoll", "event"} /\ old' = 0
      BY <1>14, <1>1, BatchGoesOn DEF LookEnds
    <2> QED BY <2>1, <1>14, <1>0, <1>1 DEF masterTypeOK
  <1>15. CASE LookRemoves
    <2>1. CASE LookEnds
      BY <1>14, <1>15, <2>1 DEF LookRemoves
    <2>2. CASE ~LookEnds
      <3>1. old > 0 /\ old' = old - 1 /\ mpc' = "lookAccept"
            /\ UNCHANGED <<waiting, listening, mtask, veryOld, batch>>
        BY <1>15, <2>2 DEF LookRemoves, LookGoesOn
      <3>2. old' \in Nat
        BY <3>1, <1>1
      <3> QED BY <3>1, <3>2, <1>0, <1>1 DEF masterTypeOK
    <2> QED BY <2>1, <2>2
  <1>16. CASE LookDone
    BY <1>14, <1>16 DEF LookDone
  <1>17. CASE EpollWait
    <2> DEFINE now == Filter(ready, Reported)
               n   == IF Len(now) < MaxEvents THEN Len(now) ELSE MaxEvents
    <2>1. now \in Seq(Listener \cup Client) /\ \A x : Has(now, x) => Has(ready, x)
      BY <1>0, FilterKeeps DEF Data, kernelTypeOK, ReadyAreServed
    <2>2. batch' = [i \in 1 .. n |-> Event(now[i])] /\ mpc' = "lockEvents"
          /\ UNCHANGED <<waiting, listening, veryOld, old, mtask>>
      BY <1>17 DEF EpollWait
    <2> HIDE DEF now
    <2>3. n \in Nat /\ n <= Len(now)
      BY <2>1, EventsAssumption
    <2>4. \A i \in 1 .. n : Event(now[i]) \in EventRec
      <3> TAKE i \in 1 .. n
      <3>1. Has(now, now[i])
        BY <2>1, <2>3 DEF Has
      <3> QED BY <3>1, <2>1, <1>0, EventTypes
    <2> HIDE DEF n
    <2>5. batch' \in Seq(EventRec)
      BY <2>2, <2>3, <2>4
    <2> QED BY <2>2, <2>5, <1>0, <1>4
  <1>18. CASE ListenerEvent
    <2>1. ev.ptr \in Listener /\ waiting' = With(waiting, ev.ptr) /\ batch # <<>>
          /\ UNCHANGED <<listening, mtask, veryOld>>
      BY <1>18 DEF ListenerEvent, queuePush
    <2>2. waiting' \in Seq(Listener)
      BY <2>1, <1>0, WithList
    <2>3. mpc' \in {"evAccept", "look", "event"} /\ (batch' = batch \/ batch' = Tail(batch))
      BY <1>18 DEF ListenerEvent, EventDone
    <2>4. old' \in Nat
      BY <1>1, <1>18 DEF ListenerEvent
    <2>5. batch' \in Seq(EventRec)
      BY <2>1, <2>3, <1>1, BatchGoesOn
    <2> QED BY <2>1, <2>2, <2>3, <2>4, <2>5, <1>0, <1>1 DEF masterTypeOK
  <1>19. CASE FlagEvent
    <2>1. mpc' \in {"runTask", "evPost"} /\ UNCHANGED <<batch, veryOld, old, waiting, listening>>
      BY <1>19 DEF FlagEvent
    <2>2. mtask' = mtask \/ mtask' = [conn |-> ev.ptr, count |-> conn[ev.ptr].changeCount]
      BY <1>19 DEF FlagEvent
    <2>3. ev.ptr \in Conn /\ conn[ev.ptr].changeCount \in Nat
      BY <1>0, <1>19 DEF FlagEvent, MasterInStep, ConnRec
    <2>4. mtask' \in TaskRec
      BY <2>2, <2>3, <1>1 DEF TaskRec
    <2> QED BY <2>1, <2>4, <1>0, <1>1 DEF masterTypeOK
  <1>20. CASE RunTask
    BY <1>0, <1>1, <1>20, NoTaskType DEF RunTask, masterTypeOK
  <1>21. CASE shutdown
    <2>1. /\ waiting' = <<>> /\ listening' = FALSE /\ mpc' = "shutdownLock"
          /\ UNCHANGED <<batch, mtask, veryOld, old>>
      BY <1>21 DEF shutdown
    <2>2. waiting' \in Seq(Listener)
      BY <2>1
    <2> QED BY <2>1, <2>2, <1>1 DEF masterTypeOK
  <1>22. CASE DestroyRemoves
    BY <1>2, <1>22 DEF DestroyRemoves
  <1>23. CASE ClientStep \/ UNCHANGED vars
    <2>1. UNCHANGED <<waiting, listening, masterVars>>
      BY <1>23, Zenon DEF ClientStep, Connect, Send, Drain, HangUp, vars
    <2> QED BY <2>1, <1>2
  <1>24. ASSUME NEW w \in Thread, ThreadStep(w)
         PROVE  masterTypeOK' /\ waiting' \in Seq(Listener) /\ listening' \in BOOLEAN
    BY <1>2, <1>24, WorkersMove DEF WorkerMoves
  <1> QED BY <1>5, <1>6, <1>7, <1>8, <1>9, <1>10, <1>11, <1>12, <1>13, <1>15, <1>16, <1>17,
             <1>18, <1>19, <1>20, <1>21, <1>22, <1>23, <1>24, StepsAre
          DEF OtherStep, MasterStep, destroy

\* A worker frees a connection only while the master is without s->mutex.
LEMMA WorkersWait ==
    ASSUME IInv, [Next]_vars, NEW w \in Thread, ThreadStep(w), MasterHolds
    PROVE  /\ UNCHANGED <<used, unused, waiting, mpc, batch, veryOld>>
           /\ \A c \in Conn : conn'[c].client = conn[c].client
  <1>1. UNCHANGED <<waiting, mpc, batch, veryOld>>
    BY WorkersMove DEF WorkerMoves, masterVars
  <1>2. ~FinishService(w)
    BY DEF FinishService, IInv, MutexesExclude
  <1>3. used' = used /\ unused' = unused
    BY <1>2, Zenon DEF ThreadStep, TakeTask, LockConn, TooLate, ReadStage, WriteStage,
       CallbackReturns, CallbackCloses, echoRequest, echoWrite, setReadCallback,
       setWriteCallback, LockServer, listVars
  <1>4. \A c \in Conn : conn'[c].client = conn[c].client
    <2>1. Data /\ Data'
      BY IInvData, DataKept
    <2>2. \A c \in Conn : (InUse(c))' <=> InUse(c)
      BY <2>1, <1>3 DEF Data, ListsApart
    <2>3. \A c \in Conn : UseStep(c)
      BY UseSteps
    <2> TAKE c \in Conn
    <2>4. CASE ~InUse(c)
      BY <2>4, <2>2 DEF InUse
    <2>5. CASE InUse(c)
      BY <2>5, <2>2, <2>3 DEF UseStep
    <2> QED BY <2>4, <2>5
  <1> QED BY <1>1, <1>3, <1>4

LEMMA MasterInStepKept == IInv /\ [Next]_vars => MasterInStep'
  <1> SUFFICES ASSUME IInv, [Next]_vars PROVE MasterInStep'
    OBVIOUS
  <1>0. /\ masterTypeOK /\ waiting \in Seq(Listener) /\ used \in Seq(Conn)
        /\ unused \in Seq(Conn) /\ MasterInStep /\ Distinct(used) /\ Len(used) \in Nat
        /\ veryOld \in Nat
    BY DEF IInv, TypeOK, listTypeOK, ListsApart, masterTypeOK
  <1> USE DEF listVars, masterVars
  <1>1. CASE mpc' \notin {"lookAccept", "evAccept", "loop", "evLock", "runTask", "relock", "evPost"}
    BY <1>1 DEF MasterInStep
  <1>2. CASE LockTop \/ LoopDone \/ LookAccepts \/ LookDone \/ EpollWait \/ LockEvents
             \/ ListenerDown \/ EventAccepts \/ EventOfRemoved \/ EventWithoutCallback
             \/ EventEnds \/ EventsDone \/ ShutdownLock \/ shutdown \/ AcceptAsserts
             \/ destroy
    <2>1. mpc' \in {"top", "clock", "look", "epoll", "lockEvents", "event", "shutdownLock",
                    "drained", "asserted", "poolWait", "removing", "destroyed"}
      BY <1>2 DEF LockTop, LoopDone, LookAccepts, LookDone, EpollWait, LockEvents,
         ListenerDown, EventAccepts, EventOfRemoved, EventWithoutCallback, EventEnds,
         EventsDone, ShutdownLock, shutdown, AcceptAsserts, destroy, DestroyBegins,
         PoolDestroyed, DestroyRemoves, DestroyEnds, LookEnds, EventDone
    <2> QED BY <2>1, <1>1
  <1>3. ASSUME mpc' = "loop", veryOld' <= Len(used') PROVE MasterInStep'
    BY <1>3 DEF MasterInStep
  <1>4. CASE Clock
    BY <1>0, <1>3, <1>4 DEF Clock
  <1>5. CASE RemoveVeryOld
    <2>1. mpc' = "loop" /\ veryOld > 0 /\ veryOld <= Len(used)
      BY <1>5, <1>0 DEF RemoveVeryOld, MasterInStep
    <2>2. CASE MarksForRemoval(Head(used)) /\ UNCHANGED <<veryOld, old>>
      BY <2>1, <2>2, <1>3 DEF MarksForRemoval
    <2>3. CASE Removes(Head(used)) /\ veryOld' = veryOld - 1
      <3>1. used' = Without(used, Head(used))
        BY <2>3 DEF Removes, removeConnection
      <3>2. Len(used') >= Len(used) - 1 /\ used' \in Seq(Conn)
        BY <3>1, <1>0, WithoutList
      <3>3. veryOld' <= Len(used')
        BY <3>2, <2>1, <2>3, <1>0
      <3> QED BY <3>3, <2>1, <1>3
    <2> QED BY <1>5, <2>2, <2>3 DEF RemoveVeryOld
  <1>6. CASE AcceptWaiting
    <2>1. veryOld' = 0 /\ mpc' = "loop"
      BY <1>6 DEF AcceptWaiting
    <2>2. used' \in Seq(Conn)
      BY DataKept DEF Data
    <2> QED BY <2>1, <2>2, <1>3
  <1>7. CASE LookRemoves
    <2>1. CASE mpc' \in {"epoll", "event"}
      BY <2>1, <1>1
    <2>2. CASE mpc' = "lookAccept" /\ Removes(Head(used))
      <3>1. waiting' = waiting /\ waiting # <<>> /\ used # <<>>
        BY <1>7 DEF LookRemoves, LookGoesOn
      <3>2. unused' = Append(unused, Head(used)) /\ Head(used) \in Conn
        BY <2>2, <3>1, <1>0, TailList DEF Removes, removeConnection
      <3>3. unused' # <<>>
        BY <3>2, <1>0, AppendList
      <3> QED BY <2>2, <3>1, <3>3 DEF MasterInStep
    <2> QED BY <1>7, <2>1, <2>2 DEF LookRemoves, LookEnds
  <1>8. CASE ListenerEvent
    <2>1. CASE mpc' \in {"look", "event"}
      BY <2>1, <1>1
    <2>2. CASE mpc' = "evAccept"
      <3>1. /\ waiting' = With(waiting, ev.ptr) /\ ev.ptr \in Listener /\ unused # <<>>
            /\ unused' = unused /\ batch # <<>> /\ batch' = batch
        BY <1>8, <2>2 DEF ListenerEvent, queuePush, EventDone
      <3>2. waiting' # <<>>
        <4>1. waiting \in Seq(Listener) /\ ev.ptr \in Listener
          BY <3>1, <1>0
        <4>2. With(waiting, ev.ptr) # <<>>
          BY <4>1, WithList
        <4> QED BY <4>2, <3>1
      <3> QED BY <2>2, <3>1, <3>2 DEF MasterInStep
    <2> QED BY <1>8, <2>1, <2>2 DEF ListenerEvent, EventDone
  <1>9. CASE ConnectionEvent
    <2>1. /\ mpc' \in {"evLock", "evPost"} /\ batch # <<>> /\ batch' = batch
          /\ ev.ptr \in Conn /\ InUse(ev.ptr) /\ conn' = conn
      BY <1>9 DEF ConnectionEvent
    <2> QED BY <2>1 DEF MasterInStep, ev, InUse
  <1>10. CASE FlagEvent \/ RunTask \/ Relock
    <2>1. /\ mpc \in {"evLock", "runTask", "relock"}
          /\ mpc' \in {"runTask", "relock", "evPost"} /\ batch' = batch
      BY <1>10 DEF FlagEvent, RunTask, Relock
    <2> QED BY <2>1, <1>0 DEF MasterInStep, ev
  <1>11. CASE ClientStep \/ UNCHANGED vars
    <2>1. UNCHANGED <<used, unused, waiting, mpc, batch, veryOld, conn>>
      BY <1>11, Zenon DEF ClientStep, Connect, Send, Drain, HangUp, vars
    <2> QED BY <2>1, <1>0 DEF MasterInStep, ev, InUse
  <1>12. ASSUME NEW w \in Thread, ThreadStep(w) PROVE MasterInStep'
    <2>1. mpc' = mpc /\ batch' = batch
      BY <1>12, WorkersMove DEF WorkerMoves
    <2>2. CASE MasterHolds
      BY <2>2, <1>0, <1>12, WorkersWait DEF MasterInStep, ev, InUse
    <2>3. CASE ~MasterHolds
      BY <2>1, <2>3, <1>0 DEF MasterInStep, MasterHolds, ev
    <2> QED BY <2>2, <2>3
  <1> QED BY <1>2, <1>4, <1>5, <1>6, <1>7, <1>8, <1>9, <1>10, <1>11, <1>12, StepsAre
          DEF OtherStep, MasterStep

\* The clients in the backlogs stay there, but for the one that is accepted.
LEMMA BacklogStays ==
    ASSUME Data, waiting \in Seq(Listener), waiting # <<>>, TakeFromBacklog,
           NEW k, InBacklog(k), k # Accepted
    PROVE  (InBacklog(k))'
  <1> DEFINE h == Head(waiting)
             b == backlog[h]
  <1>1. h \in Listener /\ backlog \in [Listener -> Seq(Client)] /\ b \in Seq(Client)
    BY TailList DEF Data, kernelTypeOK
  <1>2. b # <<>> /\ backlog' = [backlog EXCEPT ![h] = Tail(b)] /\ Accepted = Head(b)
    BY DEF TakeFromBacklog, Accepted
  <1>3. PICK l \in Listener : Has(backlog[l], k)
    BY DEF InBacklog, Has
  <1>4. Has(backlog'[l], k)
    <2>1. CASE l # h
      BY <2>1, <1>1, <1>2, <1>3
    <2>2. CASE l = h
      <3>1. Has(Tail(b), k)
        BY <2>2, <1>1, <1>2, <1>3, TailList
      <3> QED BY <3>1, <2>2, <1>1, <1>2
    <2> QED BY <2>1, <2>2
  <1> QED BY <1>4 DEF InBacklog, Has

\* Whoever closes the descriptor of a client, or takes it from where it is, is its
\* owner or leaves it to the next one.
LEMMA OpenAreOwnedKept == IInv /\ [Next]_vars => OpenAreOwned'
  <1> SUFFICES ASSUME IInv, [Next]_vars, NEW k \in Client, sock'[k].state = "open"
               PROVE  (InBacklog(k))' \/ \E c \in Conn : conn'[c].client = k
    BY DEF OpenAreOwned
  <1>1. /\ Data /\ waiting \in Seq(Listener) /\ conn \in [Conn -> ConnRec]
        /\ sock \in [Client -> SockRec]
    BY IInvData DEF Data, connTypeOK, kernelTypeOK
  <1>2. sock[k].state = "open" => InBacklog(k) \/ \E c \in Conn : conn[c].client = k
    BY DEF IInv, OpenAreOwned
  <1>3. CASE Plain \/ Polls
    <2>1. /\ sock[k].state = "open" /\ backlog' = backlog
          /\ \A c \in Conn : conn'[c].client = conn[c].client
      BY <1>3 DEF Plain, Polls
    <2> QED BY <2>1, <1>2 DEF InBacklog
  <1>4. ASSUME NEW d \in Conn, Frees(d)
        PROVE  (InBacklog(k))' \/ \E c \in Conn : conn'[c].client = k
    <2>1. /\ sock' = [sock EXCEPT ![conn[d].client] = ClosedSock] /\ backlog' = backlog
          /\ \A c \in Conn : c # d => conn'[c] = conn[c]
      BY <1>4 DEF Frees, removeConnection
    <2>2. conn[d].client # k
      BY <2>1, <1>1 DEF ClosedSock, NewSock
    <2>3. sock'[k] = sock[k]
      BY <2>1, <2>2
    <2> QED BY <2>1, <2>2, <2>3, <1>2 DEF InBacklog
  <1>5. CASE Accepts
    <2> DEFINE h == Head(unused)
    <2>1. h \in Conn /\ ~InUse(h) /\ waiting # <<>> /\ TakeFromBacklog /\ sock' = sock
      BY <1>1, <1>5, TailList DEF Accepts, addConnection, Data, ListsApart
    <2>2. conn' = [conn EXCEPT ![h].client = Accepted, ![h].readCb = TRUE]
      BY <1>5 DEF Accepts, addConnection
    <2>3. conn'[h].client = Accepted /\ \A c \in Conn : c # h => conn'[c] = conn[c]
      BY <2>1, <2>2, <1>1 DEF ConnRec
    <2>4. conn[h].client # k
      BY <2>1, ClientIsSome DEF InUse
    <2>5. CASE k = Accepted
      BY <2>5, <2>1, <2>3
    <2>6. CASE k # Accepted /\ InBacklog(k)
      BY <2>6, <2>1, <1>1, BacklogStays
    <2>7. CASE \E c \in Conn : conn[c].client = k
      BY <2>7, <2>3, <2>4
    <2> QED BY <2>1, <2>5, <2>6, <2>7, <1>2
  <1>6. CASE GoesDeaf
    <2>1. CASE UNCHANGED <<backlog, ready, sock>>
      BY <2>1, <1>2, <1>6 DEF GoesDeaf, InBacklog
    <2>2. CASE sock' = [j \in Client |-> IF InBacklog(j) THEN ClosedSock ELSE sock[j]]
      <3>1. ~InBacklog(k) /\ sock'[k] = sock[k]
        BY <2>2 DEF ClosedSock, NewSock
      <3> QED BY <3>1, <1>2, <1>6 DEF GoesDeaf
    <2> QED BY <2>1, <2>2, <1>6 DEF GoesDeaf, ListenersClose
  <1>7. ASSUME NEW l \in Listener, Connect(l)
        PROVE  (InBacklog(k))' \/ \E c \in Conn : conn'[c].client = k
    <2> DEFINE n == arrived + 1
               b == backlog[l]
    <2>1. /\ backlog' = [backlog EXCEPT ![l] = Append(b, n)] /\ conn' = conn
          /\ sock' = [sock EXCEPT ![n] = NewSock]
      BY <1>7 DEF Connect
    <2>2. /\ backlog \in [Listener -> Seq(Client)] /\ b \in Seq(Client) /\ n \in Client
      BY <1>1, <1>7, BoundsAssumption DEF Connect, Data, kernelTypeOK, Client
    <2> HIDE DEF n
    <2>3. \A y : Has(Append(b, n), y) <=> Has(b, y) \/ y = n
      BY <2>2, AppendList
    <2>4. backlog'[l] = Append(b, n) /\ \A m \in Listener : m # l => backlog'[m] = backlog[m]
      BY <2>1, <2>2
    <2>5. CASE k = n
      BY <2>5, <2>3, <2>4 DEF InBacklog, Has
    <2>6. CASE k # n
      <3>1. sock'[k] = sock[k]
        BY <2>1, <2>6, <1>1
      <3>2. ASSUME InBacklog(k) PROVE (InBacklog(k))'
        <4>1. PICK m \in Listener : Has(backlog[m], k)
          BY <3>2 DEF InBacklog, Has
        <4>2. Has(backlog'[m], k)
          BY <4>1, <2>3, <2>4
        <4> QED BY <4>2 DEF InBacklog, Has
      <3> QED BY <3>1, <3>2, <2>1, <1>2
    <2> QED BY <2>5, <2>6
  <1> QED BY <1>3, <1>4, <1>5, <1>6, <1>7, EveryStepChanges DEF Changes

\* Nothing but the master's removals happens once the pool is destroyed.
LEMMA MasterAloneKept == IInv /\ [Next]_vars => MasterAlone'
  <1> SUFFICES ASSUME IInv, [Next]_vars, mpc' \in {"removing", "destroyed"}
               PROVE  MasterAlone'
    BY DEF MasterAlone
  <1> USE DEF masterVars
  <1>1. CASE mpc \in {"removing", "destroyed"}
    <2>1. /\ tasks = <<>> /\ IdleThreads = Thread /\ (mpc = "destroyed" => used = <<>>)
      BY <1>1 DEF IInv, MasterAlone
    <2>2. \A w \in Thread : wpc[w] = "idle"
      BY <2>1 DEF IdleThreads
    <2>3. ASSUME NEW w \in Thread, ThreadStep(w) PROVE FALSE
      BY <2>1, <2>2, <2>3 DEF ThreadStep, TakeTask, LockConn, TooLate, ReadStage,
         WriteStage,
         CallbackReturns, CallbackCloses, echoRequest, echoWrite, setReadCallback,
         setWriteCallback, LockServer, FinishService
    <2>4. ~(MasterStep \/ shutdown \/ DestroyBegins \/ PoolDestroyed)
      BY <1>1 DEF MasterStep, LockTop, Clock, RemoveVeryOld, AcceptWaiting, AcceptAsserts,
         LoopDone, LookRemoves, LookAccepts, LookDone, EpollWait, LockEvents, ListenerDown,
         ListenerEvent, EventAccepts, EventOfRemoved, EventWithoutCallback, ConnectionEvent,
         FlagEvent, RunTask, Relock, EventEnds, EventsDone, ShutdownLock, shutdown,
         DestroyBegins, PoolDestroyed
    <2>5. DestroyRemoves \/ DestroyEnds \/ ClientStep \/ UNCHANGED vars
      BY <2>3, <2>4, StepsAre DEF OtherStep, destroy
    <2>6. UNCHANGED <<tasks, wpc>>
      BY <2>5, Zenon DEF DestroyRemoves, DestroyEnds, ClientStep, Connect, Send, Drain,
         HangUp,
         vars, workerVars
    <2>7. mpc' = "destroyed" => used' = <<>>
      <3>1. CASE DestroyRemoves
        BY <3>1 DEF DestroyRemoves
      <3>2. CASE DestroyEnds
        BY <3>2 DEF DestroyEnds, listVars
      <3>3. CASE ClientStep \/ UNCHANGED vars
        <4>1. used' = used /\ mpc' = mpc
          BY <3>3, Zenon DEF ClientStep, Connect, Send, Drain, HangUp, vars, listVars
        <4> QED BY <4>1, <2>1
      <3> QED BY <2>5, <3>1, <3>2, <3>3
    <2> QED BY <2>1, <2>6, <2>7 DEF MasterAlone, IdleThreads
  <1>2. CASE mpc \notin {"removing", "destroyed"}
    <2>1. PoolDestroyed
      <3>1. ASSUME NEW w \in Thread, ThreadStep(w) PROVE FALSE
        BY <1>2, <3>1, WorkersMove DEF WorkerMoves
      <3>2. ~(LockTop \/ Clock \/ RemoveVeryOld \/ AcceptWaiting \/ AcceptAsserts \/ LoopDone
              \/ LookRemoves \/ LookAccepts \/ LookDone \/ EpollWait \/ LockEvents
              \/ ListenerDown \/ ListenerEvent \/ EventAccepts \/ EventOfRemoved
              \/ EventWithoutCallback \/ ConnectionEvent \/ FlagEvent \/ RunTask \/ Relock
              \/ EventEnds \/ EventsDone \/ ShutdownLock \/ shutdown \/ DestroyBegins
              \/ DestroyRemoves \/ DestroyEnds)
        BY <1>2 DEF LockTop, Clock, RemoveVeryOld, AcceptWaiting, AcceptAsserts, LookEnds,
           EventDone, LoopDone, LookRemoves, LookAccepts, LookDone, EpollWait, LockEvents,
           ListenerDown, ListenerEvent, EventAccepts, EventOfRemoved, EventWithoutCallback,
           ConnectionEvent, FlagEvent, RunTask, Relock, EventEnds, EventsDone, ShutdownLock,
           shutdown, DestroyBegins, DestroyRemoves, DestroyEnds
      <3>3. ~(ClientStep \/ UNCHANGED vars)
        <4>1. ClientStep \/ UNCHANGED vars => mpc' = mpc
          BY Zenon DEF ClientStep, Connect, Send, Drain, HangUp, vars
        <4> QED BY <4>1, <1>2
      <3> QED BY <3>1, <3>2, <3>3, StepsAre DEF OtherStep, MasterStep, destroy
    <2>2. tasks' = <<>> /\ IdleThreads = Thread /\ wpc' = wpc /\ mpc' = "removing"
      BY <2>1 DEF PoolDestroyed, workerVars
    <2> QED BY <2>2 DEF MasterAlone, IdleThreads
  <1> QED BY <1>1, <1>2

-----------------------------------------------------------------------------
(* The theorems.                                                           *)

LEMMA InitIInv == Init => IInv
  <1> SUFFICES ASSUME Init PROVE IInv
    OBVIOUS
  <1>1. /\ unused \in Seq(Conn) /\ Distinct(unused) /\ \A c \in Conn : Has(unused, c)
    BY SetToSeqList, ListsAssumption DEF Init
  <1>2. conn = [c \in Conn |-> FreeConn(0)] /\ FreeConn(0) \in ConnRec
    BY DEF Init, FreeConn, ConnRec
  <1>3. \A c \in Conn : conn[c].client = NoClient /\ ~conn[c].marked /\ ~InUse(c)
    BY <1>2 DEF FreeConn, InUse
  <1>4. listTypeOK /\ connTypeOK
    BY <1>1, <1>2 DEF Init, listTypeOK, connTypeOK
  <1>5. masterTypeOK
    BY NoTaskType DEF Init, masterTypeOK
  <1>6. workerTypeOK
    BY NoTaskType DEF Init, workerTypeOK
  <1>7. AwaySock \in SockRec
    BY DEF AwaySock, NewSock, SockRec
  <1>8. kernelTypeOK
    BY <1>7, BoundsAssumption DEF Init, kernelTypeOK
  <1>9. ListsApart
    <2>1. Distinct(used) /\ \A c : ~Has(used, c)
      BY DEF Init, Distinct, Has
    <2> QED BY <2>1, <1>1, <1>3 DEF ListsApart
  <1>10. ClientsApart
    <2>1. \A l \in Listener : Len(backlog[l]) = 0
      BY DEF Init
    <2>2. 1 .. 0 = {}
      OBVIOUS
    <2> QED BY <2>1, <2>2, <1>3 DEF ClientsApart
  <1>11. ReadyAreServed
    BY DEF Init, ReadyAreServed, Distinct
  <1>12. \A w \in Thread : wpc[w] = "idle"
    BY DEF Init
  <1>13. MutexesExclude
    BY <1>12 DEF MutexesExclude, Holding, Serving
  <1>14. MasterInStep
    BY DEF Init, MasterInStep
  <1>15. TasksFresh
    BY <1>12 DEF Init, TasksFresh, Serving
  <1>16. OpenAreOwned /\ MasterAlone
    BY DEF Init, OpenAreOwned, AwaySock, NewSock, MasterAlone
  <1> QED BY <1>4, <1>5, <1>6, <1>8, <1>9, <1>10, <1>11, <1>13, <1>14, <1>15, <1>16
          DEF IInv, TypeOK

LEMMA NextIInv == IInv /\ [Next]_vars => IInv'
  <1> SUFFICES ASSUME IInv, [Next]_vars PROVE IInv'
    OBVIOUS
  <1>1. Data' /\ masterTypeOK' /\ waiting' \in Seq(Listener) /\ listening' \in BOOLEAN
        /\ workerTypeOK'
    BY DataKept, MasterTypesKept, WorkerTypesKept
  <1>2. TypeOK' /\ ListsApart' /\ ClientsApart' /\ ReadyAreServed'
    BY <1>1 DEF Data, TypeOK, listTypeOK
  <1> QED BY <1>2, MutexesKept, MasterInStepKept, TasksFreshKept, OpenAreOwnedKept,
             MasterAloneKept DEF IInv

\* The invariant is inductive: for every number of listeners, connection
\* structs, threads, clients and events, with and without the timeouts.
THEOREM Invariance == Spec => []IInv
  BY InitIInv, NextIInv, PTL DEF Spec

\* Every field of the server, its connections and its threads has a value of its type.
THEOREM TypeCorrect == Spec => []TypeOK
  <1>1. IInv => TypeOK
    BY DEF IInv
  <1> QED BY <1>1, Invariance, PTL

\* A connection struct is always in one of the two lists, once, and exactly the
\* used ones have an open descriptor of their own; a mark is of a used one.
THEOREM StructsAreUsedOrUnused == Spec => []UsedOrUnused
  <1>1. ASSUME IInv PROVE UsedOrUnused
    <2>1. ListsApart /\ ClientsApart /\ used \in Seq(Conn) /\ unused \in Seq(Conn)
      BY <1>1 DEF IInv, TypeOK, listTypeOK
    <2>2. ASSUME NEW s \in Seq(Conn), Distinct(s), NEW c, Has(s, c)
          PROVE  Cardinality({i \in 1 .. Len(s) : s[i] = c}) = 1
      <3>1. PICK j \in 1 .. Len(s) : s[j] = c
        BY <2>2 DEF Has
      <3>2. {i \in 1 .. Len(s) : s[i] = c} = {j}
        BY <3>1, <2>2 DEF Distinct
      <3> QED BY <3>2, FS_Singleton
    <2>3. ASSUME NEW s \in Seq(Conn), NEW c, ~Has(s, c)
          PROVE  Cardinality({i \in 1 .. Len(s) : s[i] = c}) = 0
      <3>1. {i \in 1 .. Len(s) : s[i] = c} = {}
        BY <2>3 DEF Has
      <3> QED BY <3>1, FS_EmptySet
    <2>4. ASSUME NEW c \in Conn
          PROVE  Cardinality({i \in 1 .. Len(used) : used[i] = c})
                 + Cardinality({i \in 1 .. Len(unused) : unused[i] = c}) = 1
      <3>1. CASE InUse(c)
        <4>1. /\ Cardinality({i \in 1 .. Len(used) : used[i] = c}) = 1
              /\ Cardinality({i \in 1 .. Len(unused) : unused[i] = c}) = 0
          BY <3>1, <2>1, <2>2, <2>3 DEF ListsApart
        <4> QED BY <4>1
      <3>2. CASE ~InUse(c)
        <4>1. /\ Cardinality({i \in 1 .. Len(used) : used[i] = c}) = 0
              /\ Cardinality({i \in 1 .. Len(unused) : unused[i] = c}) = 1
          BY <3>2, <2>1, <2>2, <2>3 DEF ListsApart
        <4> QED BY <4>1
      <3> QED BY <3>1, <3>2
    <2> QED BY <2>1, <2>4 DEF UsedOrUnused, ListsApart, ClientsApart
  <1> QED BY <1>1, Invariance, PTL

\* The callbacks run on the connection their task was made for, one thread at a
\* time, whatever is removed and accepted in the meantime.
THEOREM CallbacksAreSafe == Spec => []CallbacksOnTheirConnection
  <1>1. ASSUME IInv PROVE CallbacksOnTheirConnection
    <2> SUFFICES ASSUME NEW w \in Thread, wpc[w] \in Serving
                 PROVE  /\ InUse(task[w].conn)
                        /\ conn[task[w].conn].changeCount = task[w].count
                        /\ \A v \in Thread \ {w} :
                              wpc[v] \in Serving => task[v].conn # task[w].conn
      BY DEF CallbacksOnTheirConnection
    <2>1. wpc[w] # "idle" /\ Serving \subseteq Holding
      BY DEF Serving, Holding
    <2> QED BY <1>1, <2>1 DEF IInv, TasksFresh, Fresh, MutexesExclude
  <1> QED BY <1>1, Invariance, PTL

\* No descriptor of a client is lost, and poServer_destroy() removes connections
\* when no thread is at one, until none is left.
THEOREM DescriptorsAreOwned == Spec => []NoDescriptorLost
  <1>1. ASSUME IInv PROVE NoDescriptorLost
    <2>1. OpenAreOwned /\ MasterAlone /\ ListsApart
      BY <1>1 DEF IInv
    <2>2. ASSUME NEW c \in Conn, mpc = "removing" PROVE ~Locked(c) /\ ~OnItsWay(c)
      <3>1. tasks = <<>> /\ \A w \in Thread : wpc[w] = "idle"
        BY <2>1, <2>2 DEF MasterAlone, IdleThreads
      <3>2. ~Locked(c)
        BY <3>1 DEF Locked, Serving
      <3>3. ~OnItsWay(c)
        BY <2>2, <3>1 DEF OnItsWay, Has
      <3> QED BY <3>2, <3>3
    <2>3. ASSUME NEW k \in Client, mpc = "destroyed", sock[k].state = "open"
          PROVE  InBacklog(k)
      <3>1. \A c \in Conn : ~InUse(c)
        BY <2>1, <2>3 DEF MasterAlone, ListsApart, Has
      <3> QED BY <2>1, <2>3, <3>1, ClientIsSome DEF OpenAreOwned, InUse
    <2> QED BY <2>1, <2>2, <2>3 DEF NoDescriptorLost, OpenAreOwned
  <1> QED BY <1>1, Invariance, PTL
=============================================================================
