-------------------------- MODULE CollectionLemmas --------------------------
(***************************************************************************)
(* Facts about the community operators Min, SelectInSeq, RemoveAt, Reverse *)
(* and the folds, about counting and selecting in sequences and about      *)
(* recursive definitions on the naturals, that the proofs of this project  *)
(* rest on.                                                                *)
(***************************************************************************)
EXTENDS SequencesExt, FiniteSetTheorems, FunctionTheorems, SequenceTheorems, TLAPS

\* A non-empty set of naturals has a least element, which Min returns.  The
\* intervals 0 .. x are ordered by inclusion as their upper bounds are by <.
LEMMA MinOfNaturals ==
    ASSUME NEW S \in SUBSET Nat, S # {}
    PROVE  Min(S) \in S /\ \A y \in S : Min(S) <= y
<1> DEFINE T == {0 .. x : x \in S}
           R == StrictSubsetOrdering(Nat)
<1>1. \A x \in Nat : IsFiniteSet(0 .. x)
  BY FS_Interval
<1>2. T \subseteq FiniteSubsetsOf(Nat)
  BY <1>1 DEF FiniteSubsetsOf
<1>3. T # {}
  OBVIOUS
<1>4. IsWellFoundedOn(R, FiniteSubsetsOf(Nat))
  BY FS_StrictSubsetOrderingWellFounded
<1> HIDE DEF T, R
<1>5. PICK t \in T : \A u \in T : ~(<<u, t>> \in R)
  BY <1>2, <1>3, <1>4, WFMin, Zenon
<1>6. PICK x \in S : t = 0 .. x
  BY <1>5 DEF T
<1>7. ASSUME NEW y \in S, y < x PROVE FALSE
  <2>1. 0 .. y \in T /\ 0 .. y \in SUBSET Nat /\ t \in SUBSET Nat
    BY <1>6 DEF T
  <2>2. 0 .. y \subseteq t
    BY <1>6, <1>7
  <2>3. x \in t /\ x \notin 0 .. y
    BY <1>6, <1>7
  <2>4. <<0 .. y, t>> \in R
    BY <2>1, <2>2, <2>3 DEF R, StrictSubsetOrdering
  <2>5. QED BY <1>5, <2>1, <2>4
<1>8. \E z \in S : \A y \in S : z <= y
  BY <1>7
<1>9. QED
  BY <1>8 DEF Min

\* SelectInSeq returns the position of the first match, or 0.
LEMMA FirstMatch ==
    ASSUME NEW S, NEW s \in Seq(S), NEW I \in SUBSET (1 .. Len(s)),
           NEW k, k = IF I # {} THEN Min(I) ELSE 0
    PROVE  /\ k = 0 <=> I = {}
           /\ k # 0 => k \in I /\ \A j \in I : k <= j
<1>1. I \in SUBSET Nat
  BY LenProperties
<1>2. I # {} => Min(I) \in I /\ \A j \in I : Min(I) <= j
  BY <1>1, MinOfNaturals
<1>3. 0 \notin I
  BY LenProperties
<1>4. CASE I = {}
  BY <1>4
<1>5. CASE I # {}
  BY <1>2, <1>3, <1>5
<1>6. QED
  BY <1>4, <1>5

\* RemoveAt closes the gap and leaves everything else in order.
LEMMA RemoveAtProperties ==
    ASSUME NEW S, NEW s \in Seq(S), NEW i \in 1 .. Len(s)
    PROVE  /\ RemoveAt(s, i) \in Seq(S)
           /\ Len(RemoveAt(s, i)) = Len(s) - 1
           /\ \A j \in 1 .. i - 1 : RemoveAt(s, i)[j] = s[j]
           /\ \A j \in i .. Len(s) - 1 : RemoveAt(s, i)[j] = s[j + 1]
<1> DEFINE a == SubSeq(s, 1, i - 1)
           b == SubSeq(s, i + 1, Len(s))
<1>1. Len(s) \in Nat
  BY LenProperties
<1>2. a \in Seq(S) /\ Len(a) = i - 1 /\ \A j \in 1 .. i - 1 : a[j] = s[j]
  BY <1>1, SubSeqProperties
<1>3. b \in Seq(S) /\ Len(b) = Len(s) - i /\ \A j \in 1 .. Len(s) - i : b[j] = s[i + j]
  BY <1>1, SubSeqProperties
<1> HIDE DEF a, b
<1>4. /\ a \o b \in Seq(S) /\ Len(a \o b) = Len(a) + Len(b)
      /\ \A j \in 1 .. Len(a) + Len(b) :
            (a \o b)[j] = IF j <= Len(a) THEN a[j] ELSE b[j - Len(a)]
  BY <1>2, <1>3, ConcatProperties
<1>5. RemoveAt(s, i) = a \o b
  BY DEF RemoveAt, a, b
<1>6. Len(a) + Len(b) = Len(s) - 1
  BY <1>1, <1>2, <1>3
<1>7. ASSUME NEW j \in 1 .. i - 1 PROVE (a \o b)[j] = s[j]
  BY <1>1, <1>2, <1>4, <1>6
<1>8. ASSUME NEW j \in i .. Len(s) - 1 PROVE (a \o b)[j] = s[j + 1]
  <2>1. j - Len(a) \in 1 .. Len(s) - i /\ ~(j <= Len(a)) /\ i + (j - Len(a)) = j + 1
    BY <1>1, <1>2
  <2>2. (a \o b)[j] = b[j - Len(a)]
    BY <1>1, <1>4, <1>6, <2>1
  <2>3. QED BY <1>3, <2>1, <2>2
<1>9. QED
  BY <1>4, <1>5, <1>6, <1>7, <1>8

\* How many places of a sequence hold a member of V.
Occurrences(s, V) == Cardinality({i \in DOMAIN s : s[i] \in V})

\* There are finitely many of them.
LEMMA OccurrencesAreNatural ==
    ASSUME NEW S, NEW s \in Seq(S), NEW V
    PROVE  /\ Occurrences(s, V) \in Nat
           /\ IsFiniteSet({i \in DOMAIN s : s[i] \in V})
<1>1. {i \in DOMAIN s : s[i] \in V} \in SUBSET (1 .. Len(s))
  BY LenProperties
<1>2. IsFiniteSet(1 .. Len(s))
  BY FS_Interval, LenProperties
<1>3. IsFiniteSet({i \in DOMAIN s : s[i] \in V})
  BY <1>1, <1>2, FS_Subset
<1>4. QED
  BY <1>3, FS_CardinalityType DEF Occurrences

\* A value at the end is counted.
LEMMA OccurrencesAfterAppend ==
    ASSUME NEW S, NEW s \in Seq(S), NEW x \in S, NEW V
    PROVE  Occurrences(Append(s, x), V) = Occurrences(s, V) + IF x \in V THEN 1 ELSE 0
<1> DEFINE I == {i \in DOMAIN s : s[i] \in V}
           n == Len(s) + 1
           J == {i \in DOMAIN Append(s, x) : Append(s, x)[i] \in V}
<1>1. /\ Len(s) \in Nat /\ DOMAIN s = 1 .. Len(s)
      /\ DOMAIN Append(s, x) = 1 .. n
      /\ \A i \in 1 .. Len(s) : Append(s, x)[i] = s[i]
      /\ Append(s, x)[n] = x
  BY AppendProperties, LenProperties
<1>2. IsFiniteSet(I) /\ Cardinality(I) \in Nat
  BY OccurrencesAreNatural DEF Occurrences
<1>3. n \notin I
  BY <1>1
<1>4. J = IF x \in V THEN I \cup {n} ELSE I
  BY <1>1
<1> HIDE DEF I, J, n
<1>5. Cardinality(I \cup {n}) = Cardinality(I) + 1
  BY <1>2, <1>3, FS_AddElement
<1>6. Cardinality(J) = Cardinality(I) + IF x \in V THEN 1 ELSE 0
  BY <1>2, <1>4, <1>5
<1>7. QED
  BY <1>6 DEF Occurrences, I, J

\* The first value is no longer counted.
LEMMA OccurrencesAfterTail ==
    ASSUME NEW S, NEW s \in Seq(S), s # <<>>, NEW V
    PROVE  Occurrences(Tail(s), V) = Occurrences(s, V) - IF Head(s) \in V THEN 1 ELSE 0
<1> DEFINE I == {i \in DOMAIN s : s[i] \in V}
           J == {i \in DOMAIN Tail(s) : Tail(s)[i] \in V}
           f == [j \in J |-> j + 1]
<1>1. /\ Len(s) \in Nat \ {0} /\ DOMAIN s = 1 .. Len(s)
      /\ DOMAIN Tail(s) = 1 .. Len(s) - 1
      /\ \A i \in 1 .. Len(s) - 1 : Tail(s)[i] = s[i + 1]
      /\ Head(s) = s[1]
  <2>1. Len(s) \in Nat /\ DOMAIN s = 1 .. Len(s) /\ Len(s) # 0
    BY LenProperties, EmptySeq
  <2>2. /\ Tail(s) \in Seq(S) /\ Len(Tail(s)) = Len(s) - 1
        /\ \A i \in 1 .. Len(Tail(s)) : Tail(s)[i] = s[i + 1]
    BY HeadTailProperties
  <2>3. DOMAIN Tail(s) = 1 .. Len(Tail(s))
    BY <2>2, LenProperties
  <2>4. QED BY <2>1, <2>2, <2>3
<1>2. IsFiniteSet(I) /\ Cardinality(I) \in Nat
  BY OccurrencesAreNatural DEF Occurrences
<1>3. 1 \in I <=> Head(s) \in V
  BY <1>1
<1>4. \A j \in J : j \in Nat /\ j + 1 \in I \ {1}
  BY <1>1
<1>5. \A i \in I \ {1} : i - 1 \in J /\ i \in Nat
  BY <1>1
<1> HIDE DEF I, J
<1>6. f \in [J -> I \ {1}]
  BY <1>4
<1>7. \A a, b \in J : f[a] = f[b] => a = b
  BY <1>4
<1>8. \A t \in I \ {1} : \E j \in J : f[j] = t
  <2>1. ASSUME NEW t \in I \ {1} PROVE f[t - 1] = t /\ t - 1 \in J
    BY <1>5
  <2>2. QED BY <2>1
<1> HIDE DEF f
<1>9. f \in Bijection(J, I \ {1})
  BY <1>6, <1>7, <1>8, Fun_IsBij
<1>10. f \in Injection(J, I \ {1}) /\ f \in Surjection(J, I \ {1})
  BY <1>9, Fun_BijectionProperties
<1>11. IsFiniteSet(I \ {1}) /\ Cardinality(I \ {1}) = IF 1 \in I THEN Cardinality(I) - 1 ELSE Cardinality(I)
  BY <1>2, FS_RemoveElement
<1>12. Cardinality(J) = Cardinality(I \ {1})
  BY <1>10, <1>11, FS_Injection
<1>13. Cardinality(J) = Cardinality(I) - IF Head(s) \in V THEN 1 ELSE 0
  BY <1>2, <1>3, <1>11, <1>12
<1>14. QED
  BY <1>13 DEF Occurrences, I, J

\* A place that holds a member of V is counted.
LEMMA OccurrencesOfMember ==
    ASSUME NEW S, NEW s \in Seq(S), NEW V, NEW i \in DOMAIN s, s[i] \in V
    PROVE  Occurrences(s, V) >= 1
<1>1. IsFiniteSet({j \in DOMAIN s : s[j] \in V}) /\ Occurrences(s, V) \in Nat
  BY OccurrencesAreNatural
<1>2. i \in {j \in DOMAIN s : s[j] \in V}
  OBVIOUS
<1> HIDE DEF Occurrences
<1>3. Occurrences(s, V) # 0
  BY <1>1, <1>2, FS_EmptySet DEF Occurrences
<1>4. QED
  BY <1>1, <1>3

\* Whatever holds of 0 and of the successors of what it holds of holds of all naturals.
LEMMA Induction ==
    ASSUME NEW S, 0 \in S, \A n \in Nat : n \in S => n + 1 \in S
    PROVE  Nat \subseteq S
<1> DEFINE T == Nat \ S
           m == Min(T)
<1> SUFFICES ASSUME T # {} PROVE FALSE
  OBVIOUS
<1>1. m \in T /\ \A y \in T : m <= y
  BY MinOfNaturals
<1> HIDE DEF m
<1>2. m # 0 /\ m \in Nat
  BY <1>1
<1>3. m - 1 \in Nat /\ m - 1 \in S
  BY <1>1, <1>2
<1>4. m \in S
  BY <1>2, <1>3
<1>5. QED
  BY <1>1, <1>4

\* f is defined on the naturals by its value at 0 and by what G makes of one
\* value for the next.
Unrolls(f, X, x, G) ==
    /\ f \in [Nat -> X]
    /\ f[0] = x
    /\ \A n \in Nat : f[n + 1] = G[n + 1][f[n]]

\* There is such a function: a recursive definition defines something.
LEMMA RecursionOnNat ==
    ASSUME NEW X, NEW x \in X, NEW G \in [Nat -> [X -> X]]
    PROVE  \E f : Unrolls(f, X, x, G)
<1> DEFINE Upto(n) == {h \in [0 .. n -> X] : /\ h[0] = x
                                             /\ \A k \in Nat : k < n => h[k + 1] = G[k + 1][h[k]]}
           S == {n \in Nat : Upto(n) # {}}
<1>1. 0 \in S
  <2>1. [k \in 0 .. 0 |-> x] \in Upto(0)
    OBVIOUS
  <2>2. QED BY <2>1
<1>2. ASSUME NEW n \in Nat, n \in S PROVE n + 1 \in S
  <2>1. PICK h \in Upto(n) : TRUE
    BY <1>2
  <2> DEFINE y == G[n + 1][h[n]]
             e == [k \in 0 .. n + 1 |-> IF k = n + 1 THEN y ELSE h[k]]
  <2>2. h[n] \in X /\ y \in X
    <3>1. h \in [0 .. n -> X] /\ n \in 0 .. n
      BY <2>1
    <3>2. h[n] \in X
      BY <3>1
    <3>3. n + 1 \in Nat /\ G[n + 1] \in [X -> X]
      BY <3>2
    <3>4. QED BY <3>2, <3>3
  <2> HIDE DEF y
  <2>3. e \in [0 .. n + 1 -> X] /\ e[0] = x
    BY <2>1, <2>2
  <2>4. ASSUME NEW k \in Nat, k < n + 1 PROVE e[k + 1] = G[k + 1][e[k]]
    <3>1. CASE k = n
      <4>1. e[k + 1] = y /\ e[k] = h[n]
        BY <3>1
      <4>2. QED BY <3>1, <4>1 DEF y
    <3>2. CASE k < n
      <4>1. e[k + 1] = h[k + 1] /\ e[k] = h[k]
        BY <3>2
      <4>2. h[k + 1] = G[k + 1][h[k]]
        BY <2>1, <3>2
      <4>3. QED BY <4>1, <4>2
    <3>3. QED BY <2>4, <3>1, <3>2
  <2>5. e \in Upto(n + 1)
    BY <2>3, <2>4
  <2> HIDE DEF Upto, e
  <2>6. QED BY <2>5
<1>3. \A n \in Nat : Upto(n) # {}
  BY <1>1, <1>2, Induction
<1> DEFINE pick == [n \in Nat |-> CHOOSE h \in Upto(n) : TRUE]
           f == [n \in Nat |-> pick[n][n]]
<1>4. \A n \in Nat : pick[n] \in Upto(n)
  BY <1>3
<1>5. \A n \in Nat : pick[n] \in [0 .. n -> X] /\ pick[n][0] = x /\ \A k \in Nat : k < n => pick[n][k + 1] = G[k + 1][pick[n][k]]
  BY <1>4
<1> HIDE DEF pick, Upto, S
<1>6. ASSUME NEW n \in Nat PROVE \A k \in 0 .. n : pick[n + 1][k] = pick[n][k]
  <2> DEFINE A == {k \in Nat : k <= n => pick[n + 1][k] = pick[n][k]}
  <2>1. 0 \in A
    BY <1>5
  <2>2. ASSUME NEW k \in Nat, k \in A PROVE k + 1 \in A
    <3> SUFFICES ASSUME k + 1 <= n PROVE pick[n + 1][k + 1] = pick[n][k + 1]
      OBVIOUS
    <3>1. pick[n + 1][k] = pick[n][k]
      BY <2>2
    <3>2. pick[n + 1][k + 1] = G[k + 1][pick[n + 1][k]]
      BY <1>5
    <3>3. pick[n][k + 1] = G[k + 1][pick[n][k]]
      BY <1>5
    <3>4. QED BY <3>1, <3>2, <3>3
  <2> HIDE DEF A
  <2>3. Nat \subseteq A
    BY <2>1, <2>2, Induction
  <2>4. QED BY <2>3 DEF A
<1>7. f \in [Nat -> X]
  BY <1>5
<1>8. f[0] = x
  BY <1>5
<1>9. ASSUME NEW n \in Nat PROVE f[n + 1] = G[n + 1][f[n]]
  <2>1. f[n + 1] = pick[n + 1][n + 1] /\ f[n] = pick[n][n]
    OBVIOUS
  <2>2. pick[n + 1][n] = pick[n][n]
    BY <1>6
  <2>3. pick[n + 1][n + 1] = G[n + 1][pick[n + 1][n]]
    BY <1>5
  <2>4. QED BY <2>1, <2>2, <2>3
<1> HIDE DEF f
<1>10. QED
  BY <1>7, <1>8, <1>9 DEF Unrolls

\* Keeping n places of a sequence: r holds, in their order, the members of
\* the first n places of s that are not gone.
Selected(s, gone, n, r) ==
    \E h \in [1 .. Len(r) -> 1 .. n] :
        /\ \A a, b \in 1 .. Len(r) : a < b => h[a] < h[b]
        /\ \A a \in 1 .. Len(r) : r[a] = s[h[a]] /\ s[h[a]] \notin gone
        /\ \A i \in 1 .. n : s[i] \notin gone => \E a \in 1 .. Len(r) : h[a] = i

\* One place more is kept or left out.
LEMMA SelectNext ==
    ASSUME NEW S, NEW s \in Seq(S), NEW gone, NEW n \in Nat, n < Len(s),
           NEW r \in Seq(S), Selected(s, gone, n, r)
    PROVE  IF s[n + 1] \in gone THEN Selected(s, gone, n + 1, r)
           ELSE Selected(s, gone, n + 1, Append(r, s[n + 1]))
<1>1. PICK h \in [1 .. Len(r) -> 1 .. n] :
        /\ \A a, b \in 1 .. Len(r) : a < b => h[a] < h[b]
        /\ \A a \in 1 .. Len(r) : r[a] = s[h[a]] /\ s[h[a]] \notin gone
        /\ \A i \in 1 .. n : s[i] \notin gone => \E a \in 1 .. Len(r) : h[a] = i
  BY DEF Selected
<1>2. \A a \in 1 .. Len(r) : h[a] \in 1 .. n
  BY <1>1
<1>3. \A i \in 1 .. n + 1 : i \in 1 .. n \/ i = n + 1
  OBVIOUS
<1>4. CASE s[n + 1] \in gone
  <2>1. h \in [1 .. Len(r) -> 1 .. n + 1]
    BY <1>2
  <2>2. \A i \in 1 .. n + 1 : s[i] \notin gone => \E a \in 1 .. Len(r) : h[a] = i
    BY <1>1, <1>3, <1>4
  <2>3. QED BY <1>1, <1>4, <2>1, <2>2 DEF Selected
<1>5. CASE s[n + 1] \notin gone
  <2> DEFINE t == Append(r, s[n + 1])
             m == Len(t)
             k == [a \in 1 .. m |-> IF a = m THEN n + 1 ELSE h[a]]
  <2>1. s[n + 1] \in S /\ Len(r) \in Nat
    BY LenProperties, ElementOfSeq
  <2>2. m = Len(r) + 1 /\ t[m] = s[n + 1] /\ \A a \in 1 .. Len(r) : t[a] = r[a]
    BY <2>1, AppendProperties
  <2> HIDE DEF t, m
  <2>3. \A a \in 1 .. m : a = m \/ a \in 1 .. Len(r)
    BY <2>1, <2>2
  <2>4. k[m] = n + 1 /\ \A a \in 1 .. Len(r) : k[a] = h[a] /\ a < m
    BY <2>1, <2>2
  <2>5. k \in [1 .. m -> 1 .. n + 1]
    BY <1>2, <2>3, <2>4
  <2> HIDE DEF k
  <2>6. ASSUME NEW a \in 1 .. m, NEW b \in 1 .. m, a < b PROVE k[a] < k[b]
    <3>1. a \in 1 .. Len(r)
      BY <2>1, <2>2, <2>3, <2>6
    <3>2. CASE b = m
      BY <1>2, <2>4, <3>1, <3>2
    <3>3. CASE b \in 1 .. Len(r)
      BY <1>1, <2>4, <2>6, <3>1, <3>3
    <3>4. QED BY <2>3, <3>2, <3>3
  <2>7. ASSUME NEW a \in 1 .. m PROVE t[a] = s[k[a]] /\ s[k[a]] \notin gone
    <3>1. CASE a = m
      BY <1>5, <2>2, <2>4, <3>1
    <3>2. CASE a \in 1 .. Len(r)
      BY <1>1, <2>2, <2>4, <3>2
    <3>3. QED BY <2>3, <3>1, <3>2
  <2>8. m \in 1 .. m /\ \A a \in 1 .. Len(r) : a \in 1 .. m
    BY <2>1, <2>2
  <2>9. ASSUME NEW i \in 1 .. n + 1, s[i] \notin gone PROVE \E a \in 1 .. m : k[a] = i
    <3>1. CASE i = n + 1
      BY <2>4, <2>8, <3>1
    <3>2. CASE i \in 1 .. n
      BY <1>1, <2>4, <2>8, <2>9, <3>2
    <3>3. QED BY <1>3, <3>1, <3>2
  <2>10. Selected(s, gone, n + 1, t)
    BY <2>5, <2>6, <2>7, <2>9 DEF Selected, m
  <2>11. QED BY <1>5, <2>10 DEF t
<1>6. QED BY <1>4, <1>5

\* A non-empty set of positions has a greatest one, which Max returns.
LEMMA MaxOfPositions ==
    ASSUME NEW n \in Nat, NEW T \in SUBSET (1 .. n), T # {}
    PROVE  Max(T) \in T /\ \A y \in T : y <= Max(T)
<1> DEFINE U == {k \in Nat : \A y \in T : y <= k}
           m == Min(U)
<1>1. n \in U
  OBVIOUS
<1>2. m \in U /\ \A k \in U : m <= k
  <2>1. U \in SUBSET Nat /\ U # {}
    BY <1>1
  <2> HIDE DEF U
  <2>2. QED BY <2>1, MinOfNaturals
<1> HIDE DEF m
<1>3. m \in Nat /\ \A y \in T : y <= m
  BY <1>2
<1>4. m \in T
  <2> SUFFICES ASSUME m \notin T PROVE FALSE
    OBVIOUS
  <2>1. PICK y \in T : TRUE
    OBVIOUS
  <2>2. m # 0
    BY <1>3, <2>1
  <2>3. m - 1 \in Nat /\ \A z \in T : z <= m - 1
    BY <1>3, <2>2
  <2>4. m - 1 \in U
    BY <2>3
  <2> HIDE DEF U
  <2>5. QED BY <1>2, <1>3, <2>4
<1>5. \E x \in T : \A y \in T : x >= y
  BY <1>3, <1>4
<1>6. QED
  BY <1>5 DEF Max

\* g is a function on the sets of the first n positions.
OnPositions(g, n) == DOMAIN g = SUBSET (1 .. n) /\ g = [t \in DOMAIN g |-> g[t]]

\* g and h agree on a set if they agree on the set without its greatest member.
AgreeFromBelow(g, h, n) ==
    /\ g[{}] = h[{}]
    /\ \A t \in SUBSET (1 .. n) :
           t # {} /\ g[t \ {Max(t)}] = h[t \ {Max(t)}] => g[t] = h[t]

\* A function on sets of positions that is given at the empty set, and at other
\* sets by its value without their greatest member, is the only such function.
LEMMA OneFold ==
    ASSUME NEW n \in Nat, NEW g, NEW h, OnPositions(g, n), OnPositions(h, n), AgreeFromBelow(g, h, n)
    PROVE  g = h
<1> DEFINE A == {k \in Nat : \A t \in SUBSET (1 .. n) : t \subseteq 1 .. k => g[t] = h[t]}
<1>1. 0 \in A
  <2>1. \A t : t \subseteq 1 .. 0 => t = {}
    OBVIOUS
  <2>2. QED BY <2>1 DEF AgreeFromBelow
<1> HIDE DEF A
<1>2. ASSUME NEW k \in Nat, k \in A PROVE k + 1 \in A
  <2>0. \A t \in SUBSET (1 .. n) : t \subseteq 1 .. k => g[t] = h[t]
    BY <1>2 DEF A
  <2> SUFFICES ASSUME NEW t \in SUBSET (1 .. n), t \subseteq 1 .. k + 1
               PROVE  g[t] = h[t]
    BY DEF A
  <2> SUFFICES ASSUME t # {} PROVE g[t] = h[t]
    BY DEF AgreeFromBelow
  <2>1. Max(t) \in t /\ \A y \in t : y <= Max(t)
    BY MaxOfPositions
  <2>2. t \ {Max(t)} \subseteq 1 .. k /\ t \ {Max(t)} \in SUBSET (1 .. n)
    <3> DEFINE m == Max(t)
    <3>1. m \in t /\ \A y \in t : y <= m
      BY <2>1
    <3> HIDE DEF m
    <3>2. \A y \in t : y \in 1 .. k + 1 /\ y \in 1 .. n
      OBVIOUS
    <3>3. \A y \in t \ {m} : y \in 1 .. k
      BY <3>1, <3>2
    <3>4. QED BY <3>3 DEF m
  <2>3. g[t \ {Max(t)}] = h[t \ {Max(t)}]
    BY <2>0, <2>2
  <2>4. QED BY <2>3 DEF AgreeFromBelow
<1>3. n \in A
  BY <1>1, <1>2, Induction
<1>4. \A t \in SUBSET (1 .. n) : g[t] = h[t]
  BY <1>3 DEF A
<1>5. QED
  BY <1>4 DEF OnPositions

\* FoldLeft with a function for its operator.
Folded(step, base, s) == FoldLeft(LAMBDA x, y : step[x][y], base, s)

\* What FoldLeft is defined to look for.
Iterates(g, step, base, s) ==
    g = [t \in SUBSET DOMAIN s |->
            IF t = {} THEN base ELSE step[g[t \ {Max(t)}]][s[Max(t)]]]

\* A function of what is done by the values of a step.
Steps(A, B) == [A -> [B -> A]]

\* The function FoldLeft looks for, with its type.
FoldOf(g, A, step, base, s) == g \in [SUBSET DOMAIN s -> A] /\ Iterates(g, step, base, s)

\* There is such a function.
LEMMA FoldExists ==
    ASSUME NEW A, NEW B, NEW step \in [A -> [B -> A]], NEW base \in A, NEW s \in Seq(B)
    PROVE  \E g : FoldOf(g, A, step, base, s)
<1> DEFINE N == Len(s)
           X == [SUBSET (1 .. N) -> A]
           x == [t \in SUBSET (1 .. N) |-> base]
           G == [n \in Nat |-> [h \in X |->
                   [t \in SUBSET (1 .. N) |->
                      IF n \in t THEN step[h[t \ {n}]][s[n]] ELSE h[t]]]]
<1>1. N \in Nat /\ DOMAIN s = 1 .. N /\ \A i \in 1 .. N : s[i] \in B
  BY LenProperties, ElementOfSeq
<1> HIDE DEF N
<1>2. X = [SUBSET (1 .. N) -> A] /\ x \in X
  OBVIOUS
<1> HIDE DEF X
<1>3. ASSUME NEW n \in Nat, NEW h \in X
      PROVE  [t \in SUBSET (1 .. N) |-> IF n \in t THEN step[h[t \ {n}]][s[n]] ELSE h[t]] \in X
  <2>1. ASSUME NEW t \in SUBSET (1 .. N), n \in t
        PROVE  step[h[t \ {n}]][s[n]] \in A
    <3>1. h[t \ {n}] \in A /\ s[n] \in B
      BY <1>1, <1>2, <2>1
    <3>2. QED BY <3>1
  <2>2. QED BY <1>2, <2>1
<1>4. G \in [Nat -> [X -> X]]
  BY <1>3
<1> DEFINE V(n, h, t) == IF n \in t THEN step[h[t \ {n}]][s[n]] ELSE h[t]
<1>5. \A n \in Nat : \A h \in X : \A t \in SUBSET (1 .. N) : G[n][h][t] = V(n, h, t)
  <2> TAKE n \in Nat
  <2> TAKE h \in X
  <2> TAKE t \in SUBSET (1 .. N)
  <2> DEFINE r == [u \in SUBSET (1 .. N) |-> IF n \in u THEN step[h[u \ {n}]][s[n]] ELSE h[u]]
  <2>1. G[n][h] = r
    OBVIOUS
  <2>2. r[t] = IF n \in t THEN step[h[t \ {n}]][s[n]] ELSE h[t]
    OBVIOUS
  <2> HIDE DEF G, r
  <2>3. QED BY <2>1, <2>2
<1> HIDE DEF G
<1>6. PICK f : Unrolls(f, X, x, G)
  BY <1>2, <1>4, RecursionOnNat
<1>7. /\ \A n \in Nat : f[n] \in X
      /\ \A t \in SUBSET (1 .. N) : f[0][t] = base
      /\ \A n \in Nat, t \in SUBSET (1 .. N) :
            f[n + 1][t] = IF n + 1 \in t THEN step[f[n][t \ {n + 1}]][s[n + 1]] ELSE f[n][t]
  <2>1. /\ \A n \in Nat : f[n] \in X
        /\ f[0] = x
        /\ \A n \in Nat : f[n + 1] = G[n + 1][f[n]]
    BY <1>6 DEF Unrolls
  <2>2. ASSUME NEW n \in Nat, NEW t \in SUBSET (1 .. N)
        PROVE  f[n + 1][t] = IF n + 1 \in t THEN step[f[n][t \ {n + 1}]][s[n + 1]] ELSE f[n][t]
    <3> DEFINE i == n + 1
               h == f[n]
    <3>0. n + 1 \in Nat
      OBVIOUS
    <3>1. i \in Nat /\ h \in X /\ f[i] = G[i][h]
      BY <2>1, <3>0, Zenon
    <3> HIDE DEF i, h
    <3>2. G[i][h][t] = IF i \in t THEN step[h[t \ {i}]][s[i]] ELSE h[t]
      <4>1. G[i][h][t] = V(i, h, t)
        <5>1. i \in Nat /\ h \in X
          BY <3>1
        <5> HIDE DEF V
        <5>2. QED BY <1>5, <5>1
      <4>2. QED BY <4>1
    <3>3. f[i][t] = IF i \in t THEN step[h[t \ {i}]][s[i]] ELSE h[t]
      BY <3>1, <3>2, Zenon
    <3>4. QED BY <3>3, Zenon DEF i, h
  <2>3. QED BY <2>1, <2>2
<1> HIDE DEF x
\* What the last round says of a set, the round of its greatest member says.
<1> DEFINE S == {n \in Nat : \A k \in Nat, t \in SUBSET (1 .. N) :
                               t \subseteq 1 .. k /\ k <= n => f[n][t] = f[k][t]}
<1>8. 0 \in S
  <2>1. \A k \in Nat : k <= 0 => k = 0
    OBVIOUS
  <2>2. QED BY <2>1
<1>9. ASSUME NEW n \in Nat, n \in S PROVE n + 1 \in S
  <2> SUFFICES \A k \in Nat, t \in SUBSET (1 .. N) :
                  t \subseteq 1 .. k /\ k <= n + 1 => f[n + 1][t] = f[k][t]
    <3>1. n + 1 \in Nat
      OBVIOUS
    <3>2. QED BY <3>1, Zenon
  <2> TAKE k \in Nat, t \in SUBSET (1 .. N)
  <2> HAVE t \subseteq 1 .. k /\ k <= n + 1
  <2>1. CASE k = n + 1
    BY <2>1
  <2>2. CASE k <= n
    <3>1. n + 1 \notin t
      BY <2>2
    <3>2. f[n + 1][t] = f[n][t]
      BY <1>7, <3>1
    <3>3. f[n][t] = f[k][t]
      BY <1>9, <2>2
    <3>4. QED BY <3>2, <3>3
  <2>3. QED BY <2>1, <2>2
<1> HIDE DEF S
<1>10. N \in S
  BY <1>1, <1>8, <1>9, Induction
<1>11. \A k \in Nat, t \in SUBSET (1 .. N) : t \subseteq 1 .. k /\ k <= N => f[N][t] = f[k][t]
  BY <1>10 DEF S
<1> DEFINE g == f[N]
<1>12. g \in [SUBSET (1 .. N) -> A]
  BY <1>1, <1>2, <1>7
<1>13. g[{}] = base
  <2>1. {} \in SUBSET (1 .. N) /\ {} \subseteq 1 .. 0 /\ 0 \in Nat /\ 0 <= N
    BY <1>1
  <2>2. f[N][{}] = f[0][{}]
    BY <1>11, <2>1
  <2>3. QED BY <1>7, <2>2
<1>14. ASSUME NEW t \in SUBSET (1 .. N), t # {}
       PROVE  g[t] = step[g[t \ {Max(t)}]][s[Max(t)]]
  <2>1. Max(t) \in t /\ \A y \in t : y <= Max(t)
    BY <1>1, <1>14, MaxOfPositions
  <2> DEFINE m == Max(t)
             k == m - 1
  <2>2. /\ k \in Nat /\ m = k + 1 /\ k + 1 \in Nat /\ k + 1 <= N /\ k <= N
        /\ t \subseteq 1 .. k + 1 /\ t \ {m} \subseteq 1 .. k /\ t \ {m} \in SUBSET (1 .. N)
        /\ m \in t
    <3> HIDE DEF m
    <3>1. m \in 1 .. N /\ m \in t /\ \A y \in t : y <= m
      BY <2>1 DEF m
    <3>2. QED BY <1>1, <3>1
  <2> HIDE DEF m, k
  <2>3. g[t] = f[k + 1][t] /\ g[t \ {m}] = f[k][t \ {m}]
    BY <1>11, <2>2
  <2>4. f[k + 1][t] = step[f[k][t \ {k + 1}]][s[k + 1]]
    <3>1. k + 1 \in t
      BY <2>2
    <3>2. QED BY <1>7, <2>2, <3>1
  <2>5. QED BY <2>2, <2>3, <2>4 DEF m
<1> HIDE DEF g
<1>15. g = [t \in SUBSET (1 .. N) |-> IF t = {} THEN base ELSE step[g[t \ {Max(t)}]][s[Max(t)]]]
  BY <1>12, <1>13, <1>14
<1>16. QED
  BY <1>1, <1>12, <1>15 DEF Iterates, FoldOf

\* There is only one such function, and it is the one FoldLeft finds.
LEMMA FoldedIs ==
    ASSUME NEW A, NEW B, NEW step \in Steps(A, B), NEW base \in A, NEW s \in Seq(B),
           NEW g, FoldOf(g, A, step, base, s)
    PROVE  Folded(step, base, s) = g[DOMAIN s] /\ g[DOMAIN s] \in A
<1> DEFINE F == CHOOSE h : Iterates(h, step, base, s)
           N == Len(s)
<1>1. N \in Nat /\ DOMAIN s = 1 .. N
  BY LenProperties
<1>2. Iterates(g, step, base, s)
  BY DEF FoldOf
<1>3. ASSUME NEW k, Iterates(k, step, base, s) PROVE k = g
  <2>1. OnPositions(k, N) /\ OnPositions(g, N)
    BY <1>1, <1>2, <1>3 DEF Iterates, OnPositions
  <2>2. /\ \A t \in SUBSET (1 .. N) :
            k[t] = IF t = {} THEN base ELSE step[k[t \ {Max(t)}]][s[Max(t)]]
        /\ \A t \in SUBSET (1 .. N) :
            g[t] = IF t = {} THEN base ELSE step[g[t \ {Max(t)}]][s[Max(t)]]
    BY <1>1, <1>2, <1>3 DEF Iterates
  <2>3. AgreeFromBelow(k, g, N)
    BY <2>2 DEF AgreeFromBelow
  <2>4. N \in Nat
    BY <1>1
  <2> HIDE DEF N
  <2>5. QED BY <2>1, <2>3, <2>4, OneFold
<1>4. F = g
  BY <1>2, <1>3
<1>5. Folded(step, base, s) = F[DOMAIN s]
  BY DEF Folded, FoldLeft, MapThenFoldSet, F, Iterates
<1>6. g[DOMAIN s] \in A
  BY DEF FoldOf
<1>7. QED
  BY <1>4, <1>5, <1>6

\* The values of such a function.
FoldValues(g, A, B, step, base, s) ==
    /\ DOMAIN g = SUBSET DOMAIN s /\ g = [t \in DOMAIN g |-> g[t]] /\ g[{}] = base
    /\ \A t \in SUBSET DOMAIN s : t # {} =>
           /\ g[t \ {Max(t)}] \in A /\ s[Max(t)] \in B
           /\ g[t] = step[g[t \ {Max(t)}]][s[Max(t)]]

\* A fold is found by them.
LEMMA FoldFacts ==
    ASSUME NEW A, NEW B, NEW step \in Steps(A, B), NEW base \in A, NEW s \in Seq(B),
           NEW g, FoldOf(g, A, step, base, s)
    PROVE  FoldValues(g, A, B, step, base, s)
<1>1. g \in [SUBSET DOMAIN s -> A] /\ Iterates(g, step, base, s)
  BY DEF FoldOf
<1>2. DOMAIN g = SUBSET DOMAIN s /\ g = [t \in DOMAIN g |-> g[t]]
  BY <1>1
<1>3. g[{}] = base
  <2>1. {} \in SUBSET DOMAIN s
    OBVIOUS
  <2>2. QED BY <1>1, <2>1 DEF Iterates
<1>4. ASSUME NEW t \in SUBSET DOMAIN s, t # {}
      PROVE  /\ g[t \ {Max(t)}] \in A /\ s[Max(t)] \in B
             /\ g[t] = step[g[t \ {Max(t)}]][s[Max(t)]]
  <2>1. Max(t) \in t
    <3>1. Len(s) \in Nat /\ DOMAIN s = 1 .. Len(s)
      BY LenProperties
    <3>2. QED BY <1>4, <3>1, MaxOfPositions
  <2>2. s[Max(t)] \in B
    BY <2>1, ElementOfSeq, LenProperties
  <2>3. t \ {Max(t)} \in SUBSET DOMAIN s
    OBVIOUS
  <2>4. g[t] = step[g[t \ {Max(t)}]][s[Max(t)]]
    BY <1>1, <1>4 DEF Iterates
  <2>5. QED BY <1>1, <2>2, <2>3, <2>4
<1>5. QED
  BY <1>2, <1>3, <1>4 DEF FoldValues

\* Two functions on the sets of the positions of s agree from below.
Alike(g, h, s) ==
    /\ DOMAIN g = SUBSET DOMAIN s /\ g = [t \in DOMAIN g |-> g[t]]
    /\ DOMAIN h = SUBSET DOMAIN s /\ h = [t \in DOMAIN h |-> h[t]]
    /\ g[{}] = h[{}]
    /\ \A t \in SUBSET DOMAIN s :
           t # {} /\ g[t \ {Max(t)}] = h[t \ {Max(t)}] => g[t] = h[t]

\* Such functions are the same.
LEMMA SameFold ==
    ASSUME NEW B, NEW s \in Seq(B), NEW g, NEW h, Alike(g, h, s)
    PROVE  g = h
<1>1. Len(s) \in Nat /\ DOMAIN s = 1 .. Len(s)
  BY LenProperties
<1>2. OnPositions(g, Len(s)) /\ OnPositions(h, Len(s)) /\ AgreeFromBelow(g, h, Len(s))
  BY <1>1 DEF OnPositions, AgreeFromBelow, Alike
<1>3. QED
  BY <1>1, <1>2, OneFold

\* Folding nothing leaves what there is.
LEMMA FoldedOfNothing ==
    ASSUME NEW A, NEW B, NEW step \in Steps(A, B), NEW base \in A
    PROVE  Folded(step, base, <<>>) = base
<1> DEFINE z == <<>>
<1>1. z \in Seq(B) /\ DOMAIN z = {}
  OBVIOUS
<1> HIDE DEF z
<1>2. PICK g : FoldOf(g, A, step, base, z)
  BY <1>1, FoldExists DEF Steps
<1>3. g[{}] = base
  BY <1>1, <1>2 DEF Iterates, FoldOf
<1>4. Folded(step, base, z) = g[DOMAIN z]
  <2>1. z \in Seq(B)
    BY <1>1
  <2>2. QED BY <1>2, <2>1, FoldedIs
<1>5. QED
  BY <1>1, <1>3, <1>4 DEF z

\* What folding returns is one of the values of its steps.
LEMMA FoldedType ==
    ASSUME NEW A, NEW B, NEW step \in Steps(A, B), NEW base \in A, NEW s \in Seq(B)
    PROVE  Folded(step, base, s) \in A
<1>1. PICK g : FoldOf(g, A, step, base, s)
  BY FoldExists DEF Steps
<1>2. QED
  BY <1>1, FoldedIs

\* The last of n + 1 positions.
LEMMA LastPosition ==
    ASSUME NEW n \in Nat
    PROVE  /\ n + 1 \in Nat /\ 1 .. n + 1 # {} /\ 1 .. n + 1 \in SUBSET (1 .. n + 1)
           /\ Max(1 .. n + 1) = n + 1 /\ (1 .. n + 1) \ {n + 1} = 1 .. n
<1> DEFINE T == 1 .. n + 1
<1>1. n + 1 \in T /\ T # {} /\ n + 1 \in Nat /\ T \in SUBSET (1 .. n + 1)
  OBVIOUS
<1>2. T \ {n + 1} = 1 .. n /\ \A y \in T : y <= n + 1 /\ y \in Nat
  OBVIOUS
<1> HIDE DEF T
<1>3. Max(T) \in T /\ \A y \in T : y <= Max(T)
  BY <1>1, MaxOfPositions
<1>4. Max(T) = n + 1
  BY <1>1, <1>2, <1>3
<1>5. QED
  BY <1>1, <1>2, <1>4 DEF T

\* What comes last is folded last.
LEMMA FoldedAppend ==
    ASSUME NEW A, NEW B, NEW step \in Steps(A, B), NEW base \in A, NEW s \in Seq(B), NEW e \in B
    PROVE  Folded(step, base, Append(s, e)) = step[Folded(step, base, s)][e]
<1> DEFINE u == Append(s, e)
           N == Len(s)
<1>1. /\ N \in Nat /\ DOMAIN s = 1 .. N /\ u \in Seq(B) /\ DOMAIN u = 1 .. N + 1
      /\ \A i \in 1 .. N : u[i] = s[i]
      /\ u[N + 1] = e
  BY AppendProperties, LenProperties
<1> HIDE DEF u, N
<1>2. PICK g : FoldOf(g, A, step, base, u)
  BY <1>1, FoldExists DEF Steps
<1>3. \A t \in SUBSET (1 .. N + 1) :
         g[t] = IF t = {} THEN base ELSE step[g[t \ {Max(t)}]][u[Max(t)]]
  BY <1>1, <1>2 DEF Iterates, FoldOf
<1>4. \A t \in SUBSET (1 .. N) : t \in SUBSET (1 .. N + 1) /\ g[t] \in A
  BY <1>1, <1>2 DEF FoldOf
<1> DEFINE r == [t \in SUBSET (1 .. N) |-> g[t]]
<1>5. ASSUME NEW t \in SUBSET (1 .. N)
      PROVE  r[t] = IF t = {} THEN base ELSE step[r[t \ {Max(t)}]][s[Max(t)]]
  <2>1. CASE t = {}
    BY <1>3, <1>4, <2>1
  <2>2. CASE t # {}
    <3>1. Max(t) \in t
      BY <1>1, <2>2, MaxOfPositions
    <3>2. u[Max(t)] = s[Max(t)]
      BY <1>1, <3>1
    <3>3. t \ {Max(t)} \in SUBSET (1 .. N)
      OBVIOUS
    <3>4. r[t] = g[t] /\ r[t \ {Max(t)}] = g[t \ {Max(t)}]
      BY <3>3
    <3>5. g[t] = step[g[t \ {Max(t)}]][u[Max(t)]]
      BY <1>3, <1>4, <2>2
    <3> HIDE DEF r
    <3>6. QED BY <2>2, <3>2, <3>4, <3>5
  <2>3. QED BY <2>1, <2>2
<1>6. r = [t \in SUBSET (1 .. N) |-> IF t = {} THEN base ELSE step[r[t \ {Max(t)}]][s[Max(t)]]]
  BY <1>5
<1>7. r \in [SUBSET (1 .. N) -> A]
  BY <1>4
<1>8. r[1 .. N] = g[1 .. N]
  <2>1. 1 .. N \in SUBSET (1 .. N)
    OBVIOUS
  <2>2. QED BY <2>1
<1> HIDE DEF r
<1>9. FoldOf(r, A, step, base, s)
  BY <1>1, <1>6, <1>7 DEF Iterates, FoldOf
<1>10. Folded(step, base, s) = r[DOMAIN s]
  BY <1>9, FoldedIs
<1>11. g[1 .. N + 1] = step[g[1 .. N]][e]
  <2> DEFINE T == 1 .. N + 1
  <2>1. T \in SUBSET T /\ T # {} /\ Max(T) = N + 1 /\ T \ {N + 1} = 1 .. N
    BY <1>1, LastPosition
  <2>2. \A t \in SUBSET T : t # {} => g[t] = step[g[t \ {Max(t)}]][u[Max(t)]]
    BY <1>3
  <2> HIDE DEF T
  <2>3. g[T] = step[g[T \ {Max(T)}]][u[Max(T)]]
    BY <2>1, <2>2
  <2>4. QED BY <1>1, <2>1, <2>3 DEF T
<1>12. Folded(step, base, u) = g[DOMAIN u]
  BY <1>1, <1>2, FoldedIs
<1>13. QED
  BY <1>1, <1>8, <1>10, <1>11, <1>12 DEF u

\* The first n places of a sequence, place by place.
LEMMA SubSeqGrows ==
    ASSUME NEW S, NEW s \in Seq(S), NEW m \in 1 .. Len(s) + 1, NEW n \in Nat, m <= n + 1, n < Len(s)
    PROVE  /\ SubSeq(s, m, n) \in Seq(S) /\ s[n + 1] \in S
           /\ SubSeq(s, m, n + 1) = Append(SubSeq(s, m, n), s[n + 1])
<1> DEFINE a == SubSeq(s, m, n)
           b == SubSeq(s, m, n + 1)
           c == Append(a, s[n + 1])
<1>1. Len(s) \in Nat /\ n + 1 \in 1 .. Len(s) /\ s[n + 1] \in S /\ m \in Nat
  BY LenProperties, ElementOfSeq
<1>2. /\ a \in Seq(S) /\ Len(a) = n - m + 1
      /\ \A i \in 1 .. n - m + 1 : a[i] = s[m + i - 1]
  BY <1>1, SubSeqProperties
<1>3. /\ b \in Seq(S) /\ Len(b) = n - m + 2
      /\ \A i \in 1 .. n - m + 2 : b[i] = s[m + i - 1]
  BY <1>1, SubSeqProperties
<1> HIDE DEF a, b
<1>4. /\ c \in Seq(S) /\ Len(c) = n - m + 2
      /\ \A i \in 1 .. n - m + 1 : c[i] = a[i]
      /\ c[n - m + 2] = s[n + 1]
  BY <1>1, <1>2, AppendProperties
<1> HIDE DEF c
<1>5. \A i \in 1 .. Len(b) : b[i] = c[i]
  <2>1. ASSUME NEW i \in 1 .. n - m + 2 PROVE b[i] = c[i]
    <3>1. CASE i = n - m + 2
      BY <1>1, <1>3, <1>4, <3>1
    <3>2. CASE i \in 1 .. n - m + 1
      BY <1>1, <1>2, <1>3, <1>4, <3>2
    <3>3. QED BY <1>1, <3>1, <3>2
  <2>2. QED BY <1>3, <2>1
<1>6. b = c
  BY <1>3, <1>4, <1>5, SeqEqual
<1>7. QED
  BY <1>1, <1>2, <1>6 DEF a, b, c

\* f holds what folding the first n values of s gives, for each n.
Accumulates(f, A, step, base, s) ==
    /\ f \in [0 .. Len(s) -> A]
    /\ f[0] = base
    /\ \A n \in 0 .. Len(s) - 1 : f[n + 1] = step[f[n]][s[n + 1]]

\* Folding goes value by value.
LEMMA FoldedStepwise ==
    ASSUME NEW A, NEW B, NEW step \in Steps(A, B), NEW base \in A, NEW s \in Seq(B)
    PROVE  \E f : Accumulates(f, A, step, base, s) /\ f[Len(s)] = Folded(step, base, s)
<1> DEFINE N == Len(s)
           f == [n \in 0 .. N |-> Folded(step, base, SubSeq(s, 1, n))]
<1>1. N \in Nat /\ 1 \in 1 .. N + 1 /\ 0 \in 0 .. N /\ N \in 0 .. N
  BY LenProperties
<1>2. \A n \in 0 .. N : SubSeq(s, 1, n) \in Seq(B)
  BY <1>1, SubSeqProperties
<1>3. \A n \in 0 .. N : f[n] \in A
  BY <1>2, FoldedType
<1>4. SubSeq(s, 1, 0) = <<>>
  BY <1>1, SubSeqProperties, EmptySeq
<1>5. f[0] = base
  BY <1>1, <1>4, FoldedOfNothing
<1>6. ASSUME NEW n \in 0 .. N - 1 PROVE f[n + 1] = step[f[n]][s[n + 1]]
  <2>1. n \in Nat /\ n < Len(s) /\ 1 <= n + 1 /\ n \in 0 .. N /\ n + 1 \in 0 .. N
    BY <1>1
  <2> DEFINE u == SubSeq(s, 1, n)
             e == s[n + 1]
  <2>2. u \in Seq(B) /\ e \in B /\ SubSeq(s, 1, n + 1) = Append(u, e)
    BY <1>1, <2>1, SubSeqGrows
  <2>3. f[n + 1] = Folded(step, base, SubSeq(s, 1, n + 1)) /\ f[n] = Folded(step, base, u)
    BY <2>1
  <2> HIDE DEF u, e, f
  <2>4. Folded(step, base, Append(u, e)) = step[Folded(step, base, u)][e]
    BY <2>2, FoldedAppend
  <2>5. QED BY <2>2, <2>3, <2>4 DEF e
<1>7. SubSeq(s, 1, N) = s
  <2>1. /\ SubSeq(s, 1, N) \in Seq(B) /\ Len(SubSeq(s, 1, N)) = N
        /\ \A i \in 1 .. N : SubSeq(s, 1, N)[i] = s[i]
    BY <1>1, SubSeqProperties
  <2>2. QED BY <2>1, SeqEqual
<1>8. f[N] = Folded(step, base, s)
  BY <1>1, <1>7
<1>9. f \in [0 .. N -> A]
  BY <1>3
<1> HIDE DEF f
<1>10. QED
  BY <1>5, <1>6, <1>8, <1>9 DEF Accumulates

\* Only one function accumulates.
LEMMA OneAccumulation ==
    ASSUME NEW A, NEW step, NEW base, NEW B, NEW s \in Seq(B), NEW f, NEW g,
           Accumulates(f, A, step, base, s), Accumulates(g, A, step, base, s)
    PROVE  f[Len(s)] = g[Len(s)]
<1> DEFINE S == {n \in Nat : n <= Len(s) => f[n] = g[n]}
<1>1. Len(s) \in Nat
  BY LenProperties
<1>2. 0 \in S
  BY DEF Accumulates
<1>3. ASSUME NEW n \in Nat, n \in S PROVE n + 1 \in S
  BY <1>1, <1>3 DEF Accumulates
<1> HIDE DEF S
<1>4. Len(s) \in S
  BY <1>1, <1>2, <1>3, Induction
<1>5. QED
  BY <1>4 DEF S

\* What comes first is folded first.
LEMMA FoldedHead ==
    ASSUME NEW A, NEW B, NEW step \in Steps(A, B), NEW base \in A, NEW s \in Seq(B), s # <<>>
    PROVE  /\ Head(s) \in B /\ Tail(s) \in Seq(B) /\ step[base][Head(s)] \in A
           /\ Folded(step, base, s) = Folded(step, step[base][Head(s)], Tail(s))
<1> DEFINE t == Tail(s)
           N == Len(t)
           b == step[base][Head(s)]
<1>1. /\ t \in Seq(B) /\ N \in Nat /\ Len(s) = N + 1 /\ Head(s) = s[1] /\ Head(s) \in B
      /\ \A i \in 1 .. N : t[i] = s[i + 1]
  <2>1. /\ t \in Seq(B) /\ Len(t) = Len(s) - 1 /\ Head(s) \in B /\ Len(s) \in Nat /\ Len(s) # 0
        /\ \A i \in 1 .. Len(t) : t[i] = s[i + 1]
    BY HeadTailProperties, LenProperties, EmptySeq
  <2>2. QED BY <2>1
<1>2. b \in A
  BY <1>1 DEF Steps
<1>3. PICK f : Accumulates(f, A, step, base, s) /\ f[Len(s)] = Folded(step, base, s)
  BY FoldedStepwise
<1>4. PICK g : Accumulates(g, A, step, b, t) /\ g[N] = Folded(step, b, t)
  <2>1. t \in Seq(B) /\ b \in A
    BY <1>1, <1>2
  <2> HIDE DEF t, b
  <2>2. QED BY <2>1, FoldedStepwise
<1> HIDE DEF t, N, b
<1> DEFINE h == [n \in 0 .. N |-> f[n + 1]]
<1>5. /\ f \in [0 .. N + 1 -> A] /\ f[0] = base
      /\ \A n \in 0 .. N : f[n + 1] = step[f[n]][s[n + 1]]
  BY <1>1, <1>3 DEF Accumulates
<1>6. Accumulates(h, A, step, b, t)
  <2>1. h \in [0 .. N -> A]
    BY <1>1, <1>5
  <2>2. h[0] = b
    BY <1>1, <1>5 DEF b
  <2>3. ASSUME NEW n \in 0 .. N - 1 PROVE h[n + 1] = step[h[n]][t[n + 1]]
    <3>1. /\ n \in 0 .. N /\ n + 1 \in 0 .. N /\ n + 1 \in 1 .. N
          /\ t[n + 1] = s[(n + 1) + 1]
      BY <1>1
    <3>2. QED BY <1>5, <3>1
  <2> HIDE DEF h
  <2>4. QED BY <2>1, <2>2, <2>3 DEF Accumulates, N
<1>7. h[N] = f[Len(s)]
  BY <1>1
<1> HIDE DEF h
<1>8. h[N] = g[N]
  BY <1>1, <1>4, <1>6, OneAccumulation DEF N
<1>9. QED
  BY <1>1, <1>2, <1>3, <1>4, <1>7, <1>8 DEF t, b

\* A sequence without its last value, and that value.
LEMMA FrontAndLast ==
    ASSUME NEW S, NEW s \in Seq(S), s # <<>>
    PROVE  /\ Front(s) \in Seq(S) /\ Last(s) \in S /\ s = Append(Front(s), Last(s))
           /\ Len(Front(s)) = Len(s) - 1 /\ \A i \in 1 .. Len(s) - 1 : Front(s)[i] = s[i]
<1> DEFINE n == Len(s) - 1
<1>1. n \in Nat /\ n < Len(s) /\ Len(s) = n + 1 /\ Len(s) \in Nat
  BY EmptySeq, LenProperties
<1>2. /\ SubSeq(s, 1, n) \in Seq(S) /\ s[n + 1] \in S
      /\ SubSeq(s, 1, n + 1) = Append(SubSeq(s, 1, n), s[n + 1])
  BY <1>1, SubSeqGrows
<1>3. SubSeq(s, 1, n + 1) = s
  BY <1>1, SubSeqFull
<1>4. Len(SubSeq(s, 1, n)) = n /\ \A i \in 1 .. n : SubSeq(s, 1, n)[i] = s[i]
  BY <1>1, SubSeqProperties
<1>5. QED
  BY <1>1, <1>2, <1>3, <1>4 DEF Front, Last

\* A reversed sequence counts from the end.
LEMMA ReverseProperties ==
    ASSUME NEW S, NEW s \in Seq(S)
    PROVE  /\ Reverse(s) \in Seq(S) /\ Len(Reverse(s)) = Len(s)
           /\ \A i \in 1 .. Len(s) : Reverse(s)[i] = s[Len(s) - i + 1]
<1>1. Len(s) \in Nat /\ \A i \in 1 .. Len(s) : Len(s) - i + 1 \in 1 .. Len(s)
  BY LenProperties
<1>2. \A i \in 1 .. Len(s) : s[Len(s) - i + 1] \in S
  BY <1>1, ElementOfSeq
<1>3. Reverse(s) \in [1 .. Len(s) -> S]
  BY <1>2 DEF Reverse
<1>4. Reverse(s) \in Seq(S)
  BY <1>1, <1>3, SeqDef
<1>5. DOMAIN Reverse(s) = 1 .. Len(s) /\ DOMAIN Reverse(s) = 1 .. Len(Reverse(s))
  BY <1>4, LenProperties DEF Reverse
<1>6. Len(Reverse(s)) = Len(s)
  BY <1>1, <1>4, <1>5, LenProperties
<1>7. QED
  BY <1>4, <1>6 DEF Reverse

\* The last value of a sequence comes first, the rest after it.
LEMMA ReverseOfAppend ==
    ASSUME NEW S, NEW s \in Seq(S), NEW e \in S
    PROVE  /\ Reverse(Append(s, e)) \in Seq(S) /\ Reverse(Append(s, e)) # <<>>
           /\ Head(Reverse(Append(s, e))) = e /\ Tail(Reverse(Append(s, e))) = Reverse(s)
<1> DEFINE u == Append(s, e)
           r == Reverse(u)
           n == Len(s)
<1>1. /\ n \in Nat /\ u \in Seq(S) /\ Len(u) = n + 1 /\ u[n + 1] = e
      /\ \A i \in 1 .. n : u[i] = s[i]
  BY AppendProperties, LenProperties
<1> HIDE DEF u
<1>2. r \in Seq(S) /\ Len(r) = n + 1 /\ \A i \in 1 .. n + 1 : r[i] = u[n + 1 - i + 1]
  BY <1>1, ReverseProperties
<1> HIDE DEF r
<1>3. r # <<>>
  BY <1>1, <1>2, EmptySeq
<1>4. Head(r) = e
  <2>1. Head(r) = r[1]
    BY <1>2, <1>3
  <2>2. 1 \in 1 .. n + 1 /\ n + 1 - 1 + 1 = n + 1
    BY <1>1
  <2>3. r[1] = u[n + 1]
    BY <1>2, <2>2
  <2>4. QED BY <1>1, <2>1, <2>3
<1>5. /\ Tail(r) \in Seq(S) /\ Len(Tail(r)) = n
      /\ \A i \in 1 .. n : Tail(r)[i] = r[i + 1]
  BY <1>1, <1>2, <1>3, HeadTailProperties
<1>6. /\ Reverse(s) \in Seq(S) /\ Len(Reverse(s)) = n
      /\ \A i \in 1 .. n : Reverse(s)[i] = s[n - i + 1]
  BY ReverseProperties
<1>7. ASSUME NEW i \in 1 .. n PROVE Tail(r)[i] = Reverse(s)[i]
  <2>1. /\ i + 1 \in 1 .. n + 1 /\ n + 1 - (i + 1) + 1 = n - i + 1 /\ n - i + 1 \in 1 .. n
    BY <1>1
  <2>2. r[i + 1] = u[n - i + 1]
    BY <1>2, <2>1
  <2>3. QED BY <1>1, <1>5, <1>6, <2>1, <2>2
<1> HIDE DEF n
<1>8. Tail(r) = Reverse(s)
  BY <1>5, <1>6, <1>7, SeqEqual
<1>9. QED
  BY <1>2, <1>3, <1>4, <1>8 DEF r, u

\* The first values of a longer sequence.
LEMMA SubSeqOfAppend ==
    ASSUME NEW S, NEW s \in Seq(S), NEW e \in S, NEW k \in 0 .. Len(s)
    PROVE  SubSeq(Append(s, e), 1, k) = SubSeq(s, 1, k)
<1> DEFINE u == Append(s, e)
<1>1. /\ Len(s) \in Nat /\ u \in Seq(S) /\ Len(u) = Len(s) + 1
      /\ \A i \in 1 .. Len(s) : u[i] = s[i]
  BY LenProperties, AppendProperties
<1> HIDE DEF u
<1>2. /\ SubSeq(u, 1, k) \in Seq(S) /\ Len(SubSeq(u, 1, k)) = k
      /\ \A i \in 1 .. k : SubSeq(u, 1, k)[i] = u[i]
  BY <1>1, SubSeqProperties
<1>3. /\ SubSeq(s, 1, k) \in Seq(S) /\ Len(SubSeq(s, 1, k)) = k
      /\ \A i \in 1 .. k : SubSeq(s, 1, k)[i] = s[i]
  BY <1>1, SubSeqProperties
<1>4. \A i \in 1 .. k : SubSeq(u, 1, k)[i] = SubSeq(s, 1, k)[i]
  BY <1>1, <1>2, <1>3
<1> DEFINE a == SubSeq(u, 1, k)
           b == SubSeq(s, 1, k)
<1>5. a \in Seq(S) /\ b \in Seq(S) /\ Len(a) = Len(b) /\ \A i \in 1 .. Len(a) : a[i] = b[i]
  BY <1>2, <1>3, <1>4
<1> HIDE DEF a, b
<1>6. a = b
  BY <1>5, SeqEqual
<1>7. QED
  BY <1>6 DEF a, b, u
=============================================================================
