----------------------------- MODULE Induction -----------------------------
(***************************************************************************)
(* Induction without an operator as parameter: the least number of a set,  *)
(* and the recursive function behind a fold.                               *)
(***************************************************************************)
EXTENDS Integers, Sequences, FiniteSets, FiniteSetTheorems, TLAPS

\* A set of natural numbers that is not empty has a least element.
LEMMA LeastNumber ==
  ASSUME NEW T \in SUBSET Nat, T # {}
  PROVE  \E n \in T : \A m \in T : n <= m
<1> DEFINE R == OpToRel(<, Nat)
<1>1. IsWellFoundedOn(R, Nat)  BY NatLessThanWellFounded
<1>2. \A m, n \in Nat : m < n => <<m, n>> \in R  BY DEF OpToRel
<1> HIDE DEF R
<1>3. PICK n \in T : \A m \in T : ~(<<m, n>> \in R)
  <2>1. \E n \in T : \A m \in T : ~(<<m, n>> \in R)  BY <1>1, WFMin, Zenon
  <2> QED  BY <2>1
<1>4. ASSUME NEW m \in T PROVE n <= m
  <2>1. m \in Nat /\ n \in Nat  OBVIOUS
  <2>2. ~(m < n)  BY <1>2, <1>3, <2>1
  <2> QED  BY <2>1, <2>2
<1> QED  BY <1>3, <1>4

\* Induction: a set of numbers that has 0 and with n also n + 1 has them all.
LEMMA NatSet ==
  ASSUME NEW T, 0 \in T, \A n \in Nat : n \in T => n + 1 \in T
  PROVE  \A n \in Nat : n \in T
<1> SUFFICES ASSUME Nat \ T # {} PROVE FALSE  OBVIOUS
<1>1. PICK n \in Nat \ T : \A m \in Nat \ T : n <= m
  <2>1. Nat \ T \in SUBSET Nat  OBVIOUS
  <2> QED  BY <2>1, LeastNumber
<1>2. n - 1 \in Nat /\ n = (n - 1) + 1  BY n # 0
<1>3. n - 1 \in T  BY <1>1, <1>2
<1> QED  BY <1>2, <1>3

\* g computes a fold over the subsets of D: `pick' says which element comes last,
\* `step' what it does to the value of the others.
IsFold(g, D, base, pick, step) ==
  \A s \in SUBSET D :
    g[s] = IF s = {} THEN base ELSE step[g[s \ {pick[s]}]][pick[s]]

\* A fold over a finite set has the function that computes it.
LEMMA FoldExists ==
  ASSUME NEW D, IsFiniteSet(D), NEW A, NEW base \in A,
         NEW pick, \A s \in SUBSET D : s # {} => pick[s] \in s,
         NEW step \in [A -> [D -> A]]
  PROVE  \E g \in [SUBSET D -> A] : IsFold(g, D, base, pick, step)
<1> DEFINE Next(g) == [s \in SUBSET D |-> IF s = {} THEN base
                                         ELSE step[g[s \ {pick[s]}]][pick[s]]]
           Good(g, k) == \A s \in SUBSET D : Cardinality(s) <= k => g[s] = Next(g)[s]
           T == {k \in Nat : \E g \in [SUBSET D -> A] : Good(g, k)}
<1>1. ASSUME NEW g \in [SUBSET D -> A] PROVE Next(g) \in [SUBSET D -> A]
  <2>1. ASSUME NEW s \in SUBSET D, s # {} PROVE step[g[s \ {pick[s]}]][pick[s]] \in A
    <3>1. pick[s] \in D /\ s \ {pick[s]} \in SUBSET D  BY <2>1
    <3>2. step[g[s \ {pick[s]}]] \in [D -> A]  BY <3>1
    <3> QED  BY <3>1, <3>2
  <2> QED  BY <2>1
<1>2. \A s \in SUBSET D : IsFiniteSet(s) /\ Cardinality(s) \in Nat
  BY FS_Subset, FS_CardinalityType
<1>3. 0 \in T
  <2> DEFINE g == [s \in SUBSET D |-> base]
  <2>1. g \in [SUBSET D -> A]  OBVIOUS
  <2>2. \A s \in SUBSET D : Cardinality(s) <= 0 => s = {}  BY <1>2, FS_EmptySet
  <2>3. Good(g, 0)  BY <2>2
  <2> QED  BY <2>1, <2>3
<1>4. ASSUME NEW k \in Nat, k \in T PROVE k + 1 \in T
  <2>1. PICK g \in [SUBSET D -> A] : Good(g, k)  BY <1>4
  <2> DEFINE h == Next(g)
  <2>2. h \in [SUBSET D -> A]  BY <1>1
  <2>3. ASSUME NEW s \in SUBSET D, Cardinality(s) <= k + 1 PROVE h[s] = Next(h)[s]
    <3>1. CASE s = {}
      <4>1. h[s] = base /\ Next(h)[s] = base  BY <3>1
      <4> QED  BY <4>1
    <3>2. CASE s # {}
      <4> DEFINE t == s \ {pick[s]}
      <4>1. t \in SUBSET D  OBVIOUS
      <4>2. Cardinality(t) <= k
        <5>1. pick[s] \in s /\ IsFiniteSet(s)  BY <1>2, <3>2
        <5>2. Cardinality(t) = Cardinality(s) - 1  BY <5>1, FS_RemoveElement
        <5>3. Cardinality(s) \in Nat  BY <1>2
        <5> HIDE DEF t
        <5> QED  BY <2>3, <5>2, <5>3
      <4>3. g[t] = h[t]  BY <2>1, <4>1, <4>2
      <4>4. h[s] = step[g[t]][pick[s]] /\ Next(h)[s] = step[h[t]][pick[s]]  BY <3>2
      <4> QED  BY <4>3, <4>4
    <3> QED  BY <3>1, <3>2
  <2> HIDE DEF h
  <2>4. Good(h, k + 1)  BY <2>3
  <2>5. k + 1 \in Nat  OBVIOUS
  <2> QED  BY <2>2, <2>4, <2>5
<1>5. Cardinality(D) \in Nat  BY FS_CardinalityType
<1>6. Cardinality(D) \in T
  <2> HIDE DEF T
  <2> QED  BY <1>3, <1>4, <1>5, NatSet
<1>7. PICK g \in [SUBSET D -> A] : Good(g, Cardinality(D))  BY <1>6
<1>8. \A s \in SUBSET D : Cardinality(s) <= Cardinality(D)  BY FS_Subset
<1>9. \A s \in SUBSET D : g[s] = Next(g)[s]  BY <1>7, <1>8
<1> QED  BY <1>9 DEF IsFold

\* A set of numbers of an interval that is not empty has a greatest element.
LEMMA GreatestNumber ==
  ASSUME NEW n \in Nat, NEW s \in SUBSET (1..n), s # {}
  PROVE  (CHOOSE x \in s : \A y \in s : x >= y) \in s
<1> DEFINE T == {n - x : x \in s}
<1>1. T \in SUBSET Nat /\ T # {}
  <2>1. PICK x \in s : TRUE  OBVIOUS
  <2>2. n - x \in T  OBVIOUS
  <2> QED  BY <2>2
<1>2. PICK m \in T : \A k \in T : m <= k  BY <1>1, LeastNumber
<1>3. PICK x \in s : m = n - x  BY <1>2
<1>4. ASSUME NEW y \in s PROVE x >= y
  <2>1. n - y \in T  OBVIOUS
  <2>2. n - x <= n - y  BY <1>2, <1>3, <2>1
  <2> QED  BY <2>2
<1> QED  BY <1>3, <1>4

\* The greatest element of an initial interval.
LEMMA GreatestOf ==
  ASSUME NEW n \in Nat \ {0}
  PROVE  (CHOOSE x \in 1..n : \A y \in 1..n : x >= y) = n
<1>1. n \in 1..n /\ \A y \in 1..n : n >= y  OBVIOUS
<1>2. \A x \in 1..n : (\A y \in 1..n : x >= y) => x = n  BY <1>1
<1> QED  BY <1>1, <1>2

\* Two sets whose elements correspond one to one have one size.
LEMMA SameSize ==
  ASSUME NEW S, NEW T, IsFiniteSet(S) \/ IsFiniteSet(T), NEW f \in [S -> T],
         \A x, y \in S : f[x] = f[y] => x = y,
         \A z \in T : \E x \in S : f[x] = z
  PROVE  Cardinality(S) = Cardinality(T)
<1>1. f \in Injection(S, T) /\ f \in Surjection(S, T)
  BY DEF Injection, Surjection, IsInjective
<1>2. IsFiniteSet(S)  BY <1>1, FS_Injection
<1>3. ExistsBijection(S, T)  BY <1>1 DEF ExistsBijection, Bijection
<1> QED  BY <1>2, <1>3, FS_Bijection

\* The numbers of a sequence's elements.
LEMMA SeqDomain ==
  ASSUME NEW S, NEW s \in Seq(S)
  PROVE  /\ Len(s) \in Nat /\ DOMAIN s = 1..Len(s)
         /\ \A i \in 1..Len(s) : s[i] \in S
  OBVIOUS

\* A concatenation.
LEMMA Concatenation ==
  ASSUME NEW S, NEW s \in Seq(S), NEW t \in Seq(S)
  PROVE  /\ s \o t \in Seq(S) /\ Len(s \o t) = Len(s) + Len(t)
         /\ \A i \in 1..Len(s) : (s \o t)[i] = s[i]
         /\ \A i \in 1..Len(t) : (s \o t)[Len(s) + i] = t[i]
  OBVIOUS

\* What Append does to a sequence, position by position.
LEMMA Appending ==
  ASSUME NEW S, NEW s \in Seq(S), NEW x \in S
  PROVE  /\ Append(s, x) \in Seq(S) /\ Append(s, x) # <<>> /\ Len(Append(s, x)) = Len(s) + 1
         /\ Append(s, x)[Len(s) + 1] = x
         /\ \A i \in 1..Len(s) : Append(s, x)[i] = s[i]
<1>1. Append(s, x) \in Seq(S) /\ Len(Append(s, x)) = Len(s) + 1 /\ Len(s) \in Nat  OBVIOUS
<1>2. Append(s, x)[Len(s) + 1] = x /\ \A i \in 1..Len(s) : Append(s, x)[i] = s[i]  OBVIOUS
<1>3. Append(s, x) # <<>>  BY <1>1
<1> QED  BY <1>1, <1>2, <1>3

\* A function of an interval is a sequence.
LEMMA AsSequence ==
  ASSUME NEW S, NEW n \in Nat, NEW f \in [1..n -> S]
  PROVE  f \in Seq(S) /\ Len(f) = n
  OBVIOUS

\* g is defined by recursion along an interval: `base' at 1, and after that what
\* `step' makes of the value before.
IsRecursion(g, n, base, step) ==
  \A i \in 1..n : g[i] = IF i = 1 THEN base ELSE step[i][g[i - 1]]

\* What is defined by recursion along an interval exists.
LEMMA RecursionExists ==
  ASSUME NEW n \in Nat \ {0}, NEW A, NEW base \in A, NEW step \in [1..n -> [A -> A]]
  PROVE  \E g \in [1..n -> A] : IsRecursion(g, n, base, step)
<1> DEFINE Upto(g, k) ==
             \A i \in 1..n : i <= k => g[i] = IF i = 1 THEN base ELSE step[i][g[i - 1]]
           T == {k \in Nat : \E g \in [1..n -> A] : Upto(g, k)}
<1>1. 0 \in T
  <2> DEFINE g == [i \in 1..n |-> base]
  <2>1. g \in [1..n -> A] /\ Upto(g, 0)  OBVIOUS
  <2> QED  BY <2>1
<1>2. ASSUME NEW k \in Nat, k \in T PROVE k + 1 \in T
  <2>1. PICK g \in [1..n -> A] : Upto(g, k)  BY <1>2
  <2> DEFINE v == IF k = 0 THEN base ELSE step[k + 1][g[k]]
             h == [g EXCEPT ![k + 1] = v]
  <2>2. CASE k + 1 \notin 1..n
    <3>1. Upto(g, k + 1)  BY <2>1, <2>2
    <3> QED  BY <3>1
  <2>3. CASE k + 1 \in 1..n
    <3>1. v \in A
      <4>1. CASE k = 0  BY <4>1
      <4>2. CASE k # 0
        <5>1. k \in 1..n /\ g[k] \in A  BY <2>3, <4>2
        <5>2. step[k + 1] \in [A -> A]  BY <2>3
        <5> QED  BY <4>2, <5>1, <5>2
      <4> QED  BY <4>1, <4>2
    <3>2. /\ h \in [1..n -> A] /\ h[k + 1] = v
          /\ \A i \in 1..n : i # k + 1 => h[i] = g[i]
      <4> HIDE DEF v
      <4> QED  BY <2>3, <3>1
    <3> HIDE DEF h
    <3>3. ASSUME NEW i \in 1..n, i <= k + 1
          PROVE  h[i] = IF i = 1 THEN base ELSE step[i][h[i - 1]]
      <4>1. i # 1 => i - 1 \in 1..n /\ h[i - 1] = g[i - 1]  BY <3>2, <3>3
      <4>2. CASE i = k + 1  BY <3>2, <4>1, <4>2
      <4>3. CASE i # k + 1
        <5>1. i <= k /\ h[i] = g[i]  BY <3>2, <3>3, <4>3
        <5> QED  BY <2>1, <4>1, <5>1
      <4> QED  BY <4>2, <4>3
    <3> QED  BY <3>2, <3>3
  <2> QED  BY <2>2, <2>3
<1>3. n \in T
  <2> HIDE DEF T
  <2> QED  BY <1>1, <1>2, NatSet
<1>4. PICK g \in [1..n -> A] : Upto(g, n)  BY <1>3
<1>5. \A i \in 1..n : i <= n  OBVIOUS
<1> QED  BY <1>4, <1>5 DEF IsRecursion

\* R is a strict total order of X; what is below i in it.
Orders(R, X) ==
  /\ \A i \in X : <<i, i>> \notin R
  /\ \A i, j \in X : i = j \/ <<i, j>> \in R \/ <<j, i>> \in R
  /\ \A i, j, k \in X : <<i, j>> \in R /\ <<j, k>> \in R => <<i, k>> \in R

Below(R, X, i) == {j \in X : <<j, i>> \in R}

\* How many elements are below tells the elements of an ordered finite set apart,
\* and is every number up to its size.
LEMMA Ranks ==
  ASSUME NEW X, IsFiniteSet(X), NEW R, Orders(R, X)
  PROVE  /\ \A i \in X : Cardinality(Below(R, X, i)) \in 0..(Cardinality(X) - 1)
         /\ \A i, j \in X : <<i, j>> \in R =>
              Cardinality(Below(R, X, i)) < Cardinality(Below(R, X, j))
         /\ \A k \in 0..(Cardinality(X) - 1) : \E i \in X : Cardinality(Below(R, X, i)) = k
<1> DEFINE B(i) == Below(R, X, i)
           n == Cardinality(X)
           f == [i \in X |-> Cardinality(B(i))]
           Y == {f[i] : i \in X}
<1>1. n \in Nat  BY FS_CardinalityType
<1>2. \A i \in X : B(i) \in SUBSET X /\ i \notin B(i)  BY DEF Below, Orders
<1>3. \A i, j \in X : <<i, j>> \in R => B(i) \in SUBSET B(j) /\ i \in B(j)  BY DEF Below, Orders
<1> HIDE DEF B, n
<1>4. \A i \in X : IsFiniteSet(B(i)) /\ Cardinality(B(i)) \in Nat
  BY <1>2, FS_Subset, FS_CardinalityType
<1>5. \A i \in X : Cardinality(B(i)) \in 0..(n - 1)
  <2> TAKE i \in X
  <2>1. Cardinality(B(i)) <= n /\ (Cardinality(B(i)) = n => B(i) = X)  BY <1>2, FS_Subset DEF n
  <2>2. Cardinality(B(i)) # n  BY <1>2, <2>1
  <2> QED  BY <1>1, <1>4, <2>1, <2>2
<1>6. \A i, j \in X : <<i, j>> \in R => Cardinality(B(i)) < Cardinality(B(j))
  <2> SUFFICES ASSUME NEW i \in X, NEW j \in X, <<i, j>> \in R
               PROVE  Cardinality(B(i)) < Cardinality(B(j))
    OBVIOUS
  <2>1. B(i) \in SUBSET B(j) /\ B(i) # B(j)  BY <1>2, <1>3
  <2>2. /\ Cardinality(B(i)) <= Cardinality(B(j))
        /\ Cardinality(B(i)) = Cardinality(B(j)) => B(i) = B(j)
    BY <1>4, <2>1, FS_Subset
  <2> QED  BY <1>4, <2>1, <2>2
<1>7. \A i, j \in X : f[i] = f[j] => i = j
  <2> SUFFICES ASSUME NEW i \in X, NEW j \in X, f[i] = f[j], i # j PROVE FALSE  OBVIOUS
  <2>1. Cardinality(B(i)) = Cardinality(B(j))  OBVIOUS
  <2>2. <<i, j>> \in R \/ <<j, i>> \in R  BY DEF Orders
  <2> QED  BY <1>4, <1>6, <2>1, <2>2
<1>8. f \in [X -> Y] /\ \A z \in Y : \E x \in X : f[x] = z  OBVIOUS
<1>9. Y \in SUBSET (0..(n - 1))  BY <1>5
<1> HIDE DEF f, Y
<1>10. Cardinality(X) = Cardinality(Y)  BY <1>7, <1>8, SameSize
<1>11. IsFiniteSet(0..(n - 1)) /\ Cardinality(0..(n - 1)) = n
  <2>1. IsFiniteSet(0..(n - 1)) /\ Cardinality(0..(n - 1)) = IF 0 > n - 1 THEN 0 ELSE (n - 1) - 0 + 1
    BY <1>1, FS_Interval
  <2> QED  BY <1>1, <2>1
<1>12. Y = 0..(n - 1)
  <2>1. Cardinality(Y) = Cardinality(0..(n - 1))  BY <1>10, <1>11 DEF n
  <2> QED  BY <1>9, <1>11, <2>1, FS_Subset
<1>13. \A k \in 0..(n - 1) : \E i \in X : Cardinality(B(i)) = k
  <2> TAKE k \in 0..(n - 1)
  <2>1. PICK i \in X : f[i] = k  BY <1>8, <1>12
  <2> QED  BY <2>1 DEF f
<1> QED  BY <1>5, <1>6, <1>13 DEF B, n

\* h lists the numbers X in their order.
Enumerates(h, X) ==
  /\ h \in Seq(Nat)
  /\ \A k \in 1..Len(h) : h[k] \in X
  /\ \A x \in X : \E k \in 1..Len(h) : h[k] = x
  /\ \A k, l \in 1..Len(h) : k < l => h[k] < h[l]

\* The entries of an enumeration are the numbers it enumerates.
LEMMA EnumerationTyped ==
  ASSUME NEW X, NEW h, Enumerates(h, X)
  PROVE  Len(h) \in Nat /\ \A k \in 1..Len(h) : h[k] \in Nat /\ h[k] \in X
<1>1. h \in Seq(Nat) /\ \A k \in 1..Len(h) : h[k] \in X  BY DEF Enumerates
<1> QED  BY <1>1, SeqDomain

\* There is one such list.
LEMMA EnumerationsAgree ==
  ASSUME NEW X, NEW h, Enumerates(h, X), NEW g, Enumerates(g, X)
  PROVE  \A k \in 1..Len(h) : k \in 1..Len(g) /\ h[k] = g[k]
<1> DEFINE T == {k \in 1..Len(h) : ~(k \in 1..Len(g) /\ h[k] = g[k])}
<1> SUFFICES ASSUME T # {} PROVE FALSE  OBVIOUS
<1>1. /\ Len(h) \in Nat /\ Len(g) \in Nat
      /\ \A k \in 1..Len(h) : h[k] \in Nat /\ h[k] \in X
      /\ \A k \in 1..Len(g) : g[k] \in Nat /\ g[k] \in X
  BY EnumerationTyped
<1>2. PICK k \in T : \A m \in T : k <= m
  <2>1. T \in SUBSET Nat  OBVIOUS
  <2> QED  BY <2>1, LeastNumber
<1>3. \A m \in 1..Len(h) : m < k => m \in 1..Len(g) /\ h[m] = g[m]  BY <1>1, <1>2
<1>4. PICK l \in 1..Len(g) : g[l] = h[k]  BY <1>1 DEF Enumerates
<1>5. l >= k
  <2> SUFFICES ASSUME l < k PROVE FALSE  BY <1>1
  <2>1. l \in 1..Len(h) /\ k \in 1..Len(h)  BY <1>1
  <2>2. h[l] = h[k]  BY <1>3, <1>4, <2>1
  <2>3. h[l] < h[k]  BY <2>1 DEF Enumerates
  <2> QED  BY <1>1, <2>1, <2>2, <2>3
<1>6. k \in 1..Len(g)  BY <1>1, <1>5
<1>7. PICK m \in 1..Len(h) : h[m] = g[k]  BY <1>1, <1>6 DEF Enumerates
<1>8. m >= k
  <2> SUFFICES ASSUME m < k PROVE FALSE  BY <1>1
  <2>1. m \in 1..Len(g) /\ g[m] = g[k]  BY <1>3, <1>7
  <2>2. g[m] < g[k]  BY <1>6, <2>1 DEF Enumerates
  <2> QED  BY <1>1, <1>6, <2>1, <2>2
<1>9. h[k] <= h[m] /\ g[k] <= g[l]
  <2>1. k \in 1..Len(h) /\ (k < m => h[k] < h[m])  BY DEF Enumerates
  <2>2. k < l => g[k] < g[l]  BY <1>6 DEF Enumerates
  <2> QED  BY <1>1, <1>5, <1>6, <1>8, <2>1, <2>2
<1>10. h[k] = g[k]  BY <1>1, <1>4, <1>6, <1>7, <1>9
<1> QED  BY <1>2, <1>6, <1>10

\* A set of numbers has one enumeration in ascending order.
LEMMA OneEnumeration ==
  ASSUME NEW X, NEW h, Enumerates(h, X), NEW g, Enumerates(g, X)
  PROVE  h = g
<1>1. h \in Seq(Nat) /\ g \in Seq(Nat)  BY DEF Enumerates
<1>2. /\ \A k \in 1..Len(h) : k \in 1..Len(g) /\ h[k] = g[k]
      /\ \A k \in 1..Len(g) : k \in 1..Len(h)
  BY EnumerationsAgree
<1>3. Len(h) = Len(g)
  <2>1. Len(h) \in Nat /\ Len(g) \in Nat  BY <1>1
  <2>2. Len(h) # 0 => Len(h) <= Len(g)  BY <1>2, <2>1
  <2>3. Len(g) # 0 => Len(g) <= Len(h)  BY <1>2, <2>1
  <2> QED  BY <2>1, <2>2, <2>3
<1> QED  BY <1>1, <1>2, <1>3

\* The list of a set and a greater number.
LEMMA EnumerateMore ==
  ASSUME NEW X, NEW h, Enumerates(h, X), NEW n \in Nat, \A x \in X : x < n
  PROVE  Enumerates(Append(h, n), X \cup {n})
<1> DEFINE g == Append(h, n)
<1>1. h \in Seq(Nat) /\ Len(h) \in Nat  BY DEF Enumerates
<1>2. /\ g \in Seq(Nat) /\ Len(g) = Len(h) + 1 /\ g[Len(h) + 1] = n
      /\ \A k \in 1..Len(h) : g[k] = h[k]
  BY <1>1
<1> HIDE DEF g
<1>3. \A k \in 1..Len(g) : k \in 1..Len(h) \/ k = Len(h) + 1  BY <1>1, <1>2
<1>4. \A k \in 1..Len(g) : g[k] \in X \cup {n}  BY <1>2, <1>3 DEF Enumerates
<1>5. ASSUME NEW x \in X \cup {n} PROVE \E k \in 1..Len(g) : g[k] = x
  <2>1. CASE x = n
    <3>1. Len(h) + 1 \in 1..Len(g)  BY <1>1, <1>2
    <3> QED  BY <1>2, <2>1, <3>1
  <2>2. CASE x \in X
    <3>1. PICK k \in 1..Len(h) : h[k] = x  BY <2>2 DEF Enumerates
    <3>2. k \in 1..Len(g)  BY <1>1, <1>2
    <3> QED  BY <1>2, <3>1, <3>2
  <2> QED  BY <2>1, <2>2
<1>6. ASSUME NEW k \in 1..Len(g), NEW l \in 1..Len(g), k < l PROVE g[k] < g[l]
  <2>1. k \in 1..Len(h)  BY <1>1, <1>2, <1>6
  <2>2. CASE l \in 1..Len(h)  BY <1>2, <1>6, <2>1, <2>2 DEF Enumerates
  <2>3. CASE l = Len(h) + 1
    <3>1. h[k] < n  BY <2>1 DEF Enumerates
    <3> QED  BY <1>2, <2>1, <2>3, <3>1
  <2> QED  BY <1>3, <2>2, <2>3
<1> QED  BY <1>2, <1>4, <1>5, <1>6 DEF Enumerates, g
=============================================================================
