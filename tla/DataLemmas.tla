----------------------------- MODULE DataLemmas -----------------------------
(***************************************************************************)
(* Facts about numbers, finite sets, lists, folds and recursive functions  *)
(* that the proofs of several components need.  Induction is stated over a *)
(* set, which every prover can instantiate: to show that P(n) holds for    *)
(* all n, cite NaturalInduction for the set {n \in Nat : P(n)}.            *)
(***************************************************************************)
EXTENDS Integers, FiniteSetsExt, FiniteSetTheorems, SequencesExt, SequenceTheorems,
        WellFoundedInduction, TLAPS

\* The natural numbers are well-founded
LEMMA SmallestElement ==
    ASSUME NEW S, S \subseteq Nat, S # {}
    PROVE  \E x \in S : \A y \in S : x <= y
<1> DEFINE R == {ss \in Nat \X Nat : ss[1] < ss[2]}
<1>1. IsWellFoundedOn(R, Nat)
  BY NatLessThanWellFounded DEF OpToRel
<1>2. PICK x \in S : \A y \in S : <<y, x>> \notin R
  <2> HIDE DEF R
  <2> QED BY <1>1, WFMin
<1>3. \A y \in S : x <= y
  <2> SUFFICES ASSUME NEW y \in S, y < x PROVE FALSE
    OBVIOUS
  <2>1. <<y, x>> \in R
    OBVIOUS
  <2> QED BY <1>2, <2>1
<1> QED BY <1>3

\* Mathematical induction
LEMMA NaturalInduction ==
    ASSUME NEW S, 0 \in S, \A n \in Nat : n \in S => n + 1 \in S
    PROVE  \A n \in Nat : n \in S
<1> SUFFICES ASSUME Nat \ S # {} PROVE FALSE
  OBVIOUS
<1>1. PICK m \in Nat \ S : \A n \in Nat \ S : m <= n
  BY SmallestElement
<1>2. m # 0 /\ m - 1 \in Nat /\ (m - 1) + 1 = m /\ ~(m <= m - 1)
  OBVIOUS
<1>3. m - 1 \in S
  BY <1>1, <1>2
<1> QED BY <1>2, <1>3

\* Induction up to a bound: over the positions of a list
LEMMA BoundedInduction ==
    ASSUME NEW n \in Nat, NEW S, 0 \in S, \A k \in 0..(n - 1) : k \in S => k + 1 \in S
    PROVE  \A k \in 0..n : k \in S
<1> DEFINE T == {k \in Nat : k <= n => k \in S}
<1>1. 0 \in T
  OBVIOUS
<1>2. ASSUME NEW k \in Nat, k \in T PROVE k + 1 \in T
  BY <1>2
<1>3. \A k \in Nat : k \in T
  <2> HIDE DEF T
  <2> QED BY <1>1, <1>2, NaturalInduction
<1> QED BY <1>3

\* Max of a set of positions
LEMMA LargestElement ==
    ASSUME NEW n \in Nat, NEW S, S \subseteq 1..n, S # {}
    PROVE  Max(S) \in S /\ \A y \in S : y <= Max(S)
<1> DEFINE D == {n - x : x \in S}
<1>1. \A x \in S : x \in 1..n /\ n - x \in Nat
  OBVIOUS
<1>2. D \subseteq Nat /\ D # {}
  <2>1. \A d \in D : d \in Nat
    BY <1>1
  <2> QED BY <2>1
<1>3. PICK k \in D : \A y \in D : k <= y
  <2> HIDE DEF D
  <2> QED BY <1>2, SmallestElement
<1>4. PICK x \in S : k = n - x
  BY <1>3
<1>5. ASSUME NEW y \in S PROVE x >= y
  <2>1. n - x <= n - y
    BY <1>3, <1>4
  <2> QED BY <1>1, <2>1
<1> QED BY <1>5 DEF Max

\* A function defined by its first value and a step has a definition that is
\* satisfied: what `f[k \in 0..n] == IF k = 0 THEN first ELSE ...` names exists
Steps(n, V) == [(1..n) \X V -> V]
Unfolds(f, n, V, first, step) ==
    /\ f \in [0..n -> V] /\ f[0] = first
    /\ \A k \in 1..n : f[k] = step[<<k, f[k - 1]>>]
LEMMA RecursionDefines ==
    ASSUME NEW n \in Nat, NEW V, NEW first \in V, NEW step \in Steps(n, V)
    PROVE  \E f : Unfolds(f, n, V, first, step)
<1> USE DEF Steps
<1> DEFINE Fits(m, f) == /\ f \in [0..m -> V] /\ f[0] = first
                         /\ \A k \in 1..m : f[k] = step[<<k, f[k - 1]>>]
           S == {m \in Nat : \E f : Fits(m, f)}
<1>1. 0 \in S
  <2>1. Fits(0, [k \in 0..0 |-> first])
    OBVIOUS
  <2> QED BY <2>1
<1>2. ASSUME NEW m \in 0..(n - 1), m \in S PROVE m + 1 \in S
  <2>1. PICK f : Fits(m, f)
    BY <1>2
  <2> DEFINE g == [k \in 0..(m + 1) |-> IF k = m + 1 THEN step[<<m + 1, f[m]>>] ELSE f[k]]
  <2>2. step[<<m + 1, f[m]>>] \in V
    <3>1. m \in 0..m /\ m + 1 \in 1..n
      OBVIOUS
    <3>2. f[m] \in V
      BY <2>1, <3>1
    <3>3. <<m + 1, f[m]>> \in (1..n) \X V
      BY <3>1, <3>2
    <3> QED BY <3>3
  <2>3. g \in [0..(m + 1) -> V] /\ g[0] = first
    BY <2>1, <2>2
  <2>4. ASSUME NEW k \in 1..(m + 1) PROVE g[k] = step[<<k, g[k - 1]>>]
    <3>1. CASE k = m + 1
      <4>1. k \in 0..(m + 1) /\ k - 1 = m /\ m \in 0..(m + 1) /\ m # m + 1
        BY <3>1
      <4>2. g[k] = step[<<m + 1, f[m]>>] /\ g[m] = f[m]
        BY <3>1, <4>1
      <4> QED BY <3>1, <4>1, <4>2
    <3>2. CASE k # m + 1
      <4>1. k \in 1..m /\ k \in 0..(m + 1) /\ k - 1 \in 0..(m + 1) /\ k - 1 # m + 1
        BY <3>2
      <4>2. g[k] = f[k] /\ g[k - 1] = f[k - 1]
        BY <3>2, <4>1
      <4> QED BY <2>1, <4>1, <4>2
    <3> QED BY <3>1, <3>2
  <2> HIDE DEF g
  <2>5. Fits(m + 1, g)
    BY <2>3, <2>4
  <2> QED BY <2>5
<1>3. n \in S
  <2> HIDE DEF S
  <2> QED BY <1>1, <1>2, BoundedInduction
<1>4. PICK f : Fits(n, f)
  BY <1>3
<1> QED BY <1>4 DEF Unfolds

-----------------------------------------------------------------------------
(* Finite sets *)

\* Induction over the finite subsets of U, one element at a time
LEMMA FiniteInduction ==
    ASSUME NEW U, NEW P, {} \in P,
           \A T \in SUBSET U, x \in U :
               IsFiniteSet(T) /\ T \in P /\ x \notin T => T \cup {x} \in P
    PROVE  \A T \in SUBSET U : IsFiniteSet(T) => T \in P
<1> DEFINE S == {n \in Nat : \A T \in SUBSET U : IsFiniteSet(T) /\ Cardinality(T) = n => T \in P}
<1>1. 0 \in S
  BY FS_EmptySet
<1>2. ASSUME NEW n \in Nat, n \in S PROVE n + 1 \in S
  <2> SUFFICES ASSUME NEW T \in SUBSET U, IsFiniteSet(T), Cardinality(T) = n + 1
               PROVE  T \in P
    OBVIOUS
  <2>1. PICK x \in T : TRUE
    BY FS_EmptySet
  <2> DEFINE R == T \ {x}
  <2>2. IsFiniteSet(R) /\ Cardinality(R) = n
    <3>1. IsFiniteSet(T \ {x}) /\ Cardinality(T \ {x}) = Cardinality(T) - 1
      BY <2>1, FS_RemoveElement
    <3> QED BY <3>1
  <2>3. R \in P
    BY <1>2, <2>2
  <2>4. T = R \cup {x} /\ x \notin R /\ R \in SUBSET U /\ x \in U
    BY <2>1
  <2> HIDE DEF R
  <2> QED BY <2>2, <2>3, <2>4
<1>3. \A n \in Nat : n \in S
  <2> HIDE DEF S
  <2> QED BY <1>1, <1>2, NaturalInduction
<1> QED BY <1>3, FS_CardinalityType

\* R orders U strictly and totally
TotalOrder(R, U) ==
    /\ \A x \in U : <<x, x>> \notin R
    /\ \A x, y, z \in U : <<x, y>> \in R /\ <<y, z>> \in R => <<x, z>> \in R
    /\ \A x, y \in U : x = y \/ <<x, y>> \in R \/ <<y, x>> \in R

\* A finite set that is not empty has a last element
LEMMA LastElement ==
    ASSUME NEW U, NEW R, TotalOrder(R, U), NEW T \in SUBSET U, IsFiniteSet(T), T # {}
    PROVE  \E m \in T : \A y \in T : y = m \/ <<y, m>> \in R
<1> DEFINE P == {S \in SUBSET U : S = {} \/ \E m \in S : \A y \in S : y = m \/ <<y, m>> \in R}
<1>1. {} \in P
  OBVIOUS
<1>2. ASSUME NEW S \in SUBSET U, NEW x \in U, S \in P, x \notin S PROVE S \cup {x} \in P
  <2>1. CASE S = {}
    BY <2>1
  <2>2. CASE S # {}
    <3>1. PICK m \in S : \A y \in S : y = m \/ <<y, m>> \in R
      BY <1>2, <2>2
    <3>2. CASE <<m, x>> \in R
      <4>1. \A y \in S : <<y, x>> \in R
        BY <3>1, <3>2 DEF TotalOrder
      <4> QED BY <4>1
    <3>3. CASE <<x, m>> \in R
      <4>1. \A y \in S \cup {x} : y = m \/ <<y, m>> \in R
        BY <3>1, <3>3
      <4> QED BY <4>1
    <3> QED BY <1>2, <3>1, <3>2, <3>3 DEF TotalOrder
  <2> QED BY <2>1, <2>2
<1>3. T \in P
  <2> HIDE DEF P
  <2> QED BY <1>1, <1>2, FiniteInduction
<1> QED BY <1>3

\* s lists the elements of T in the order R
Lists(s, T, R) ==
    /\ s \in [1..Cardinality(T) -> T]
    /\ \A i, j \in DOMAIN s : i < j => <<s[i], s[j]>> \in R

\* A finite set can be listed in order
LEMMA ListingExists ==
    ASSUME NEW U, NEW R, TotalOrder(R, U), NEW T \in SUBSET U, IsFiniteSet(T)
    PROVE  \E s : Lists(s, T, R)
<1> DEFINE S == {n \in Nat : \A X \in SUBSET U :
                    IsFiniteSet(X) /\ Cardinality(X) = n => \E s : Lists(s, X, R)}
<1>1. 0 \in S
  <2> SUFFICES ASSUME NEW X \in SUBSET U, IsFiniteSet(X), Cardinality(X) = 0
               PROVE  \E s : Lists(s, X, R)
    OBVIOUS
  <2>1. [i \in 1..0 |-> {}] \in [1..0 -> X]
    OBVIOUS
  <2>2. Lists([i \in 1..0 |-> {}], X, R)
    BY <2>1 DEF Lists
  <2> QED BY <2>2
<1>2. ASSUME NEW n \in Nat, n \in S PROVE n + 1 \in S
  <2> SUFFICES ASSUME NEW X \in SUBSET U, IsFiniteSet(X), Cardinality(X) = n + 1
               PROVE  \E s : Lists(s, X, R)
    OBVIOUS
  <2>1. X # {}
    BY FS_EmptySet
  <2>2. PICK m \in X : \A y \in X : y = m \/ <<y, m>> \in R
    BY <2>1, LastElement
  <2> DEFINE Y == X \ {m}
  <2>3. Y \in SUBSET U /\ IsFiniteSet(Y) /\ Cardinality(Y) = n
    <3>1. IsFiniteSet(X \ {m}) /\ Cardinality(X \ {m}) = Cardinality(X) - 1
      BY FS_RemoveElement
    <3> QED BY <3>1
  <2>4. PICK s : Lists(s, Y, R)
    <3> HIDE DEF Y
    <3> QED BY <1>2, <2>3
  <2> DEFINE t == [i \in 1..(n + 1) |-> IF i = n + 1 THEN m ELSE s[i]]
  <2>5. s \in [1..n -> Y] /\ \A i, j \in 1..n : i < j => <<s[i], s[j]>> \in R
    BY <2>3, <2>4 DEF Lists
  <2>6. \A i \in 1..n : s[i] \in X /\ <<s[i], m>> \in R
    BY <2>2, <2>5
  <2>7. t \in [1..(n + 1) -> X]
    <3>1. \A i \in 1..(n + 1) : i = n + 1 \/ i \in 1..n
      OBVIOUS
    <3>2. \A i \in 1..(n + 1) : (IF i = n + 1 THEN m ELSE s[i]) \in X
      BY <2>6, <3>1
    <3> QED BY <3>2
  <2>8. ASSUME NEW i \in 1..(n + 1), NEW j \in 1..(n + 1), i < j PROVE <<t[i], t[j]>> \in R
    <3>1. i \in 1..n /\ t[i] = s[i]
      BY <2>8
    <3>2. CASE j = n + 1
      BY <2>6, <3>1, <3>2
    <3>3. CASE j # n + 1
      BY <2>5, <2>8, <3>1, <3>3
    <3> QED BY <3>2, <3>3
  <2> HIDE DEF t
  <2>9. Lists(t, X, R)
    BY <2>7, <2>8 DEF Lists
  <2> QED BY <2>9
<1>3. \A n \in Nat : n \in S
  <2> HIDE DEF S
  <2> QED BY <1>1, <1>2, NaturalInduction
<1> QED BY <1>3, FS_CardinalityType

\* A listing in order leaves nothing out
LEMMA ListingComplete ==
    ASSUME NEW U, NEW R, TotalOrder(R, U), NEW T \in SUBSET U, IsFiniteSet(T), NEW s,
           Lists(s, T, R)
    PROVE  \A x \in T : \E i \in 1..Cardinality(T) : s[i] = x
<1> DEFINE n == Cardinality(T)
<1>1. n \in Nat /\ IsFiniteSet(1..n) /\ Cardinality(1..n) = n
  BY FS_CardinalityType, FS_Interval
<1>2. s \in Injection(1..n, T)
  <2>1. ASSUME NEW i \in 1..n, NEW j \in 1..n, i # j PROVE s[i] # s[j]
    <3>1. i < j \/ j < i
      BY <1>1, <2>1
    <3>2. <<s[i], s[j]>> \in R \/ <<s[j], s[i]>> \in R
      BY <3>1 DEF Lists
    <3>3. s[i] \in U
      BY DEF Lists
    <3> QED BY <3>2, <3>3 DEF TotalOrder
  <2> QED BY <2>1 DEF Lists, Injection, IsInjective
<1>3. s \in Surjection(1..n, T)
  <2> HIDE DEF n
  <2> QED BY <1>1, <1>2, FS_Injection DEF n
<1> QED BY <1>3 DEF Surjection

\* Max of a finite set of numbers
LEMMA FiniteMax ==
    ASSUME NEW T \in SUBSET Int, IsFiniteSet(T), T # {}
    PROVE  Max(T) \in T /\ \A y \in T : y <= Max(T)
<1> DEFINE P == {S \in SUBSET Int : S = {} \/ \E m \in S : \A y \in S : m >= y}
<1>1. {} \in P
  OBVIOUS
<1>2. ASSUME NEW S \in SUBSET Int, NEW x \in Int, S \in P PROVE S \cup {x} \in P
  <2>1. CASE S = {}
    BY <2>1
  <2>2. CASE S # {}
    <3>1. PICK m \in S : \A y \in S : m >= y
      BY <1>2, <2>2
    <3>2. CASE m >= x
      <4>1. \A y \in S \cup {x} : m >= y
        BY <3>1, <3>2
      <4> QED BY <4>1
    <3>3. CASE ~(m >= x)
      <4>1. \A y \in S \cup {x} : x >= y
        BY <3>1, <3>3
      <4> QED BY <4>1
    <3> QED BY <3>2, <3>3
  <2> QED BY <2>1, <2>2
<1>3. T \in P
  <2> HIDE DEF P
  <2> QED BY <1>1, <1>2, FiniteInduction
<1>4. PICK m \in T : \A y \in T : m >= y
  BY <1>3
<1> QED BY <1>4 DEF Max

-----------------------------------------------------------------------------
(* Lists *)

\* An element at the end of two lists
LEMMA ConcatThenAppend ==
    ASSUME NEW V, NEW s \in Seq(V), NEW t \in Seq(V), NEW x \in V
    PROVE  s \o Append(t, x) = Append(s \o t, x)
<1>1. s \o t \in Seq(V) /\ <<x>> \in Seq(V) /\ Append(t, x) \in Seq(V)
  BY ConcatProperties, AppendProperties
<1>2. (s \o t) \o <<x>> = s \o (t \o <<x>>)
  BY <1>1, ConcatAssociative
<1> QED BY <1>1, <1>2, AppendIsConcat

\* Induction over lists, at their end
LEMMA ListInduction ==
    ASSUME NEW V, NEW P, <<>> \in P,
           \A s \in Seq(V) : \A x \in V : s \in P => Append(s, x) \in P
    PROVE  \A s \in Seq(V) : s \in P
<1> DEFINE N == {n \in Nat : \A s \in Seq(V) : Len(s) = n => s \in P}
<1>1. 0 \in N
  BY EmptySeq
<1>2. ASSUME NEW n \in Nat, n \in N PROVE n + 1 \in N
  <2> SUFFICES ASSUME NEW s \in Seq(V), Len(s) = n + 1 PROVE s \in P
    OBVIOUS
  <2>1. s # <<>>
    BY EmptySeq
  <2>2. PICK t \in Seq(V), x \in V : s = Append(t, x)
    BY <2>1, SequenceEmptyOrAppend
  <2>3. Len(t) = n
    BY <2>2, AppendProperties
  <2> QED BY <1>2, <2>2, <2>3
<1>3. \A n \in Nat : n \in N
  <2> HIDE DEF N
  <2> QED BY <1>1, <1>2, NaturalInduction
<1> QED BY <1>3

\* FlattenSeq: the concatenation of a list of lists
LEMMA FlattenEmpty == FlattenSeq(<<>>) = <<>>
BY DEF FlattenSeq

\* What the first k lists make together, from what the first k - 1 make
FlatUpTo(g, ss) ==
    \A k \in 1..Len(ss) : g[k] = IF k = 1 THEN ss[k] ELSE g[k - 1] \o ss[k]
LEMMA FlattenUnfolds ==
    ASSUME NEW V, NEW ss \in Seq(Seq(V)), Len(ss) > 0
    PROVE  \E g : g \in [1..Len(ss) -> Seq(V)] /\ FlatUpTo(g, ss) /\ FlattenSeq(ss) = g[Len(ss)]
<1> DEFINE n == Len(ss)
           W == Seq(V)
           step == [kv \in (1..n) \X W |-> kv[2] \o ss[kv[1]]]
           Takes(f) == f = [i \in 1..Len(ss) |-> IF i = 1 THEN ss[i] ELSE f[i - 1] \o ss[i]]
<1>1. n \in Nat /\ DOMAIN ss = 1..n /\ n > 0
  OBVIOUS
<1>2. \A k \in 1..n : ss[k] \in W
  OBVIOUS
<1>3. step \in Steps(n, W) /\ <<>> \in W
  BY <1>2 DEF Steps
<1>4. \A k \in 1..n : \A v \in W : step[<<k, v>>] = v \o ss[k]
  OBVIOUS
<1> HIDE DEF n, W, step
<1>5. PICK f : Unfolds(f, n, W, <<>>, step)
  BY <1>1, <1>3, RecursionDefines
<1> DEFINE g == [k \in 1..n |-> f[k]]
<1>6. \A k \in 1..n : /\ k \in 0..n /\ k - 1 \in 0..n
                      /\ k = 1 \/ (k - 1 \in 1..n /\ k > 1)
  BY <1>1
<1>7. f[0] = <<>> /\ \A k \in 0..n : f[k] \in W
  BY <1>5 DEF Unfolds
<1>8. \A k \in 1..n : f[k] = f[k - 1] \o ss[k]
  BY <1>4, <1>5, <1>6, <1>7 DEF Unfolds
<1>9. f[1] = ss[1]
  <2>1. 1 \in 1..n /\ 1 - 1 = 0
    BY <1>1
  <2>2. f[1] = f[0] \o ss[1]
    BY <1>8, <2>1
  <2>3. <<>> \o ss[1] = ss[1]
    BY <1>2, <2>1, ConcatEmptySeq DEF W
  <2> QED BY <1>7, <2>2, <2>3
<1>10. \A k \in 1..n : g[k] = IF k = 1 THEN ss[k] ELSE g[k - 1] \o ss[k]
  BY <1>6, <1>8, <1>9
<1>11. g \in [1..n -> W]
  BY <1>6, <1>7
<1>12. Takes(g)
  BY <1>10 DEF n
<1> DEFINE h == CHOOSE fl : Takes(fl)
<1> HIDE DEF g
<1>13. Takes(h)
  BY <1>12
<1>14. FlattenSeq(ss) = h[Len(ss)]
  <2>1. Len(ss) # 0
    BY <1>1 DEF n
  <2> QED BY <2>1, Zenon DEF FlattenSeq
<1> HIDE DEF h
<1>15. DOMAIN h = 1..n /\ \A k \in 1..n : h[k] = IF k = 1 THEN ss[k] ELSE h[k - 1] \o ss[k]
  BY <1>13 DEF n
<1>16. \A k \in 1..n : h[k] \in W
  <2> DEFINE P == {k \in 0..n : k = 0 \/ h[k] \in W}
  <2>1. 0 \in P
    BY <1>1
  <2>2. ASSUME NEW k \in 0..(n - 1), k \in P PROVE k + 1 \in P
    <3>1. k + 1 \in 1..n /\ k + 1 \in 0..n /\ (k + 1) - 1 = k /\ (k + 1 = 1 <=> k = 0)
      BY <1>1
    <3>2. CASE k = 0
      BY <1>2, <1>15, <3>1, <3>2
    <3>3. CASE k # 0
      <4>1. h[k + 1] = h[k] \o ss[k + 1] /\ h[k] \in W /\ ss[k + 1] \in W
        BY <1>2, <1>15, <2>2, <3>1, <3>3
      <4>2. h[k] \o ss[k + 1] \in W
        BY <4>1, ConcatProperties DEF W
      <4> QED BY <3>1, <4>1, <4>2
    <3> QED BY <3>2, <3>3
  <2>3. \A k \in 0..n : k \in P
    <3> HIDE DEF P
    <3> QED BY <1>1, <2>1, <2>2, BoundedInduction
  <2>4. \A k \in 1..n : k \in 0..n /\ k # 0
    BY <1>1
  <2> QED BY <2>3, <2>4
<1>17. h \in [1..n -> W]
  <2>1. h = [k \in 1..n |-> h[k]]
    BY <1>13 DEF n
  <2> QED BY <1>16, <2>1
<1> QED BY <1>14, <1>15, <1>17 DEF n, W, FlatUpTo

LEMMA FlattenType ==
    ASSUME NEW V, NEW ss \in Seq(Seq(V))
    PROVE  FlattenSeq(ss) \in Seq(V)
<1>1. CASE Len(ss) = 0
  BY <1>1, FlattenEmpty, EmptySeq
<1>2. CASE Len(ss) # 0
  <2>1. Len(ss) > 0 /\ Len(ss) \in 1..Len(ss)
    BY <1>2
  <2> QED BY <2>1, FlattenUnfolds
<1> QED BY <1>1, <1>2

LEMMA FlattenAppend ==
    ASSUME NEW V, NEW ss \in Seq(Seq(V)), NEW x \in Seq(V)
    PROVE  FlattenSeq(Append(ss, x)) = FlattenSeq(ss) \o x
<1> DEFINE tt == Append(ss, x)
           n == Len(ss)
<1>1. tt \in Seq(Seq(V)) /\ Len(tt) = n + 1 /\ n \in Nat /\ tt[n + 1] = x
      /\ \A k \in 1..n : tt[k] = ss[k]
  OBVIOUS
<1> HIDE DEF tt
<1>2. PICK h : h \in [1..Len(tt) -> Seq(V)] /\ FlatUpTo(h, tt) /\ FlattenSeq(tt) = h[Len(tt)]
  <2>1. Len(tt) > 0
    BY <1>1
  <2> QED BY <1>1, <2>1, FlattenUnfolds
<1>3. FlattenSeq(tt) = h[n + 1]
  BY <1>1, <1>2
<1>4. CASE n = 0
  <2>1. ss = <<>>
    BY <1>4, EmptySeq
  <2>2. h[n + 1] = tt[n + 1]
    BY <1>1, <1>2, <1>4 DEF FlatUpTo
  <2>3. <<>> \o x = x
    BY ConcatEmptySeq
  <2> QED BY <1>1, <1>3, <2>1, <2>2, <2>3, FlattenEmpty DEF tt
<1>5. CASE n # 0
  <2>1. PICK g : g \in [1..n -> Seq(V)] /\ FlatUpTo(g, ss) /\ FlattenSeq(ss) = g[n]
    <3>1. Len(ss) > 0
      BY <1>1, <1>5
    <3> QED BY <3>1, FlattenUnfolds
  <2> DEFINE P == {k \in 0..n : k = 0 \/ h[k] = g[k]}
  <2>2. 0 \in P
    BY <1>1
  <2>3. ASSUME NEW k \in 0..(n - 1), k \in P PROVE k + 1 \in P
    <3>1. k + 1 \in 1..n /\ k + 1 \in 0..n /\ k + 1 \in 1..(n + 1) /\ (k + 1) - 1 = k
          /\ (k + 1 = 1 <=> k = 0)
      BY <1>1
    <3>2. h[k + 1] = IF k + 1 = 1 THEN tt[k + 1] ELSE h[k] \o tt[k + 1]
      BY <1>1, <1>2, <3>1 DEF FlatUpTo
    <3>3. g[k + 1] = IF k + 1 = 1 THEN ss[k + 1] ELSE g[k] \o ss[k + 1]
      BY <1>1, <2>1, <3>1 DEF FlatUpTo
    <3>4. tt[k + 1] = ss[k + 1]
      BY <1>1, <3>1
    <3> QED BY <2>3, <3>1, <3>2, <3>3, <3>4
  <2>4. \A k \in 0..n : k \in P
    <3> HIDE DEF P
    <3> QED BY <1>1, <2>2, <2>3, BoundedInduction
  <2>5. h[n] = g[n]
    BY <1>1, <1>5, <2>4
  <2>6. h[n + 1] = h[n] \o x
    <3>1. n + 1 \in 1..Len(tt) /\ n + 1 # 1 /\ (n + 1) - 1 = n
      BY <1>1, <1>5
    <3> QED BY <1>1, <1>2, <3>1 DEF FlatUpTo
  <2> QED BY <1>3, <2>1, <2>5, <2>6 DEF tt
<1> QED BY <1>4, <1>5

\* What is concatenated in two parts
LEMMA FlattenConcat ==
    ASSUME NEW V, NEW ss \in Seq(Seq(V)), NEW tt \in Seq(Seq(V))
    PROVE  FlattenSeq(ss \o tt) = FlattenSeq(ss) \o FlattenSeq(tt)
<1> DEFINE P == {u \in Seq(Seq(V)) : FlattenSeq(ss \o u) = FlattenSeq(ss) \o FlattenSeq(u)}
<1>1. <<>> \in P
  <2>1. ss \o <<>> = ss /\ FlattenSeq(ss) \o <<>> = FlattenSeq(ss)
    BY ConcatEmptySeq, FlattenType
  <2> QED BY <2>1, FlattenEmpty, EmptySeq
<1>2. ASSUME NEW u \in Seq(Seq(V)), NEW x \in Seq(V), u \in P PROVE Append(u, x) \in P
  <2>1. PICK su : su = ss \o u
    OBVIOUS
  <2>2. su \in Seq(Seq(V)) /\ Append(u, x) \in Seq(Seq(V)) /\ ss \o Append(u, x) = Append(su, x)
    <3>1. <<x>> \in Seq(Seq(V))
      OBVIOUS
    <3>2. (ss \o u) \o <<x>> = ss \o (u \o <<x>>)
      BY <3>1, ConcatAssociative, SMTT(60)
    <3>3. ss \o u \in Seq(Seq(V)) /\ Append(u, x) \in Seq(Seq(V))
      BY ConcatProperties, AppendProperties
    <3>4. Append(u, x) = u \o <<x>> /\ Append(su, x) = su \o <<x>>
      BY <2>1, <3>3, AppendIsConcat
    <3> QED BY <2>1, <3>2, <3>3, <3>4
  <2>3. PICK a, b : a = FlattenSeq(ss) /\ b = FlattenSeq(u)
    OBVIOUS
  <2>4. a \in Seq(V) /\ b \in Seq(V)
    BY <2>3, FlattenType
  <2>5. FlattenSeq(Append(su, x)) = FlattenSeq(su) \o x /\ FlattenSeq(Append(u, x)) = b \o x
    BY <2>2, <2>3, FlattenAppend
  <2>6. FlattenSeq(su) = a \o b
    BY <1>2, <2>1, <2>3
  <2>7. (a \o b) \o x = a \o (b \o x)
    BY <2>4, ConcatAssociative, SMTT(60)
  <2> QED BY <2>2, <2>3, <2>5, <2>6, <2>7
<1>3. \A u \in Seq(Seq(V)) : u \in P
  <2> HIDE DEF P
  <2> QED BY <1>1, <1>2, ListInduction
<1> QED BY <1>3

\* The concatenation of what each element of a list makes
FlatMap(ff, s) == FlattenSeq([k \in DOMAIN s |-> ff[s[k]]])
Grows(ff, s, U, V) ==
    /\ FlatMap(ff, s) \in Seq(V) /\ FlatMap(ff, <<>>) = <<>>
    /\ \A t \in Seq(U) : FlatMap(ff, s \o t) = FlatMap(ff, s) \o FlatMap(ff, t)
    /\ \A x \in U : FlatMap(ff, Append(s, x)) = FlatMap(ff, s) \o ff[x]
LEMMA FlatMapGrows ==
    ASSUME NEW U, NEW V, NEW ff \in [U -> Seq(V)], NEW s \in Seq(U)
    PROVE  Grows(ff, s, U, V)
<1> DEFINE Each(u) == [k \in DOMAIN u |-> ff[u[k]]]
<1>1. ASSUME NEW u \in Seq(U)
      PROVE  /\ Each(u) \in Seq(Seq(V)) /\ Len(Each(u)) = Len(u)
             /\ \A k \in 1..Len(u) : Each(u)[k] = ff[u[k]]
  <2>1. DOMAIN u = 1..Len(u) /\ Len(u) \in Nat /\ \A k \in 1..Len(u) : ff[u[k]] \in Seq(V)
    OBVIOUS
  <2>2. Each(u) \in [1..Len(u) -> Seq(V)]
    BY <2>1
  <2> QED BY <2>1, <2>2
<1>2. ASSUME NEW u \in Seq(U) PROVE FlatMap(ff, u) = FlattenSeq(Each(u)) /\ FlatMap(ff, u) \in Seq(V)
  <2>1. FlatMap(ff, u) = FlattenSeq(Each(u))
    BY DEF FlatMap
  <2>2. Each(u) \in Seq(Seq(V))
    BY <1>1
  <2> HIDE DEF Each
  <2> QED BY <2>1, <2>2, FlattenType
<1>3. FlatMap(ff, <<>>) = <<>>
  <2>1. Each(<<>>) = <<>>
    OBVIOUS
  <2> QED BY <2>1, FlattenEmpty DEF FlatMap
<1>4. ASSUME NEW t \in Seq(U) PROVE FlatMap(ff, s \o t) = FlatMap(ff, s) \o FlatMap(ff, t)
  <2>1. PICK both : both = s \o t
    OBVIOUS
  <2>2. PICK m, n : m = Len(s) /\ n = Len(t)
    OBVIOUS
  <2>3. m \in Nat /\ n \in Nat
    BY <2>2
  <2>4. /\ both \in Seq(U) /\ Len(both) = m + n
        /\ \A i \in 1..(m + n) : both[i] = IF i <= m THEN s[i] ELSE t[i - m]
    BY <2>1, <2>2, ConcatProperties
  <2>5. PICK x, y, z : x = Each(both) /\ y = Each(s) /\ z = Each(t)
    OBVIOUS
  <2>6. /\ x \in Seq(Seq(V)) /\ y \in Seq(Seq(V)) /\ z \in Seq(Seq(V))
        /\ Len(x) = m + n /\ Len(y) = m /\ Len(z) = n
        /\ \A i \in 1..(m + n) : x[i] = ff[both[i]]
        /\ \A i \in 1..m : y[i] = ff[s[i]]
        /\ \A i \in 1..n : z[i] = ff[t[i]]
    <3> HIDE DEF Each
    <3> QED BY <1>1, <2>2, <2>4, <2>5
  <2>7. /\ y \o z \in Seq(Seq(V)) /\ Len(y \o z) = m + n
        /\ \A i \in 1..(m + n) : (y \o z)[i] = IF i <= m THEN y[i] ELSE z[i - m]
    <3>1. y \in Seq(Seq(V)) /\ z \in Seq(Seq(V)) /\ Len(y) = m /\ Len(z) = n
      BY <2>6
    <3>2. /\ y \o z \in Seq(Seq(V)) /\ Len(y \o z) = Len(y) + Len(z)
          /\ \A i \in 1..(Len(y) + Len(z)) :
               (y \o z)[i] = IF i <= Len(y) THEN y[i] ELSE z[i - Len(y)]
      <4> HIDE DEF Each
      <4> QED BY ONLY <3>1, ConcatProperties
    <3> QED BY <3>1, <3>2
  <2>8. \A i \in 1..(m + n) : x[i] = (y \o z)[i]
    <3> TAKE i \in 1..(m + n)
    <3>1. CASE i <= m
      <4>1. i \in 1..m
        BY <2>3, <3>1
      <4>2. x[i] = ff[s[i]] /\ (y \o z)[i] = ff[s[i]]
        BY <2>4, <2>6, <2>7, <3>1, <4>1
      <4> QED BY <4>2
    <3>2. CASE ~(i <= m)
      <4>1. PICK j \in 1..n : j = i - m
        BY <2>3, <3>2
      <4>2. x[i] = ff[t[j]]
        <5>1. both[i] = t[j]
          BY <2>4, <3>2, <4>1
        <5> QED BY <2>6, <5>1
      <4>3. (y \o z)[i] = z[j]
        BY <2>7, <3>2, <4>1
      <4>4. z[j] = ff[t[j]]
        BY <2>6, <4>1
      <4> QED BY <4>2, <4>3, <4>4
    <3> QED BY <3>1, <3>2
  <2>9. x = y \o z
    BY <2>6, <2>7, <2>8, SeqEqual
  <2>10. FlattenSeq(y \o z) = FlattenSeq(y) \o FlattenSeq(z)
    BY <2>6, FlattenConcat
  <2> HIDE DEF Each
  <2>11. FlatMap(ff, s) = FlattenSeq(y) /\ FlatMap(ff, t) = FlattenSeq(z)
         /\ FlatMap(ff, both) = FlattenSeq(x)
    BY <1>2, <2>4, <2>5
  <2> QED BY <2>1, <2>9, <2>10, <2>11
<1>5. ASSUME NEW x \in U PROVE FlatMap(ff, Append(s, x)) = FlatMap(ff, s) \o ff[x]
  <2>1. <<x>> \in Seq(U) /\ Append(s, x) = s \o <<x>>
    BY AppendIsConcat
  <2>2. FlatMap(ff, Append(s, x)) = FlatMap(ff, s) \o FlatMap(ff, <<x>>)
    BY <1>4, <2>1
  <2>3. FlatMap(ff, <<x>>) = ff[x]
    <3>1. PICK v \in Seq(V) : v = ff[x]
      OBVIOUS
    <3>2. Each(<<x>>) = <<v>>
      BY <3>1
    <3>3. <<>> \in Seq(Seq(V)) /\ Append(<<>>, v) = <<v>>
      OBVIOUS
    <3>4. FlattenSeq(Append(<<>>, v)) = <<>> \o v
      BY <3>3, FlattenAppend, FlattenEmpty
    <3>5. <<>> \o v = v
      BY ConcatEmptySeq
    <3> HIDE DEF Each
    <3>6. FlatMap(ff, <<x>>) = FlattenSeq(Each(<<x>>))
      BY <1>2, <2>1
    <3> QED BY <3>1, <3>2, <3>3, <3>4, <3>5, <3>6
  <2> QED BY <2>2, <2>3
<1> HIDE DEF Each
<1> QED BY <1>2, <1>3, <1>4, <1>5 DEF Grows

-----------------------------------------------------------------------------
(* Folds: what a loop over a list computes, the body of the loop being a   *)
(* function of what is accumulated and the next element                    *)

LoopBodies(V, F) == [V \X F -> V]
Accumulates(h, first, fs, body) ==
    h[0] = first /\ \A k \in 1..Len(fs) : h[k] = body[<<h[k - 1], fs[k]>>]
FoldOf(V, first, fs, body) ==
    (CHOOSE h \in [0..Len(fs) -> V] : Accumulates(h, first, fs, body))[Len(fs)]

LEMMA FoldDefined ==
    ASSUME NEW V, NEW F, NEW first \in V, NEW body \in LoopBodies(V, F), NEW fs \in Seq(F)
    PROVE  \E h \in [0..Len(fs) -> V] :
               Accumulates(h, first, fs, body) /\ FoldOf(V, first, fs, body) = h[Len(fs)]
<1> DEFINE n == Len(fs)
           step == [kv \in (1..n) \X V |-> body[<<kv[2], fs[kv[1]]>>]]
<1>1. n \in Nat /\ \A k \in 1..n : fs[k] \in F
  OBVIOUS
<1>2. \A k \in 1..n : \A v \in V : body[<<v, fs[k]>>] \in V
  BY <1>1 DEF LoopBodies
<1> HIDE DEF n
<1>3. step \in Steps(n, V) /\ \A k \in 1..n : \A v \in V : step[<<k, v>>] = body[<<v, fs[k]>>]
  BY <1>2 DEF Steps
<1> HIDE DEF step
<1>4. PICK h : Unfolds(h, n, V, first, step)
  BY <1>1, <1>3, RecursionDefines
<1>5. \A k \in 1..n : k - 1 \in 0..n
  BY <1>1
<1>6. h \in [0..n -> V] /\ Accumulates(h, first, fs, body)
  BY <1>3, <1>4, <1>5 DEF Unfolds, Accumulates, n
<1> QED BY <1>6 DEF FoldOf, n

\* Whatever unfolds like the loop ends where it does
LEMMA FoldUnique ==
    ASSUME NEW V, NEW F, NEW first \in V, NEW body \in LoopBodies(V, F), NEW fs \in Seq(F),
           NEW h, h[0] = first,
           \A k \in 1..Len(fs) : h[k - 1] \in V => h[k] = body[<<h[k - 1], fs[k]>>]
    PROVE  h[Len(fs)] = FoldOf(V, first, fs, body)
<1> DEFINE n == Len(fs)
<1>1. PICK g \in [0..n -> V] :
         Accumulates(g, first, fs, body) /\ FoldOf(V, first, fs, body) = g[n]
  BY FoldDefined
<1> DEFINE P == {k \in 0..n : h[k] = g[k]}
<1>2. n \in Nat
  OBVIOUS
<1>3. 0 \in P
  BY <1>1, <1>2 DEF Accumulates
<1>4. ASSUME NEW k \in 0..(n - 1), k \in P PROVE k + 1 \in P
  <2>1. k \in 0..n /\ k + 1 \in 1..n /\ k + 1 \in 0..n /\ (k + 1) - 1 = k
    BY <1>2
  <2>2. h[k] = g[k] /\ g[k] \in V
    BY <1>1, <1>4, <2>1
  <2>3. h[k + 1] = body[<<h[k], fs[k + 1]>>]
    BY <2>1, <2>2
  <2>4. g[k + 1] = body[<<g[k], fs[k + 1]>>]
    BY <1>1, <2>1 DEF Accumulates
  <2> QED BY <2>1, <2>2, <2>3, <2>4
<1>5. \A k \in 0..n : k \in P
  <2> HIDE DEF P, n
  <2> QED BY <1>2, <1>3, <1>4, BoundedInduction
<1> QED BY <1>1, <1>2, <1>5

\* The loop over one element more
LEMMA FoldAppend ==
    ASSUME NEW V, NEW F, NEW first \in V, NEW body \in LoopBodies(V, F), NEW fs \in Seq(F)
    PROVE  /\ FoldOf(V, first, fs, body) \in V /\ FoldOf(V, first, <<>>, body) = first
           /\ \A f \in F : FoldOf(V, first, Append(fs, f), body)
                               = body[<<FoldOf(V, first, fs, body), f>>]
<1>1. FoldOf(V, first, fs, body) \in V
  <2>1. Len(fs) \in 0..Len(fs)
    OBVIOUS
  <2> QED BY <2>1, FoldDefined
<1>2. FoldOf(V, first, <<>>, body) = first
  <2>1. <<>> \in Seq(F) /\ Len(<<>>) = 0
    OBVIOUS
  <2> QED BY <2>1, FoldDefined DEF Accumulates
<1>3. ASSUME NEW f \in F
      PROVE  FoldOf(V, first, Append(fs, f), body) = body[<<FoldOf(V, first, fs, body), f>>]
  <2> DEFINE n == Len(fs)
  <2>1. PICK fx : fx = Append(fs, f)
    OBVIOUS
  <2>2. /\ fx \in Seq(F) /\ Len(fx) = n + 1 /\ n \in Nat /\ fx[n + 1] = f
        /\ \A k \in 1..n : fx[k] = fs[k]
    BY <2>1
  <2>3. PICK g \in [0..Len(fx) -> V] :
           Accumulates(g, first, fx, body) /\ FoldOf(V, first, fx, body) = g[Len(fx)]
    BY <2>2, FoldDefined
  <2>4. g[n] = FoldOf(V, first, fs, body)
    <3>1. g[0] = first
      BY <2>3 DEF Accumulates
    <3>2. \A k \in 1..Len(fs) : k \in 1..Len(fx) /\ fx[k] = fs[k]
      BY <2>2
    <3>3. \A k \in 1..Len(fs) : g[k] = body[<<g[k - 1], fs[k]>>]
      BY <2>3, <3>2 DEF Accumulates
    <3> QED BY <3>1, <3>3, FoldUnique
  <2>5. g[n + 1] = body[<<g[n], f>>]
    <3>1. n + 1 \in 1..Len(fx) /\ (n + 1) - 1 = n
      BY <2>2
    <3> QED BY <2>2, <2>3, <3>1 DEF Accumulates
  <2> QED BY <2>1, <2>2, <2>3, <2>4, <2>5
<1> QED BY <1>1, <1>2, <1>3
=============================================================================
