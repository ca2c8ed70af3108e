-------------------------- MODULE Selection_proofs --------------------------
(***************************************************************************)
(* What Those keeps: the elements that are in the set, each as often as it *)
(* was there, in the order they had.  And what is left of a sequence that  *)
(* an element was taken from, and that there is a first to take.           *)
(***************************************************************************)
EXTENDS Selection, SequencesExt, FiniteSetTheorems, SequenceTheorems,
        WellFoundedInduction, TLAPS

\* The places are counted off in their order.
LEMMA RankBounds ==
  ASSUME NEW places \in SUBSET Int, IsFiniteSet(places), NEW i \in places
  PROVE  Rank(places, i) \in 1..Cardinality(places)
<1> DEFINE upto == {j \in places : j <= i}
<1>1. IsFiniteSet(upto) /\ Cardinality(upto) <= Cardinality(places)
  BY FS_Subset
<1>2. upto # {} /\ i \in upto
  OBVIOUS
<1>3. Cardinality(upto) \in Nat /\ Cardinality(upto) # 0 /\ Cardinality(places) \in Nat
  BY <1>1, <1>2, FS_CardinalityType, FS_EmptySet
<1> QED BY <1>1, <1>3 DEF Rank

LEMMA RankIncreases ==
  ASSUME NEW places \in SUBSET Int, IsFiniteSet(places),
         NEW i \in places, NEW j \in places, i < j
  PROVE  Rank(places, i) < Rank(places, j)
<1> DEFINE P(k) == {x \in places : x <= k}
<1>1. P(i) \subseteq P(j) /\ P(i) # P(j)
  <2>1. \A x \in P(i) : x \in P(j)
    OBVIOUS
  <2>2. j \in P(j) /\ j \notin P(i)
    OBVIOUS
  <2> QED BY <2>1, <2>2
<1>2. IsFiniteSet(P(j)) /\ IsFiniteSet(P(i))
  BY FS_Subset
<1>3. Cardinality(P(i)) <= Cardinality(P(j)) /\ Cardinality(P(i)) # Cardinality(P(j))
  BY <1>1, <1>2, FS_Subset
<1>4. Cardinality(P(i)) \in Nat /\ Cardinality(P(j)) \in Nat
  BY <1>2, FS_CardinalityType
<1> QED BY <1>3, <1>4 DEF Rank

LEMMA RankIsOnto ==
  ASSUME NEW places \in SUBSET Int, IsFiniteSet(places),
         NEW n \in 1..Cardinality(places)
  PROVE  \E i \in places : Rank(places, i) = n
<1> DEFINE N == Cardinality(places)
           f == [i \in places |-> Rank(places, i)]
<1>1. N \in Nat
  BY FS_CardinalityType
<1>2. f \in [places -> 1..N]
  BY RankBounds
<1>3. \A i, j \in places : f[i] = f[j] => i = j
  <2> SUFFICES ASSUME NEW i \in places, NEW j \in places, i # j
               PROVE  f[i] # f[j]
    OBVIOUS
  <2>1. Rank(places, i) \in Int /\ Rank(places, j) \in Int
    BY RankBounds, <1>1
  <2>2. CASE i < j
    BY <2>1, <2>2, RankIncreases
  <2>3. CASE j < i
    BY <2>1, <2>3, RankIncreases
  <2> QED BY <2>2, <2>3
<1>4. f \in Injection(places, 1..N)
  BY <1>2, <1>3 DEF Injection, IsInjective
<1>5. IsFiniteSet(1..N) /\ Cardinality(1..N) = N
  BY <1>1, FS_Interval
<1>6. f \in Surjection(places, 1..N)
  BY <1>4, <1>5, FS_Injection
<1>7. \E i \in places : f[i] = n
  BY <1>6 DEF Surjection
<1> QED BY <1>7

LEMMA NthPlace ==
  ASSUME NEW places \in SUBSET Int, IsFiniteSet(places),
         NEW n \in 1..Cardinality(places)
  PROVE  Nth(places, n) \in places /\ Rank(places, Nth(places, n)) = n
BY RankIsOnto, Zenon DEF Nth

-----------------------------------------------------------------------------
\* What Those keeps of s comes from the places that are in the set, one after the
\* other, and from every one of them.
Picks(s, set, g) ==
  LET places == {i \in 1..Len(s) : s[i] \in set}
      n == Cardinality(places)
  IN  /\ n \in 0..Len(s)
      /\ g \in [1..n -> places]
      /\ Those(s, set) = [k \in 1..n |-> s[g[k]]]
      /\ \A k, m \in 1..n : k < m => g[k] < g[m]
      /\ \A i \in places : \E k \in 1..n : g[k] = i

LEMMA ThosePicks ==
  ASSUME NEW T, NEW s \in Seq(T), NEW set
  PROVE  \E g : Picks(s, set, g)
<1> DEFINE places == {i \in 1..Len(s) : s[i] \in set}
           n == Cardinality(places)
           g == [k \in 1..n |-> Nth(places, k)]
<1>1. Len(s) \in Nat
  OBVIOUS
<1>2. IsFiniteSet(places) /\ n \in 0..Len(s) /\ places \in SUBSET Int
  <2>1. IsFiniteSet(1..Len(s)) /\ Cardinality(1..Len(s)) = Len(s)
    BY <1>1, FS_Interval
  <2>2. IsFiniteSet(places) /\ n <= Len(s)
    BY <2>1, FS_Subset
  <2> QED BY <1>1, <2>2, FS_CardinalityType
<1>3. \A k \in 1..n : Nth(places, k) \in places /\ Rank(places, Nth(places, k)) = k
  BY <1>2, NthPlace
<1>4. g \in [1..n -> places]
  BY <1>3
<1>5. Those(s, set) = [k \in 1..n |-> s[g[k]]]
  BY DEF Those
<1>6. ASSUME NEW k \in 1..n, NEW m \in 1..n, k < m PROVE g[k] < g[m]
  <2> DEFINE a == Nth(places, k)
             b == Nth(places, m)
  <2>1. a \in places /\ b \in places /\ Rank(places, a) = k /\ Rank(places, b) = m
    BY <1>3
  <2> HIDE DEF a, b
  <2>2. a \in Int /\ b \in Int /\ k \in Int /\ m \in Int
    BY <1>2, <2>1
  <2>3. ASSUME b < a PROVE FALSE
    BY <1>2, <1>6, <2>1, <2>2, <2>3, RankIncreases
  <2>4. ASSUME a = b PROVE FALSE
    BY <1>6, <2>1, <2>2, <2>4
  <2>5. a < b
    BY <2>2, <2>3, <2>4
  <2> QED BY <2>5 DEF a, b
<1>7. ASSUME NEW i \in places PROVE \E k \in 1..n : g[k] = i
  <2>1. Rank(places, i) \in 1..n
    BY <1>2, RankBounds
  <2> DEFINE k == Rank(places, i)
             j == Nth(places, k)
  <2>2. j \in places /\ Rank(places, j) = k
    BY <2>1, <1>3
  <2>3. j = i
    <3> HIDE DEF places, j
    <3>1. i \in Int /\ j \in Int
      BY <1>2, <2>2
    <3>2. k \in Int
      BY <2>1, <1>2
    <3>3. CASE i < j
      BY <1>2, <2>2, <3>2, <3>3, RankIncreases
    <3>4. CASE j < i
      BY <1>2, <2>2, <3>2, <3>4, RankIncreases
    <3> QED BY <3>1, <3>3, <3>4
  <2> QED BY <2>1, <2>3
<1>8. Picks(s, set, g)
  <2> HIDE DEF g
  <2> QED BY <1>2, <1>4, <1>5, <1>6, <1>7 DEF Picks
<1> QED BY <1>8

LEMMA TableIsSeq ==
  ASSUME NEW T, NEW n \in Nat, NEW f, \A k \in 1..n : f[k] \in T
  PROVE  [k \in 1..n |-> f[k]] \in Seq(T) /\ Len([k \in 1..n |-> f[k]]) = n
OBVIOUS

\* It is a sequence of the elements that s and the set share.
LEMMA ThoseType ==
  ASSUME NEW T, NEW s \in Seq(T), NEW set
  PROVE  /\ Those(s, set) \in Seq(T)
         /\ Len(Those(s, set)) <= Len(s)
         /\ ToSet(Those(s, set)) = ToSet(s) \intersect set
<1>1. PICK g : Picks(s, set, g)
  BY ThosePicks
<1> DEFINE places == {i \in 1..Len(s) : s[i] \in set}
           n == Cardinality(places)
           t == Those(s, set)
<1>l. Len(s) \in Nat
  OBVIOUS
<1>2. /\ n \in 0..Len(s)
      /\ g \in [1..n -> places]
      /\ t = [k \in 1..n |-> s[g[k]]]
      /\ \A i \in places : \E k \in 1..n : g[k] = i
  BY <1>1, Zenon DEF Picks
<1>3. \A k \in 1..n : g[k] \in 1..Len(s) /\ s[g[k]] \in set /\ t[k] = s[g[k]]
  BY <1>2, <1>l
<1>4. ASSUME NEW i \in 1..Len(s), s[i] \in set
      PROVE  \E k \in 1..n : t[k] = s[i]
  <2>1. PICK k \in 1..n : g[k] = i
    BY <1>2, <1>4
  <2> QED BY <1>3, <2>1
<1> HIDE DEF n, places
<1>5. \A k \in 1..n : s[g[k]] \in T
  BY <1>3
<1>6. t \in Seq(T) /\ Len(t) = n
  BY <1>2, <1>l, <1>5, TableIsSeq DEF t
<1>7. ToSet(t) = ToSet(s) \intersect set
  <2> HIDE DEF t
  <2>1. /\ ToSet(s) = {s[i] : i \in 1..Len(s)}
        /\ ToSet(t) = {t[k] : k \in 1..n}
    BY <1>6 DEF ToSet
  <2>2. ASSUME NEW k \in 1..n
        PROVE  t[k] \in set /\ \E i \in 1..Len(s) : s[i] = t[k]
    BY <1>3
  <2> QED BY <1>4, <2>1, <2>2, Zenon
<1> QED BY <1>2, <1>l, <1>6, <1>7

-----------------------------------------------------------------------------
(* Sequences in which some elements occur at most once.                    *)
Once(s, set) ==
  \A i, j \in 1..Len(s) : s[i] = s[j] /\ s[i] \in set => i = j

LEMMA OnceThose ==
  ASSUME NEW T, NEW s \in Seq(T), NEW set, NEW few, Once(s, few)
  PROVE  Once(Those(s, set), few)
<1>1. PICK g : Picks(s, set, g)
  BY ThosePicks
<1> DEFINE places == {i \in 1..Len(s) : s[i] \in set}
           n == Cardinality(places)
           t == Those(s, set)
<1>l. Len(s) \in Nat
  OBVIOUS
<1>2. /\ n \in 0..Len(s)
      /\ g \in [1..n -> places]
      /\ t = [k \in 1..n |-> s[g[k]]]
      /\ \A k, m \in 1..n : k < m => g[k] < g[m]
  BY <1>1, Zenon DEF Picks
<1>3. \A k \in 1..n : g[k] \in 1..Len(s) /\ t[k] = s[g[k]]
  BY <1>2, <1>l
<1> HIDE DEF n, places
<1>4. t \in Seq(T) /\ Len(t) = n
  BY <1>2, <1>l, <1>3, TableIsSeq DEF t
<1> HIDE DEF t
<1>5. ASSUME NEW k \in 1..n, NEW m \in 1..n, t[k] = t[m], t[k] \in few
      PROVE  k = m
  <2>1. g[k] = g[m]
    BY <1>3, <1>5 DEF Once
  <2> QED BY <1>2, <1>l, <1>3, <2>1
<1> QED BY <1>4, <1>5 DEF t, Once

LEMMA OnceAppend ==
  ASSUME NEW T, NEW s \in Seq(T), NEW x \in T, NEW few, Once(s, few),
         x \in few => x \notin ToSet(s)
  PROVE  /\ Append(s, x) \in Seq(T)
         /\ ToSet(Append(s, x)) = ToSet(s) \union {x}
         /\ Once(Append(s, x), few)
<1>1. /\ Append(s, x) \in Seq(T) /\ Len(s) \in Nat
      /\ Len(Append(s, x)) = Len(s) + 1
      /\ \A i \in 1..Len(s) : Append(s, x)[i] = s[i]
      /\ Append(s, x)[Len(s) + 1] = x
  OBVIOUS
<1> DEFINE t == Append(s, x)
<1> HIDE DEF t
<1>2. /\ t \in Seq(T) /\ Len(s) \in Nat
      /\ Len(t) = Len(s) + 1
      /\ \A i \in 1..Len(s) : t[i] = s[i]
      /\ t[Len(s) + 1] = x
  BY <1>1 DEF t
<1>3. ToSet(t) = ToSet(s) \union {x}
  BY <1>2 DEF ToSet
<1>4. Once(t, few)
  BY <1>2 DEF Once, ToSet
<1> QED BY <1>1, <1>3, <1>4 DEF t

LEMMA OnceTail ==
  ASSUME NEW T, NEW s \in Seq(T), s # <<>>, NEW few, Once(s, few)
  PROVE  /\ Tail(s) \in Seq(T) /\ Head(s) \in T
         /\ Len(Tail(s)) = Len(s) - 1
         /\ ToSet(s) = ToSet(Tail(s)) \union {Head(s)}
         /\ Once(Tail(s), few)
         /\ Head(s) \in few => Head(s) \notin ToSet(Tail(s))
<1>1. /\ Tail(s) \in Seq(T) /\ Len(s) \in Nat /\ Len(s) > 0
      /\ Len(Tail(s)) = Len(s) - 1
      /\ \A i \in 1..(Len(s) - 1) : Tail(s)[i] = s[i + 1]
      /\ Head(s) = s[1] /\ Head(s) \in T
  OBVIOUS
<1> DEFINE t == Tail(s)
<1> HIDE DEF t
<1>2. /\ t \in Seq(T) /\ Len(s) \in Nat /\ Len(s) > 0
      /\ Len(t) = Len(s) - 1
      /\ \A i \in 1..(Len(s) - 1) : t[i] = s[i + 1]
  BY <1>1 DEF t
<1>3. ToSet(s) = ToSet(t) \union {Head(s)}
  <2>1. \A i \in 1..Len(s) : i = 1 \/ (i - 1 \in 1..Len(t) /\ s[i] = t[i - 1])
    BY <1>2
  <2>2. \A i \in 1..Len(t) : i + 1 \in 1..Len(s) /\ t[i] = s[i + 1]
    BY <1>2
  <2>3. ASSUME NEW x \in ToSet(s) PROVE x \in ToSet(t) \union {Head(s)}
    <3>1. PICK i \in 1..Len(s) : s[i] = x
      BY <1>2, <2>3 DEF ToSet
    <3> QED BY <1>1, <1>2, <2>1, <3>1 DEF ToSet
  <2>4. ASSUME NEW x \in ToSet(t) PROVE x \in ToSet(s)
    <3>1. PICK i \in 1..Len(t) : t[i] = x
      BY <1>2, <2>4 DEF ToSet
    <3> QED BY <1>2, <2>2, <3>1 DEF ToSet
  <2>5. Head(s) \in ToSet(s)
    BY <1>1 DEF ToSet
  <2> QED BY <2>3, <2>4, <2>5
<1>4. Once(t, few) /\ (Head(s) \in few => Head(s) \notin ToSet(t))
  BY <1>1, <1>2 DEF Once, ToSet
<1> QED BY <1>1, <1>3, <1>4 DEF t

-----------------------------------------------------------------------------
(* Taking one of several *)

\* What is left of a sequence without its i-th element.
LEMMA Removed ==
  ASSUME NEW S, NEW s \in Seq(S), NEW i \in 1..Len(s)
  PROVE  /\ RemoveAt(s, i) \in Seq(S)
         /\ Len(RemoveAt(s, i)) = Len(s) - 1
         /\ \A j \in 1..Len(s) - 1 : RemoveAt(s, i)[j] = s[IF j < i THEN j ELSE j + 1]
<1> DEFINE a == SubSeq(s, 1, i - 1)
           b == SubSeq(s, i + 1, Len(s))
<1>1. /\ a \in Seq(S) /\ Len(a) = i - 1 /\ \A j \in 1..i - 1 : a[j] = s[j]
  OBVIOUS
<1>2. /\ b \in Seq(S) /\ Len(b) = Len(s) - i
      /\ \A j \in 1..Len(s) - i : b[j] = s[i + j]
  OBVIOUS
<1>3. RemoveAt(s, i) = a \o b
  BY DEF RemoveAt
<1> HIDE DEF a, b
<1>4. /\ a \o b \in Seq(S) /\ Len(a \o b) = Len(s) - 1
      /\ \A j \in 1..Len(s) - 1 : (a \o b)[j] = IF j < i THEN a[j] ELSE b[j - (i - 1)]
  <2>1. /\ a \o b \in Seq(S) /\ Len(a \o b) = Len(a) + Len(b)
        /\ \A j \in 1..Len(a) + Len(b) :
              (a \o b)[j] = IF j <= Len(a) THEN a[j] ELSE b[j - Len(a)]
    BY <1>1, <1>2, ConcatProperties
  <2> QED BY <1>1, <1>2, <2>1
<1>5. ASSUME NEW j \in 1..Len(s) - 1
      PROVE  (a \o b)[j] = s[IF j < i THEN j ELSE j + 1]
  <2>1. CASE j < i
    BY <1>1, <1>4, <2>1
  <2>2. CASE ~ j < i
    <3>1. j - (i - 1) \in 1..Len(s) - i /\ i + (j - (i - 1)) = j + 1
      BY <2>2
    <3> QED BY <1>2, <1>4, <2>2, <3>1
  <2> QED BY <2>1, <2>2
<1> QED BY <1>3, <1>4, <1>5

\* A set of numbers has a least one.
LEMMA Least ==
  ASSUME NEW T, T \subseteq Nat, T # {}
  PROVE  \E x \in T : \A y \in T : x <= y
<1> DEFINE R == OpToRel(<, Nat)
<1>1. \A x, y \in Nat : <<y, x>> \in R <=> y < x
  BY DEF OpToRel
<1>2. IsWellFoundedOn(R, Nat)
  BY NatLessThanWellFounded
<1> HIDE DEF R
<1>3. PICK x \in T : \A y \in T : ~ (<<y, x>> \in R)
  BY <1>2, WFMin
<1>4. ASSUME NEW y \in T PROVE x <= y
  <2>1. x \in Nat /\ y \in Nat
    OBVIOUS
  <2>2. ~ y < x
    BY <1>1, <1>3, <2>1, Zenon
  <2> QED BY <2>1, <2>2
<1> QED BY <1>4

\* Of numbered things there is a first of the least.
LEMMA Foremost ==
  ASSUME NEW E, E \subseteq Nat, E # {}, NEW measure \in [E -> Nat]
  PROVE  \E k \in E : \A j \in E :
            measure[k] < measure[j] \/ (measure[k] = measure[j] /\ k <= j)
<1> DEFINE T == {measure[i] : i \in E}
<1>1. PICK p \in T : \A q \in T : p <= q
  <2>1. T \subseteq Nat /\ T # {}
    OBVIOUS
  <2> HIDE DEF T
  <2> QED BY <2>1, Least
<1> DEFINE U == {i \in E : measure[i] = p}
<1>2. PICK k \in U : \A j \in U : k <= j
  <2>1. U \subseteq Nat /\ U # {}
    OBVIOUS
  <2> HIDE DEF U
  <2> QED BY <2>1, Least
<1>3. ASSUME NEW j \in E PROVE measure[k] < measure[j] \/ (measure[k] = measure[j] /\ k <= j)
  BY <1>1, <1>2
<1> QED BY <1>2, <1>3

\* What is in a sequence that an element was added to, or taken from.
LEMMA AddedSet ==
  ASSUME NEW s, s \in Seq(ToSet(s)), NEW x
  PROVE  /\ Append(s, x) \in Seq(ToSet(Append(s, x)))
         /\ ToSet(Append(s, x)) = ToSet(s) \union {x}
<1> DEFINE S == ToSet(s) \union {x}
           t == Append(s, x)
<1>1. s \in Seq(S) /\ x \in S
  BY SeqMonotonic
<1>2. /\ t \in Seq(S) /\ Len(t) = Len(s) + 1 /\ Len(s) \in Nat
      /\ \A i \in 1..Len(s) : t[i] = s[i]
      /\ t[Len(s) + 1] = x
      /\ DOMAIN t = 1..Len(t) /\ DOMAIN s = 1..Len(s)
  <2> HIDE DEF S
  <2> QED BY <1>1, AppendProperties, LenProperties
<1> HIDE DEF t
<1>3. ToSet(t) = ToSet(s) \union {x}
  <2>1. \A i \in 1..Len(t) : i \in 1..Len(s) \/ i = Len(s) + 1
    BY <1>2
  <2>2. \A i \in 1..Len(s) : i \in 1..Len(t)
    BY <1>2
  <2>3. Len(s) + 1 \in 1..Len(t)
    BY <1>2
  <2> QED BY <1>2, <2>1, <2>2, <2>3 DEF ToSet
<1> QED BY <1>2, <1>3 DEF t

LEMMA RemovedSet ==
  ASSUME NEW s, s \in Seq(ToSet(s)), NEW i \in 1..Len(s)
  PROVE  /\ RemoveAt(s, i) \in Seq(ToSet(RemoveAt(s, i)))
         /\ ToSet(s) = ToSet(RemoveAt(s, i)) \union {s[i]}
<1> DEFINE t == RemoveAt(s, i)
           n == Len(s)
<1>1. /\ t \in Seq(ToSet(s)) /\ Len(t) = n - 1 /\ n \in Nat
      /\ \A j \in 1..n - 1 : t[j] = s[IF j < i THEN j ELSE j + 1]
      /\ i \in 1..n
  <2> DEFINE S == ToSet(s)
  <2>1. s \in Seq(S)
    OBVIOUS
  <2> HIDE DEF S
  <2> QED BY <2>1, Removed DEF S
<1>2. DOMAIN s = 1..n
  BY LenProperties
<1>3. DOMAIN t = 1..n - 1
  <2> HIDE DEF t
  <2> QED BY <1>1, LenProperties
<1> HIDE DEF t, n
<1>4. t \in Seq(ToSet(t))
  <2>1. ToSet(t) = Range(t)
    BY DEF ToSet, Range
  <2> QED BY <1>1, <2>1, SeqOfRange
<1>5. ASSUME NEW x \in ToSet(t) PROVE x \in ToSet(s)
  <2>1. PICK j \in 1..n - 1 : x = t[j]
    BY <1>3 DEF ToSet
  <2>2. PICK k \in 1..n : x = s[k]
    <3>1. j \in 1..n /\ j + 1 \in 1..n
      BY <1>1
    <3> QED BY <1>1, <2>1, <3>1
  <2> QED BY <1>2, <2>2 DEF ToSet
<1>6. ASSUME NEW x \in ToSet(s), x # s[i] PROVE x \in ToSet(t)
  <2>1. PICK k \in 1..n : x = s[k]
    BY <1>2 DEF ToSet
  <2>2. k # i
    BY <1>6, <2>1
  <2>3. PICK j \in 1..n - 1 : t[j] = x
    <3>1. CASE k < i
      <4>1. k \in 1..n - 1
        BY <1>1, <3>1
      <4> QED BY <1>1, <2>1, <3>1, <4>1
    <3>2. CASE k > i
      <4>1. k - 1 \in 1..n - 1 /\ ~ k - 1 < i /\ (k - 1) + 1 = k
        BY <1>1, <3>2
      <4> QED BY <1>1, <2>1, <4>1
    <3> QED BY <1>1, <2>2, <3>1, <3>2
  <2> QED BY <1>3, <2>3 DEF ToSet
<1>7. s[i] \in ToSet(s)
  BY <1>1, <1>2 DEF ToSet
<1>8. ToSet(s) = ToSet(t) \union {s[i]}
  BY <1>5, <1>6, <1>7
<1> QED BY <1>4, <1>8 DEF t

=============================================================================
