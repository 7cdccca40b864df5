----------------------------- MODULE SequenceLemmas -----------------------------
(* What the proofs need of numbers and of sequences, whatever these are about: *)
(* a set of numbers has a least element and a k-th one; what a sequence is     *)
(* when something was appended, concatenated, put in, taken off or selected.   *)
EXTENDS Integers, SequencesExt, Selections, FiniteSetTheorems, WellFoundedInduction, TLAPS

(* The order of the natural numbers, as a relation.                            *)
NatOrder == {ss \in Nat \X Nat : ss[1] < ss[2]}

(* Every set of natural numbers has a least element.                           *)
LEMMA LeastNumber ==
  ASSUME NEW T \in SUBSET Nat, T # {}
  PROVE  \E n \in T : \A m \in T : n <= m
<1>1. IsWellFoundedOn(NatOrder, Nat)
  BY NatLessThanWellFounded DEF NatOrder, OpToRel
<1>2. PICK n \in T : \A m \in T : ~ (<<m, n>> \in NatOrder)
  BY <1>1, WFMin
<1>3. ASSUME NEW m \in T PROVE n <= m
  <2>1. ~(<<m, n>> \in NatOrder) /\ n \in Nat /\ m \in Nat
    BY <1>2
  <2>2. ~(m < n)
    BY <2>1 DEF NatOrder
  <2> QED BY <2>1, <2>2
<1> QED BY <1>3

(* What holds at the start and is handed on holds throughout.                  *)
LEMMA Throughout ==
  ASSUME NEW n \in Nat, NEW T, 0 \in T, \A j \in 1 .. n : j - 1 \in T => j \in T
  PROVE  \A j \in 0 .. n : j \in T
<1> DEFINE Not == {j \in 0 .. n : j \notin T}
<1> SUFFICES ASSUME Not # {} PROVE FALSE
  OBVIOUS
<1>1. Not \in SUBSET Nat
  OBVIOUS
<1>2. PICK m \in Not : \A k \in Not : m <= k
  BY <1>1, LeastNumber
<1>3. m \in 1 .. n /\ m - 1 \in 0 .. n
  BY <1>1, <1>2
<1>4. m - 1 \notin Not
  BY <1>2, <1>3
<1> QED BY <1>2, <1>3, <1>4

(* A step that is taken n times, from a on and the j-th time as R[j] says.     *)
Runs(f, a, R, n) == f[0] = a /\ \A j \in 1 .. n : f[j] = R[j][f[j - 1]]

(* Steps on the states of a set go through states of it.                       *)
LEMMA Iterates ==
  ASSUME NEW S, NEW a \in S, NEW n \in Nat, NEW R, \A j \in 1 .. n : R[j] \in [S -> S]
  PROVE  \E f \in [0 .. n -> S] : Runs(f, a, R, n)
<1> DEFINE Goes(f, k) == f[0] = a /\ \A j \in 1 .. k : f[j] = R[j][f[j - 1]]
           T == {k \in 0 .. n : \E f \in [0 .. k -> S] : Goes(f, k)}
<1>1. 0 \in T
  <2>1. PICK f : f = [j \in 0 .. 0 |-> a]
    OBVIOUS
  <2>2. f \in [0 .. 0 -> S] /\ Goes(f, 0)
    BY <2>1
  <2> QED BY <2>2
<1>2. ASSUME NEW k \in 1 .. n, k - 1 \in T PROVE k \in T
  <2>1. PICK f \in [0 .. k - 1 -> S] : Goes(f, k - 1)
    BY <1>2
  <2>2. k - 1 \in 0 .. k - 1 /\ R[k] \in [S -> S]
    OBVIOUS
  <2>3. R[k][f[k - 1]] \in S
    BY <2>2
  <2>4. PICK g : g = [j \in 0 .. k |-> IF j = k THEN R[k][f[k - 1]] ELSE f[j]]
    OBVIOUS
  <2>5. \A j \in 0 .. k : j # k => j \in 0 .. k - 1
    OBVIOUS
  <2>6. g \in [0 .. k -> S]
    BY <2>3, <2>4, <2>5
  <2>7. g[0] = a /\ g[k] = R[k][f[k - 1]] /\ \A j \in 0 .. k - 1 : g[j] = f[j]
    BY <2>1, <2>4
  <2>8. \A j \in 1 .. k : g[j] = R[j][g[j - 1]]
    <3>1. SUFFICES ASSUME NEW j \in 1 .. k PROVE g[j] = R[j][g[j - 1]]
      OBVIOUS
    <3>2. j - 1 \in 0 .. k - 1 /\ (j = k \/ j \in 1 .. k - 1)
      OBVIOUS
    <3>3. g[j - 1] = f[j - 1]
      BY <2>7, <3>2
    <3>4. CASE j = k
      BY <2>7, <3>3, <3>4
    <3>5. CASE j \in 1 .. k - 1
      BY <2>1, <2>7, <3>3, <3>5
    <3> QED BY <3>2, <3>4, <3>5
  <2> QED BY <2>6, <2>7, <2>8
<1>3. \A j \in 0 .. n : j \in T
  <2> HIDE DEF T
  <2> QED BY <1>1, <1>2, Throughout
<1> QED BY <1>3 DEF Runs

(* Of a finite set of numbers one is the k-th.                                 *)
LEMMA Ranked ==
  ASSUME NEW n \in Nat, NEW T \in SUBSET (1..n), NEW k \in 1..Cardinality(T)
  PROVE  \E i \in T : Cardinality({j \in T : j <= i}) = k
<1> DEFINE UpTo(i) == {j \in T : j <= i}
           Count(i) == Cardinality(UpTo(i))
<1>1. IsFiniteSet(T) /\ Cardinality(T) \in Nat
  <2>1. IsFiniteSet(1..n)
    BY FS_Interval
  <2> QED BY <2>1, FS_Subset, FS_CardinalityType
<1>2. \A j \in T : j \in Int /\ 1 <= j /\ j <= n
  OBVIOUS
<1>3. \A i \in Nat : IsFiniteSet(UpTo(i)) /\ Count(i) \in Nat
  BY <1>1, FS_Subset, FS_CardinalityType
<1>4. Count(0) = 0
  <2>1. \A j \in T : ~(j <= 0)
    BY <1>2
  <2>2. UpTo(0) = {}
    BY <2>1
  <2> QED BY <2>2, FS_EmptySet
<1>5. Count(n) = Cardinality(T)
  <2>1. UpTo(n) = T
    BY <1>2
  <2> QED BY <2>1
<1>6. ASSUME NEW i \in Nat \ {0}
      PROVE  Count(i) = IF i \in T THEN Count(i - 1) + 1 ELSE Count(i - 1)
  <2>1. i - 1 \in Nat /\ i \notin UpTo(i - 1)
    OBVIOUS
  <2>2. \A j \in T : j <= i <=> (j <= i - 1 \/ j = i)
    BY <1>2
  <2>3. CASE i \in T
    <3>1. UpTo(i) = UpTo(i - 1) \cup {i}
      BY <2>2, <2>3
    <3>2. IsFiniteSet(UpTo(i - 1))
      BY <1>3, <2>1
    <3> HIDE DEF UpTo
    <3> QED BY <2>1, <2>3, <3>1, <3>2, FS_AddElement
  <2>4. CASE i \notin T
    <3>1. UpTo(i) = UpTo(i - 1)
      BY <2>2, <2>4
    <3> QED BY <2>4, <3>1
  <2> QED BY <2>3, <2>4
<1>7. \A i \in Nat : Count(i) \in Nat
  BY <1>3
<1> SUFFICES \E i \in T : Count(i) = k
  OBVIOUS
<1> HIDE DEF Count
<1> DEFINE Enough == {i \in Nat : Count(i) >= k}
<1>8. n \in Enough
  BY <1>1, <1>5
<1>9. PICK i \in Enough : \A m \in Enough : i <= m
  BY <1>8, LeastNumber
<1>10. i \in Nat \ {0} /\ i - 1 \in Nat /\ Count(i) >= k
  BY <1>1, <1>4, <1>9
<1>11. Count(i - 1) < k
  <2>1. i - 1 \notin Enough
    BY <1>9, <1>10
  <2> QED BY <2>1, <1>1, <1>7, <1>10
<1>12. Count(i) = IF i \in T THEN Count(i - 1) + 1 ELSE Count(i - 1)
  BY <1>6, <1>10
<1>13. i \in T /\ Count(i) = k
  BY <1>1, <1>7, <1>10, <1>11, <1>12
<1> QED BY <1>13

(* No two elements of a finite set of numbers have the same rank.              *)
LEMMA RankedOnce ==
  ASSUME NEW n \in Nat, NEW T \in SUBSET (1..n), NEW a \in T, NEW b \in T, a < b
  PROVE  Cardinality({j \in T : j <= a}) < Cardinality({j \in T : j <= b})
<1>1. IsFiniteSet(T)
  <2>1. IsFiniteSet(1..n)
    BY FS_Interval
  <2> QED BY <2>1, FS_Subset
<1>2. \A j \in T : j \in Int
  OBVIOUS
<1>3. PICK A, B : A = {j \in T : j <= a} /\ B = {j \in T : j <= b}
  OBVIOUS
<1>4. A \in SUBSET T /\ B \in SUBSET T
  BY <1>3
<1>5. IsFiniteSet(A) /\ IsFiniteSet(B)
  BY <1>1, <1>4, FS_Subset
<1>6. b \in B /\ b \notin A
  BY <1>2, <1>3
<1>7. \A j \in A : j \in B
  BY <1>2, <1>3
<1>8. A \subseteq B /\ A # B
  BY <1>6, <1>7
<1>9. Cardinality(A) <= Cardinality(B) /\ Cardinality(A) # Cardinality(B)
  BY <1>5, <1>8, FS_Subset
<1>10. Cardinality(A) \in Nat /\ Cardinality(B) \in Nat
  BY <1>5, FS_CardinalityType
<1>11. Cardinality(A) < Cardinality(B)
  BY <1>9, <1>10
<1> QED BY <1>3, <1>11

(* Places selected from a sequence, in their order: each of them comes once,   *)
(* and nothing else does.                                                      *)
LEMMA Selected ==
  ASSUME NEW S, NEW s \in Seq(S), NEW at \in SUBSET (DOMAIN s), NEW t, t = Selection(s, at)
  PROVE  /\ Cardinality(at) \in Nat /\ DOMAIN t = 1..Cardinality(at)
         /\ t \in Seq({s[i] : i \in at})
         /\ \A k \in DOMAIN t : \E i \in at : t[k] = s[i]
         /\ \A k, m \in DOMAIN t : k # m => \E i, j \in at : i # j /\ t[k] = s[i] /\ t[m] = s[j]
         /\ \A i \in at : \E k \in DOMAIN t : t[k] = s[i]
<1> DEFINE Rank(i) == Cardinality({j \in at : j <= i})
<1>1. PICK n \in Nat : n = Len(s) /\ DOMAIN s = 1..n
  OBVIOUS
<1>2. at \in SUBSET (1..n)
  BY <1>1
<1>3. IsFiniteSet(at) /\ Cardinality(at) \in Nat
  <2>1. IsFiniteSet(1..n)
    BY FS_Interval
  <2> QED BY <1>2, <2>1, FS_Subset, FS_CardinalityType
<1>4. ASSUME NEW k \in 1..Cardinality(at) PROVE Nth(at, k) \in at /\ Rank(Nth(at, k)) = k
  <2>1. \E i \in at : Rank(i) = k
    BY <1>2, Ranked
  <2>2. Nth(at, k) = CHOOSE i \in at : Rank(i) = k
    BY DEF Nth
  <2> HIDE DEF Rank
  <2> QED BY <2>1, <2>2
<1>5. ASSUME NEW i \in at, NEW j \in at, Rank(i) = Rank(j) PROVE i = j
  <2>1. i \in 1..n /\ j \in 1..n
    BY <1>2
  <2>2. Rank(i) \in Int
    <3>1. {m \in at : m <= i} \in SUBSET at
      OBVIOUS
    <3>2. IsFiniteSet({m \in at : m <= i})
      BY <1>3, <3>1, FS_Subset
    <3> QED BY <3>2, FS_CardinalityType
  <2>3. ~(i < j) /\ ~(j < i)
    <3>1. i < j => Rank(i) < Rank(j)
      BY <1>2, RankedOnce
    <3>2. j < i => Rank(j) < Rank(i)
      BY <1>2, RankedOnce
    <3> HIDE DEF Rank
    <3> QED BY <1>5, <2>2, <3>1, <3>2
  <2> QED BY <2>1, <2>3
<1>6. ASSUME NEW i \in at PROVE Rank(i) \in 1..Cardinality(at)
  <2>1. PICK A : A = {m \in at : m <= i}
    OBVIOUS
  <2>2. A \in SUBSET at
    BY <2>1
  <2>3. IsFiniteSet(A) /\ Cardinality(A) <= Cardinality(at) /\ Cardinality(A) \in Nat
    BY <1>3, <2>2, FS_Subset, FS_CardinalityType
  <2>4. i \in A
    BY <1>2, <2>1
  <2>5. Cardinality(A) # 0
    BY <2>3, <2>4, FS_EmptySet
  <2> QED BY <1>3, <2>1, <2>3, <2>5
<1>7. t = [k \in 1..Cardinality(at) |-> s[Nth(at, k)]]
  BY DEF Selection
<1> HIDE DEF Rank
<1>a. DOMAIN t = 1..Cardinality(at) /\ \A k \in 1..Cardinality(at) : t[k] = s[Nth(at, k)]
  BY <1>7
<1>8. \A k \in DOMAIN t : \E i \in at : t[k] = s[i]
  BY <1>4, <1>a
<1>9. ASSUME NEW k \in DOMAIN t, NEW m \in DOMAIN t, k # m
      PROVE  \E i, j \in at : i # j /\ t[k] = s[i] /\ t[m] = s[j]
  <2>1. Nth(at, k) \in at /\ Nth(at, m) \in at /\ Nth(at, k) # Nth(at, m)
    BY <1>4, <1>9, <1>a
  <2> QED BY <1>a, <2>1
<1>10. ASSUME NEW i \in at PROVE \E k \in DOMAIN t : t[k] = s[i]
  <2>1. PICK k \in 1..Cardinality(at) : k = Rank(i)
    BY <1>6
  <2>2. Nth(at, k) \in at /\ Rank(Nth(at, k)) = Rank(i)
    BY <1>4, <2>1
  <2>3. Nth(at, k) = i
    BY <1>5, <2>2
  <2> QED BY <1>a, <2>1, <2>3
<1>11. t \in Seq({s[i] : i \in at})
  <2>1. PICK c \in Nat : c = Cardinality(at)
    BY <1>3
  <2>2. PICK V : V = {s[i] : i \in at}
    OBVIOUS
  <2>3. t = [k \in 1..c |-> t[k]]
    BY <1>7, <2>1
  <2>4. \A k \in 1..c : t[k] \in V
    BY <1>8, <1>a, <2>1, <2>2
  <2>5. t \in Seq(V)
    BY <2>3, <2>4
  <2> QED BY <2>2, <2>5
<1> QED BY <1>3, <1>a, <1>8, <1>9, <1>10, <1>11

(* What a sequence over a set holds.                                           *)
LEMMA Elements ==
  ASSUME NEW S, NEW s \in Seq(S)
  PROVE  \A k \in 1 .. Len(s) : s[k] \in S
  OBVIOUS

(* A function on the first numbers is a sequence of that length.               *)
LEMMA AsSequence ==
  ASSUME NEW S, NEW c \in Nat, NEW f \in [1 .. c -> S]
  PROVE  f \in Seq(S) /\ Len(f) = c
  OBVIOUS

(* What is appended comes last and leaves the rest where it was.               *)
LEMMA Appended ==
  ASSUME NEW S, NEW s \in Seq(S), NEW e \in S, NEW t, t = Append(s, e)
  PROVE  /\ t \in Seq(S) /\ Len(t) = Len(s) + 1 /\ DOMAIN t = 1 .. Len(s) + 1
         /\ Len(s) \in Nat /\ t[Len(s) + 1] = e
         /\ \A i \in 1 .. Len(s) : t[i] = s[i]
  OBVIOUS

(* Two sequences one after the other.                                          *)
LEMMA Concatenated ==
  ASSUME NEW S, NEW s \in Seq(S), NEW t \in Seq(S), NEW u, u = s \o t
  PROVE  /\ u \in Seq(S) /\ Len(u) = Len(s) + Len(t) /\ DOMAIN u = 1 .. Len(u)
         /\ \A i \in 1 .. Len(s) : u[i] = s[i]
         /\ \A i \in Len(s) + 1 .. Len(s) + Len(t) : u[i] = t[i - Len(s)]
  OBVIOUS

(* A sequence without its last element.                                        *)
LEMMA WithoutLast ==
  ASSUME NEW S, NEW s \in Seq(S), s # <<>>, NEW t, t = Front(s)
  PROVE  /\ t \in Seq(S) /\ Len(t) = Len(s) - 1 /\ Len(s) \in Nat \ {0}
         /\ \A i \in 1 .. Len(s) - 1 : t[i] = s[i]
<1>1. Len(s) \in Nat \ {0}
  OBVIOUS
<1>2. PICK k \in Nat : k = Len(s) - 1
  BY <1>1
<1>3. t = SubSeq(s, 1, k)
  BY <1>2 DEF Front
<1>4. \A i \in 1 .. k : i \in 1 .. Len(s) /\ s[i] \in S
  BY <1>1, <1>2
<1>5. t \in Seq(S)
  BY <1>1, <1>2, <1>3, <1>4
<1>6. Len(t) = k /\ \A i \in 1 .. k : t[i] = s[i]
  BY <1>1, <1>2, <1>3
<1> QED BY <1>1, <1>2, <1>5, <1>6

(* What an array is without one of its places.                                 *)
WithoutAt(t, s, i, S) ==
  /\ t \in Seq(S) /\ Len(t) = Len(s) - 1 /\ DOMAIN t = 1 .. Len(s) - 1 /\ Len(s) \in Nat
  /\ \A j \in 1 .. i - 1 : t[j] = s[j] /\ j \in 1 .. Len(s) - 1
  /\ \A j \in i .. Len(s) - 1 : t[j] = s[j + 1]

(* That is what RemoveAt leaves.                                               *)
LEMMA WithoutPlace ==
  ASSUME NEW S, NEW s \in Seq(S), NEW i \in 1 .. Len(s), NEW t, t = RemoveAt(s, i)
  PROVE  WithoutAt(t, s, i, S)
<1>1. PICK n \in Nat : n = Len(s)
  OBVIOUS
<1>2. PICK below : below = SubSeq(s, 1, i - 1)
  OBVIOUS
<1>3. PICK above : above = SubSeq(s, i + 1, n)
  OBVIOUS
<1>4. i \in Nat /\ 1 <= i /\ i <= n
  BY <1>1
<1>5. \A j \in 1 .. n : s[j] \in S
  BY <1>1
<1>6. /\ below \in Seq(S) /\ Len(below) = i - 1 /\ \A j \in 1 .. i - 1 : below[j] = s[j]
  BY <1>1, <1>2, <1>4, <1>5
<1>7. /\ above \in Seq(S) /\ Len(above) = n - i /\ \A j \in 1 .. n - i : above[j] = s[j + i]
  BY <1>1, <1>3, <1>4, <1>5
<1>8. t = below \o above
  BY <1>1, <1>2, <1>3 DEF RemoveAt
<1>9. /\ t \in Seq(S) /\ Len(t) = n - 1 /\ DOMAIN t = 1 .. n - 1
      /\ \A j \in 1 .. i - 1 : t[j] = below[j]
      /\ \A j \in i .. n - 1 : t[j] = above[j - (i - 1)]
  <2>1. /\ t \in Seq(S) /\ Len(t) = Len(below) + Len(above) /\ DOMAIN t = 1 .. Len(t)
        /\ \A j \in 1 .. Len(below) : t[j] = below[j]
        /\ \A j \in Len(below) + 1 .. Len(below) + Len(above) : t[j] = above[j - Len(below)]
    <3>1. below \in Seq(S) /\ above \in Seq(S)
      BY <1>6, <1>7
    <3>2. /\ t \in Seq(S) /\ Len(t) = Len(below) + Len(above) /\ DOMAIN t = 1 .. Len(t)
      BY <1>8, <3>1, Concatenated
    <3>3. \A j \in 1 .. Len(below) : t[j] = below[j]
      BY <1>8, <3>1, Concatenated
    <3>4. \A j \in Len(below) + 1 .. Len(below) + Len(above) : t[j] = above[j - Len(below)]
      BY <1>8, <3>1, Concatenated
    <3> QED BY <3>2, <3>3, <3>4
  <2>2. Len(below) + Len(above) = n - 1 /\ Len(below) = i - 1 /\ Len(below) + 1 = i
    BY <1>4, <1>6, <1>7
  <2> QED BY <2>1, <2>2
<1>10. ASSUME NEW j \in i .. n - 1 PROVE t[j] = s[j + 1]
  <2>1. j - (i - 1) \in 1 .. n - i /\ (j - (i - 1)) + i = j + 1
    BY <1>4
  <2> QED BY <1>7, <1>9, <2>1
<1>11. \A j \in 1 .. i - 1 : t[j] = s[j] /\ j \in 1 .. n - 1
  <2>1. \A j \in 1 .. i - 1 : t[j] = s[j]
    BY <1>6, <1>9
  <2>2. \A j \in 1 .. i - 1 : j \in 1 .. n - 1
    BY <1>4
  <2> QED BY <2>1, <2>2
<1> QED BY <1>1, <1>9, <1>10, <1>11 DEF WithoutAt
(* What an array is with one more place.                                       *)
InsertsAt(t, s, i, e, S) ==
  /\ t \in Seq(S) /\ Len(t) = Len(s) + 1 /\ DOMAIN t = 1 .. Len(s) + 1 /\ Len(s) \in Nat
  /\ \A j \in 1 .. i - 1 : t[j] = s[j]
  /\ t[i] = e
  /\ \A j \in i + 1 .. Len(s) + 1 : t[j] = s[j - 1]

(* That is what InsertAt makes.                                                *)
LEMMA InsertedAt ==
  ASSUME NEW S, NEW s \in Seq(S), NEW i \in 1 .. Len(s) + 1, NEW e \in S, NEW t, t = InsertAt(s, i, e)
  PROVE  InsertsAt(t, s, i, e, S)
<1>1. PICK n \in Nat : n = Len(s)
  OBVIOUS
<1>2. PICK below : below = SubSeq(s, 1, i - 1)
  OBVIOUS
<1>3. PICK above : above = SubSeq(s, i, n)
  OBVIOUS
<1>4. i \in Nat /\ 1 <= i /\ i <= n + 1
  BY <1>1
<1>5. \A j \in 1 .. n : s[j] \in S
  BY <1>1
<1>6. /\ below \in Seq(S) /\ Len(below) = i - 1 /\ \A j \in 1 .. i - 1 : below[j] = s[j]
  BY <1>1, <1>2, <1>4, <1>5
<1>7. /\ above \in Seq(S) /\ Len(above) = n + 1 - i /\ \A j \in 1 .. n + 1 - i : above[j] = s[j + i - 1]
  BY <1>1, <1>3, <1>4, <1>5
<1>8. PICK one : one = Append(below, e)
  OBVIOUS
<1>9. one \in Seq(S) /\ Len(one) = i /\ one[i] = e /\ \A j \in 1 .. i - 1 : one[j] = s[j]
  <2>1. /\ one \in Seq(S) /\ Len(one) = Len(below) + 1 /\ one[Len(below) + 1] = e
        /\ \A j \in 1 .. Len(below) : one[j] = below[j]
    BY <1>6, <1>8, Appended
  <2>2. Len(below) + 1 = i
    BY <1>4, <1>6
  <2> QED BY <1>6, <2>1, <2>2
<1>10. t = one \o above
  <2>1. below \o <<e>> = Append(below, e)
    BY <1>6
  <2> QED BY <1>1, <1>2, <1>3, <1>8, <2>1 DEF InsertAt
<1>11. /\ t \in Seq(S) /\ Len(t) = Len(one) + Len(above) /\ DOMAIN t = 1 .. Len(t)
  <2>1. one \in Seq(S) /\ above \in Seq(S)
    BY <1>7, <1>9
  <2> HIDE <1>6, <1>7, <1>9
  <2> QED BY <1>10, <2>1, Concatenated
<1>12. \A j \in 1 .. Len(one) : t[j] = one[j]
  BY <1>7, <1>9, <1>10, Concatenated
<1>13. \A j \in Len(one) + 1 .. Len(one) + Len(above) : t[j] = above[j - Len(one)]
  BY <1>7, <1>9, <1>10, Concatenated
<1>14. Len(one) = i /\ Len(one) + Len(above) = n + 1
  BY <1>4, <1>7, <1>9
<1>15. ASSUME NEW j \in 1 .. i - 1 PROVE t[j] = s[j]
  <2>1. j \in 1 .. i
    BY <1>4
  <2> QED BY <1>9, <1>12, <1>14, <2>1
<1>16. t[i] = e
  <2>1. i \in 1 .. i
    BY <1>4
  <2> QED BY <1>9, <1>12, <1>14, <2>1
<1>17. ASSUME NEW j \in i + 1 .. n + 1 PROVE t[j] = s[j - 1]
  <2>1. j - i \in 1 .. n + 1 - i /\ (j - i) + i - 1 = j - 1
    BY <1>4
  <2> QED BY <1>7, <1>13, <1>14, <2>1
<1> QED BY <1>1, <1>11, <1>14, <1>15, <1>16, <1>17 DEF InsertsAt
=============================================================================
