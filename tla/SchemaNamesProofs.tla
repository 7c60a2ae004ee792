--------------------------- MODULE SchemaNamesProofs ---------------------------
(***************************************************************************)
(* The names of schemas, for any display names, any projects of before the *)
(* migration and any lengths: what the loop over the characters writes is  *)
(* the slug, the loop over the suffixes has no more turns than there are   *)
(* projects, and whoever is refused has a name that is too long or that is *)
(* taken.                                                                  *)
(*                                                                         *)
(* First lemmas about the operators: positions in their order, what is     *)
(* written of them, trimming, decimal numbers.  Then the invariant.        *)
(***************************************************************************)
EXTENDS SchemaNames, FiniteSetTheorems, SequenceTheorems, TLAPS

-----------------------------------------------------------------------------
(* Positions in their order *)

Rank(P, i) == Cardinality({j \in P : j <= i})

LEMMA Positions ==
  ASSUME NEW n \in Nat, NEW P \in SUBSET (1 .. n)
  PROVE  IsFiniteSet(P) /\ Cardinality(P) \in Nat
<1>1. IsFiniteSet(1 .. n)
  BY FS_Interval
<1>2. IsFiniteSet(P)
  BY <1>1, FS_Subset
<1> QED
  BY <1>2, FS_CardinalityType

LEMMA RankType ==
  ASSUME NEW n \in Nat, NEW P \in SUBSET (1 .. n), NEW i \in P
  PROVE  Rank(P, i) \in 1 .. Cardinality(P)
<1> DEFINE U == {j \in P : j <= i}
<1>1. IsFiniteSet(P) /\ Cardinality(P) \in Nat
  BY Positions
<1>2. U \in SUBSET P /\ i \in U
  OBVIOUS
<1>3. IsFiniteSet(U) /\ Cardinality(U) <= Cardinality(P)
  BY <1>1, <1>2, FS_Subset
<1>4. Cardinality(U) \in Nat /\ Cardinality(U) # 0
  BY <1>2, <1>3, FS_EmptySet, FS_CardinalityType
<1> QED
  BY <1>1, <1>3, <1>4 DEF Rank

LEMMA RankStrict ==
  ASSUME NEW n \in Nat, NEW P \in SUBSET (1 .. n), NEW i \in P, NEW j \in P, i < j
  PROVE  Rank(P, i) < Rank(P, j)
<1> DEFINE U == {k \in P : k <= i}
           V == {k \in P : k <= j}
<1>1. U \in SUBSET V /\ j \in V /\ j \notin U /\ V \in SUBSET (1 .. n)
  <2>1. \A k \in P : k \in Int
    OBVIOUS
  <2>2. i \in Int /\ j \in Int /\ ~(j <= i)
    BY <2>1
  <2>3. \A k \in P : k <= i => k <= j
    BY <2>1, <2>2
  <2>4. U \in SUBSET V
    BY <2>3
  <2>5. V \in SUBSET (1 .. n)
    OBVIOUS
  <2>6. j \in V /\ j \notin U
    BY <2>2
  <2> QED
    BY <2>4, <2>5, <2>6
<1>2. IsFiniteSet(V) /\ Cardinality(V) \in Nat
  BY <1>1, Positions
<1>3. IsFiniteSet(U) /\ Cardinality(U) <= Cardinality(V) /\ Cardinality(U) # Cardinality(V)
  BY <1>1, <1>2, FS_Subset
<1>4. Cardinality(U) \in Nat
  BY <1>3, FS_CardinalityType
<1> QED
  BY <1>2, <1>3, <1>4 DEF Rank

LEMMA RankOrder ==
  ASSUME NEW n \in Nat, NEW P \in SUBSET (1 .. n), NEW i \in P, NEW j \in P
  PROVE  /\ i < j <=> Rank(P, i) < Rank(P, j)
         /\ i = j <=> Rank(P, i) = Rank(P, j)
<1>1. i \in Int /\ j \in Int
  OBVIOUS
<1>2. Rank(P, i) \in Int /\ Rank(P, j) \in Int
  <2>1. /\ Rank(P, i) \in 1 .. Cardinality(P)
        /\ Rank(P, j) \in 1 .. Cardinality(P)
    BY RankType
  <2> QED
    BY <2>1
<1>3. i < j => Rank(P, i) < Rank(P, j)
  BY RankStrict
<1>4. j < i => Rank(P, j) < Rank(P, i)
  BY RankStrict
<1> QED
  BY <1>1, <1>2, <1>3, <1>4

(* Each rank is the rank of one position: as many ranks as positions.      *)
LEMMA RankOnto ==
  ASSUME NEW n \in Nat, NEW P \in SUBSET (1 .. n), NEW k \in 1 .. Cardinality(P)
  PROVE  \E i \in P : Rank(P, i) = k
<1> DEFINE T == 1 .. Cardinality(P)
           f == [i \in P |-> Rank(P, i)]
<1>1. IsFiniteSet(P) /\ Cardinality(P) \in Nat
  BY Positions
<1>2. IsFiniteSet(T) /\ Cardinality(T) = Cardinality(P)
  BY <1>1, FS_Interval
<1>3. f \in [P -> T]
  BY RankType
<1>4. f \in Injection(P, T)
  BY <1>3, RankOrder DEF Injection, IsInjective
<1>5. f \in Surjection(P, T)
  <2> HIDE DEF f, T
  <2> QED
    BY <1>2, <1>4, FS_Injection
<1> QED
  BY <1>5 DEF Surjection

LEMMA NthRank ==
  ASSUME NEW n \in Nat, NEW P \in SUBSET (1 .. n), NEW k \in 1 .. Cardinality(P)
  PROVE  Nth(P, k) \in P /\ Rank(P, Nth(P, k)) = k
<1>1. \E i \in P : Cardinality({j \in P : j <= i}) = k
  BY RankOnto DEF Rank
<1> QED
  BY <1>1 DEF Nth, Rank

LEMMA NthOfRank ==
  ASSUME NEW n \in Nat, NEW P \in SUBSET (1 .. n), NEW i \in P
  PROVE  Nth(P, Rank(P, i)) = i
<1>1. Rank(P, i) \in 1 .. Cardinality(P)
  BY RankType
<1>2. /\ Nth(P, Rank(P, i)) \in P
      /\ Rank(P, Nth(P, Rank(P, i))) = Rank(P, i)
  BY <1>1, NthRank
<1> QED
  BY <1>2, RankOrder

-----------------------------------------------------------------------------
(* What is written of some positions *)

Image(c) == IF IsAlphanumeric(c) THEN c ELSE "_"

LEMMA WrittenAt ==
  ASSUME NEW w, NEW n \in Nat, NEW P \in SUBSET (1 .. n)
  PROVE  /\ DOMAIN Written(w, P) = 1 .. Cardinality(P)
         /\ \A k \in 1 .. Cardinality(P) : Written(w, P)[k] = Image(w[Nth(P, k)])
         /\ \A i \in P : Written(w, P)[Rank(P, i)] = Image(w[i])
<1>1. /\ DOMAIN Written(w, P) = 1 .. Cardinality(P)
      /\ \A k \in 1 .. Cardinality(P) : Written(w, P)[k] = Image(w[Nth(P, k)])
  BY DEF Written, Image
<1>2. ASSUME NEW i \in P
      PROVE  Written(w, P)[Rank(P, i)] = Image(w[i])
  BY <1>1, RankType, NthOfRank
<1> QED
  BY <1>1, <1>2

(* A name in which no letter is in upper case.                             *)
Low(w) == \A i \in DOMAIN w : w[i] \notin Upper

LEMMA ImagePlain ==
  ASSUME NEW c, c \notin Upper
  PROVE  /\ Image(c) \in Plain
         /\ Image(c) # "_" <=> IsAlphanumeric(c)
<1>1. "_" \notin Alphanumeric
  BY DEF Alphanumeric, Upper, Digits
<1> QED
  BY <1>1 DEF Image, Plain, IsAlphanumeric

LEMMA WrittenType ==
  ASSUME NEW w, NEW n \in Nat, DOMAIN w = 1 .. n, Low(w), NEW P \in SUBSET (1 .. n)
  PROVE  /\ Written(w, P) \in Seq(Plain)
         /\ Len(Written(w, P)) = Cardinality(P)
<1> DEFINE m == Cardinality(P)
           s == Written(w, P)
<1>1. m \in Nat
  BY Positions
<1>2. /\ DOMAIN s = 1 .. m
      /\ \A k \in 1 .. m : s[k] = Image(w[Nth(P, k)])
  BY WrittenAt
<1>3. ASSUME NEW k \in 1 .. m
      PROVE  s[k] \in Plain
  <2>1. Nth(P, k) \in 1 .. n
    BY NthRank
  <2> QED
    BY <1>2, <2>1, ImagePlain DEF Low
<1>4. s = [k \in DOMAIN s |-> s[k]]
  BY DEF Written
<1>5. s \in [1 .. m -> Plain]
  <2> HIDE DEF s, m
  <2> QED
    BY <1>2, <1>3, <1>4
<1> QED
  <2> HIDE DEF s, m
  <2>1. s \in Seq(Plain)
    BY <1>1, <1>5, SeqDef
  <2>2. Len(s) \in Nat /\ 1 .. Len(s) = 1 .. m
    BY <1>2, <2>1, LenProperties
  <2>3. Len(s) = m
    BY <1>1, <2>2
  <2> QED
    BY <2>1, <2>3 DEF s, m

(* One position more, behind the others: one character more.               *)
LEMMA OneMorePosition ==
  ASSUME NEW r \in Nat, NEW P \in SUBSET (1 .. r)
  PROVE  LET Q == P \union {r + 1} IN
         /\ Q \in SUBSET (1 .. r + 1)
         /\ Cardinality(Q) = Cardinality(P) + 1
         /\ Nth(Q, Cardinality(P) + 1) = r + 1
         /\ \A k \in 1 .. Cardinality(P) : Nth(Q, k) = Nth(P, k)
<1> DEFINE Q == P \union {r + 1}
<1>1. Q \in SUBSET (1 .. r + 1) /\ r + 1 \notin P /\ r + 1 \in Nat /\ r + 1 \in Q
  OBVIOUS
<1>2. IsFiniteSet(P) /\ Cardinality(P) \in Nat
  BY Positions
<1>3. Cardinality(Q) = Cardinality(P) + 1
  BY <1>1, <1>2, FS_AddElement
<1>4. ASSUME NEW i \in P
      PROVE  Rank(Q, i) = Rank(P, i)
  <2>1. i \in 1 .. r
    OBVIOUS
  <2>2. {j \in Q : j <= i} = {j \in P : j <= i}
    BY <2>1
  <2> QED
    BY <2>2 DEF Rank
<1>5. Rank(Q, r + 1) = Cardinality(P) + 1
  <2>1. \A j \in Q : j \in Int /\ j <= r + 1
    BY <1>1
  <2>2. {j \in Q : j <= r + 1} = Q
    BY <2>1
  <2> QED
    BY <1>3, <2>2 DEF Rank
<1>6. Nth(Q, Cardinality(P) + 1) = r + 1
  <2> HIDE DEF Q
  <2> QED
    BY <1>1, <1>5, NthOfRank
<1>7. ASSUME NEW k \in 1 .. Cardinality(P)
      PROVE  Nth(Q, k) = Nth(P, k)
  <2>1. Nth(P, k) \in P /\ Rank(P, Nth(P, k)) = k
    BY NthRank
  <2>2. Rank(Q, Nth(P, k)) = k /\ Nth(P, k) \in Q
    BY <1>4, <2>1
  <2> HIDE DEF Q
  <2> QED
    BY <1>1, <2>2, NthOfRank
<1> QED
  BY <1>1, <1>3, <1>6, <1>7

LEMMA WrittenAppend ==
  ASSUME NEW w, NEW n \in Nat, DOMAIN w = 1 .. n, Low(w),
         NEW r \in 0 .. n - 1, NEW P \in SUBSET (1 .. r)
  PROVE  Written(w, P \union {r + 1}) = Append(Written(w, P), Image(w[r + 1]))
<1> DEFINE Q == P \union {r + 1}
           s == Written(w, P)
           t == Written(w, Q)
           c == Image(w[r + 1])
<1>1. r \in Nat /\ r + 1 \in 1 .. n /\ P \in SUBSET (1 .. n) /\ Q \in SUBSET (1 .. n)
  OBVIOUS
<1>2. /\ Cardinality(Q) = Cardinality(P) + 1
      /\ Nth(Q, Cardinality(P) + 1) = r + 1
      /\ \A k \in 1 .. Cardinality(P) : Nth(Q, k) = Nth(P, k)
  BY <1>1, OneMorePosition
<1>3. Cardinality(P) \in Nat
  BY <1>1, Positions
<1>4. s \in Seq(Plain) /\ Len(s) = Cardinality(P)
  BY <1>1, WrittenType
<1>5. t \in Seq(Plain) /\ Len(t) = Cardinality(P) + 1
  <2> HIDE DEF Q
  <2> QED
    BY <1>1, <1>2, WrittenType
<1>6. c \in Plain
  BY <1>1, ImagePlain DEF Low
<1>7. /\ \A k \in 1 .. Cardinality(P) : s[k] = Image(w[Nth(P, k)])
      /\ \A k \in 1 .. Cardinality(Q) : t[k] = Image(w[Nth(Q, k)])
  <2> HIDE DEF Q
  <2> QED
    BY <1>1, WrittenAt
<1>8. /\ Append(s, c) \in Seq(Plain)
      /\ Len(Append(s, c)) = Cardinality(P) + 1
      /\ \A k \in 1 .. Cardinality(P) : Append(s, c)[k] = s[k]
      /\ Append(s, c)[Cardinality(P) + 1] = c
  <2> HIDE DEF s, c
  <2> QED
    BY <1>4, <1>6, AppendProperties
<1>9. ASSUME NEW k \in 1 .. Len(t)
      PROVE  t[k] = Append(s, c)[k]
  <2>1. k \in 1 .. Cardinality(P) \/ k = Cardinality(P) + 1
    BY <1>3, <1>5
  <2>2. CASE k \in 1 .. Cardinality(P)
    <3>1. t[k] = s[k]
      <4> HIDE DEF s, t, c, Q
      <4> QED
        BY <1>2, <1>3, <1>7, <2>2
    <3> QED
      BY <1>8, <2>2, <3>1
  <2>3. CASE k = Cardinality(P) + 1
    <3>1. t[k] = c
      <4> HIDE DEF s, t, Q
      <4> QED
        BY <1>2, <1>3, <1>7, <2>3
    <3> QED
      BY <1>8, <2>3, <3>1
  <2> QED
    BY <2>1, <2>2, <2>3
<1> QED
  <2> HIDE DEF s, t, c
  <2>1. t = Append(s, c)
    BY <1>5, <1>8, <1>9, SeqEqual
  <2> QED
    BY <2>1 DEF s, t, c

-----------------------------------------------------------------------------
(* Trimming *)

LEMMA FirstAndLast ==
  ASSUME NEW n \in Nat, NEW P \in SUBSET (1 .. n), P # {}
  PROVE  \E lo \in P, hi \in P : \A i \in P : lo <= i /\ i <= hi
<1> DEFINE m == Cardinality(P)
<1>1. IsFiniteSet(P) /\ m \in Nat
  BY Positions
<1>2. m # 0
  BY <1>1, FS_EmptySet
<1>3. 1 \in 1 .. m /\ m \in 1 .. m
  BY <1>1, <1>2
<1>4. /\ Nth(P, 1) \in P /\ Rank(P, Nth(P, 1)) = 1
      /\ Nth(P, m) \in P /\ Rank(P, Nth(P, m)) = m
  BY <1>3, NthRank
<1>5. ASSUME NEW i \in P
      PROVE  Nth(P, 1) <= i /\ i <= Nth(P, m)
  <2>1. Rank(P, i) \in 1 .. m
    BY RankType
  <2>2. ~(Rank(P, i) < 1) /\ ~(m < Rank(P, i))
    BY <1>1, <2>1
  <2>3. ~(i < Nth(P, 1)) /\ ~(Nth(P, m) < i)
    <3>1. ASSUME NEW j \in P
          PROVE  /\ i < j <=> Rank(P, i) < Rank(P, j)
                 /\ j < i <=> Rank(P, j) < Rank(P, i)
      BY RankOrder
    <3> HIDE DEF m
    <3> QED
      BY <1>4, <2>2, <3>1
  <2>4. i \in Int /\ Nth(P, 1) \in Int /\ Nth(P, m) \in Int
    <3>1. \A j \in P : j \in Int
      OBVIOUS
    <3> HIDE DEF m
    <3> QED
      BY <1>4, <3>1
  <2> QED
    BY <2>3, <2>4
<1> QED
  BY <1>4, <1>5

Within(P, lo, hi) == {i \in P : lo <= i /\ i <= hi}

(* Ranks in a part of the positions are those in all of them, counted from *)
(* where the part begins.                                                  *)
LEMMA RankWithin ==
  ASSUME NEW n \in Nat, NEW P \in SUBSET (1 .. n),
         NEW lo \in P, NEW hi \in P, lo <= hi,
         NEW i \in Within(P, lo, hi)
  PROVE  Rank(P, i) = Rank(P, lo) - 1 + Rank(Within(P, lo, hi), i)
<1> DEFINE Q == Within(P, lo, hi)
           B == {j \in P : j < lo}
           U == {j \in Q : j <= i}
<1>1. \A j \in P : j \in Int
  OBVIOUS
<1>2. i \in P /\ lo <= i /\ i <= hi
  BY DEF Within
<1>3. B \in SUBSET (1 .. n) /\ U \in SUBSET (1 .. n)
  BY DEF Within
<1>4. /\ IsFiniteSet(B) /\ Cardinality(B) \in Nat
      /\ IsFiniteSet(U) /\ Cardinality(U) \in Nat
  <2> HIDE DEF B, U
  <2> QED
    BY <1>3, Positions
<1>5. {j \in P : j <= lo} = B \union {lo} /\ lo \notin B
  <2>1. \A j \in P : j <= lo <=> j < lo \/ j = lo
    BY <1>1
  <2>2. ~(lo < lo)
    BY <1>1
  <2> QED
    BY <2>1, <2>2
<1>6. Rank(P, lo) = Cardinality(B) + 1
  <2> HIDE DEF B
  <2> QED
    BY <1>4, <1>5, FS_AddElement DEF Rank
<1>7. {j \in P : j <= i} = B \union U
  <2>1. ASSUME NEW j \in P
        PROVE  j <= i <=> j < lo \/ (lo <= j /\ j <= hi /\ j <= i)
    BY <1>1, <1>2
  <2> QED
    BY <2>1 DEF Within
<1>8. B \intersect U = {}
  <2>1. \A j \in P : ~(j < lo /\ lo <= j)
    BY <1>1
  <2> QED
    BY <2>1 DEF Within
<1>9. Cardinality(B \union U) = Cardinality(B) + Cardinality(U)
  <2> HIDE DEF B, U
  <2>1. Cardinality({}) = 0
    BY FS_EmptySet
  <2> QED
    BY <1>4, <1>8, <2>1, FS_Union
<1>10. Rank(P, i) = Cardinality(B) + Cardinality(U)
  BY <1>7, <1>9 DEF Rank
<1>11. Rank(Q, i) = Cardinality(U)
  BY DEF Rank
<1> QED
  <2> HIDE DEF B, U
  <2> QED
    BY <1>4, <1>6, <1>10, <1>11

LEMMA WrittenWithin ==
  ASSUME NEW w, NEW n \in Nat, DOMAIN w = 1 .. n, Low(w),
         NEW P \in SUBSET (1 .. n), NEW lo \in P, NEW hi \in P, lo <= hi
  PROVE  SubSeq(Written(w, P), Rank(P, lo), Rank(P, hi))
           = Written(w, Within(P, lo, hi))
<1> DEFINE Q == Within(P, lo, hi)
           s == Written(w, P)
           t == Written(w, Q)
           a == Rank(P, lo)
           b == Rank(P, hi)
           u == SubSeq(s, a, b)
<1>1. /\ Q \in SUBSET (1 .. n) /\ hi \in Q /\ lo \in Q
      /\ \A i \in Q : i \in Int /\ i <= hi
  <2>1. \A j \in P : j \in 1 .. n /\ j \in Int
    OBVIOUS
  <2>2. lo <= lo /\ hi <= hi
    BY <2>1
  <2>3. Q \in SUBSET (1 .. n)
    BY <2>1 DEF Within
  <2> QED
    BY <2>1, <2>2, <2>3 DEF Within
<1>2. Cardinality(Q) \in Nat /\ Cardinality(P) \in Nat
  <2> HIDE DEF Q
  <2> QED
    BY <1>1, Positions
<1>3. a \in 1 .. Cardinality(P) /\ b \in 1 .. Cardinality(P)
  BY RankType
<1>4. Rank(Q, hi) = Cardinality(Q)
  <2>1. {j \in Q : j <= hi} = Q
    <3> HIDE DEF Q
    <3> QED
      BY <1>1
  <2> QED
    BY <2>1 DEF Rank
<1>5. b = a - 1 + Cardinality(Q)
  BY <1>1, <1>4, RankWithin
<1>6. s \in Seq(Plain) /\ Len(s) = Cardinality(P)
  BY WrittenType
<1>7. t \in Seq(Plain) /\ Len(t) = Cardinality(Q)
  <2> HIDE DEF Q
  <2> QED
    BY <1>1, WrittenType
<1>8. Cardinality(Q) # 0
  <2>1. IsFiniteSet(Q)
    <3> HIDE DEF Q
    <3> QED
      BY <1>1, Positions
  <2> HIDE DEF Q
  <2> QED
    BY <1>1, <2>1, FS_EmptySet
<1>9. /\ u \in Seq(Plain) /\ Len(u) = Cardinality(Q)
      /\ \A k \in 1 .. Cardinality(Q) : u[k] = s[a + k - 1]
  <2>1. \A k \in a .. b : s[k] \in Plain
    <3>1. \A k \in a .. b : k \in 1 .. Len(s)
      <4> HIDE DEF a, b, s
      <4> QED
        BY <1>2, <1>3, <1>6
    <3> HIDE DEF a, b, s
    <3> QED
      BY <1>6, <3>1, ElementOfSeq
  <2>2. a \in Int /\ b \in Int /\ a <= b /\ b - a + 1 = Cardinality(Q)
    <3> HIDE DEF a, b, Q
    <3> QED
      BY <1>2, <1>3, <1>5, <1>8
  <2> HIDE DEF a, b, s, Q
  <2> QED
    BY <2>1, <2>2, SubSeqProperties
<1>10. ASSUME NEW k \in 1 .. Cardinality(Q)
       PROVE  u[k] = t[k]
  <2>1. Nth(Q, k) \in Q /\ Rank(Q, Nth(Q, k)) = k
    <3> HIDE DEF Q
    <3> QED
      BY <1>1, NthRank
  <2>2. Rank(P, Nth(Q, k)) = a - 1 + k /\ Nth(Q, k) \in P
    <3>1. ASSUME NEW i \in Q
          PROVE  Rank(P, i) = a - 1 + Rank(Q, i) /\ i \in P
      BY RankWithin DEF Within
    <3> HIDE DEF Q, a
    <3> QED
      BY <2>1, <3>1
  <2>3. s[Rank(P, Nth(Q, k))] = Image(w[Nth(Q, k)])
    BY <2>2, WrittenAt
  <2>4. t[k] = Image(w[Nth(Q, k)])
    <3> HIDE DEF Q
    <3> QED
      BY <1>1, WrittenAt
  <2>5. u[k] = s[a + k - 1]
    BY <1>9
  <2>6. a - 1 + k = a + k - 1
    <3>1. a \in Int /\ k \in Int
      <4> HIDE DEF a
      <4> QED
        BY <1>2, <1>3
    <3> HIDE DEF a
    <3> QED
      BY <3>1
  <2> HIDE DEF a, u, t, s
  <2> QED
    BY <2>2, <2>3, <2>4, <2>5, <2>6
<1> QED
  <2> HIDE DEF t, u, Q
  <2>1. u = t
    BY <1>7, <1>9, <1>10, SeqEqual
  <2> QED
    BY <2>1 DEF u, t, Q

(* Min and Max of a set whose ends are known.                              *)
LEMMA MinIs ==
  ASSUME NEW S \in SUBSET Int, NEW a \in S, \A x \in S : a <= x
  PROVE  Min(S) = a
<1>1. \A x \in S : x \in Int
  OBVIOUS
<1>2. \E x \in S : \A y \in S : x <= y
  OBVIOUS
<1>3. Min(S) \in S /\ \A y \in S : Min(S) <= y
  BY <1>2 DEF Min
<1>4. Min(S) \in Int /\ a \in Int /\ a <= Min(S) /\ Min(S) <= a
  BY <1>1, <1>3
<1> QED
  BY <1>4

LEMMA MaxIs ==
  ASSUME NEW S \in SUBSET Int, NEW a \in S, \A x \in S : x <= a
  PROVE  Max(S) = a
<1>1. \A x \in S : x \in Int
  OBVIOUS
<1>2. \A x \in S : a >= x
  BY <1>1
<1>3. \E x \in S : \A y \in S : x >= y
  BY <1>2
<1>4. Max(S) \in S /\ \A y \in S : Max(S) >= y
  BY <1>3 DEF Max
<1>5. Max(S) \in Int /\ a \in Int /\ Max(S) >= a /\ Max(S) <= a
  BY <1>1, <1>4
<1> QED
  BY <1>5

(* From the first to the last letter, what is kept are the letters and the *)
(* beginnings of the gaps between them.                                    *)
LEMMA BetweenLetters ==
  ASSUME NEW w, NEW n \in Nat, DOMAIN w = 1 .. n,
         NEW lo \in Letters(w), NEW hi \in Letters(w),
         \A i \in Letters(w) : lo <= i /\ i <= hi
  PROVE  Within(Kept(w), lo, hi) = Letters(w) \union Gaps(w)
<1>1. \A i \in Letters(w) : i \in 1 .. n /\ i \in Int
  BY DEF Letters
<1>2. ASSUME NEW i \in Kept(w), lo <= i, i <= hi, i \notin Letters(w)
      PROVE  i \in Gaps(w)
  <2>1. i \in 1 .. n /\ i # lo /\ i # hi
    BY <1>2 DEF Kept
  <2>2. i \in Int /\ lo < i /\ i < hi /\ i # 1 /\ i - 1 \in 1 .. n
    BY <1>1, <1>2, <2>1
  <2>3. i - 1 \in Letters(w)
    BY <1>2, <2>1, <2>2 DEF Kept, Letters
  <2> QED
    BY <1>2, <2>1, <2>2, <2>3 DEF Gaps
<1>3. ASSUME NEW i \in Gaps(w)
      PROVE  i \in Kept(w) /\ lo <= i /\ i <= hi
  <2>1. i \in 1 .. n /\ i - 1 \in Letters(w)
    BY DEF Gaps
  <2>2. PICK j \in Letters(w) : j > i
    BY DEF Gaps
  <2>3. i \in Kept(w)
    BY <2>1 DEF Kept, Letters
  <2>4. /\ i \in Int /\ lo \in Int /\ hi \in Int /\ j \in Int
        /\ lo <= i - 1 /\ j <= hi
    BY <1>1, <2>1, <2>2
  <2> QED
    BY <2>2, <2>3, <2>4
<1>4. \A i \in Letters(w) : i \in Kept(w)
  BY DEF Letters, Kept
<1> QED
  BY <1>2, <1>3, <1>4 DEF Within

(* Trimmed, what is kept of a name is the letters and the gaps between.    *)
LEMMA TrimmedWritten ==
  ASSUME NEW w, NEW n \in Nat, DOMAIN w = 1 .. n, Low(w)
  PROVE  Trimmed(Written(w, Kept(w))) =
           IF Letters(w) = {} THEN << >>
           ELSE Written(w, Letters(w) \union Gaps(w))
<1> DEFINE K == Kept(w)
           s == Written(w, K)
           I == {k \in 1 .. Len(s) : s[k] # "_"}
<1>1. K \in SUBSET (1 .. n) /\ Letters(w) \in SUBSET (1 .. n) /\ Letters(w) \subseteq K
  BY DEF Kept, Letters
<1>2. s \in Seq(Plain) /\ Len(s) = Cardinality(K)
  <2> HIDE DEF K
  <2> QED
    BY <1>1, WrittenType
<1>3. ASSUME NEW k \in I
      PROVE  \E i \in Letters(w) : Rank(K, i) = k
  <2> HIDE DEF K
  <2>1. k \in 1 .. Cardinality(K) /\ s[k] # "_"
    BY <1>2, <1>3
  <2>2. Nth(K, k) \in K /\ Rank(K, Nth(K, k)) = k
    BY <1>1, <2>1, NthRank
  <2>3. s[k] = Image(w[Nth(K, k)])
    BY <1>1, <2>1, WrittenAt
  <2>4. Nth(K, k) \in 1 .. n
    BY <1>1, <2>2
  <2>5. Nth(K, k) \in Letters(w)
    BY <2>1, <2>3, <2>4, ImagePlain DEF Letters, Low
  <2> QED
    BY <2>2, <2>5
<1>4. ASSUME NEW i \in Letters(w)
      PROVE  Rank(K, i) \in I
  <2> HIDE DEF K
  <2>1. i \in K /\ Rank(K, i) \in 1 .. Cardinality(K)
    BY <1>1, RankType
  <2>2. s[Rank(K, i)] = Image(w[i])
    BY <1>1, <2>1, WrittenAt
  <2>3. Image(w[i]) # "_"
    BY <1>1, ImagePlain DEF Letters, Low
  <2> QED
    BY <1>2, <2>1, <2>2, <2>3
<1>5. /\ SelectInSeq(s, LAMBDA c : c # "_") = IF I # {} THEN Min(I) ELSE 0
      /\ SelectLastInSeq(s, LAMBDA c : c # "_") = IF I # {} THEN Max(I) ELSE 0
  BY DEF SelectInSeq, SelectLastInSeq
<1>6. Trimmed(s) = IF SelectInSeq(s, LAMBDA c : c # "_") = 0 THEN << >>
                   ELSE SubSeq(s, SelectInSeq(s, LAMBDA c : c # "_"),
                                  SelectLastInSeq(s, LAMBDA c : c # "_"))
  BY DEF Trimmed
<1>7. CASE Letters(w) = {}
  <2>1. I = {}
    BY <1>3, <1>7
  <2> QED
    BY <1>5, <1>6, <1>7, <2>1
<1>8. CASE Letters(w) # {}
  <2>1. PICK lo \in Letters(w), hi \in Letters(w) :
          \A i \in Letters(w) : lo <= i /\ i <= hi
    BY <1>1, <1>8, FirstAndLast
  <2>2. \A i \in K : i \in Int /\ Rank(K, i) \in Int
    <3>1. \A i \in K : Rank(K, i) \in 1 .. Cardinality(K)
      <4> HIDE DEF K
      <4> QED
        BY <1>1, RankType
    <3> HIDE DEF K
    <3> QED
      BY <1>1, <3>1
  <2>3. lo \in K /\ hi \in K /\ lo <= hi
    BY <1>1, <2>1
  <2>4. ASSUME NEW i \in Letters(w)
        PROVE  Rank(K, lo) <= Rank(K, i) /\ Rank(K, i) <= Rank(K, hi)
    <3> HIDE DEF K
    <3>1. i \in K /\ ~(i < lo) /\ ~(hi < i)
      BY <1>1, <2>1, <2>2, <2>3
    <3>2. ~(Rank(K, i) < Rank(K, lo)) /\ ~(Rank(K, hi) < Rank(K, i))
      BY <1>1, <2>3, <3>1, RankOrder
    <3> QED
      BY <2>2, <2>3, <3>1, <3>2
  <2>5. /\ I \in SUBSET Int /\ I # {}
        /\ Rank(K, lo) \in I /\ \A k \in I : Rank(K, lo) <= k
        /\ Rank(K, hi) \in I /\ \A k \in I : k <= Rank(K, hi)
    <3>1. I \in SUBSET Int
      <4>1. Len(s) \in Nat
        <5> HIDE DEF s
        <5> QED
          BY <1>2
      <4>2. \A k \in 1 .. Len(s) : k \in Int
        <5> HIDE DEF s
        <5> QED
          BY <4>1
      <4> HIDE DEF s
      <4> QED
        BY <4>2
    <3>2. Rank(K, lo) \in I /\ Rank(K, hi) \in I
      BY <1>4
    <3> HIDE DEF I, K
    <3> QED
      BY <1>3, <2>4, <3>1, <3>2
  <2>6. Min(I) = Rank(K, lo) /\ Max(I) = Rank(K, hi)
    <3> HIDE DEF I, K
    <3> QED
      BY <2>5, MinIs, MaxIs
  <2>7. Rank(K, lo) # 0
    <3>1. Rank(K, lo) \in 1 .. Cardinality(K)
      <4> HIDE DEF K
      <4> QED
        BY <1>1, <2>3, RankType
    <3> QED
      BY <3>1
  <2>8. Trimmed(s) = SubSeq(s, Rank(K, lo), Rank(K, hi))
    <3> HIDE DEF I, K, s
    <3> QED
      BY <1>5, <1>6, <2>5, <2>6, <2>7
  <2>9. SubSeq(s, Rank(K, lo), Rank(K, hi)) = Written(w, Within(K, lo, hi))
    <3> HIDE DEF K
    <3> QED
      BY <1>1, <2>3, WrittenWithin
  <2>10. Within(K, lo, hi) = Letters(w) \union Gaps(w)
    BY <2>1, BetweenLetters
  <2> QED
    BY <1>8, <2>8, <2>9, <2>10
<1> QED
  BY <1>7, <1>8

-----------------------------------------------------------------------------
(* Decimal numbers *)

Numbers == {n \in Nat : 1 <= n /\ n < Billion}

LEMMA PowersAre ==
  /\ Powers[1] = 1 /\ Powers[2] = 10 /\ Powers[3] = 100 /\ Powers[4] = 1000
  /\ Powers[5] = 10000 /\ Powers[6] = 100000 /\ Powers[7] = 1000000
  /\ Powers[8] = 10000000 /\ Powers[9] = 100000000
BY SMT DEF Powers

LEMMA OneToNine ==
  \A k \in 1 .. 9 : \/ k = 1 \/ k = 2 \/ k = 3 \/ k = 4 \/ k = 5
                    \/ k = 6 \/ k = 7 \/ k = 8 \/ k = 9
OBVIOUS

LEMMA PowersType ==
  ASSUME NEW k \in 1 .. 9
  PROVE  Powers[k] \in Nat /\ Powers[k] > 0
BY PowersAre, OneToNine, SMT

LEMMA DigitIs ==
  ASSUME NEW d \in 0 .. 9
  PROVE  /\ Digit(d) \in Digits
         /\ \A e \in 0 .. 9 : Digit(d) = Digit(e) => d = e
<1>1. /\ Digit(0) = "0" /\ Digit(1) = "1" /\ Digit(2) = "2" /\ Digit(3) = "3"
      /\ Digit(4) = "4" /\ Digit(5) = "5" /\ Digit(6) = "6" /\ Digit(7) = "7"
      /\ Digit(8) = "8" /\ Digit(9) = "9"
  BY DEF Digit
<1>2. \A e \in 0 .. 9 : \/ e = 0 \/ e = 1 \/ e = 2 \/ e = 3 \/ e = 4
                        \/ e = 5 \/ e = 6 \/ e = 7 \/ e = 8 \/ e = 9
  OBVIOUS
<1>3. Digit(d) \in Digits
  BY <1>1, <1>2 DEF Digits
<1>4. ASSUME NEW e \in 0 .. 9, Digit(d) = Digit(e)
      PROVE  d = e
  BY <1>1, <1>2, <1>4
<1> QED
  BY <1>3, <1>4

LEMMA LastDigit ==
  ASSUME NEW m \in Nat, NEW n \in Nat, m \div 10 = n \div 10, m % 10 = n % 10
  PROVE  m = n
BY SMT

LEMMA Quotients ==
  ASSUME NEW n \in Nat
  PROVE  /\ \A k \in 1 .. 9 : n \div Powers[k] \in Nat
         /\ \A k \in 1 .. 8 : (n \div Powers[k]) \div 10 = n \div Powers[k + 1]
         /\ n \div Powers[1] = n
         /\ n < Billion => (n \div Powers[9]) % 10 = n \div Powers[9]
<1>1. ASSUME NEW k \in 1 .. 9
      PROVE  n \div Powers[k] \in Nat
  BY PowersType, SMT
<1>2. /\ (n \div 1) \div 10 = n \div 10
      /\ (n \div 10) \div 10 = n \div 100
      /\ (n \div 100) \div 10 = n \div 1000
      /\ (n \div 1000) \div 10 = n \div 10000
  BY SMT
<1>3. /\ (n \div 10000) \div 10 = n \div 100000
      /\ (n \div 100000) \div 10 = n \div 1000000
      /\ (n \div 1000000) \div 10 = n \div 10000000
      /\ (n \div 10000000) \div 10 = n \div 100000000
  BY SMT
<1>4. ASSUME NEW k \in 1 .. 8
      PROVE  (n \div Powers[k]) \div 10 = n \div Powers[k + 1]
  <2>1. \/ k = 1 \/ k = 2 \/ k = 3 \/ k = 4 \/ k = 5 \/ k = 6 \/ k = 7 \/ k = 8
    BY SMT
  <2> QED
    BY <1>2, <1>3, <2>1, PowersAre, SMT
<1>5. n \div Powers[1] = n
  BY PowersAre, SMT
<1>6. n < Billion => (n \div Powers[9]) % 10 = n \div Powers[9]
  BY PowersAre, SMT DEF Billion
<1> QED
  BY <1>1, <1>4, <1>5, <1>6

LEMMA SmallQuotient ==
  ASSUME NEW n \in Nat, NEW k \in 1 .. 9, n < Powers[k]
  PROVE  n \div Powers[k] = 0
BY PowersAre, OneToNine, SMT

Width(n) == Max({k \in 1 .. 9 : Powers[k] <= n})

LEMMA WidthIs ==
  ASSUME NEW n \in Numbers
  PROVE  /\ Width(n) \in 1 .. 9
         /\ \A k \in 1 .. 9 : k > Width(n) => n < Powers[k]
<1> DEFINE S == {k \in 1 .. 9 : Powers[k] <= n}
<1>1. n \in Nat /\ 1 <= n
  BY DEF Numbers
<1>2. S \in SUBSET (1 .. 9) /\ 1 \in S
  BY <1>1, PowersAre, SMT
<1>3. PICK hi \in S : \A k \in S : k <= hi
  <2> HIDE DEF S
  <2> QED
    BY <1>2, FirstAndLast
<1>4. Width(n) = hi
  <2>1. Max(S) = hi
    <3> HIDE DEF S
    <3>1. S \in SUBSET Int
      BY <1>2
    <3> QED
      BY <1>3, <3>1, MaxIs
  <2> QED
    BY <2>1 DEF Width
<1>5. ASSUME NEW k \in 1 .. 9, k > hi
      PROVE  n < Powers[k]
  <2>1. k \notin S
    <3>1. hi \in Int /\ k \in Int /\ ~(k <= hi)
      BY <1>3, <1>5
    <3> HIDE DEF S
    <3> QED
      BY <1>3, <3>1
  <2>2. ~(Powers[k] <= n) /\ Powers[k] \in Nat
    BY <2>1, PowersType
  <2> HIDE DEF S
  <2> QED
    BY <1>1, <2>2
<1>6. hi \in 1 .. 9
  BY <1>3
<1> HIDE DEF S
<1> QED
  BY <1>4, <1>5, <1>6

Last10(n, k) == (n \div Powers[k]) % 10

LEMMA Last10Type ==
  ASSUME NEW n \in Nat, NEW k \in 1 .. 9
  PROVE  Last10(n, k) \in 0 .. 9
<1>1. n \div Powers[k] \in Nat
  BY Quotients
<1>2. \A q \in Nat : q % 10 \in 0 .. 9
  BY SMT
<1> QED
  BY <1>1, <1>2 DEF Last10

LEMMA DecimalIs ==
  ASSUME NEW n \in Numbers
  PROVE  /\ Decimal(n) \in Seq(Plain)
         /\ Len(Decimal(n)) = Width(n)
         /\ \A k \in 1 .. Width(n) :
              Decimal(n)[Width(n) + 1 - k] = Digit(Last10(n, k))
<1> DEFINE m == Width(n)
           At(i) == Digit(Last10(n, m + 1 - i))
<1>1. n \in Nat
  BY DEF Numbers
<1>2. m \in 1 .. 9
  BY WidthIs
<1>3. Decimal(n) = [i \in 1 .. m |-> At(i)]
  BY DEF Decimal, Width, Last10
<1>4. ASSUME NEW i \in 1 .. m
      PROVE  At(i) \in Plain
  <2>1. m + 1 - i \in 1 .. 9
    <3> HIDE DEF m
    <3> QED
      BY <1>2
  <2>2. Last10(n, m + 1 - i) \in 0 .. 9
    <3> HIDE DEF m
    <3> QED
      BY <1>1, <2>1, Last10Type
  <2>3. At(i) \in Digits
    BY <2>2, DigitIs
  <2>4. Digits \subseteq Plain
    BY DEF Plain, Alphanumeric, Upper, Digits
  <2> QED
    BY <2>3, <2>4
<1>5. Decimal(n) \in [1 .. m -> Plain]
  <2> HIDE DEF m, At
  <2> QED
    BY <1>3, <1>4
<1>6. Decimal(n) \in Seq(Plain) /\ Len(Decimal(n)) = m
  <2>1. m \in Nat
    <3> HIDE DEF m
    <3> QED
      BY <1>2
  <2> HIDE DEF m
  <2>2. Decimal(n) \in Seq(Plain)
    BY <1>5, <2>1, SeqDef
  <2>3. Len(Decimal(n)) \in Nat /\ 1 .. Len(Decimal(n)) = 1 .. m
    BY <1>5, <2>2, LenProperties
  <2>4. Len(Decimal(n)) = m
    BY <2>1, <2>3
  <2> QED
    BY <2>2, <2>4
<1>7. ASSUME NEW k \in 1 .. m
      PROVE  Decimal(n)[m + 1 - k] = Digit(Last10(n, k))
  <2>1. m + 1 - k \in 1 .. m /\ m + 1 - (m + 1 - k) = k
    <3> HIDE DEF m
    <3> QED
      BY <1>2
  <2>2. Decimal(n)[m + 1 - k] = At(m + 1 - k)
    <3> HIDE DEF m, At
    <3> QED
      BY <1>3, <2>1
  <2> QED
    BY <2>1, <2>2
<1> QED
  BY <1>6, <1>7

(* No two numbers have the same decimal.                                   *)
LEMMA DecimalInjective ==
  ASSUME NEW m \in Numbers, NEW n \in Numbers, Decimal(m) = Decimal(n)
  PROVE  m = n
<1>1. m \in Nat /\ n \in Nat /\ m < Billion /\ n < Billion
  BY DEF Numbers
<1>2. Width(m) = Width(n) /\ Width(n) \in 1 .. 9
  BY DecimalIs, WidthIs
<1>3. ASSUME NEW k \in 1 .. 9
      PROVE  Last10(m, k) = Last10(n, k)
  <2>1. CASE k \in 1 .. Width(n)
    <3>1. Digit(Last10(m, k)) = Digit(Last10(n, k))
      BY <1>2, <2>1, DecimalIs
    <3>2. Last10(m, k) \in 0 .. 9 /\ Last10(n, k) \in 0 .. 9
      BY <1>1, Last10Type
    <3> QED
      BY <3>1, <3>2, DigitIs
  <2>2. CASE k \notin 1 .. Width(n)
    <3>1. k > Width(n)
      BY <1>2, <2>2
    <3>2. m < Powers[k] /\ n < Powers[k]
      BY <1>2, <3>1, WidthIs
    <3>3. m \div Powers[k] = 0 /\ n \div Powers[k] = 0
      BY <1>1, <3>2, SmallQuotient
    <3> QED
      BY <3>3 DEF Last10
  <2> QED
    BY <2>1, <2>2
<1>4. m \div Powers[9] = n \div Powers[9]
  <2>1. Last10(m, 9) = Last10(n, 9) /\ 9 \in 1 .. 9
    BY <1>3
  <2> QED
    BY <1>1, <2>1, Quotients DEF Last10
<1>5. ASSUME NEW k \in 1 .. 8, m \div Powers[k + 1] = n \div Powers[k + 1]
      PROVE  m \div Powers[k] = n \div Powers[k]
  <2>1. k \in 1 .. 9
    OBVIOUS
  <2>2. m \div Powers[k] \in Nat /\ n \div Powers[k] \in Nat
    BY <1>1, <2>1, Quotients
  <2>3. (m \div Powers[k]) \div 10 = (n \div Powers[k]) \div 10
    BY <1>1, <1>5, Quotients
  <2>4. (m \div Powers[k]) % 10 = (n \div Powers[k]) % 10
    BY <1>3, <2>1 DEF Last10
  <2> QED
    BY <2>2, <2>3, <2>4, LastDigit
<1>6. m \div Powers[5] = n \div Powers[5]
  <2>1. m \div Powers[8] = n \div Powers[8]
    <3>1. 8 \in 1 .. 8 /\ 8 + 1 = 9
      OBVIOUS
    <3> QED
      BY <1>4, <1>5, <3>1
  <2>2. m \div Powers[7] = n \div Powers[7]
    BY <2>1, <1>5
  <2>3. m \div Powers[6] = n \div Powers[6]
    BY <2>2, <1>5
  <2> QED
    BY <2>3, <1>5
<1>7. m \div Powers[1] = n \div Powers[1]
  <2>1. m \div Powers[4] = n \div Powers[4]
    BY <1>6, <1>5
  <2>2. m \div Powers[3] = n \div Powers[3]
    BY <2>1, <1>5
  <2>3. m \div Powers[2] = n \div Powers[2]
    BY <2>2, <1>5
  <2> QED
    BY <2>3, <1>5
<1> QED
  BY <1>1, <1>7, Quotients

-----------------------------------------------------------------------------
(* The invariant *)

Starts(s) == s \in Seq(Plain) /\ IsPrefix(Prefix, s)

Answers == {"none", "created", "bad request", "error"}

Typed ==
  /\ former \in Former /\ creates \in 0 .. MaxCreates
  /\ pc \in {"migrate", "failed", "idle", "scan", "probe", "insert"}
  /\ answer \in Answers
  /\ pc # "idle" => answer = "none"
  /\ pc \in {"migrate", "failed"} => Projects = {} /\ creates = 0
  /\ pc \in {"scan", "probe", "insert"} => name \in Names /\ creates > 0

(* The rows of the table.                                                  *)
Stored ==
  /\ Projects \subseteq Names /\ IsFiniteSet(Projects)
  /\ IsInjective(schemas)
  /\ \A n \in Projects : Starts(schemas[n])

(* The first loop, after r characters.                                     *)
ReadUpTo(r) ==
  /\ rest = SubSeq(Lowered(name), r + 1, Len(name))
  /\ cleaned = Written(Lowered(name), Kept(Lowered(name)) \intersect (1 .. r))
  /\ prevUnderscore <=> r > 0 /\ ~IsAlphanumeric(Lowered(name)[r])

Scanned ==
  /\ cleaned \in Seq(Plain) /\ prevUnderscore \in BOOLEAN
  /\ prevUnderscore <=> cleaned # << >> /\ Last(cleaned) = "_"
  /\ pc = "scan" => \E r \in 0 .. Len(name) : ReadUpTo(r)

(* The second loop: its k-th name, and those it has found taken.           *)
Attempt(k) == IF k = 1 THEN candidate ELSE candidate \o <<"_">> \o Decimal(k)
Tried == {Attempt(k) : k \in 1 .. suffix - 2}
Untried == {n \in Projects : schemas[n] \notin Tried}

Probed ==
  pc \in {"probe", "insert"} =>
    /\ candidate = Prefix \o Cut(Slug(name), Keep)
    /\ finalName = Attempt(suffix - 1)
    /\ pc = "insert" => ~Taken(finalName)

(* Who is in the way is in the way once: the turns the loop has had, and   *)
(* the projects it has not come across, are no more than the projects that *)
(* were there when it began.                                               *)
Counted ==
  /\ suffix \in Nat /\ suffix >= 2
  /\ creates = 0 => suffix = 2
  /\ creates > 0 => suffix - 2 <= Cardinality(former) + creates - 1
  /\ pc = "idle" => Cardinality(Projects) <= Cardinality(former) + creates
  /\ pc \in {"scan", "probe", "insert"} =>
       Cardinality(Projects) <= Cardinality(former) + creates - 1
  /\ pc = "probe" =>
       suffix - 2 + Cardinality(Untried) <= Cardinality(former) + creates - 1

IInv == Typed /\ Stored /\ Scanned /\ Probed /\ Counted /\ RefusalExplained

-----------------------------------------------------------------------------
(* Characters and names *)

Char == STRING \union Plain

LEMMA LowerIs ==
  ASSUME NEW c \in STRING
  PROVE  Lower(c) \in Char /\ Lower(c) \notin Upper
<1>1. c = "A" => Lower(c) = "a"
  BY DEF Lower
<1>2. c = "B" => Lower(c) = "b"
  BY DEF Lower
<1>3. c # "A" /\ c # "B" => Lower(c) = c
  BY DEF Lower
<1>4. "a" \in Char /\ "b" \in Char /\ c \in Char
  BY DEF Char, Plain, Alphanumeric, Upper, Digits
<1>5. Lower(c) \in Char
  BY <1>1, <1>2, <1>3, <1>4
<1>6. Lower(c) \notin Upper
  BY <1>1, <1>2, <1>3 DEF Upper
<1> QED
  BY <1>5, <1>6

LEMMA LowerPlain ==
  ASSUME NEW c \in Alphanumeric \union {"_"}
  PROVE  Lower(c) \in Plain
<1>1. c = "A" => Lower(c) = "a"
  BY DEF Lower
<1>2. c = "B" => Lower(c) = "b"
  BY DEF Lower
<1>3. c # "A" /\ c # "B" => Lower(c) = c
  BY DEF Lower
<1> QED
  BY <1>1, <1>2, <1>3 DEF Plain, Alphanumeric, Upper, Digits

LEMMA LoweredIs ==
  ASSUME NEW n \in Seq(STRING)
  PROVE  /\ Len(n) \in Nat
         /\ DOMAIN Lowered(n) = 1 .. Len(n)
         /\ Lowered(n) \in Seq(Char) /\ Len(Lowered(n)) = Len(n)
         /\ Low(Lowered(n))
<1> DEFINE L == Lowered(n)
<1>1. Len(n) \in Nat /\ DOMAIN n = 1 .. Len(n)
  BY LenProperties
<1>2. \A i \in 1 .. Len(n) : n[i] \in STRING
  BY ElementOfSeq
<1>3. L = [i \in 1 .. Len(n) |-> Lower(n[i])]
  BY <1>1 DEF Lowered
<1>4. \A i \in 1 .. Len(n) : Lower(n[i]) \in Char /\ Lower(n[i]) \notin Upper
  BY <1>2, LowerIs
<1>5. DOMAIN L = 1 .. Len(n) /\ \A i \in 1 .. Len(n) : L[i] \notin Upper
  BY <1>3, <1>4
<1>6. L \in [1 .. Len(n) -> Char]
  BY <1>3, <1>4
<1>7. L \in Seq(Char)
  <2> HIDE DEF L
  <2> QED
    BY <1>1, <1>6, SeqDef
<1>8. Len(L) = Len(n)
  <2> HIDE DEF L
  <2>1. Len(L) \in Nat /\ 1 .. Len(L) = 1 .. Len(n)
    BY <1>5, <1>7, LenProperties
  <2> QED
    BY <1>1, <2>1
<1> QED
  BY <1>1, <1>5, <1>7, <1>8 DEF Low

LEMMA NamesAre ==
  ASSUME NEW n \in Names
  PROVE  n \in Seq(STRING) /\ n # << >>
BY NamesAssumption DEF NamesAssumption

LEMMA KeptIs ==
  ASSUME NEW w, NEW n \in Nat, DOMAIN w = 1 .. n
  PROVE  /\ Kept(w) \in SUBSET (1 .. n)
         /\ Letters(w) \in SUBSET (1 .. n)
         /\ Gaps(w) \in SUBSET (1 .. n)
BY DEF Kept, Letters, Gaps

(* What the migration writes.                                              *)
LEMMA ReplacedType ==
  ASSUME NEW n \in Seq(STRING)
  PROVE  Replaced(n) \in Seq(Plain)
<1> DEFINE P == Kept(n)
           m == Cardinality(P)
           s == Written(n, P)
           t == Lowered(s)
<1>1. Len(n) \in Nat /\ DOMAIN n = 1 .. Len(n)
  BY LenProperties
<1>2. P \in SUBSET (1 .. Len(n))
  BY <1>1, KeptIs
<1>3. m \in Nat
  <2> HIDE DEF P
  <2> QED
    BY <1>1, <1>2, Positions
<1>4. /\ DOMAIN s = 1 .. m
      /\ \A k \in 1 .. m : s[k] = Image(n[Nth(P, k)])
  <2> HIDE DEF P
  <2> QED
    BY <1>1, <1>2, WrittenAt
<1>5. \A c : Image(c) \in Alphanumeric \union {"_"}
  BY DEF Image, IsAlphanumeric
<1>6. \A k \in 1 .. m : Lower(s[k]) \in Plain
  <2> HIDE DEF s, m
  <2> QED
    BY <1>4, <1>5, LowerPlain
<1>7. t = [k \in 1 .. m |-> Lower(s[k])]
  BY <1>4 DEF Lowered
<1>8. t \in [1 .. m -> Plain]
  <2> HIDE DEF s, m, t
  <2> QED
    BY <1>6, <1>7
<1>9. t \in Seq(Plain)
  <2> HIDE DEF t, m
  <2> QED
    BY <1>3, <1>8, SeqDef
<1> QED
  BY <1>9 DEF Replaced

LEMMA PrefixIs ==
  /\ Prefix \in Seq(Plain) /\ Len(Prefix) \in Nat /\ Len(Prefix) >= 1
  /\ Prefix[1] \notin Digits
  /\ Starts(Prefix)
<1>1. Prefix \in Seq(Plain) /\ Prefix # << >> /\ Prefix[1] \notin Digits
  BY NamesAssumption DEF NamesAssumption
<1>2. Len(Prefix) \in Nat /\ Len(Prefix) # 0
  BY <1>1, EmptySeq
<1> QED
  BY <1>1, <1>2 DEF Starts, IsPrefix

LEMMA StartsConcat ==
  ASSUME NEW s, Starts(s), NEW t \in Seq(Plain)
  PROVE  Starts(s \o t) /\ Len(s \o t) = Len(s) + Len(t)
<1>1. /\ s \in Seq(Plain) /\ Len(s) \in Nat /\ Len(t) \in Nat /\ Len(Prefix) \in Nat
      /\ 1 <= Len(Prefix) /\ Len(Prefix) <= Len(s)
  BY PrefixIs, LenProperties DEF Starts, IsPrefix
<1>2. s \o t \in Seq(Plain) /\ Len(s \o t) = Len(s) + Len(t)
  BY <1>1, ConcatProperties
<1>3. 1 \in 1 .. Len(s) /\ Len(Prefix) \in 1 .. Len(s)
  BY <1>1
<1>4. SubSeq(s \o t, 1, Len(Prefix)) = SubSeq(s, 1, Len(Prefix))
  BY <1>1, <1>3, SubSeqOfConcat1
<1> QED
  BY <1>1, <1>2, <1>4 DEF Starts, IsPrefix

(* A name with the prefix is an identifier unless it is too long.          *)
LEMMA StartsSafe ==
  ASSUME NEW s, Starts(s)
  PROVE  /\ Len(s) \in Nat
         /\ SafeIdent(s) <=> Len(s) <= MaxIdent
<1>1. /\ s \in Seq(Plain) /\ Len(s) \in Nat /\ DOMAIN s = 1 .. Len(s)
      /\ Len(Prefix) \in Nat /\ 1 <= Len(Prefix) /\ Len(Prefix) <= Len(s)
      /\ SubSeq(Prefix, 1, Len(Prefix)) = SubSeq(s, 1, Len(Prefix))
  BY PrefixIs, LenProperties DEF Starts, IsPrefix
<1>2. s[1] = Prefix[1]
  <2>1. /\ 1 \in 1 .. Len(Prefix) /\ Len(Prefix) \in 1 .. Len(Prefix)
        /\ 1 \in 1 .. Len(s) /\ Len(Prefix) \in 1 .. Len(s)
    BY <1>1
  <2>2. Head(SubSeq(Prefix, 1, Len(Prefix))) = Prefix[1]
    BY <2>1, PrefixIs, HeadTailOfSubSeq
  <2>3. Head(SubSeq(s, 1, Len(Prefix))) = s[1]
    BY <1>1, <2>1, HeadTailOfSubSeq
  <2> QED
    BY <1>1, <2>2, <2>3
<1>3. \A i \in DOMAIN s : IsAlphanumeric(s[i]) \/ s[i] = "_"
  <2>1. \A i \in DOMAIN s : s[i] \in Plain
    BY <1>1, ElementOfSeq
  <2> QED
    BY <2>1 DEF Plain, IsAlphanumeric
<1>4. MaxIdent \in Nat
  BY NamesAssumption DEF NamesAssumption
<1>5. LengthAllowed(s) <=> Len(s) <= MaxIdent
  BY <1>1, <1>4 DEF LengthAllowed
<1> QED
  BY <1>1, <1>2, <1>3, <1>5, PrefixIs DEF SafeIdent

LEMMA CutIs ==
  ASSUME NEW s \in Seq(Plain), NEW k \in Nat
  PROVE  /\ Cut(s, k) \in Seq(Plain)
         /\ Len(Cut(s, k)) = IF Len(s) < k THEN Len(s) ELSE k
<1> DEFINE m == IF Len(s) < k THEN Len(s) ELSE k
<1>1. Len(s) \in Nat
  BY LenProperties
<1>2. m \in Nat /\ m <= Len(s)
  BY <1>1
<1>3. \A i \in 1 .. m : s[i] \in Plain
  <2>1. \A i \in 1 .. m : i \in 1 .. Len(s)
    <3> HIDE DEF m
    <3> QED
      BY <1>1, <1>2
  <2> HIDE DEF m
  <2> QED
    BY <2>1, ElementOfSeq
<1>4. /\ SubSeq(s, 1, m) \in Seq(Plain)
      /\ Len(SubSeq(s, 1, m)) = m
  <2> HIDE DEF m
  <2>1. Len(SubSeq(s, 1, m)) = IF 1 <= m THEN m - 1 + 1 ELSE 0
    BY <1>2, <1>3, SubSeqProperties
  <2>2. SubSeq(s, 1, m) \in Seq(Plain)
    BY <1>2, <1>3, SubSeqProperties
  <2> QED
    BY <1>2, <2>1, <2>2
<1> QED
  BY <1>4 DEF Cut

LEMMA SlugType ==
  ASSUME NEW n \in Seq(STRING)
  PROVE  Slug(n) \in Seq(Plain)
<1> DEFINE L == Lowered(n)
           P == Letters(L) \union Gaps(L)
<1>1. Len(n) \in Nat /\ DOMAIN L = 1 .. Len(n) /\ Low(L)
  BY LoweredIs
<1>2. P \in SUBSET (1 .. Len(n))
  <2> HIDE DEF L
  <2> QED
    BY <1>1, KeptIs
<1>3. Written(L, P) \in Seq(Plain)
  <2> HIDE DEF L, P
  <2> QED
    BY <1>1, <1>2, WrittenType
<1>4. Unnamed \in Seq(Plain)
  BY NamesAssumption DEF NamesAssumption
<1> QED
  BY <1>3, <1>4 DEF Slug

(* What the loop has written at its end makes the candidate of the slug.   *)
LEMMA CandidateIs ==
  ASSUME NEW n \in Seq(STRING)
  PROVE  /\ Candidate(Written(Lowered(n), Kept(Lowered(n))))
              = Prefix \o Cut(Slug(n), Keep)
         /\ Starts(Prefix \o Cut(Slug(n), Keep))
         /\ Len(Prefix \o Cut(Slug(n), Keep)) = Len(Prefix) + Len(Cut(Slug(n), Keep))
<1> DEFINE L == Lowered(n)
           s == Written(L, Kept(L))
           P == Letters(L) \union Gaps(L)
<1>1. Len(n) \in Nat /\ DOMAIN L = 1 .. Len(n) /\ Low(L)
  BY LoweredIs
<1>2. Trimmed(s) = IF Letters(L) = {} THEN << >> ELSE Written(L, P)
  <2> HIDE DEF L
  <2> QED
    BY <1>1, TrimmedWritten
<1>3. Letters(L) # {} => Written(L, P) # << >>
  <2>1. P \in SUBSET (1 .. Len(n))
    <3> HIDE DEF L
    <3> QED
      BY <1>1, KeptIs
  <2>2. Letters(L) # {} => P # {}
    OBVIOUS
  <2>3. IsFiniteSet(P)
    <3> HIDE DEF P
    <3> QED
      BY <1>1, <2>1, Positions
  <2>4. P # {} => Cardinality(P) # 0
    <3> HIDE DEF P
    <3> QED
      BY <2>3, FS_EmptySet
  <2>5. Len(Written(L, P)) = Cardinality(P)
    <3> HIDE DEF P, L
    <3> QED
      BY <1>1, <2>1, WrittenType
  <2>6. Len(<< >>) = 0
    BY EmptySeq
  <2> HIDE DEF P, L
  <2> QED
    BY <2>2, <2>4, <2>5, <2>6
<1>4. (IF Trimmed(s) = << >> THEN Unnamed ELSE Trimmed(s)) = Slug(n)
  <2>1. Slug(n) = IF Letters(L) = {} THEN Unnamed ELSE Written(L, P)
    BY DEF Slug
  <2> HIDE DEF L, P, s
  <2> QED
    BY <1>2, <1>3, <2>1
<1>5. Cut(Slug(n), Keep) \in Seq(Plain)
  <2>1. Keep \in Nat
    BY NamesAssumption DEF NamesAssumption
  <2> QED
    BY <2>1, SlugType, CutIs
<1>6. Candidate(s) = Prefix \o Cut(Slug(n), Keep)
  BY <1>4 DEF Candidate
<1> QED
  BY <1>5, <1>6, PrefixIs, StartsConcat

(* One character more, in the first loop.                                  *)
LEMMA OneMoreCharacter ==
  ASSUME NEW w, NEW n \in Nat, DOMAIN w = 1 .. n, Low(w), NEW r \in 0 .. n - 1
  PROVE  LET W(k) == Written(w, Kept(w) \intersect (1 .. k)) IN
         /\ W(r) \in Seq(Plain)
         /\ W(r + 1) = IF IsAlphanumeric(w[r + 1]) THEN Append(W(r), w[r + 1])
                       ELSE IF r > 0 /\ ~IsAlphanumeric(w[r]) THEN W(r)
                       ELSE Append(W(r), "_")
<1> DEFINE P == Kept(w) \intersect (1 .. r)
           Q == Kept(w) \intersect (1 .. r + 1)
<1>1. /\ r \in Nat /\ r + 1 \in 1 .. n /\ r + 1 \notin 1 .. r
      /\ r + 1 = 1 <=> ~(r > 0)
      /\ r + 1 - 1 = r
  OBVIOUS
<1>2. r + 1 \in Kept(w) <=> \/ IsAlphanumeric(w[r + 1])
                            \/ ~(r > 0 /\ ~IsAlphanumeric(w[r]))
  BY <1>1 DEF Kept
<1>3. Q = IF r + 1 \in Kept(w) THEN P \union {r + 1} ELSE P
  <2>1. \A i \in 1 .. r + 1 : i \in 1 .. r \/ i = r + 1
    BY <1>1
  <2>2. \A i \in 1 .. r : i \in 1 .. r + 1
    BY <1>1
  <2>3. r + 1 \in 1 .. r + 1
    BY <1>1
  <2> QED
    BY <2>1, <2>2, <2>3
<1>4. P \in SUBSET (1 .. r) /\ P \in SUBSET (1 .. n)
  BY <1>1, KeptIs
<1>5. Written(w, P) \in Seq(Plain)
  <2> HIDE DEF P
  <2> QED
    BY <1>4, WrittenType
<1>6. Written(w, P \union {r + 1}) = Append(Written(w, P), Image(w[r + 1]))
  <2> HIDE DEF P
  <2> QED
    BY <1>1, <1>4, WrittenAppend
<1>7. Written(w, Q) = IF IsAlphanumeric(w[r + 1]) THEN Append(Written(w, P), w[r + 1])
                      ELSE IF r > 0 /\ ~IsAlphanumeric(w[r]) THEN Written(w, P)
                      ELSE Append(Written(w, P), "_")
  <2> HIDE DEF P, Q
  <2> QED
    BY <1>2, <1>3, <1>6 DEF Image
<1> QED
  BY <1>5, <1>7

LEMMA FormerIs ==
  ASSUME former \in Former
  PROVE  /\ former \subseteq Names /\ IsFiniteSet(former)
         /\ Cardinality(former) \in Nat
         /\ Cardinality(former) + MaxCreates < Billion
<1>1. /\ former \subseteq Names /\ IsFiniteSet(former)
      /\ Cardinality(former) + MaxCreates < Billion
  BY NamesAssumption DEF NamesAssumption
<1> QED
  BY <1>1, FS_CardinalityType

LEMMA BoundsAre ==
  MaxCreates \in Nat /\ Keep \in Nat /\ MaxIdent \in Nat /\ RoleSuffix \in Seq(Plain)
BY NamesAssumption DEF NamesAssumption

LEMMA Singleton ==
  ASSUME NEW S, NEW x \in S
  PROVE  <<x>> \in Seq(S) /\ Len(<<x>>) = 1
OBVIOUS

LEMMA Underscore == <<"_">> \in Seq(Plain) /\ Len(<<"_">>) = 1
<1>1. "_" \in Plain
  BY DEF Plain
<1> QED
  BY <1>1, Singleton

(* The names the second loop tries: with the prefix, and all different.    *)
LEMMA Attempts ==
  ASSUME Starts(candidate), NEW k \in Numbers
  PROVE  /\ Starts(Attempt(k)) /\ Len(candidate) \in Nat
         /\ Len(Attempt(k)) = IF k = 1 THEN Len(candidate)
                              ELSE Len(candidate) + 1 + Len(Decimal(k))
         /\ Len(Decimal(k)) \in Nat
<1>1. Len(candidate) \in Nat
  BY StartsSafe
<1>2. <<"_">> \in Seq(Plain) /\ Len(<<"_">>) = 1
  BY Underscore
<1>3. Decimal(k) \in Seq(Plain) /\ Len(Decimal(k)) \in Nat
  BY DecimalIs, LenProperties
<1>4. Starts(candidate \o <<"_">>) /\ Len(candidate \o <<"_">>) = Len(candidate) + 1
  BY <1>2, StartsConcat
<1>5. /\ Starts(candidate \o <<"_">> \o Decimal(k))
      /\ Len(candidate \o <<"_">> \o Decimal(k))
           = Len(candidate \o <<"_">>) + Len(Decimal(k))
  BY <1>3, <1>4, StartsConcat
<1> QED
  BY <1>1, <1>3, <1>4, <1>5 DEF Attempt

LEMMA AttemptsDiffer ==
  ASSUME Starts(candidate), NEW j \in Numbers, NEW k \in Numbers,
         Attempt(j) = Attempt(k)
  PROVE  j = k
<1>1. /\ Len(candidate) \in Nat
      /\ Len(Attempt(j)) = IF j = 1 THEN Len(candidate)
                           ELSE Len(candidate) + 1 + Len(Decimal(j))
      /\ Len(Attempt(k)) = IF k = 1 THEN Len(candidate)
                           ELSE Len(candidate) + 1 + Len(Decimal(k))
      /\ Len(Decimal(j)) \in Nat /\ Len(Decimal(k)) \in Nat
  BY Attempts
<1>2. CASE j = 1 \/ k = 1
  BY <1>1, <1>2
<1>3. CASE j # 1 /\ k # 1
  <2>1. candidate \o <<"_">> \in Seq(Plain)
    BY Underscore, StartsConcat DEF Starts
  <2>2. Decimal(j) \in Seq(Plain) /\ Decimal(k) \in Seq(Plain)
    BY DecimalIs
  <2>3. candidate \o <<"_">> \o Decimal(j) = candidate \o <<"_">> \o Decimal(k)
    BY <1>3 DEF Attempt
  <2>4. Decimal(j) = Decimal(k)
    BY <2>1, <2>2, <2>3, ConcatSimplifications
  <2> QED
    BY <2>4, DecimalInjective
<1> QED
  BY <1>2, <1>3

-----------------------------------------------------------------------------
(* The steps *)

LEMMA InitInv == Init => IInv
<1> SUFFICES ASSUME Init PROVE IInv
  OBVIOUS
<1>1. Projects = {}
  BY DEF Init, Projects
<1>2. /\ former \in Former /\ pc = "migrate" /\ answer = "none" /\ creates = 0
      /\ suffix = 2 /\ cleaned = << >> /\ prevUnderscore = FALSE
  BY DEF Init
<1>3. Typed
  BY <1>1, <1>2, BoundsAre DEF Typed, Answers
<1>4. Stored
  BY <1>1, FS_EmptySet DEF Stored, IsInjective, Projects
<1>5. Scanned
  BY <1>2, EmptySeq DEF Scanned
<1>6. Probed /\ RefusalExplained
  BY <1>2 DEF Probed, RefusalExplained
<1>7. Counted
  BY <1>2 DEF Counted
<1> QED
  BY <1>3, <1>4, <1>5, <1>6, <1>7 DEF IInv

LEMMA ScannedFrame ==
  ASSUME Scanned, UNCHANGED <<name, rest, cleaned, prevUnderscore>>,
         pc' = "scan" => pc = "scan"
  PROVE  Scanned'
BY DEF Scanned, ReadUpTo

LEMMA MigrateInv == IInv /\ Migrate => IInv'
<1> SUFFICES ASSUME IInv, Migrate PROVE IInv'
  OBVIOUS
<1> USE DEF Migrate
<1>1. /\ Typed /\ Stored /\ Scanned /\ Counted
      /\ pc = "migrate" /\ creates = 0 /\ answer = "none" /\ Projects = {}
  BY DEF IInv, Typed
<1>2. /\ former \subseteq Names /\ IsFiniteSet(former) /\ Cardinality(former) \in Nat
  BY <1>1, FormerIs DEF Typed
<1>3. /\ \/ pc' = "failed" /\ Projects' = {} /\ schemas' = schemas
         \/ /\ pc' = "idle" /\ Projects' = former
            /\ schemas' = [n \in former |-> MigratedName(n)]
            /\ IsInjective(schemas')
      /\ UNCHANGED <<former, name, rest, cleaned, prevUnderscore, candidate, suffix,
                     finalName, answer, creates>>
  BY <1>1 DEF Projects
<1>4. Typed'
  BY <1>1, <1>3 DEF Typed
<1>5. Stored'
  <2>1. CASE schemas' = schemas
    BY <1>1, <2>1 DEF Stored, Projects
  <2>2. CASE /\ Projects' = former /\ IsInjective(schemas')
             /\ schemas' = [n \in former |-> MigratedName(n)]
    <3>1. ASSUME NEW n \in former
          PROVE  Starts(MigratedName(n))
      <4>1. Replaced(n) \in Seq(Plain)
        BY <1>2, NamesAre, ReplacedType
      <4> QED
        BY <4>1, PrefixIs, StartsConcat DEF MigratedName
    <3>2. \A n \in Projects' : Starts(schemas'[n])
      BY <2>2, <3>1
    <3> QED
      BY <1>2, <2>2, <3>2 DEF Stored, Starts
  <2> QED
    BY <1>3, <2>1, <2>2
<1>6. Scanned'
  BY <1>1, <1>3, ScannedFrame
<1>7. Probed' /\ RefusalExplained'
  BY <1>1, <1>3 DEF Probed, RefusalExplained
<1>8. Counted'
  BY <1>1, <1>2, <1>3, FS_EmptySet DEF Counted
<1> QED
  BY <1>4, <1>5, <1>6, <1>7, <1>8 DEF IInv

LEMMA ReceiveInv == ASSUME IInv, NEW n \in Names, Receive(n) PROVE IInv'
<1>1. /\ Typed /\ Stored /\ Counted
      /\ pc = "idle" /\ creates < MaxCreates /\ creates' = creates + 1
      /\ name' = n /\ rest' = Lowered(n) /\ cleaned' = << >> /\ prevUnderscore' = FALSE
      /\ pc' = "scan" /\ answer' = "none"
      /\ UNCHANGED <<schemas, former, candidate, suffix, finalName>>
  BY DEF IInv, Receive
<1>2. /\ Cardinality(former) \in Nat /\ creates \in Nat /\ MaxCreates \in Nat
      /\ Projects' = Projects /\ Cardinality(Projects) \in Nat
  BY <1>1, FormerIs, BoundsAre, FS_CardinalityType DEF Typed, Stored, Projects
<1>3. Typed'
  <2>1. creates' \in 0 .. MaxCreates /\ creates' > 0
    BY <1>1, <1>2
  <2>2. former \in Former
    BY <1>1 DEF Typed
  <2> QED
    BY <1>1, <2>1, <2>2 DEF Typed, Answers
<1>4. Stored'
  BY <1>1 DEF Stored, Projects
<1>5. Scanned'
  <2>1. /\ Len(n) \in Nat /\ DOMAIN Lowered(n) = 1 .. Len(n) /\ Low(Lowered(n))
        /\ Lowered(n) \in Seq(Char) /\ Len(Lowered(n)) = Len(n)
    BY NamesAre, LoweredIs
  <2>2. Lowered(n) = SubSeq(Lowered(n), 0 + 1, Len(n))
    BY <2>1, SubSeqFull
  <2>3. Written(Lowered(n), {}) = << >>
    <3>1. /\ Written(Lowered(n), {}) \in Seq(Plain)
          /\ Len(Written(Lowered(n), {})) = Cardinality({})
      BY <2>1, WrittenType
    <3> QED
      BY <3>1, EmptySeq, FS_EmptySet
  <2>4. Kept(Lowered(n)) \intersect (1 .. 0) = {}
    OBVIOUS
  <2>5. ReadUpTo(0)'
    BY <1>1, <2>2, <2>3, <2>4 DEF ReadUpTo
  <2>6. 0 \in 0 .. Len(name')
    BY <1>1, <2>1
  <2> QED
    BY <1>1, <2>5, <2>6, EmptySeq DEF Scanned
<1>6. Probed' /\ RefusalExplained'
  BY <1>1 DEF Probed, RefusalExplained
<1>7. Counted'
  BY <1>1, <1>2 DEF Counted
<1> QED
  BY <1>3, <1>4, <1>5, <1>6, <1>7 DEF IInv

LEMMA ScanInv == IInv /\ Scan => IInv'
<1> SUFFICES ASSUME IInv, Scan PROVE IInv'
  OBVIOUS
<1>1. /\ Typed /\ Stored /\ Scanned /\ Counted
      /\ pc = "scan" /\ rest # << >> /\ rest' = Tail(rest)
      /\ IF IsAlphanumeric(Head(rest))
         THEN cleaned' = Append(cleaned, Head(rest)) /\ prevUnderscore' = FALSE
         ELSE /\ cleaned' = IF prevUnderscore THEN cleaned ELSE Append(cleaned, "_")
              /\ prevUnderscore' = TRUE
      /\ UNCHANGED <<schemas, former, pc, name, candidate, suffix, finalName, answer,
                     creates>>
  BY DEF IInv, Scan, Reset
<1>2. /\ name \in Names /\ answer = "none"
  BY <1>1 DEF Typed
<1> DEFINE L == Lowered(name)
           N == Len(name)
<1>3. N \in Nat /\ DOMAIN L = 1 .. N /\ L \in Seq(Char) /\ Len(L) = N /\ Low(L)
  BY <1>2, NamesAre, LoweredIs
<1>4. PICK r \in 0 .. N : ReadUpTo(r)
  BY <1>1 DEF Scanned
<1>5. r \in 0 .. N - 1
  <2>1. CASE r = N
    <3>1. rest = << >>
      <4>1. rest = SubSeq(L, N + 1, N)
        BY <1>4, <2>1 DEF ReadUpTo
      <4> HIDE DEF L, N
      <4> QED
        BY <1>3, <4>1, SubSeqEmpty
    <3> QED
      BY <1>1, <3>1
  <2> HIDE DEF N
  <2> QED
    BY <1>3, <1>4, <2>1
<1>6. /\ Head(rest) = L[r + 1]
      /\ Tail(rest) = SubSeq(L, (r + 1) + 1, N)
  <2>1. rest = SubSeq(L, r + 1, N)
    BY <1>4 DEF ReadUpTo
  <2>2. r + 1 \in 1 .. N /\ N \in r + 1 .. N
    <3> HIDE DEF N
    <3> QED
      BY <1>3, <1>5
  <2> HIDE DEF L, N
  <2> QED
    BY <1>3, <2>1, <2>2, HeadTailOfSubSeq
<1>7. /\ cleaned \in Seq(Plain)
      /\ cleaned = Written(L, Kept(L) \intersect (1 .. r))
      /\ prevUnderscore <=> r > 0 /\ ~IsAlphanumeric(L[r])
  BY <1>1, <1>4 DEF ReadUpTo, Scanned
<1>8. Written(L, Kept(L) \intersect (1 .. r + 1)) =
        IF IsAlphanumeric(L[r + 1]) THEN Append(cleaned, L[r + 1])
        ELSE IF prevUnderscore THEN cleaned ELSE Append(cleaned, "_")
  <2> HIDE DEF L, N
  <2> QED
    BY <1>3, <1>5, <1>7, OneMoreCharacter
<1>9. /\ r + 1 \in 0 .. N /\ r + 1 > 0
  <2> HIDE DEF N
  <2> QED
    BY <1>3, <1>5
<1>10. cleaned' = Written(L, Kept(L) \intersect (1 .. r + 1))
  <2> DEFINE W == Written(L, Kept(L) \intersect (1 .. r + 1))
  <2> HIDE DEF W
  <2>1. W = IF IsAlphanumeric(L[r + 1]) THEN Append(cleaned, L[r + 1])
            ELSE IF prevUnderscore THEN cleaned ELSE Append(cleaned, "_")
    BY <1>8 DEF W
  <2>2. /\ IsAlphanumeric(L[r + 1]) => cleaned' = Append(cleaned, L[r + 1])
        /\ ~IsAlphanumeric(L[r + 1]) =>
             cleaned' = IF prevUnderscore THEN cleaned ELSE Append(cleaned, "_")
    <3> DEFINE h == Head(rest)
    <3>1. h = L[r + 1]
      BY <1>6
    <3>2. /\ IsAlphanumeric(h) => cleaned' = Append(cleaned, h)
          /\ ~IsAlphanumeric(h) =>
               cleaned' = IF prevUnderscore THEN cleaned ELSE Append(cleaned, "_")
      BY <1>1
    <3> HIDE DEF h, L
    <3> QED
      BY <3>1, <3>2
  <2> HIDE DEF L
  <2>3. cleaned' = W
    BY <2>1, <2>2
  <2> QED
    BY <2>3 DEF W
<1>11. prevUnderscore' <=> ~IsAlphanumeric(L[r + 1])
  <2> HIDE DEF L, N
  <2> QED
    BY <1>1, <1>6
<1>12. ReadUpTo(r + 1)'
  BY <1>1, <1>6, <1>9, <1>10, <1>11 DEF ReadUpTo
<1>13. /\ cleaned' \in Seq(Plain) /\ prevUnderscore' \in BOOLEAN
       /\ prevUnderscore' <=> cleaned' # << >> /\ Last(cleaned') = "_"
  <2> DEFINE c == L[r + 1]
  <2>1. "_" \in Plain /\ ~IsAlphanumeric("_")
    BY DEF Plain, IsAlphanumeric, Alphanumeric, Upper, Digits
  <2>2. r + 1 \in DOMAIN L
    <3> HIDE DEF L, N
    <3> QED
      BY <1>3, <1>5
  <2>3. c \notin Upper
    BY <1>3, <2>2 DEF Low
  <2>4. IsAlphanumeric(c) => c \in Plain
    BY <2>3 DEF IsAlphanumeric, Plain
  <2>5. ASSUME NEW d \in Plain
        PROVE  /\ Append(cleaned, d) \in Seq(Plain) /\ Append(cleaned, d) # << >>
               /\ Last(Append(cleaned, d)) = d
    <3>1. /\ Append(cleaned, d) \in Seq(Plain) /\ Append(cleaned, d) # << >>
          /\ Len(Append(cleaned, d)) = Len(cleaned) + 1
          /\ Append(cleaned, d)[Len(cleaned) + 1] = d
      <4>1. cleaned \in Seq(Plain)
        BY <1>7
      <4> QED
        BY <4>1, AppendProperties
    <3>2. Append(cleaned, d)[Len(Append(cleaned, d))] = d
      BY <3>1
    <3> QED
      BY <3>1, <3>2 DEF Last
  <2>6. CASE IsAlphanumeric(c)
    <3>1. cleaned' = Append(cleaned, c) /\ prevUnderscore' = FALSE
      <4> HIDE DEF L, N
      <4> QED
        BY <1>1, <1>6, <2>6
    <3> HIDE DEF c
    <3> QED
      BY <2>1, <2>4, <2>5, <2>6, <3>1
  <2>7. CASE ~IsAlphanumeric(c) /\ ~prevUnderscore
    <3>1. cleaned' = Append(cleaned, "_") /\ prevUnderscore' = TRUE
      <4> HIDE DEF L, N
      <4> QED
        BY <1>1, <1>6, <2>7
    <3> QED
      BY <2>1, <2>5, <3>1
  <2>8. CASE ~IsAlphanumeric(c) /\ prevUnderscore
    <3>1. cleaned' = cleaned /\ prevUnderscore' = TRUE
      <4> HIDE DEF L, N
      <4> QED
        BY <1>1, <1>6, <2>8
    <3> QED
      BY <1>1, <2>8, <3>1 DEF Scanned
  <2> QED
    BY <2>6, <2>7, <2>8
<1>14. Scanned'
  BY <1>1, <1>9, <1>12, <1>13 DEF Scanned
<1>15. Typed'
  BY <1>1 DEF Typed
<1>16. Stored'
  BY <1>1 DEF Stored, Projects
<1>17. Probed' /\ RefusalExplained'
  BY <1>1, <1>2 DEF Probed, RefusalExplained
<1>18. Counted'
  BY <1>1 DEF Counted, Projects
<1> QED
  BY <1>14, <1>15, <1>16, <1>17, <1>18 DEF IInv

LEMMA TrimInv == IInv /\ Trim => IInv'
<1> SUFFICES ASSUME IInv, Trim PROVE IInv'
  OBVIOUS
<1>1. /\ Typed /\ Stored /\ Scanned /\ Counted
      /\ pc = "scan" /\ rest = << >> /\ pc' = "probe"
      /\ candidate' = Candidate(cleaned) /\ finalName' = Candidate(cleaned)
      /\ suffix' = 2
      /\ UNCHANGED <<schemas, former, name, rest, cleaned, prevUnderscore, answer,
                     creates>>
  BY DEF IInv, Trim
<1>2. /\ name \in Names /\ answer = "none" /\ creates > 0
  BY <1>1 DEF Typed
<1> DEFINE L == Lowered(name)
           N == Len(name)
<1>3. N \in Nat /\ DOMAIN L = 1 .. N /\ L \in Seq(Char) /\ Len(L) = N /\ Low(L)
  BY <1>2, NamesAre, LoweredIs
<1>4. PICK r \in 0 .. N : ReadUpTo(r)
  BY <1>1 DEF Scanned
<1>5. r = N
  <2>1. CASE r # N
    <3>1. r + 1 \in 1 .. N /\ N \in r + 1 .. N /\ r + 1 <= N /\ N - (r + 1) + 1 # 0
      <4> HIDE DEF N
      <4> QED
        BY <1>3, <1>4, <2>1
    <3>2. rest = SubSeq(L, r + 1, N)
      BY <1>4 DEF ReadUpTo
    <3>3. \A i \in r + 1 .. N : L[i] \in Char
      <4>1. \A i \in r + 1 .. N : i \in 1 .. Len(L)
        <5> HIDE DEF L, N
        <5> QED
          BY <1>3, <3>1
      <4> HIDE DEF L, N
      <4> QED
        BY <1>3, <4>1, ElementOfSeq
    <3>4. Len(rest) = N - (r + 1) + 1
      <4>1. r + 1 \in Int /\ N \in Int
        <5> HIDE DEF N
        <5> QED
          BY <1>3
      <4> HIDE DEF L, N
      <4> QED
        BY <3>1, <3>2, <3>3, <4>1, SubSeqProperties
    <3>5. Len(rest) = 0
      BY <1>1, EmptySeq
    <3> HIDE DEF N
    <3> QED
      BY <3>1, <3>4, <3>5
  <2> QED
    BY <2>1
<1>6. Kept(L) \intersect (1 .. N) = Kept(L)
  <2> HIDE DEF L, N
  <2>1. Kept(L) \in SUBSET (1 .. N)
    BY <1>3, KeptIs
  <2> QED
    BY <2>1
<1>7. cleaned = Written(L, Kept(L))
  BY <1>4, <1>5, <1>6 DEF ReadUpTo
<1>8. candidate' = Prefix \o Cut(Slug(name), Keep)
  BY <1>1, <1>2, <1>7, NamesAre, CandidateIs
<1>9. Typed'
  BY <1>1 DEF Typed
<1>10. Stored'
  BY <1>1 DEF Stored, Projects
<1>11. Scanned'
  BY <1>1, ScannedFrame
<1>12. Probed' /\ RefusalExplained'
  BY <1>1, <1>2, <1>8 DEF Probed, RefusalExplained, Attempt
<1>13. Counted'
  <2>1. Untried' \in SUBSET Projects
    BY <1>1 DEF Untried, Projects
  <2>2. Cardinality(Untried') \in Nat /\ Cardinality(Untried') <= Cardinality(Projects)
    <3>1. IsFiniteSet(Projects)
      BY <1>1 DEF Stored
    <3> QED
      BY <2>1, <3>1, FS_Subset, FS_CardinalityType
  <2>3. /\ Cardinality(Projects) \in Nat /\ Projects' = Projects
        /\ Cardinality(former) \in Nat /\ creates \in Nat
        /\ Cardinality(Projects) <= Cardinality(former) + creates - 1
    BY <1>1, FormerIs, BoundsAre, FS_CardinalityType DEF Typed, Stored, Counted, Projects
  <2> QED
    BY <1>1, <1>2, <2>2, <2>3 DEF Counted
<1> QED
  BY <1>9, <1>10, <1>11, <1>12, <1>13 DEF IInv

(* What the second loop knows.                                             *)
LEMMA Probing ==
  ASSUME IInv, pc \in {"probe", "insert"}
  PROVE  /\ name \in Names /\ answer = "none"
         /\ Starts(candidate) /\ finalName = Attempt(suffix - 1)
         /\ Len(candidate) = Len(Prefix) + Len(Cut(Slug(name), Keep))
         /\ suffix - 1 \in Numbers /\ \A k \in 1 .. suffix - 2 : k \in Numbers
         /\ suffix \in Nat /\ suffix >= 2
         /\ Cardinality(former) \in Nat /\ creates \in Nat /\ creates > 0
         /\ creates <= MaxCreates
         /\ Starts(finalName)
<1>1. /\ Typed /\ Probed /\ Counted
  BY DEF IInv
<1>2. name \in Names /\ answer = "none" /\ creates > 0 /\ creates \in 0 .. MaxCreates
  BY <1>1 DEF Typed
<1>3. /\ candidate = Prefix \o Cut(Slug(name), Keep)
      /\ finalName = Attempt(suffix - 1)
  BY <1>1 DEF Probed
<1>4. Starts(candidate) /\ Len(candidate) = Len(Prefix) + Len(Cut(Slug(name), Keep))
  BY <1>2, <1>3, NamesAre, CandidateIs
<1>5. /\ Cardinality(former) \in Nat /\ MaxCreates \in Nat
      /\ Cardinality(former) + MaxCreates < Billion
  BY <1>1, FormerIs, BoundsAre DEF Typed
<1>6. /\ suffix \in Nat /\ suffix >= 2
      /\ suffix - 2 <= Cardinality(former) + creates - 1
  BY <1>1, <1>2 DEF Counted
<1>7. suffix - 1 <= Cardinality(former) + MaxCreates
  BY <1>2, <1>5, <1>6
<1>8. Billion \in Int
  BY SMT DEF Billion
<1>9. ASSUME NEW k \in Int, 1 <= k, k <= suffix - 1
      PROVE  k \in Numbers
  BY <1>5, <1>6, <1>7, <1>8, <1>9 DEF Numbers
<1>10. suffix - 1 \in Numbers /\ \A k \in 1 .. suffix - 2 : k \in Numbers
  BY <1>6, <1>9
<1>11. Starts(finalName)
  BY <1>3, <1>4, <1>10, Attempts
<1> QED
  BY <1>2, <1>3, <1>4, <1>5, <1>6, <1>10, <1>11

LEMMA ProbeInv == IInv /\ Probe => IInv'
<1> SUFFICES ASSUME IInv, Probe PROVE IInv'
  OBVIOUS
<1>1. /\ Typed /\ Stored /\ Scanned /\ Probed /\ Counted
      /\ pc = "probe"
      /\ UNCHANGED <<schemas, former, name, rest, cleaned, prevUnderscore, candidate,
                     creates>>
  BY DEF IInv, Probe
<1>2. /\ name \in Names /\ answer = "none"
      /\ Starts(candidate) /\ finalName = Attempt(suffix - 1)
      /\ Len(candidate) = Len(Prefix) + Len(Cut(Slug(name), Keep))
      /\ suffix - 1 \in Numbers /\ \A k \in 1 .. suffix - 2 : k \in Numbers
      /\ suffix \in Nat /\ suffix >= 2
      /\ Cardinality(former) \in Nat /\ creates \in Nat /\ creates > 0
      /\ Starts(finalName)
  BY <1>1, Probing
<1>3. /\ Stored' /\ Projects' = Projects
  BY <1>1 DEF Stored, Projects
<1>4. IsFiniteSet(Projects) /\ Cardinality(Projects) \in Nat
  BY <1>1, FS_CardinalityType DEF Stored
<1>5. CASE Taken(finalName)
  <2>1. /\ finalName' = candidate \o <<"_">> \o Decimal(suffix)
        /\ suffix' = suffix + 1 /\ UNCHANGED <<pc, answer>>
    BY <1>5 DEF Probe, Occupied, Following
  <2>2. Typed'
    BY <1>1, <2>1 DEF Typed
  <2>3. Scanned'
    BY <1>1, <2>1, ScannedFrame
  <2>4. \A k : Attempt(k)' = Attempt(k)
    BY <1>1 DEF Attempt
  <2>5. suffix' - 1 = suffix /\ suffix # 1 /\ suffix' - 2 = suffix - 1
    <3>1. suffix \in Nat /\ suffix >= 2 /\ suffix' = suffix + 1
      BY <1>2, <2>1
    <3> QED
      BY <3>1
  <2>6. Probed'
    <3>1. finalName' = Attempt(suffix - 1)'
      <4>1. Attempt(suffix - 1)' = IF suffix' - 1 = 1 THEN candidate'
                                   ELSE candidate' \o <<"_">> \o Decimal(suffix' - 1)
        BY DEF Attempt
      <4> QED
        BY <1>1, <2>1, <2>5, <4>1
    <3>2. candidate' = Prefix \o Cut(Slug(name'), Keep)
      BY <1>1 DEF Probed
    <3>3. pc' # "insert"
      BY <1>1, <2>1
    <3> QED
      BY <3>1, <3>2, <3>3 DEF Probed
  <2>7. RefusalExplained'
    BY <1>2, <2>1 DEF RefusalExplained
  <2>8. Counted'
    <3>1. PICK p \in Projects : schemas[p] = finalName
      BY <1>5 DEF Taken
    <3>2. p \in Untried
      <4>1. ASSUME NEW k \in 1 .. suffix - 2, Attempt(k) = finalName
            PROVE  FALSE
        <5>1. k \in Numbers /\ k # suffix - 1
          BY <1>2
        <5> QED
          BY <1>2, <4>1, <5>1, AttemptsDiffer
      <4> QED
        BY <3>1, <4>1 DEF Untried, Tried
    <3>3. Tried' = Tried \union {finalName}
      <4>1. Tried' = {Attempt(k) : k \in 1 .. suffix - 1}
        BY <2>4, <2>5 DEF Tried
      <4>2. \A k : k \in 1 .. suffix - 1 <=> k \in 1 .. suffix - 2 \/ k = suffix - 1
        BY <1>2
      <4>3. finalName = Attempt(suffix - 1)
        BY <1>2
      <4> QED
        BY <4>1, <4>2, <4>3 DEF Tried
    <3>4. Untried' \in SUBSET (Untried \ {p})
      BY <1>1, <3>1, <3>3 DEF Untried, Projects
    <3>5. IsFiniteSet(Untried) /\ Cardinality(Untried) \in Nat
      <4>1. Untried \in SUBSET Projects
        BY DEF Untried
      <4> QED
        BY <1>4, <4>1, FS_Subset, FS_CardinalityType
    <3>6. /\ IsFiniteSet(Untried \ {p})
          /\ Cardinality(Untried \ {p}) = Cardinality(Untried) - 1
      BY <3>2, <3>5, FS_RemoveElement
    <3>7. /\ Cardinality(Untried') \in Nat
          /\ Cardinality(Untried') <= Cardinality(Untried) - 1
      BY <3>4, <3>6, FS_Subset, FS_CardinalityType
    <3>8. /\ suffix - 2 + Cardinality(Untried) <= Cardinality(former) + creates - 1
          /\ Cardinality(Projects) <= Cardinality(former) + creates - 1
      BY <1>1 DEF Counted
    <3>9. /\ suffix' \in Nat /\ suffix' >= 2
          /\ suffix' - 2 + Cardinality(Untried') <= Cardinality(former) + creates - 1
          /\ suffix' - 2 <= Cardinality(former) + creates - 1
      <4>1. /\ suffix \in Nat /\ suffix >= 2 /\ suffix' = suffix + 1
            /\ Cardinality(former) \in Nat /\ creates \in Nat
        BY <1>2, <2>1
      <4> QED
        BY <3>5, <3>7, <3>8, <4>1
    <3>10. pc' = "probe" /\ creates' = creates /\ former' = former
      BY <1>1, <2>1
    <3>11. creates > 0 /\ creates # 0
      <4>1. creates \in Nat /\ creates > 0
        BY <1>2
      <4> QED
        BY <4>1
    <3> QED
      BY <1>3, <3>8, <3>9, <3>10, <3>11 DEF Counted
  <2> QED
    BY <1>3, <2>2, <2>3, <2>6, <2>7, <2>8 DEF IInv
<1>6. CASE ~Taken(finalName)
  <2>1. /\ UNCHANGED <<finalName, suffix>>
        /\ \/ pc' = "insert" /\ UNCHANGED answer
           \/ /\ pc' = "idle" /\ answer' = "bad request"
              /\ ~(SafeIdent(finalName) /\ SafeIdent(Role(finalName)))
    BY <1>6 DEF Probe, Occupied, Respond
  <2>2. Typed'
    BY <1>1, <2>1 DEF Typed, Answers
  <2>3. Scanned'
    BY <1>1, <2>1, ScannedFrame
  <2>4. Probed'
    <3>1. /\ candidate' = Prefix \o Cut(Slug(name'), Keep)
          /\ finalName' = finalName /\ finalName = Attempt(suffix - 1)
      BY <1>1, <2>1 DEF Probed
    <3>2. Attempt(suffix - 1)' = Attempt(suffix - 1)
      BY <1>1, <2>1 DEF Attempt
    <3>3. ~Taken(finalName)'
      BY <1>1, <1>6, <2>1 DEF Taken, Projects
    <3> QED
      BY <3>1, <3>2, <3>3 DEF Probed
  <2>5. Counted'
    <3>1. creates \in Nat /\ creates > 0 /\ Cardinality(former) \in Nat
      BY <1>2
    <3>2. creates # 0
      BY <3>1
    <3>3. /\ suffix \in Nat /\ suffix >= 2
          /\ suffix - 2 <= Cardinality(former) + creates - 1
          /\ Cardinality(Projects) <= Cardinality(former) + creates - 1
      BY <1>1, <3>1 DEF Counted
    <3>4. Cardinality(Projects) <= Cardinality(former) + creates
      BY <1>4, <3>1, <3>3
    <3>5. /\ pc' \in {"insert", "idle"} /\ suffix' = suffix /\ creates' = creates
          /\ former' = former /\ Projects' = Projects
      BY <1>1, <1>3, <2>1
    <3> QED
      BY <3>1, <3>2, <3>3, <3>4, <3>5 DEF Counted
  <2>6. RefusalExplained'
    <3>1. CASE answer' # "bad request"
      BY <3>1 DEF RefusalExplained
    <3>2. CASE answer' = "bad request"
      <4>1. ~(SafeIdent(finalName) /\ SafeIdent(Role(finalName)))
        BY <1>2, <2>1, <3>2
      <4>2. /\ Starts(Role(finalName))
            /\ Len(Role(finalName)) = Len(finalName) + Len(RoleSuffix)
        BY <1>2, BoundsAre, StartsConcat DEF Role
      <4>3. /\ Len(RoleSuffix) \in Nat /\ MaxIdent \in Nat /\ Len(finalName) \in Nat
            /\ Keep \in Nat /\ Len(Prefix) \in Nat
        BY <1>2, BoundsAre, LenProperties, StartsSafe, PrefixIs
      <4>4. Len(finalName) + Len(RoleSuffix) > MaxIdent
        <5>1. SafeIdent(finalName) <=> Len(finalName) <= MaxIdent
          BY <1>2, StartsSafe
        <5>2. SafeIdent(Role(finalName)) <=> Len(finalName) + Len(RoleSuffix) <= MaxIdent
          BY <4>2, StartsSafe
        <5> QED
          BY <4>1, <4>3, <5>1, <5>2
      <4> DEFINE slug == IF Len(Slug(name)) < Keep THEN Len(Slug(name)) ELSE Keep
                 room == MaxIdent - Len(Prefix) - Len(RoleSuffix)
      <4>5. Len(Cut(Slug(name), Keep)) = slug /\ slug \in Nat
        <5>1. Slug(name) \in Seq(Plain) /\ Len(Slug(name)) \in Nat
          BY <1>2, NamesAre, SlugType, LenProperties
        <5> QED
          BY <4>3, <5>1, CutIs
      <4>6. Len(candidate) = Len(Prefix) + slug
        BY <1>2, <4>5
      <4>7. CASE finalName = candidate
        <5>1. slug > room
          <6> HIDE DEF slug
          <6> QED
            BY <4>3, <4>4, <4>5, <4>6, <4>7
        <5> QED
          BY <1>1, <2>1, <4>7, <5>1 DEF RefusalExplained
      <4>8. CASE finalName # candidate
        <5>1. /\ Len(finalName) = Len(candidate) + 1 + Len(Decimal(suffix - 1))
              /\ Len(Decimal(suffix - 1)) \in Nat
          <6>1. suffix - 1 # 1
            BY <1>2, <4>8 DEF Attempt
          <6> QED
            BY <1>2, <6>1, Attempts
        <5>2. slug + 1 + Len(Decimal(suffix - 1)) > room
          <6> HIDE DEF slug
          <6> QED
            BY <4>3, <4>4, <4>5, <4>6, <5>1
        <5> QED
          BY <1>1, <2>1, <4>8, <5>2 DEF RefusalExplained
      <4> QED
        BY <4>7, <4>8
    <3> QED
      BY <3>1, <3>2
  <2> QED
    BY <1>3, <2>2, <2>3, <2>4, <2>5, <2>6 DEF IInv
<1> QED
  BY <1>5, <1>6

LEMMA InsertInv == IInv /\ Insert => IInv' /\ ErrorExplained
<1> SUFFICES ASSUME IInv, Insert PROVE IInv' /\ ErrorExplained
  OBVIOUS
<1>1. /\ Typed /\ Stored /\ Scanned /\ Probed /\ Counted
      /\ pc = "insert" /\ pc' = "idle"
      /\ UNCHANGED <<former, name, rest, cleaned, prevUnderscore, candidate, suffix,
                     finalName, creates>>
  BY DEF IInv, Insert, Respond
<1>2. /\ name \in Names /\ Starts(finalName) /\ ~Taken(finalName)
      /\ Cardinality(former) \in Nat /\ creates \in Nat /\ creates > 0
      /\ IsFiniteSet(Projects) /\ Cardinality(Projects) \in Nat
  BY <1>1, Probing, FS_CardinalityType DEF Probed, Stored
<1>3. \/ /\ name \notin Projects /\ answer' = "created"
         /\ schemas' = [n \in Projects \union {name} |->
                          IF n = name THEN finalName ELSE schemas[n]]
      \/ name \in Projects /\ answer' = "error" /\ schemas' = schemas
  BY <1>2 DEF Insert, Respond
<1>4. ErrorExplained
  BY <1>3 DEF ErrorExplained
<1>5. Typed'
  <2>1. answer' \in Answers
    BY <1>3 DEF Answers
  <2> QED
    BY <1>1, <2>1 DEF Typed
<1>6. Scanned'
  BY <1>1, ScannedFrame
<1>7. Probed' /\ RefusalExplained'
  BY <1>1, <1>3 DEF Probed, RefusalExplained
<1>8. /\ Stored'
      /\ Cardinality(Projects') \in Nat
      /\ Cardinality(Projects') <= Cardinality(Projects) + 1
  <2>1. CASE schemas' = schemas
    <3>1. Projects' = Projects
      BY <2>1 DEF Projects
    <3> QED
      BY <1>1, <1>2, <2>1, <3>1 DEF Stored
  <2>2. CASE /\ name \notin Projects
             /\ schemas' = [n \in Projects \union {name} |->
                              IF n = name THEN finalName ELSE schemas[n]]
    <3>1. Projects' = Projects \union {name}
      BY <2>2 DEF Projects
    <3>2. /\ IsFiniteSet(Projects') /\ Cardinality(Projects') = Cardinality(Projects) + 1
      BY <1>2, <2>2, <3>1, FS_AddElement
    <3>3. /\ schemas'[name] = finalName
          /\ \A n \in Projects : n # name /\ schemas'[n] = schemas[n]
      BY <2>2
    <3>4. \A n \in Projects' : Starts(schemas'[n])
      BY <1>1, <1>2, <3>1, <3>3 DEF Stored
    <3>5. IsInjective(schemas')
      <4>1. DOMAIN schemas' = Projects \union {name}
        BY <2>2
      <4>2. \A a, b \in Projects : schemas[a] = schemas[b] => a = b
        BY <1>1 DEF Stored, IsInjective, Projects
      <4>3. \A a \in Projects : schemas[a] # finalName
        BY <1>2 DEF Taken
      <4> QED
        BY <3>3, <4>1, <4>2, <4>3 DEF IsInjective
    <3>6. Projects' \subseteq Names
      BY <1>1, <1>2, <3>1 DEF Stored
    <3>7. Stored'
      BY <3>2, <3>4, <3>5, <3>6 DEF Stored, Starts
    <3> QED
      BY <1>2, <3>2, <3>7
  <2> QED
    BY <1>3, <2>1, <2>2
<1>9. Counted'
  <2>1. creates # 0
    BY <1>2
  <2>2. /\ suffix \in Nat /\ suffix >= 2
        /\ suffix - 2 <= Cardinality(former) + creates - 1
        /\ Cardinality(Projects) <= Cardinality(former) + creates - 1
    BY <1>1, <1>2 DEF Counted
  <2>3. Cardinality(Projects') <= Cardinality(former) + creates
    BY <1>2, <1>8, <2>2
  <2> QED
    BY <1>1, <2>1, <2>2, <2>3 DEF Counted
<1> QED
  BY <1>4, <1>5, <1>6, <1>7, <1>8, <1>9 DEF IInv

LEMMA DeleteInv == ASSUME IInv, NEW p \in Names, DeleteProject(p) PROVE IInv'
<1>1. /\ Typed /\ Stored /\ Scanned /\ Probed /\ Counted /\ RefusalExplained
      /\ pc # "migrate" /\ p \in Projects
      /\ schemas' = [m \in Projects \ {p} |-> schemas[m]]
      /\ UNCHANGED <<former, pc, name, rest, cleaned, prevUnderscore, candidate,
                     suffix, finalName, answer, creates>>
  BY DEF IInv, DeleteProject
<1>2. /\ Projects' = Projects \ {p}
      /\ \A n \in Projects' : schemas'[n] = schemas[n]
  BY <1>1 DEF Projects
<1>3. /\ IsFiniteSet(Projects') /\ Cardinality(Projects') \in Nat
      /\ Cardinality(Projects) \in Nat /\ Cardinality(Projects') <= Cardinality(Projects)
  <2>1. IsFiniteSet(Projects) /\ Projects' \in SUBSET Projects
    BY <1>1, <1>2 DEF Stored
  <2> QED
    BY <2>1, FS_Subset, FS_CardinalityType
<1>4. pc # "failed" /\ Typed'
  BY <1>1 DEF Typed
<1>5. Stored'
  <2>1. IsInjective(schemas')
    <3>1. DOMAIN schemas' = Projects \ {p}
      BY <1>1
    <3>2. \A a, b \in Projects : schemas[a] = schemas[b] => a = b
      BY <1>1 DEF Stored, IsInjective, Projects
    <3>3. \A n \in Projects \ {p} : schemas'[n] = schemas[n]
      BY <1>1
    <3> QED
      BY <3>1, <3>2, <3>3 DEF IsInjective
  <2>2. /\ Projects' \subseteq Names
        /\ \A n \in Projects' : Starts(schemas'[n])
    BY <1>1, <1>2 DEF Stored
  <2> QED
    BY <1>3, <2>1, <2>2 DEF Stored, Starts
<1>6. Scanned'
  BY <1>1, ScannedFrame
<1>7. \A k : Attempt(k)' = Attempt(k)
  BY <1>1 DEF Attempt
<1>8. Probed'
  <2>1. Taken(finalName)' => Taken(finalName)
    BY <1>1, <1>2 DEF Taken
  <2>2. /\ Attempt(suffix - 1)' = Attempt(suffix - 1)
        /\ candidate' = candidate /\ name' = name /\ finalName' = finalName /\ pc' = pc
    BY <1>1, <1>7 DEF Attempt
  <2> QED
    BY <1>1, <2>1, <2>2 DEF Probed
<1>9. RefusalExplained'
  BY <1>1 DEF RefusalExplained
<1>10. Counted'
  <2>1. Tried' = Tried
    BY <1>1, <1>7 DEF Tried
  <2>2. Untried' \in SUBSET Untried
    BY <1>2, <2>1 DEF Untried
  <2>3. IsFiniteSet(Untried) /\ Cardinality(Untried) \in Nat
    <3>1. IsFiniteSet(Projects) /\ Untried \in SUBSET Projects
      BY <1>1 DEF Stored, Untried
    <3> QED
      BY <3>1, FS_Subset, FS_CardinalityType
  <2>4. Cardinality(Untried') \in Nat /\ Cardinality(Untried') <= Cardinality(Untried)
    BY <2>2, <2>3, FS_Subset, FS_CardinalityType
  <2>5. Cardinality(former) \in Nat /\ creates \in Nat
    BY <1>1, FormerIs DEF Typed
  <2>6. /\ suffix \in Nat /\ suffix >= 2
        /\ creates = 0 => suffix = 2
        /\ creates > 0 => suffix - 2 <= Cardinality(former) + creates - 1
    BY <1>1 DEF Counted
  <2>7. pc = "idle" => Cardinality(Projects') <= Cardinality(former) + creates
    BY <1>1, <1>3, <2>5 DEF Counted
  <2>8. pc \in {"scan", "probe", "insert"} =>
          Cardinality(Projects') <= Cardinality(former) + creates - 1
    BY <1>1, <1>3, <2>5 DEF Counted
  <2>9. pc = "probe" =>
          suffix - 2 + Cardinality(Untried') <= Cardinality(former) + creates - 1
    <3>1. pc = "probe" =>
            suffix - 2 + Cardinality(Untried) <= Cardinality(former) + creates - 1
      BY <1>1 DEF Counted
    <3> QED
      BY <2>3, <2>4, <2>5, <2>6, <3>1
  <2> QED
    BY <1>1, <2>6, <2>7, <2>8, <2>9 DEF Counted
<1> QED
  BY <1>4, <1>5, <1>6, <1>8, <1>9, <1>10 DEF IInv

LEMMA StutterInv == IInv /\ UNCHANGED vars => IInv'
<1> SUFFICES ASSUME IInv, UNCHANGED vars PROVE IInv'
  OBVIOUS
<1> USE DEF vars
<1>1. Typed' /\ Stored'
  BY DEF IInv, Typed, Stored, Projects
<1>2. Scanned'
  BY ScannedFrame DEF IInv
<1>3. \A k : Attempt(k)' = Attempt(k)
  BY DEF Attempt
<1>4. Probed'
  <2>1. Attempt(suffix - 1)' = Attempt(suffix - 1)
    BY DEF Attempt
  <2> QED
    BY <2>1 DEF IInv, Probed, Taken, Projects
<1>5. Untried' = Untried
  BY <1>3 DEF Untried, Tried, Projects
<1>6. Counted' /\ RefusalExplained'
  BY <1>5 DEF IInv, Counted, RefusalExplained, Projects
<1> QED
  BY <1>1, <1>2, <1>4, <1>6 DEF IInv

(* Each step keeps the invariant and gives its errors a reason.            *)
LEMMA NextInv == IInv /\ [Next]_vars => IInv' /\ ErrorExplained
<1> SUFFICES ASSUME IInv, [Next]_vars PROVE IInv' /\ ErrorExplained
  OBVIOUS
<1>1. CASE Migrate
  BY <1>1, MigrateInv DEF Migrate, ErrorExplained
<1>2. ASSUME NEW n \in Names, Receive(n)
      PROVE  IInv' /\ ErrorExplained
  BY <1>2, ReceiveInv DEF Receive, ErrorExplained
<1>3. CASE Scan
  BY <1>3, ScanInv DEF Scan, ErrorExplained
<1>4. CASE Trim
  BY <1>4, TrimInv DEF Trim, ErrorExplained
<1>5. CASE Probe
  <2>1. answer' = answer \/ answer' = "bad request"
    BY <1>5 DEF Probe, Respond
  <2> QED
    BY <1>5, <2>1, ProbeInv DEF ErrorExplained
<1>6. CASE Insert
  BY <1>6, InsertInv
<1>7. ASSUME NEW n \in Names, DeleteProject(n)
      PROVE  IInv' /\ ErrorExplained
  BY <1>7, DeleteInv DEF DeleteProject, ErrorExplained
<1>8. CASE UNCHANGED vars
  BY <1>8, StutterInv DEF vars, ErrorExplained
<1> QED
  BY <1>1, <1>2, <1>3, <1>4, <1>5, <1>6, <1>7, <1>8 DEF Next, Step, Rest

-----------------------------------------------------------------------------
(* The theorems *)

LEMMA InvariantHolds == Spec => []IInv
<1>1. Init => IInv
  BY InitInv
<1>2. IInv /\ [Next]_vars => IInv'
  BY NextInv
<1> QED
  BY <1>1, <1>2, PTL DEF Spec

(* Whatever the names and the projects of before: the types, the rule the  *)
(* first loop keeps, no more turns of the second than there were projects, *)
(* and schemas that are lower case, have the prefix and are never shared.  *)
THEOREM NamesTyped == Spec => []TypeOK
<1>1. IInv => TypeOK
  <2> SUFFICES ASSUME IInv PROVE TypeOK
    OBVIOUS
  <2>1. Typed /\ Stored /\ Scanned /\ Counted
    BY DEF IInv
  <2>2. Cardinality(former) \in Nat /\ creates \in Nat
    BY <2>1, FormerIs, BoundsAre DEF Typed
  <2>3. suffix \in 2 .. IF creates = 0 THEN 2 ELSE Cardinality(former) + creates + 1
    <3>1. suffix \in Nat /\ suffix >= 2
      BY <2>1 DEF Counted
    <3>2. CASE creates = 0
      BY <2>1, <3>2 DEF Counted
    <3>3. CASE creates > 0
      <4>1. suffix - 2 <= Cardinality(former) + creates - 1
        BY <2>1, <3>3 DEF Counted
      <4>2. creates # 0 /\ suffix <= Cardinality(former) + creates + 1
        BY <2>2, <3>1, <3>3, <4>1
      <4> QED
        BY <2>2, <3>1, <4>2
    <3> QED
      BY <2>2, <3>2, <3>3
  <2> QED
    BY <2>1, <2>3 DEF TypeOK, Typed, Stored, Scanned, Starts, Answers
<1> QED
  BY <1>1, InvariantHolds, PTL

(* The name the loops work on is the slug of the display name, cut, behind *)
(* the prefix: shared.rs:85-106 for every string.                          *)
THEOREM SlugAlwaysExact == Spec => []SlugExact
<1>1. IInv => SlugExact
  BY DEF IInv, Probed, SlugExact
<1> QED
  BY <1>1, InvariantHolds, PTL

(* A create is refused only for a slug, with the suffix it needs, that is  *)
(* too long for the role, and fails only if the display name is taken.     *)
THEOREM RefusalsAlwaysExplained == Spec => RefusalsExplained
<1>1. IInv /\ IInv' /\ [Next]_vars => [RefusalExplained' /\ ErrorExplained]_vars
  BY NextInv DEF IInv
<1> QED
  BY <1>1, InvariantHolds, PTL DEF Spec, RefusalsExplained
================================================================================
