---------------------------- MODULE ReembedProofs ----------------------------
(***************************************************************************)
(* Proofs about Reembed and the EmbeddingClient it drives: the index is    *)
(* sound, points go only where a run recreates their collection, and the   *)
(* counts of a finished run account for every row, for any collections,    *)
(* tables, rows, natures of texts, batch sizes and number of runs, and up  *)
(* to any number of faults.                                                *)
(*                                                                         *)
(* The index invariant follows a batch through the embedder.  A vector is  *)
(* that of its own row only because the vectors of a call come back in     *)
(* the order of its texts, and they do because the groups still to be      *)
(* posted cut up, in order, exactly what is not yet answered: a group that *)
(* is halved to singles, retried or answered keeps that (IsCut).           *)
(*                                                                         *)
(* The books of a run need more: that the rows in front of the cursor are  *)
(* each settled or in the batch under way, that a batch lies in one page   *)
(* of ReadBatch rows, and that a call of a run nothing broke is given up   *)
(* only for a text that is refused.                                        *)
(***************************************************************************)
EXTENDS Reembed, FiniteSetTheorems, TLAPS

-----------------------------------------------------------------------------
(* Filtered. *)

\* The elements of a sequence.
Elements(s) == {s[i] : i \in DOMAIN s}

\* The place of i among the positions of S.
Rank(S, i) == Cardinality({j \in S : j <= i})

LEMMA RankType ==
    ASSUME NEW S, IsFiniteSet(S), S \subseteq Int, NEW i \in S
    PROVE  Rank(S, i) \in 1 .. Cardinality(S)
<1> DEFINE U == {j \in S : j <= i}
<1>1. U \in SUBSET S /\ i \in U
    OBVIOUS
<1> HIDE DEF U
<1>2. IsFiniteSet(U) /\ Cardinality(U) <= Cardinality(S)
    BY <1>1, FS_Subset
<1>3. Cardinality(U) \in Nat /\ Cardinality(S) \in Nat /\ Cardinality(U) # 0
    BY <1>1, <1>2, FS_CardinalityType, FS_EmptySet
<1>4. Rank(S, i) = Cardinality(U)
    BY DEF Rank, U
<1>5. QED
    BY <1>2, <1>3, <1>4

LEMMA RankInjective ==
    ASSUME NEW S, IsFiniteSet(S), S \subseteq Int, NEW i \in S, NEW k \in S, i < k
    PROVE  Rank(S, i) # Rank(S, k)
<1> DEFINE U == {j \in S : j <= i}
           V == {j \in S : j <= k}
<1>1. U \in SUBSET V /\ V \in SUBSET S /\ k \in V /\ k \notin U
    <2>1. i \in Int /\ k \in Int /\ \A j \in S : j \in Int
        OBVIOUS
    <2>2. \A j \in S : j <= i => j <= k
        BY <2>1
    <2>3. k <= k /\ ~(k <= i)
        BY <2>1
    <2>4. QED
        BY <2>2, <2>3
<1>2. Rank(S, i) = Cardinality(U) /\ Rank(S, k) = Cardinality(V)
    BY DEF Rank
<1> HIDE DEF U, V
<1>3. IsFiniteSet(V)
    BY <1>1, FS_Subset
<1>4. Cardinality(U) # Cardinality(V)
    BY <1>1, <1>3, FS_Subset
<1>5. QED
    BY <1>2, <1>4

\* Each place is taken, and by one position.
LEMMA RankBijective ==
    ASSUME NEW S, IsFiniteSet(S), S \subseteq Int
    PROVE  /\ \A n \in 1 .. Cardinality(S) : \E i \in S : Rank(S, i) = n
           /\ \A i, k \in S : Rank(S, i) = Rank(S, k) => i = k
<1> DEFINE C == 1 .. Cardinality(S)
           f == [i \in S |-> Rank(S, i)]
<1>1. Cardinality(S) \in Nat
    BY FS_CardinalityType
<1>2. \A i, k \in S : Rank(S, i) = Rank(S, k) => i = k
    <2> SUFFICES ASSUME NEW i \in S, NEW k \in S, i # k
                 PROVE  Rank(S, i) # Rank(S, k)
        OBVIOUS
    <2>1. CASE i < k
        BY <2>1, RankInjective
    <2>2. CASE k < i
        BY <2>2, RankInjective
    <2>3. QED
        BY <2>1, <2>2
<1>3. f \in Injection(S, C)
    <2>1. f \in [S -> C]
        BY RankType
    <2>2. \A i, k \in S : f[i] = f[k] => i = k
        BY <1>2
    <2> HIDE DEF f
    <2>3. QED
        BY <2>1, <2>2 DEF Injection, IsInjective
<1>4. IsFiniteSet(C) /\ Cardinality(C) = Cardinality(S)
    BY <1>1, FS_Interval
<1> HIDE DEF f, C
<1>5. f \in Surjection(S, C)
    BY <1>3, <1>4, FS_Injection
<1>6. \A n \in C : \E i \in S : f[i] = n
    BY <1>5 DEF Surjection
<1>7. \A n \in C : \E i \in S : Rank(S, i) = n
    BY <1>6 DEF f
<1>8. QED
    BY <1>2, <1>7 DEF C

\* Filtered keeps the elements of s that are in S, and repeats none.
LEMMA FilteredElements ==
    ASSUME NEW E, NEW s \in Seq(E), NEW S
    PROVE  /\ Filtered(s, S) \in Seq(E)
           /\ Elements(Filtered(s, S)) = Elements(s) \cap S
           /\ IsInjective(s) => IsInjective(Filtered(s, S))
<1> DEFINE K == {i \in DOMAIN s : s[i] \in S}
           At(n) == CHOOSE i \in K : Rank(K, i) = n
           new == Filtered(s, S)
<1>1. K \in SUBSET (1 .. Len(s)) /\ Len(s) \in Nat
    OBVIOUS
<1>2. IsFiniteSet(K) /\ K \subseteq Int /\ Cardinality(K) \in Nat
    <2>1. IsFiniteSet(1 .. Len(s))
        BY <1>1, FS_Interval
    <2> HIDE DEF K
    <2>2. IsFiniteSet(K)
        BY <1>1, <2>1, FS_Subset
    <2>3. QED
        BY <1>1, <2>2, FS_CardinalityType
<1>3. \A i \in K : i \in DOMAIN s /\ s[i] \in S /\ s[i] \in E
    OBVIOUS
<1>4. \A i \in DOMAIN s : s[i] \in S => i \in K
    OBVIOUS
<1>5. new = [n \in 1 .. Cardinality(K) |-> s[At(n)]]
    BY Zenon DEF Filtered, Rank
<1> HIDE DEF K, new
<1>6. \A n \in 1 .. Cardinality(K) : At(n) \in K /\ Rank(K, At(n)) = n
    BY <1>2, RankBijective
<1>7. \A i \in K : Rank(K, i) \in 1 .. Cardinality(K) /\ At(Rank(K, i)) = i
    BY <1>2, <1>6, RankBijective, RankType
<1> HIDE DEF At
<1>8. new \in Seq(E)
    <2>1. \A n \in 1 .. Cardinality(K) : s[At(n)] \in E
        BY <1>3, <1>6
    <2>2. QED
        BY <1>2, <1>5, <2>1
<1>9. \A n \in DOMAIN new : n \in 1 .. Cardinality(K) /\ new[n] = s[At(n)] /\ At(n) \in K
    BY <1>5, <1>6
<1>10. Elements(new) = Elements(s) \cap S
    <2>1. ASSUME NEW e \in Elements(new)
          PROVE  e \in Elements(s) /\ e \in S
        BY <1>3, <1>9 DEF Elements
    <2>2. ASSUME NEW e \in Elements(s), e \in S
          PROVE  e \in Elements(new)
        <3>1. PICK i \in DOMAIN s : e = s[i]
            BY DEF Elements
        <3>2. i \in K
            BY <1>4, <2>2, <3>1
        <3>3. Rank(K, i) \in DOMAIN new /\ new[Rank(K, i)] = e
            BY <1>5, <1>7, <3>1, <3>2
        <3>4. QED
            BY <3>3 DEF Elements
    <2>3. QED
        BY <2>1, <2>2
<1>11. ASSUME IsInjective(s), NEW m \in DOMAIN new, NEW n \in DOMAIN new, new[m] = new[n]
       PROVE  m = n
    <2>1. At(m) = At(n)
        BY <1>3, <1>9, <1>11 DEF IsInjective
    <2>2. QED
        BY <1>6, <1>9, <2>1
<1>12. QED
    BY <1>8, <1>10, <1>11 DEF new, IsInjective

-----------------------------------------------------------------------------
(* The POSTs of a call. *)

\* The groups of q are what is left of texts after the first n, cut in pieces:
\* off[k] texts come before group k.
CutAt(q, texts, off) ==
    /\ off[Len(q) + 1] = Len(texts)
    /\ \A k \in 1 .. Len(q) :
          /\ Len(q[k]) > 0
          /\ off[k + 1] = off[k] + Len(q[k])
          /\ \A j \in 1 .. Len(q[k]) : q[k][j] = texts[off[k] + j]

IsCut(q, texts, n) ==
    \E off \in [1 .. Len(q) + 1 -> 0 .. Len(texts)] : off[1] = n /\ CutAt(q, texts, off)

\* When nothing is left to post, everything is behind.
LEMMA CutEnds ==
    ASSUME NEW q, NEW texts, NEW n, Len(q) = 0, IsCut(q, texts, n)
    PROVE  n = Len(texts)
BY DEF IsCut, CutAt

\* The head group continues what is behind, and the others continue it.
LEMMA CutHead ==
    ASSUME NEW E, NEW q \in Seq(Seq(E)), q # <<>>, NEW texts \in Seq(E), NEW n, IsCut(q, texts, n)
    PROVE  /\ n \in Nat /\ Len(Head(q)) \in Nat \ {0}
           /\ n + Len(Head(q)) <= Len(texts)
           /\ \A j \in 1 .. Len(Head(q)) : Head(q)[j] = texts[n + j]
           /\ IsCut(Tail(q), texts, n + Len(Head(q)))
<1>1. PICK off \in [1 .. Len(q) + 1 -> 0 .. Len(texts)] : off[1] = n /\ CutAt(q, texts, off)
    BY DEF IsCut
<1>2. /\ Len(q) \in Nat \ {0} /\ Len(texts) \in Nat /\ 1 \in 1 .. Len(q)
      /\ Head(q) = q[1] /\ q[1] \in Seq(E) /\ Len(q[1]) \in Nat
    OBVIOUS
<1>3. /\ Len(q[1]) > 0 /\ off[2] = n + Len(q[1])
      /\ \A j \in 1 .. Len(q[1]) : q[1][j] = texts[n + j]
    BY <1>1, <1>2 DEF CutAt
<1>4. 1 \in 1 .. Len(q) + 1 /\ 2 \in 1 .. Len(q) + 1
    BY <1>2
<1>5. off[1] \in 0 .. Len(texts) /\ off[2] \in 0 .. Len(texts)
    BY <1>1, <1>4
<1>6. n \in Nat /\ n + Len(q[1]) <= Len(texts)
    BY <1>1, <1>2, <1>3, <1>5
<1>7. IsCut(Tail(q), texts, n + Len(Head(q)))
    <2> DEFINE r == Tail(q)
               new == [k \in 1 .. Len(r) + 1 |-> off[k + 1]]
    <2>1. /\ Len(r) + 1 = Len(q)
          /\ \A k \in 1 .. Len(r) : r[k] = q[k + 1]
        BY <1>2
    <2> HIDE DEF r
    <2>2. \A k \in 1 .. Len(r) + 1 : k + 1 \in 1 .. Len(q) + 1 /\ new[k] = off[k + 1]
        BY <1>2, <2>1
    <2>3. new \in [1 .. Len(r) + 1 -> 0 .. Len(texts)]
        BY <1>1, <2>2
    <2> HIDE DEF new
    <2>4. 1 \in 1 .. Len(r) + 1 /\ Len(r) + 1 \in 1 .. Len(r) + 1
        BY <1>2, <2>1
    <2>5. new[1] = n + Len(Head(q)) /\ new[Len(r) + 1] = Len(texts)
        BY <1>1, <1>2, <1>3, <2>1, <2>2, <2>4 DEF CutAt
    <2>6. ASSUME NEW k \in 1 .. Len(r)
          PROVE  /\ Len(r[k]) > 0
                 /\ new[k + 1] = new[k] + Len(r[k])
                 /\ \A j \in 1 .. Len(r[k]) : r[k][j] = texts[new[k] + j]
        <3>1. k + 1 \in 1 .. Len(q) /\ k \in 1 .. Len(r) + 1 /\ k + 1 \in 1 .. Len(r) + 1
            BY <1>2, <2>1
        <3>2. r[k] = q[k + 1] /\ new[k] = off[k + 1] /\ new[k + 1] = off[(k + 1) + 1]
            BY <2>1, <2>2, <3>1
        <3>3. QED
            BY <1>1, <3>1, <3>2 DEF CutAt
    <2>7. QED
        BY <2>3, <2>5, <2>6 DEF IsCut, CutAt, r
<1>8. QED
    BY <1>2, <1>3, <1>6, <1>7

\* A 400 to a batch: it is posted text by text.
Singly(q) == [i \in DOMAIN Head(q) |-> <<Head(q)[i]>>] \o Tail(q)

LEMMA CutSingly ==
    ASSUME NEW E, NEW q \in Seq(Seq(E)), q # <<>>, NEW texts \in Seq(E), NEW n, IsCut(q, texts, n)
    PROVE  /\ Singly(q) \in Seq(Seq(E)) /\ Singly(q) # <<>>
           /\ IsCut(Singly(q), texts, n)
<1>1. PICK off \in [1 .. Len(q) + 1 -> 0 .. Len(texts)] : off[1] = n /\ CutAt(q, texts, off)
    BY DEF IsCut
<1> DEFINE h == Head(q)
           m == Len(h)
           ones == [i \in DOMAIN h |-> <<h[i]>>]
           r == Singly(q)
<1>2. /\ Len(q) \in Nat \ {0} /\ Len(texts) \in Nat /\ 1 \in 1 .. Len(q)
      /\ h = q[1] /\ h \in Seq(E) /\ m \in Nat /\ n \in Nat
      /\ n + m <= Len(texts) /\ m > 0
      /\ \A j \in 1 .. m : h[j] = texts[n + j]
    BY CutHead
<1>3. off[2] = n + m
    BY <1>1, <1>2 DEF CutAt
<1>4. /\ ones \in Seq(Seq(E)) /\ Len(ones) = m
      /\ \A k \in 1 .. m : ones[k] = <<h[k]>>
    <2> HIDE DEF h
    <2>1. DOMAIN h = 1 .. m
        BY <1>2
    <2>2. \A i \in 1 .. m : <<h[i]>> \in Seq(E)
        BY <1>2
    <2> HIDE DEF m
    <2>3. ones = [i \in 1 .. m |-> <<h[i]>>]
        BY <2>1
    <2> HIDE DEF ones
    <2>4. QED
        BY <1>2, <2>2, <2>3
<1>5. Tail(q) \in Seq(Seq(E)) /\ Len(Tail(q)) = Len(q) - 1
    BY <1>2
<1>6. \A k \in 1 .. Len(q) - 1 : Tail(q)[k] = q[k + 1]
    BY <1>2
<1>7. r = ones \o Tail(q)
    BY DEF Singly
<1> HIDE DEF ones, h, m, r
<1>8. /\ r \in Seq(Seq(E)) /\ Len(r) = m + Len(q) - 1
      /\ \A k \in 1 .. m : r[k] = <<h[k]>>
    <2>1. r \in Seq(Seq(E))
        BY <1>4, <1>5, <1>7
    <2>2. Len(r) = m + (Len(q) - 1)
        BY <1>4, <1>5, <1>7
    <2>3. \A k \in 1 .. m : r[k] = ones[k]
        BY <1>2, <1>4, <1>5, <1>7
    <2>4. QED
        BY <1>2, <1>4, <2>1, <2>2, <2>3
<1>9. ASSUME NEW k \in 1 .. Len(r), k > m
      PROVE  r[k] = q[k - m + 1] /\ k - m + 1 \in 1 .. Len(q)
    <2>1. k - m \in 1 .. Len(q) - 1
        BY <1>2, <1>8, <1>9
    <2>2. r[k] = Tail(q)[k - m]
        BY <1>2, <1>4, <1>5, <1>7, <1>8, <1>9
    <2>3. Tail(q)[k - m] = q[(k - m) + 1]
        BY <1>6, <2>1
    <2>4. QED
        BY <1>2, <2>1, <2>2, <2>3
<1> DEFINE new == [k \in 1 .. Len(r) + 1 |-> IF k <= m THEN n + k - 1 ELSE off[k - m + 1]]
<1>18. Len(r) \in Nat
    BY <1>8
<1>10. \A k \in 1 .. Len(r) + 1 : k > m => k - m + 1 \in 1 .. Len(q) + 1
    BY <1>2, <1>8
<1>11. new \in [1 .. Len(r) + 1 -> 0 .. Len(texts)]
    <2>1. ASSUME NEW k \in 1 .. Len(r) + 1
          PROVE  (IF k <= m THEN n + k - 1 ELSE off[k - m + 1]) \in 0 .. Len(texts)
        <3>1. CASE k <= m
            BY <1>2, <1>18, <3>1
        <3>2. CASE ~ (k <= m)
            <4>1. k - m + 1 \in 1 .. Len(q) + 1
                BY <1>2, <1>18, <1>10, <3>2
            <4>2. QED
                BY <1>1, <3>2, <4>1
        <3>3. QED
            BY <3>1, <3>2
    <2>2. QED
        BY <2>1
<1>12. /\ \A k \in 1 .. Len(r) + 1 : k <= m => new[k] = n + k - 1
       /\ \A k \in 1 .. Len(r) + 1 : k > m => new[k] = off[k - m + 1]
    <2>1. ASSUME NEW k \in 1 .. Len(r) + 1
          PROVE  new[k] = IF k <= m THEN n + k - 1 ELSE off[k - m + 1]
        OBVIOUS
    <2> HIDE DEF new
    <2>2. \A k \in 1 .. Len(r) + 1 : k > m => ~ (k <= m)
        BY <1>2, <1>18
    <2>3. QED
        BY <2>1, <2>2
<1> HIDE DEF new
<1>13. new[1] = n /\ new[Len(r) + 1] = Len(texts)
    <2>1. 1 \in 1 .. Len(r) + 1 /\ 1 <= m
        BY <1>2, <1>8
    <2>2. Len(r) + 1 \in 1 .. Len(r) + 1 /\ Len(r) + 1 > m /\ (Len(r) + 1) - m + 1 = Len(q) + 1
        BY <1>2, <1>8
    <2>3. new[Len(r) + 1] = off[(Len(r) + 1) - m + 1]
        BY <1>12, <2>2
    <2>4. QED
        BY <1>1, <1>2, <1>12, <2>1, <2>2, <2>3, SMTT(20) DEF CutAt
<1>14. ASSUME NEW k \in 1 .. Len(r)
       PROVE  /\ Len(r[k]) > 0
              /\ new[k + 1] = new[k] + Len(r[k])
              /\ \A j \in 1 .. Len(r[k]) : r[k][j] = texts[new[k] + j]
    <2>1. k \in 1 .. Len(r) + 1 /\ k + 1 \in 1 .. Len(r) + 1
        BY <1>18
    <2>2. CASE k <= m
        <3>1. r[k] = <<h[k]>> /\ h[k] = texts[n + k] /\ new[k] = n + k - 1 /\ k \in Nat
            <4>1. k \in Nat /\ k \in 1 .. m
                BY <1>2, <2>1, <2>2
            <4>2. r[k] = <<h[k]>>
                BY <1>8, <4>1
            <4>3. h[k] = texts[n + k]
                BY <1>2, <4>1
            <4>4. new[k] = n + k - 1
                BY <1>12, <2>1, <2>2
            <4>5. QED
                BY <4>1, <4>2, <4>3, <4>4
        <3>2. new[k + 1] = n + k
            <4>1. CASE k < m
                BY <1>2, <1>12, <2>1, <4>1
            <4>2. CASE k = m
                <5>1. new[k + 1] = off[(k + 1) - m + 1] /\ (k + 1) - m + 1 = 2
                    <6>1. k + 1 > m /\ (k + 1) - m + 1 = 2
                        BY <1>2, <4>2
                    <6>2. QED
                        BY <1>12, <2>1, <6>1
                <5>2. QED
                    BY <1>3, <4>2, <5>1
            <4>3. QED
                BY <1>2, <2>2, <4>1, <4>2
        <3>3. Len(r[k]) = 1 /\ r[k][1] = texts[new[k] + 1]
            <4>1. Len(r[k]) = 1 /\ r[k][1] = texts[n + k]
                BY <3>1
            <4>2. new[k] + 1 = n + k
                BY <1>2, <3>1
            <4>3. QED
                BY <4>1, <4>2
        <3>4. QED
            BY <1>2, <3>1, <3>2, <3>3
    <2>3. CASE k > m
        <3> DEFINE i == k - m + 1
        <3>1. r[k] = q[i] /\ i \in 1 .. Len(q)
            BY <1>9, <2>3
        <3>2. new[k] = off[i] /\ new[k + 1] = off[(k + 1) - m + 1] /\ (k + 1) - m + 1 = i + 1
            BY <1>2, <1>8, <1>12, <2>1, <2>3
        <3> HIDE DEF i
        <3>3. QED
            BY <1>1, <3>1, <3>2 DEF CutAt
    <2>4. QED
        BY <1>2, <2>2, <2>3
<1>15. IsCut(r, texts, n)
    BY <1>11, <1>13, <1>14 DEF IsCut, CutAt
<1>16. r # <<>>
    BY <1>2, <1>8
<1>17. QED
    BY <1>8, <1>15, <1>16 DEF r

\* The number of batches that n texts take.
LEMMA BatchCount ==
    ASSUME NEW n \in Nat, NEW size \in Nat \ {0}, NEW k, k = (n + size - 1) \div size
    PROVE  /\ k \in Nat /\ k * size \in Nat /\ k * size >= n
           /\ n > 0 => k > 0 /\ (k - 1) * size < n
           /\ n = 0 => k = 0
OBVIOUS

LEMMA Multiples ==
    ASSUME NEW i \in Nat, NEW k \in Nat, NEW size \in Nat \ {0}
    PROVE  /\ i * size \in Nat /\ (i + 1) * size = i * size + size
           /\ i <= k => i * size <= k * size
OBVIOUS

\* The batches of a call are its texts, cut.
LEMMA CutBatches ==
    ASSUME NEW E, NEW texts \in Seq(E), NEW size \in Nat \ {0}
    PROVE  /\ Batches(texts, size) \in Seq(Seq(E))
           /\ texts # <<>> => Batches(texts, size) # <<>>
           /\ IsCut(Batches(texts, size), texts, 0)
<1> DEFINE n == Len(texts)
           k == (n + size - 1) \div size
           upto(i) == IF i * size < n THEN i * size ELSE n
           q == Batches(texts, size)
<1>1. n \in Nat /\ DOMAIN texts = 1 .. n /\ (texts # <<>> => n > 0)
    OBVIOUS
<1>2. /\ k \in Nat /\ k * size \in Nat /\ k * size >= n
      /\ n > 0 => k > 0 /\ (k - 1) * size < n
      /\ n = 0 => k = 0
    <2>1. k = (n + size - 1) \div size
        OBVIOUS
    <2> HIDE DEF k, n
    <2>2. QED
        BY <1>1, <2>1, BatchCount, ZenonT(30)
<1>3. q = [i \in 1 .. k |-> SubSeq(texts, (i - 1) * size + 1, upto(i))]
    BY DEF Batches
<1> HIDE DEF k, q, n
<1>4. ASSUME NEW i \in Nat
      PROVE  upto(i) \in 0 .. n
    BY <1>1, Multiples
<1>5. ASSUME NEW i \in 1 .. k
      PROVE  /\ (i - 1) * size \in Nat /\ (i - 1) * size < n
             /\ upto(i - 1) = (i - 1) * size
             /\ upto(i) \in (i - 1) * size + 1 .. n
    <2>1. n > 0 /\ i - 1 \in Nat /\ i \in Nat /\ k - 1 \in Nat /\ i - 1 <= k - 1
        BY <1>1, <1>2
    <2>2. (i - 1) * size \in Nat /\ (i - 1) * size <= (k - 1) * size /\ (k - 1) * size \in Nat
        BY <2>1, Multiples
    <2>3. (i - 1) * size < n
        BY <1>1, <1>2, <2>1, <2>2
    <2>4. ((i - 1) + 1) * size = (i - 1) * size + size /\ (i - 1) + 1 = i
        BY <2>1, Multiples
    <2>5. i * size = (i - 1) * size + size
        BY <2>4
    <2>6. QED
        BY <1>1, <2>2, <2>3, <2>5
<1>6. ASSUME NEW i \in 1 .. k
      PROVE  /\ q[i] \in Seq(E)
             /\ Len(q[i]) = upto(i) - (i - 1) * size
             /\ \A j \in 1 .. Len(q[i]) : q[i][j] = texts[(i - 1) * size + j]
    <2>1. PICK a \in Nat : a = (i - 1) * size
        BY <1>5
    <2>2. PICK b \in a + 1 .. n : b = upto(i)
        BY <1>5, <2>1
    <2>3. q[i] = SubSeq(texts, a + 1, b)
        BY <1>3, <2>1, <2>2
    <2>4. a + 1 \in Nat /\ b \in Nat /\ a + 1 <= b /\ \A j \in a + 1 .. b : texts[j] \in E
        BY <1>1, <2>1, <2>2
    <2>5. SubSeq(texts, a + 1, b) \in Seq(E)
        BY <2>4
    <2>6. /\ Len(SubSeq(texts, a + 1, b)) = b - a
          /\ \A j \in 1 .. b - a : SubSeq(texts, a + 1, b)[j] = texts[a + j]
        BY <2>4
    <2>7. QED
        BY <2>1, <2>2, <2>3, <2>5, <2>6
<1>7. q \in Seq(Seq(E)) /\ Len(q) = k
    <2>1. q = [i \in 1 .. k |-> q[i]]
        BY <1>3
    <2>2. \A i \in 1 .. k : q[i] \in Seq(E)
        BY <1>6
    <2>3. QED
        BY <1>2, <2>1, <2>2
<1>8. IsCut(q, texts, 0)
    <2> DEFINE off == [i \in 1 .. k + 1 |-> upto(i - 1)]
    <2>1. \A i \in 1 .. k + 1 : i - 1 \in Nat /\ off[i] = upto(i - 1)
        BY <1>2
    <2>2. off \in [1 .. k + 1 -> 0 .. n]
        BY <1>4, <2>1
    <2> HIDE DEF off
    <2>3. off[1] = 0
        <3>1. 1 \in 1 .. k + 1 /\ 1 - 1 = 0 /\ 0 * size = 0
            BY <1>2
        <3>2. QED
            BY <1>1, <2>1, <3>1
    <2>4. off[k + 1] = n
        <3>1. k + 1 \in 1 .. k + 1 /\ (k + 1) - 1 = k
            BY <1>2
        <3>2. off[k + 1] = upto(k)
            BY <2>1, <3>1
        <3>3. ~ (k * size < n)
            BY <1>1, <1>2
        <3>4. QED
            BY <3>2, <3>3
    <2>5. ASSUME NEW i \in 1 .. k
          PROVE  off[i] = (i - 1) * size /\ off[i + 1] = upto(i)
        <3>1. i \in 1 .. k + 1 /\ i + 1 \in 1 .. k + 1 /\ (i + 1) - 1 = i
            BY <1>2
        <3> HIDE DEF upto
        <3>2. QED
            BY <1>5, <2>1, <3>1
    <2>6. ASSUME NEW i \in 1 .. k
          PROVE  /\ Len(q[i]) > 0
                 /\ off[i + 1] = off[i] + Len(q[i])
                 /\ \A j \in 1 .. Len(q[i]) : q[i][j] = texts[off[i] + j]
        <3>1. PICK a \in Nat : a = (i - 1) * size
            BY <1>5
        <3>2. PICK b \in a + 1 .. n : b = upto(i)
            BY <1>5, <3>1
        <3> HIDE DEF upto
        <3>3. Len(q[i]) = b - a /\ off[i] = a /\ off[i + 1] = b
            BY <1>6, <2>5, <3>1, <3>2
        <3>4. \A j \in 1 .. Len(q[i]) : q[i][j] = texts[a + j]
            BY <1>6, <3>1
        <3>5. QED
            BY <1>1, <3>1, <3>2, <3>3, <3>4
    <2>7. off \in [1 .. Len(q) + 1 -> 0 .. Len(texts)] /\ off[Len(q) + 1] = Len(texts)
        BY <1>7, <2>2, <2>4 DEF n
    <2>8. CutAt(q, texts, off)
        BY <1>7, <2>6, <2>7 DEF CutAt
    <2>9. QED
        BY <2>3, <2>7, <2>8 DEF IsCut
<1>9. texts # <<>> => q # <<>>
    BY <1>1, <1>2, <1>7
<1>10. QED
    BY <1>7, <1>8, <1>9 DEF q

\* Each index once, in any order: sorting by index gives the inputs back.
LEMMA SortedIsInputs ==
    ASSUME NEW E, NEW inputs \in Seq(E),
           NEW order \in [DOMAIN inputs -> DOMAIN inputs],
           \A i, j \in DOMAIN inputs : order[i] = order[j] => i = j
    PROVE  Sorted([i \in DOMAIN inputs |->
               [index |-> order[i], embedding |-> inputs[order[i]]]]) = inputs
<1> DEFINE D == DOMAIN inputs
           items == [i \in D |-> [index |-> order[i], embedding |-> inputs[order[i]]]]
<1>1. IsFiniteSet(D) /\ D = 1 .. Len(inputs) /\ Len(inputs) \in Nat
    BY FS_Interval
<1>2. order \in Injection(D, D)
    BY DEF Injection, IsInjective
<1> HIDE DEF D
<1>3. order \in Surjection(D, D)
    BY <1>1, <1>2, FS_Injection
<1>4. \A i \in D : \E j \in D : order[j] = i
    BY <1>3 DEF Surjection
<1>5. /\ DOMAIN items = D
      /\ \A j \in D : items[j].index = order[j] /\ items[j].embedding = inputs[order[j]]
    OBVIOUS
<1> HIDE DEF items
<1> DEFINE vectorOf(i) == items[CHOOSE j \in D : items[j].index = i].embedding
<1>6. ASSUME NEW i \in D
      PROVE  vectorOf(i) = inputs[i]
    <2> DEFINE c == CHOOSE j \in D : items[j].index = i
    <2>1. \E j \in D : items[j].index = i
        BY <1>4, <1>5
    <2>2. c \in D /\ items[c].index = i
        BY <2>1
    <2> HIDE DEF c
    <2>3. items[c].embedding = inputs[i]
        BY <1>5, <2>2
    <2>4. QED
        BY <2>3 DEF c
<1>7. Sorted(items) = [i \in D |-> vectorOf(i)]
    BY <1>5 DEF Sorted
<1> HIDE DEF vectorOf
<1>8. Sorted(items) = [i \in D |-> inputs[i]]
    BY <1>6, <1>7
<1>9. [i \in D |-> inputs[i]] = inputs
    BY DEF D
<1>10. QED
    BY <1>8, <1>9 DEF items, D

-----------------------------------------------------------------------------
(* The index. *)

\* A call for batch on its way: vectors is behind it, queue before it.
Covers ==
    /\ queue # <<>>
    /\ \A i \in 1 .. Len(vectors) : vectors[i] = batch[i]
    /\ IsCut(queue, batch, Len(vectors))

\* The job and the embedder's call of it.
CallOK ==
    /\ phase = "embedding" => todo # <<>> /\ call # "idle"
    /\ phase # "embedding" => call = "idle" /\ batch = <<>>
    /\ call = "idle" => queue = <<>> /\ vectors = <<>> /\ tries = 0
    /\ call = "posting" => Covers
    /\ call = "returned" => vectors = batch
    /\ tries <= transients

IndexInv == TypeOK /\ VectorsMatchRows /\ CallOK

\* What a step of the embedder's call leaves.
CallMoves ==
    /\ nature' = nature /\ call' # "idle"
    /\ queue' \in Seq(Seq(Texts))
    /\ vectors' \in Seq(Texts)
    /\ call' \in {"posting", "returned", "raised"}
    /\ call' = "posting" => Covers'
    /\ call' = "returned" => vectors' = batch'

LEMMA EmbedsMoves ==
    ASSUME IndexInv, phase = "embedding", Embeds, batch' = batch
    PROVE  CallMoves /\ tries' = 0
<1> DEFINE inputs == Head(queue)
<1>1. call = "posting" /\ queue \in Seq(Seq(Texts)) /\ vectors \in Seq(Texts) /\ batch \in Seq(Texts)
    BY DEF Embeds, IndexInv, TypeOK, ClientTypeOK
<1>2. queue # <<>> /\ IsCut(queue, batch, Len(vectors))
      /\ \A i \in 1 .. Len(vectors) : vectors[i] = batch[i]
    BY <1>1 DEF IndexInv, CallOK, Covers
<1>3. inputs \in Seq(Texts) /\ Tail(queue) \in Seq(Seq(Texts)) /\ Len(Tail(queue)) = Len(queue) - 1
    BY <1>1, <1>2
<1>4. PICK order \in [DOMAIN inputs -> DOMAIN inputs] :
          /\ \A i, j \in DOMAIN inputs : order[i] = order[j] => i = j
          /\ Extend(Sorted([i \in DOMAIN inputs |->
                 [index |-> order[i], embedding |-> inputs[order[i]]]]))
    BY DEF Embeds
<1>5. Extend(inputs) /\ nature' = nature
    BY <1>3, <1>4, SortedIsInputs DEF Embeds
<1> HIDE DEF inputs
<1>6. /\ vectors' = vectors \o inputs /\ queue' = Tail(queue) /\ tries' = 0
      /\ call' = IF Len(queue) = 1 THEN "returned" ELSE "posting"
    BY <1>5 DEF Extend
<1>7. /\ Len(vectors) \in Nat /\ Len(inputs) \in Nat /\ Len(batch) \in Nat
      /\ Len(vectors) + Len(inputs) <= Len(batch)
      /\ \A j \in 1 .. Len(inputs) : inputs[j] = batch[Len(vectors) + j]
      /\ IsCut(Tail(queue), batch, Len(vectors) + Len(inputs))
    BY <1>1, <1>2, <1>3, CutHead DEF inputs
<1>8. /\ vectors' \in Seq(Texts) /\ Len(vectors') = Len(vectors) + Len(inputs)
      /\ \A i \in 1 .. Len(vectors') : vectors'[i] = batch[i]
    <2>1. vectors' \in Seq(Texts) /\ Len(vectors') = Len(vectors) + Len(inputs)
        BY <1>1, <1>3, <1>6
    <2>2. ASSUME NEW i \in 1 .. Len(vectors')
          PROVE  vectors'[i] = batch[i]
        <3>1. CASE i <= Len(vectors)
            <4>1. vectors'[i] = vectors[i] /\ i \in 1 .. Len(vectors)
                BY <1>1, <1>3, <1>6, <1>7, <2>1, <3>1
            <4>2. QED
                BY <1>2, <4>1
        <3>2. CASE i > Len(vectors)
            <4>1. i - Len(vectors) \in 1 .. Len(inputs)
                BY <1>7, <2>1, <3>2
            <4>2. vectors'[i] = inputs[i - Len(vectors)]
                BY <1>1, <1>3, <1>6, <1>7, <2>1, <3>2
            <4>3. inputs[i - Len(vectors)] = batch[Len(vectors) + (i - Len(vectors))]
                BY <1>7, <4>1
            <4>4. Len(vectors) + (i - Len(vectors)) = i
                BY <1>7, <2>1
            <4>5. QED
                BY <4>2, <4>3, <4>4
        <3>3. QED
            BY <1>7, <2>1, <3>1, <3>2
    <2>3. QED
        BY <2>1, <2>2
<1>9. Len(queue) \in Nat /\ queue' \in Seq(Seq(Texts)) /\ Len(queue') = Len(queue) - 1
    BY <1>1, <1>3, <1>6
<1>10. call' = "posting" => Covers'
    <2> SUFFICES ASSUME call' = "posting"
                 PROVE  Covers'
        OBVIOUS
    <2>1. Len(queue) # 1
        BY <1>6
    <2>2. queue' # <<>>
        BY <1>9, <2>1
    <2>3. IsCut(queue', batch', Len(vectors'))
        BY <1>6, <1>7, <1>8
    <2>4. QED
        BY <1>8, <2>2, <2>3 DEF Covers
<1>11. call' = "returned" => vectors' = batch'
    <2> SUFFICES ASSUME call' = "returned"
                 PROVE  vectors' = batch
        OBVIOUS
    <2>1. Len(Tail(queue)) = 0
        BY <1>3, <1>6
    <2>2. Len(vectors') = Len(batch)
        BY <1>7, <1>8, <2>1, CutEnds
    <2>3. QED
        BY <1>1, <1>7, <1>8, <2>2
<1>12. call' \in {"posting", "returned", "raised"}
    BY <1>6
<1>13. QED
    BY <1>5, <1>6, <1>8, <1>9, <1>10, <1>11, <1>12 DEF CallMoves

LEMMA RaiseMoves ==
    ASSUME RaiseCall, nature' = nature
    PROVE  CallMoves /\ tries' = 0
BY DEF RaiseCall, CallMoves

LEMMA RejectsMoves ==
    ASSUME IndexInv, phase = "embedding", Rejects, batch' = batch
    PROVE  CallMoves /\ tries' = 0
<1>1. /\ call = "posting" /\ queue \in Seq(Seq(Texts)) /\ vectors \in Seq(Texts)
      /\ batch \in Seq(Texts)
    BY DEF Rejects, IndexInv, TypeOK, ClientTypeOK
<1>2. Covers
    BY <1>1 DEF IndexInv, CallOK
<1>3. CASE RaiseCall
    BY <1>3, RaiseMoves DEF Rejects
<1>4. CASE queue' = Singly(queue) /\ tries' = 0 /\ UNCHANGED <<call, vectors>>
    <2>1. /\ queue' \in Seq(Seq(Texts)) /\ queue' # <<>>
          /\ IsCut(queue', batch, Len(vectors))
        BY <1>1, <1>2, <1>4, CutSingly DEF Covers
    <2>2. Covers'
        BY <1>2, <1>4, <2>1 DEF Covers
    <2>3. QED
        BY <1>1, <1>4, <2>1, <2>2 DEF CallMoves, Rejects
<1>5. QED
    BY <1>3, <1>4 DEF Rejects, Singly

LEMMA TimesOutMoves ==
    ASSUME IndexInv, phase = "embedding", TimesOut, batch' = batch
    PROVE  /\ CallMoves
           /\ \/ tries' = 0
              \/ tries' = tries + 1 /\ tries + 1 < MaxRetries
<1>1. call = "posting" /\ queue \in Seq(Seq(Texts)) /\ vectors \in Seq(Texts)
    BY DEF TimesOut, IndexInv, TypeOK, ClientTypeOK
<1>2. Covers
    BY <1>1 DEF IndexInv, CallOK
<1>3. CASE RaiseCall
    <2>1. nature' = nature
        BY DEF TimesOut
    <2>2. QED
        BY <1>3, <2>1, RaiseMoves
<1>4. CASE tries + 1 < MaxRetries /\ tries' = tries + 1 /\ UNCHANGED <<call, queue, vectors>>
    <2>1. Covers'
        BY <1>2, <1>4 DEF Covers
    <2>2. nature' = nature
        BY DEF TimesOut
    <2>3. CallMoves
        BY <1>1, <1>4, <2>1, <2>2 DEF CallMoves
    <2>4. QED
        BY <1>4, <2>3
<1>5. QED
    BY <1>3, <1>4 DEF TimesOut

\* The call for a batch, from its start.
LEMMA EmbedTextsMoves ==
    ASSUME IndexInv, call = "idle", NEW texts \in Seq(Texts), texts # <<>>,
           EmbedTexts(texts), batch' = texts
    PROVE  CallMoves /\ tries' = 0
<1>1. queue = <<>> /\ vectors = <<>> /\ tries = 0
    BY DEF IndexInv, CallOK
<1>2. vectors' = <<>> /\ tries' = 0 /\ nature' = nature
    BY <1>1 DEF EmbedTexts
<1>3. CASE call' = "raised" /\ queue' = queue
    BY <1>1, <1>2, <1>3 DEF CallMoves
<1>4. CASE call' = "posting" /\ queue' = Batches(texts, BatchSize)
    <2>1. /\ queue' \in Seq(Seq(Texts)) /\ queue' # <<>>
          /\ IsCut(queue', texts, 0)
        BY <1>4, CutBatches, ClientAssumption
    <2>2. Len(vectors') = 0
        BY <1>2
    <2>3. Covers'
        BY <2>1, <2>2 DEF Covers
    <2>4. QED
        BY <1>2, <1>4, <2>1, <2>3 DEF CallMoves
<1>5. QED
    BY <1>3, <1>4 DEF EmbedTexts

\* What the upsert of a batch leaves.
LEMMA UpsertedPoints ==
    ASSUME IndexInv, phase = "embedding", call = "returned"
    PROVE  /\ Target \in Collections
           /\ Upserted \in [Collections -> [Texts -> Texts \cup {NoVector}]]
           /\ \A c \in Collections, r \in Texts :
                 Upserted[c][r] = IF c = Target /\ r \in Elements(batch) THEN r ELSE points[c][r]
<1>1. /\ points \in [Collections -> [Texts -> Texts \cup {NoVector}]]
      /\ todo \in Seq(Tables) /\ todo # <<>> /\ vectors = batch /\ batch \in Seq(Texts)
    BY DEF IndexInv, TypeOK, CallOK
<1>2. Target \in Collections
    BY <1>1 DEF Target, Collections
<1> DEFINE new == [r \in Texts |->
        IF \E i \in DOMAIN batch : batch[i] = r
        THEN vectors[CHOOSE i \in DOMAIN batch : batch[i] = r]
        ELSE points[Target][r]]
<1>3. ASSUME NEW r \in Texts
      PROVE  new[r] = IF r \in Elements(batch) THEN r ELSE points[Target][r]
    BY <1>1 DEF Elements
<1>4. Upserted = [points EXCEPT ![Target] = new]
    BY DEF Upserted
<1>5. new = [r \in Texts |-> IF r \in Elements(batch) THEN r ELSE points[Target][r]]
    BY <1>3
<1> HIDE DEF new
<1>6. new \in [Texts -> Texts \cup {NoVector}]
    BY <1>1, <1>2, <1>5
<1>7. QED
    BY <1>1, <1>2, <1>3, <1>4, <1>6

-----------------------------------------------------------------------------
(* Every step keeps it. *)

LEMMA InitIndex == Init => IndexInv
<1> SUFFICES ASSUME Init PROVE IndexInv
    OBVIOUS
<1>1. ClientTypeOK
    BY ClientAssumption DEF Init, ClientInit, ClientTypeOK
<1>2. points \in [Collections -> [Texts -> Texts \cup {NoVector}]] /\ VectorsMatchRows
    BY DEF Init, Empty, VectorsMatchRows
<1>3. 0 \in 0 .. MaxFaults
    BY FaultsAssumption
<1>4. /\ existing \in SUBSET Collections /\ targets \in SUBSET Collections
      /\ phase \in Phases /\ recreate \in BOOLEAN
      /\ todo \in Seq(Tables) /\ batch \in Seq(Texts)
      /\ at \in Nat /\ read \in SUBSET Tables
      /\ runs \in Nat /\ transients \in 0 .. MaxFaults /\ breaks \in 0 .. MaxFaults
    <2>1. /\ existing = {} /\ targets = {} /\ read = {} /\ phase = "off" /\ recreate = FALSE
          /\ todo = <<>> /\ batch = <<>> /\ at = 0 /\ runs = 0 /\ transients = 0 /\ breaks = 0
        BY DEF Init
    <2>2. todo \in Seq(Tables) /\ batch \in Seq(Texts)
        BY <2>1
    <2>3. phase \in Phases
        BY <2>1 DEF Phases
    <2>4. transients \in 0 .. MaxFaults /\ breaks \in 0 .. MaxFaults
        BY <1>3, <2>1
    <2>5. QED
        BY <2>1, <2>2, <2>3, <2>4
<1>7. total \in [Tables -> Nat] /\ skipped \in [Tables -> Nat]
    BY DEF Init, None
<1>8. TypeOK
    BY <1>1, <1>2, <1>4, <1>7 DEF TypeOK
<1>5. CallOK
    BY DEF Init, ClientInit, CallOK
<1>6. QED
    BY <1>2, <1>5, <1>8 DEF IndexInv

LEMMA LaunchIndex ==
    ASSUME IndexInv, NEW again \in BOOLEAN, NEW tables \in SUBSET Tables, Launch(again, tables)
    PROVE  IndexInv'
<1>1. todo' \in Seq(Tables) /\ targets' \in SUBSET Collections
    BY JobAssumption, FilteredElements DEF Launch, Collections
<1>2. ClientTypeOK'
    BY DEF Launch, IndexInv, TypeOK, clientVars, ClientTypeOK
<1>3. 0 \in 0 .. MaxFaults
    BY FaultsAssumption
<1>4. TypeOK'
    BY <1>1, <1>2, <1>3 DEF Launch, IndexInv, TypeOK, Phases, None, qdrantVars
<1>5. CallOK'
    <2>1. call' = "idle" /\ phase' = "ensuring" /\ call = "idle"
        BY DEF Launch, IndexInv, CallOK, clientVars
    <2>2. tries' = 0 /\ transients' = 0
        BY <2>1 DEF Launch, IndexInv, CallOK, clientVars
    <2>3. QED
        BY <2>1, <2>2 DEF Launch, IndexInv, CallOK, clientVars
<1>6. VectorsMatchRows'
    BY DEF Launch, IndexInv, VectorsMatchRows, qdrantVars
<1>7. QED
    BY <1>4, <1>5, <1>6 DEF IndexInv

LEMMA EnsureIndex ==
    ASSUME IndexInv, NEW c \in Collections, Ensure(c)
    PROVE  IndexInv'
<1>1. points' \in [Collections -> [Texts -> Texts \cup {NoVector}]] /\ VectorsMatchRows'
    <2>1. points \in [Collections -> [Texts -> Texts \cup {NoVector}]]
        BY DEF IndexInv, TypeOK
    <2>2. CASE points' = points
        BY <2>1, <2>2 DEF IndexInv, VectorsMatchRows
    <2>3. CASE points' = [points EXCEPT ![c] = Empty]
        BY <2>1, <2>3 DEF IndexInv, VectorsMatchRows, Empty
    <2>4. QED
        BY <2>2, <2>3 DEF Ensure
<1>2. existing' \in SUBSET Collections /\ targets' \in SUBSET Collections
    BY DEF Ensure, IndexInv, TypeOK
<1>3. UNCHANGED <<clientVars, phase, recreate, todo, at, batch, read, total, skipped, faultVars>>
    BY DEF Ensure
<1>4. ClientTypeOK'
    BY <1>3 DEF IndexInv, TypeOK, clientVars, ClientTypeOK
<1>5. TypeOK'
    BY <1>1, <1>2, <1>3, <1>4 DEF IndexInv, TypeOK, faultVars
<1>6. phase = "ensuring"
    BY DEF Ensure
<1>7. CallOK'
    BY <1>3, <1>6 DEF IndexInv, CallOK, clientVars, faultVars
<1>8. QED
    BY <1>1, <1>5, <1>7 DEF IndexInv

\* A step that leaves the index and the embedder alone, outside of a call.
LEMMA OutsideIndex ==
    ASSUME IndexInv, UNCHANGED <<clientVars, qdrantVars>>, phase # "embedding",
           phase' \in Phases \ {"embedding"}, recreate' = recreate, targets' = targets,
           todo' \in Seq(Tables), at' \in Nat, batch' = batch, read' \in SUBSET Tables,
           total' = total, skipped' = skipped, UNCHANGED faultVars
    PROVE  IndexInv'
<1>1. ClientTypeOK'
    BY DEF IndexInv, TypeOK, clientVars, ClientTypeOK
<1>2. TypeOK'
    BY <1>1 DEF IndexInv, TypeOK, qdrantVars, faultVars
<1>3. VectorsMatchRows'
    BY DEF IndexInv, VectorsMatchRows, qdrantVars
<1>4. phase' # "embedding"
    OBVIOUS
<1>5. CallOK'
    BY <1>4 DEF IndexInv, CallOK, clientVars, faultVars
<1>6. QED
    BY <1>2, <1>3, <1>5 DEF IndexInv

LEMMA StartIndex == ASSUME IndexInv, StartReading PROVE IndexInv'
BY OutsideIndex DEF StartReading, IndexInv, TypeOK, Phases

LEMMA FinishIndex == ASSUME IndexInv, Finish PROVE IndexInv'
BY OutsideIndex DEF Finish, IndexInv, TypeOK, Phases

\* The rows a fetch keeps of those from lo to hi.
Kept(t, lo, hi) == Filtered(SubSeq(RowsIn[t], lo + 1, hi), {r \in Texts : nature[r] # "blank"})

Upto == Smaller(at + ReadBatch, Len(RowsIn[Head(todo)]))

NextTable ==
    /\ at >= Len(RowsIn[Head(todo)])
    /\ todo' = Tail(todo) /\ at' = 0 /\ read' = read \cup {Head(todo)}
    /\ UNCHANGED <<clientVars, phase, batch>>

NoRows ==
    /\ at < Len(RowsIn[Head(todo)])
    /\ at' = Upto /\ UNCHANGED <<todo, read>>
    /\ Kept(Head(todo), at, Upto) = <<>>
    /\ UNCHANGED <<clientVars, phase, batch>>

NextBatch ==
    /\ at < Len(RowsIn[Head(todo)])
    /\ at' = Upto /\ UNCHANGED <<todo, read>>
    /\ Kept(Head(todo), at, Upto) # <<>>
    /\ batch' = Kept(Head(todo), at, Upto)
    /\ phase' = "embedding"
    /\ EmbedTexts(batch')

LEMMA FetchCases ==
    ASSUME IndexInv, Fetch
    PROVE  /\ phase = "reading" /\ todo # <<>> /\ Head(todo) \in Tables
           /\ RowsIn[Head(todo)] \in Seq(Texts)
           /\ at \in Nat /\ Len(RowsIn[Head(todo)]) \in Nat
           /\ UNCHANGED <<qdrantVars, recreate, targets, total, skipped, faultVars>>
           /\ NextTable \/ NoRows \/ NextBatch
<1>1. /\ phase = "reading" /\ todo # <<>> /\ todo \in Seq(Tables) /\ at \in Nat
      /\ UNCHANGED <<qdrantVars, recreate, targets, total, skipped, faultVars>>
    BY DEF Fetch, IndexInv, TypeOK
<1>2. Head(todo) \in Tables
    BY <1>1
<1>3. RowsIn[Head(todo)] \in Seq(Texts)
    BY <1>2, JobAssumption
<1>4. Len(RowsIn[Head(todo)]) \in Nat
    BY <1>3
<1>5. ASSUME at >= Len(RowsIn[Head(todo)])
      PROVE  NextTable
    BY <1>5, Zenon DEF Fetch, NextTable
<1>6. ASSUME ~ (at >= Len(RowsIn[Head(todo)]))
      PROVE  NoRows \/ NextBatch
    <2>1. at < Len(RowsIn[Head(todo)])
        BY <1>1, <1>4, <1>6
    <2> DEFINE kept == Kept(Head(todo), at, Upto)
    <2>2. /\ at' = Upto /\ UNCHANGED <<todo, read>>
          /\ IF kept = <<>>
             THEN UNCHANGED <<clientVars, phase, batch>>
             ELSE batch' = kept /\ phase' = "embedding" /\ EmbedTexts(kept)
        BY <1>6, Zenon DEF Fetch, Kept, Upto
    <2> HIDE DEF kept
    <2>3. CASE kept = <<>>
        BY <2>1, <2>2, <2>3 DEF NoRows, kept
    <2>4. CASE kept # <<>>
        <3>1. batch' = kept /\ phase' = "embedding" /\ EmbedTexts(kept)
            BY <2>2, <2>4
        <3>2. EmbedTexts(batch')
            BY <3>1
        <3>3. QED
            BY <2>1, <2>2, <2>4, <3>1, <3>2 DEF NextBatch, kept
    <2>5. QED
        BY <2>3, <2>4
<1>7. QED
    BY <1>1, <1>2, <1>3, <1>4, <1>5, <1>6

LEMMA KeptSeq ==
    ASSUME NEW t \in Tables, NEW lo \in Nat, NEW hi \in Nat, hi <= Len(RowsIn[t])
    PROVE  /\ SubSeq(RowsIn[t], lo + 1, hi) \in Seq(Texts)
           /\ Kept(t, lo, hi) \in Seq(Texts)
<1>1. RowsIn[t] \in Seq(Texts)
    BY JobAssumption
<1>2. SubSeq(RowsIn[t], lo + 1, hi) \in Seq(Texts)
    <2>1. \A i \in lo + 1 .. hi : i \in 1 .. Len(RowsIn[t])
        BY <1>1
    <2>2. \A i \in lo + 1 .. hi : RowsIn[t][i] \in Texts
        BY <1>1, <2>1
    <2>3. lo + 1 \in Int /\ hi \in Int
        OBVIOUS
    <2>4. QED
        BY <2>2, <2>3
<1>3. QED
    BY <1>2, FilteredElements DEF Kept

LEMMA UptoBounds ==
    ASSUME NEW t, t = Head(todo), at \in Nat, Len(RowsIn[t]) \in Nat
    PROVE  /\ Upto \in Nat /\ Upto <= Len(RowsIn[t]) /\ Upto <= at + ReadBatch
           /\ at < Len(RowsIn[t]) => at < Upto
           /\ Upto = at + ReadBatch \/ Upto = Len(RowsIn[t])
BY JobAssumption DEF Upto, Smaller

LEMMA FetchIndex ==
    ASSUME IndexInv, Fetch
    PROVE  IndexInv'
<1>1. /\ phase = "reading" /\ todo # <<>> /\ Head(todo) \in Tables
      /\ at \in Nat /\ Len(RowsIn[Head(todo)]) \in Nat
      /\ UNCHANGED <<qdrantVars, recreate, targets, total, skipped, faultVars>>
      /\ NextTable \/ NoRows \/ NextBatch
    BY FetchCases
<1>2. todo \in Seq(Tables) /\ read \in SUBSET Tables /\ call = "idle"
    BY <1>1 DEF IndexInv, TypeOK, CallOK
<1>3. Upto \in Nat /\ Upto <= Len(RowsIn[Head(todo)])
    BY <1>1, UptoBounds
<1>4. CASE NextTable
    <2>1. todo' \in Seq(Tables) /\ at' \in Nat /\ read' \in SUBSET Tables
        BY <1>1, <1>2, <1>4 DEF NextTable
    <2>2. UNCHANGED <<clientVars, qdrantVars>> /\ UNCHANGED faultVars
        BY <1>1, <1>4 DEF NextTable
    <2>3. phase # "embedding" /\ phase' \in Phases \ {"embedding"} /\ batch' = batch
        BY <1>1, <1>4 DEF NextTable, Phases
    <2>4. QED
        BY <1>1, <2>1, <2>2, <2>3, OutsideIndex
<1>5. CASE NoRows
    <2>1. todo' \in Seq(Tables) /\ at' \in Nat /\ read' \in SUBSET Tables
        BY <1>2, <1>3, <1>5 DEF NoRows
    <2>2. UNCHANGED <<clientVars, qdrantVars>> /\ UNCHANGED faultVars
        BY <1>1, <1>5 DEF NoRows
    <2>3. phase # "embedding" /\ phase' \in Phases \ {"embedding"} /\ batch' = batch
        BY <1>1, <1>5 DEF NoRows, Phases
    <2>4. QED
        BY <1>1, <2>1, <2>2, <2>3, OutsideIndex
<1>6. CASE NextBatch
    <2>1. batch' \in Seq(Texts) /\ batch' # <<>>
        BY <1>1, <1>3, <1>6, KeptSeq DEF NextBatch
    <2>2. EmbedTexts(batch') /\ phase' = "embedding" /\ todo' = todo /\ read' = read /\ at' = Upto
        BY <1>6 DEF NextBatch
    <2>3. PICK texts : texts = batch'
        OBVIOUS
    <2>4. CallMoves /\ tries' = 0
        BY <1>2, <2>1, <2>2, <2>3, EmbedTextsMoves
    <2>5. ClientTypeOK'
        BY <2>4, ClientAssumption DEF CallMoves, IndexInv, TypeOK, ClientTypeOK
    <2>6. TypeOK'
        BY <1>1, <1>3, <2>1, <2>2, <2>5 DEF IndexInv, TypeOK, Phases, qdrantVars, faultVars
    <2>7. VectorsMatchRows'
        BY <1>1 DEF IndexInv, VectorsMatchRows, qdrantVars
    <2>8. tries' <= transients'
        BY <1>1, <2>4 DEF IndexInv, TypeOK, faultVars
    <2>9. CallOK'
        BY <1>1, <2>2, <2>4, <2>8 DEF CallOK, CallMoves
    <2>10. QED
        BY <2>6, <2>7, <2>9 DEF IndexInv
<1>7. QED
    BY <1>1, <1>4, <1>5, <1>6

\* The counts of faults only grow, up to their bound.
LEMMA CountGrows ==
    ASSUME NEW n \in 0 .. MaxFaults, NEW k, k = Smaller(n + 1, MaxFaults)
    PROVE  /\ k \in 0 .. MaxFaults /\ n <= k /\ k > 0
           /\ k = n + 1 \/ k >= MaxRetries
BY FaultsAssumption, ClientAssumption DEF Smaller

LEMMA EmbedCases ==
    ASSUME IndexInv, Embed
    PROVE  /\ phase = "embedding" /\ UNCHANGED <<qdrantVars, jobVars, runs>>
           /\ CallMoves
           /\ \/ tries' = 0
              \/ tries' = tries + 1 /\ tries + 1 < MaxRetries /\ Count(transients)
           /\ transients' \in 0 .. MaxFaults /\ transients <= transients'
           /\ breaks' \in 0 .. MaxFaults /\ breaks <= breaks'
<1>1. /\ phase = "embedding" /\ UNCHANGED <<qdrantVars, jobVars, runs>> /\ batch' = batch
      /\ transients \in 0 .. MaxFaults /\ breaks \in 0 .. MaxFaults
    BY DEF Embed, jobVars, IndexInv, TypeOK
<1>2. ASSUME Embeds \/ Rejects, UNCHANGED <<transients, breaks>>
      PROVE  CallMoves /\ tries' = 0
    BY <1>1, <1>2, EmbedsMoves, RejectsMoves
<1>3. ASSUME TimesOut
      PROVE  /\ CallMoves
             /\ \/ tries' = 0
                \/ tries' = tries + 1 /\ tries + 1 < MaxRetries
    BY <1>1, <1>3, TimesOutMoves
<1>4. ASSUME Breaks
      PROVE  CallMoves /\ tries' = 0
    BY <1>4, RaiseMoves DEF Breaks
<1>5. ASSUME Count(transients)
      PROVE  transients' \in 0 .. MaxFaults /\ transients <= transients'
    BY <1>1, <1>5, CountGrows DEF Count
<1>6. ASSUME Count(breaks)
      PROVE  breaks' \in 0 .. MaxFaults /\ breaks <= breaks'
    BY <1>1, <1>6, CountGrows DEF Count
<1>7. /\ transients \in Int /\ transients <= transients
      /\ breaks \in Int /\ breaks <= breaks
    BY <1>1
<1>8. CASE (Embeds \/ Rejects) /\ UNCHANGED <<transients, breaks>>
    BY <1>1, <1>2, <1>7, <1>8
<1>9. CASE TimesOut /\ Count(transients) /\ UNCHANGED breaks
    BY <1>1, <1>3, <1>5, <1>7, <1>9
<1>10. CASE Breaks /\ Count(breaks) /\ UNCHANGED transients
    BY <1>1, <1>4, <1>6, <1>7, <1>10
<1>11. QED
    BY <1>8, <1>9, <1>10 DEF Embed

LEMMA EmbedIndex ==
    ASSUME IndexInv, Embed
    PROVE  IndexInv'
<1>1. /\ phase = "embedding" /\ UNCHANGED <<qdrantVars, jobVars, runs>>
      /\ CallMoves
      /\ \/ tries' = 0
         \/ tries' = tries + 1 /\ tries + 1 < MaxRetries /\ Count(transients)
      /\ transients' \in 0 .. MaxFaults /\ transients <= transients'
      /\ breaks' \in 0 .. MaxFaults
    BY EmbedCases
<1>2. tries \in 0 .. MaxRetries - 1 /\ transients \in 0 .. MaxFaults /\ tries <= transients
    BY DEF IndexInv, TypeOK, ClientTypeOK, CallOK
<1>3. tries' \in 0 .. MaxRetries - 1 /\ tries' <= transients'
    <2>1. CASE tries' = 0
        BY <1>1, <2>1, ClientAssumption
    <2>2. CASE tries' = tries + 1 /\ tries + 1 < MaxRetries /\ Count(transients)
        <3>1. transients' = transients + 1 \/ transients' >= MaxRetries
            BY <1>2, <2>2, CountGrows DEF Count
        <3>2. QED
            BY <1>1, <1>2, <2>2, <3>1, ClientAssumption
    <2>3. QED
        BY <1>1, <2>1, <2>2
<1>4. ClientTypeOK'
    BY <1>1, <1>3 DEF CallMoves, IndexInv, TypeOK, ClientTypeOK
<1>5. TypeOK'
    BY <1>1, <1>4 DEF IndexInv, TypeOK, qdrantVars, jobVars
<1>6. VectorsMatchRows'
    BY <1>1 DEF IndexInv, VectorsMatchRows, qdrantVars
<1>7. CallOK'
    BY <1>1, <1>3 DEF IndexInv, CallOK, CallMoves, jobVars
<1>8. QED
    BY <1>5, <1>6, <1>7 DEF IndexInv

\* The end of a batch, whichever points it left.
LEMMA EndBatchIndex ==
    ASSUME IndexInv, EndBatch, phase = "embedding", NEW p, points' = p,
           p = points \/ (call = "returned" /\ p = Upserted),
           total' \in [Tables -> Nat], skipped' \in [Tables -> Nat],
           breaks' \in 0 .. MaxFaults
    PROVE  IndexInv'
<1>1. /\ points' \in [Collections -> [Texts -> Texts \cup {NoVector}]]
      /\ VectorsMatchRows'
    <2>1. CASE p = points
        BY <2>1 DEF IndexInv, TypeOK, VectorsMatchRows
    <2>2. CASE call = "returned" /\ p = Upserted
        <3>1. p \in [Collections -> [Texts -> Texts \cup {NoVector}]]
            BY <2>2, UpsertedPoints
        <3>2. \A c \in Collections, r \in Texts : p[c][r] = r \/ p[c][r] = points[c][r]
            BY <2>2, UpsertedPoints
        <3>3. \A c \in Collections, r \in Texts : p[c][r] \in {r, NoVector}
            BY <3>2 DEF IndexInv, VectorsMatchRows
        <3>4. QED
            BY <3>1, <3>3 DEF VectorsMatchRows
    <2>3. QED
        BY <2>1, <2>2
<1>2. ClientTypeOK'
    BY ClientAssumption DEF EndBatch, IndexInv, TypeOK, ClientTypeOK
<1>3. TypeOK'
    BY <1>1, <1>2 DEF EndBatch, IndexInv, TypeOK, Phases
<1>4. 0 <= transients
    BY DEF IndexInv, TypeOK
<1>5. CallOK'
    BY <1>4 DEF EndBatch, CallOK
<1>6. QED
    BY <1>1, <1>3, <1>5 DEF IndexInv

\* The counts of a batch go to one table.
LEMMA CountedType ==
    ASSUME IndexInv, NEW f \in [Tables -> Nat], NEW g,
           g = [f EXCEPT ![Head(todo)] = @ + Len(batch)]
    PROVE  g \in [Tables -> Nat]
<1>1. Len(batch) \in Nat
    BY DEF IndexInv, TypeOK
<1> DEFINE h == Head(todo)
           n == Len(batch)
<1>2. g = [t \in Tables |-> IF t = h THEN f[h] + n ELSE f[t]]
    OBVIOUS
<1> HIDE DEF h, n
<1>3. ASSUME NEW t \in Tables
      PROVE  (IF t = h THEN f[h] + n ELSE f[t]) \in Nat
    <2>1. f[t] \in Nat /\ f[t] + n \in Nat
        BY <1>1 DEF n
    <2>2. QED
        BY <2>1
<1>4. QED
    BY <1>2, <1>3

LEMMA UpsertIndex == ASSUME IndexInv, Upsert PROVE IndexInv'
<1>1. total' \in [Tables -> Nat] /\ skipped' \in [Tables -> Nat]
    BY CountedType DEF Upsert, IndexInv, TypeOK
<1>2. breaks' \in 0 .. MaxFaults
    BY DEF Upsert, IndexInv, TypeOK
<1>3. PICK p : p = points'
    OBVIOUS
<1>4. /\ EndBatch /\ phase = "embedding" /\ points' = p
      /\ p = points \/ (call = "returned" /\ p = Upserted)
    BY <1>3 DEF Upsert
<1>5. QED
    BY <1>1, <1>2, <1>4, EndBatchIndex

LEMMA SkipCases ==
    ASSUME IndexInv, Skip
    PROVE  /\ phase = "embedding" /\ EndBatch
           /\ \/ call = "raised" /\ points' = points /\ breaks' = breaks
              \/ call = "returned" /\ points' \in {points, Upserted} /\ breaks' > 0
           /\ breaks' \in 0 .. MaxFaults /\ breaks <= breaks'
           /\ total' = total
           /\ skipped' = [skipped EXCEPT ![Head(todo)] = @ + Len(batch)]
<1>1. breaks \in 0 .. MaxFaults /\ breaks <= breaks
    BY DEF IndexInv, TypeOK
<1>2. ASSUME Count(breaks)
      PROVE  breaks' \in 0 .. MaxFaults /\ breaks <= breaks' /\ breaks' > 0
    BY <1>1, <1>2, CountGrows DEF Count
<1>3. /\ \/ call = "raised" /\ points' = points /\ breaks' = breaks
         \/ call = "returned" /\ points' \in {points, Upserted} /\ Count(breaks)
    BY DEF Skip
<1>4. QED
    BY <1>1, <1>2, <1>3 DEF Skip

LEMMA SkipIndex == ASSUME IndexInv, Skip PROVE IndexInv'
<1>1. total' \in [Tables -> Nat] /\ skipped' \in [Tables -> Nat]
    BY SkipCases, CountedType DEF IndexInv, TypeOK
<1>2. PICK p : p = points'
    OBVIOUS
<1>3. /\ EndBatch /\ phase = "embedding" /\ points' = p /\ breaks' \in 0 .. MaxFaults
      /\ p = points \/ (call = "returned" /\ p = Upserted)
    BY <1>2, SkipCases
<1>4. QED
    BY <1>1, <1>3, EndBatchIndex

LEMMA DiesIndex == ASSUME IndexInv, Dies PROVE IndexInv'
<1>1. ClientTypeOK'
    BY ClientAssumption DEF Dies, IndexInv, TypeOK, ClientTypeOK
<1>2. TypeOK'
    BY <1>1 DEF Dies, IndexInv, TypeOK, Phases, qdrantVars, faultVars
<1>3. VectorsMatchRows'
    BY DEF Dies, IndexInv, VectorsMatchRows, qdrantVars
<1>4. 0 <= transients
    BY DEF IndexInv, TypeOK
<1>5. CallOK'
    BY <1>4 DEF Dies, CallOK, faultVars
<1>6. QED
    BY <1>2, <1>3, <1>5 DEF IndexInv

LEMMA StutterIndex == ASSUME IndexInv, UNCHANGED vars PROVE IndexInv'
<1>1. /\ UNCHANGED <<nature, call, queue, tries, vectors>>
      /\ UNCHANGED <<existing, points>>
      /\ UNCHANGED <<phase, recreate, targets, todo, at, batch, read, total, skipped>>
      /\ UNCHANGED <<runs, transients, breaks>>
    BY DEF vars, clientVars, qdrantVars, jobVars, faultVars
<1>2. TypeOK'
    BY <1>1 DEF IndexInv, TypeOK, ClientTypeOK
<1>3. VectorsMatchRows'
    BY <1>1 DEF IndexInv, VectorsMatchRows
<1>4. Covers' <=> Covers
    BY <1>1 DEF Covers
<1>5. CallOK'
    BY <1>1, <1>4 DEF IndexInv, CallOK
<1>6. QED
    BY <1>2, <1>3, <1>5 DEF IndexInv

LEMMA StepIndex == IndexInv /\ [Next]_vars => IndexInv'
<1> SUFFICES ASSUME IndexInv, [Next]_vars PROVE IndexInv'
    OBVIOUS
<1>1. CASE UNCHANGED vars
    BY <1>1, StutterIndex
<1>2. ASSUME NEW again \in BOOLEAN, NEW tables \in SUBSET Tables, Launch(again, tables)
      PROVE  IndexInv'
    BY <1>2, LaunchIndex
<1>3. ASSUME NEW c \in Collections, Ensure(c)
      PROVE  IndexInv'
    BY <1>3, EnsureIndex
<1>4. CASE StartReading \/ Finish \/ Fetch \/ Embed
    BY <1>4, StartIndex, FinishIndex, FetchIndex, EmbedIndex
<1>5. CASE Upsert \/ Skip \/ Dies
    BY <1>5, UpsertIndex, SkipIndex, DiesIndex
<1>6. QED
    BY <1>1, <1>2, <1>3, <1>4, <1>5 DEF Next, Work

\* The index invariant of the job, whatever run is under way and however it was cut
\* short: types, whose vector a point has, and that an embedder's call (client.py)
\* returns the vectors of its texts in order.
THEOREM IndexInvariance == Spec => []IndexInv
BY InitIndex, StepIndex, PTL DEF Spec

\* The index is sound at every moment, in whatever state a run left it: a vector is
\* of its own row's text.
THEOREM IndexAlwaysSound == Spec => []IndexSound
<1>1. IndexInv => IndexSound
    BY DEF IndexInv, IndexSound
<1>2. QED
    BY <1>1, IndexInvariance, PTL

\* What PointsKept says of a step.
KeepsPoints ==
    \A c \in Collections, r \in Texts :
        points[c][r] # NoVector /\ points'[c][r] = NoVector
          => phase = "ensuring" /\ recreate /\ c \in targets

LEMMA StepKeepsPoints == IndexInv /\ [Next]_vars => [KeepsPoints]_vars
<1> SUFFICES ASSUME IndexInv, Next PROVE KeepsPoints
    OBVIOUS
<1>1. CASE points' = points
    BY <1>1 DEF KeepsPoints
<1>2. ASSUME NEW c \in Collections, Ensure(c)
      PROVE  KeepsPoints
    <2>1. points \in [Collections -> [Texts -> Texts \cup {NoVector}]]
        BY DEF IndexInv, TypeOK
    <2>2. phase = "ensuring" /\ c \in targets
        BY <1>2 DEF Ensure
    <2>3. CASE points' = points
        BY <1>1, <2>3
    <2>4. CASE recreate /\ points' = [points EXCEPT ![c] = Empty]
        BY <2>1, <2>2, <2>4 DEF KeepsPoints
    <2>5. QED
        BY <1>2, <2>3, <2>4 DEF Ensure
<1>3. ASSUME call = "returned", phase = "embedding", points' = Upserted
      PROVE  KeepsPoints
    <2>1. \A c \in Collections, r \in Texts :
             points'[c][r] = r \/ points'[c][r] = points[c][r]
        BY <1>3, UpsertedPoints
    <2>2. QED
        BY <2>1, JobAssumption DEF KeepsPoints
<1>4. CASE Upsert \/ Skip
    BY <1>1, <1>3, <1>4, SkipCases DEF Upsert
<1>5. CASE StartReading \/ Finish \/ Fetch \/ Embed \/ Dies
    BY <1>1, <1>5 DEF StartReading, Finish, Fetch, Embed, Dies, qdrantVars
<1>6. ASSUME NEW again \in BOOLEAN, NEW tables \in SUBSET Tables, Launch(again, tables)
      PROVE  KeepsPoints
    BY <1>1, <1>6 DEF Launch, qdrantVars
<1>7. QED
    BY <1>2, <1>4, <1>5, <1>6 DEF Next, Work

\* Points go only while a run that recreates their collection is ensuring it.
THEOREM PointsAlwaysKept == Spec => PointsKept
<1>1. PointsKept <=> [][KeepsPoints]_vars
    BY DEF PointsKept, KeepsPoints
<1>2. QED
    BY <1>1, IndexInvariance, StepKeepsPoints, PTL DEF Spec

-----------------------------------------------------------------------------
(* Counting. *)

LEMMA ElementsFinite ==
    ASSUME NEW E, NEW s \in Seq(E)
    PROVE  /\ IsFiniteSet(Elements(s)) /\ Cardinality(Elements(s)) \in Nat
           /\ IsInjective(s) => Cardinality(Elements(s)) = Len(s)
<1> DEFINE D == 1 .. Len(s)
           T == Elements(s)
<1>1. Len(s) \in Nat /\ DOMAIN s = D
    OBVIOUS
<1>2. IsFiniteSet(D) /\ Cardinality(D) = Len(s)
    BY <1>1, FS_Interval
<1>3. T = {s[i] : i \in D}
    BY <1>1 DEF Elements
<1> HIDE DEF D, T
<1>4. s = [i \in D |-> s[i]]
    BY <1>1
<1>5. s \in [D -> T]
    BY <1>3, <1>4
<1>6. s \in Surjection(D, T)
    BY <1>3, <1>5 DEF Surjection
<1>7. IsInjective(s) => s \in Injection(D, T)
    BY <1>5 DEF Injection
<1>8. QED
    BY <1>2, <1>6, <1>7, FS_Surjection, FS_CardinalityType DEF T

\* Rows of table t with text among its first n.
PlainRows(t, n) == {r \in Texts : nature[r] # "blank" /\ \E i \in 1 .. n : RowsIn[t][i] = r}

LEMMA PlainRowsFinite ==
    ASSUME NEW t \in Tables, NEW n \in Nat, n <= Len(RowsIn[t]), NEW S, S \subseteq PlainRows(t, n)
    PROVE  IsFiniteSet(S) /\ Cardinality(S) \in Nat
<1>1. RowsIn[t] \in Seq(Texts)
    BY JobAssumption
<1>2. PlainRows(t, n) \in SUBSET Elements(RowsIn[t])
    BY <1>1 DEF PlainRows, Elements
<1>3. IsFiniteSet(Elements(RowsIn[t])) /\ S \in SUBSET Elements(RowsIn[t])
    BY <1>1, <1>2, ElementsFinite
<1>4. QED
    BY <1>3, FS_Subset, FS_CardinalityType

\* A fetch of rows lo + 1 .. hi keeps those with text, none of them read before.
LEMMA KeptRows ==
    ASSUME NEW t \in Tables, NEW lo \in Nat, NEW hi \in Nat, lo <= hi, hi <= Len(RowsIn[t])
    PROVE  /\ Kept(t, lo, hi) \in Seq(Texts) /\ IsInjective(Kept(t, lo, hi))
           /\ \A r \in Elements(Kept(t, lo, hi)) :
                 r \in Texts /\ nature[r] # "blank" /\ \E i \in lo + 1 .. hi : RowsIn[t][i] = r
           /\ PlainRows(t, lo) = PlainRows(t, hi) \ Elements(Kept(t, lo, hi))
<1> DEFINE rows == RowsIn[t]
           part == SubSeq(rows, lo + 1, hi)
           plain == {r \in Texts : nature[r] # "blank"}
           kept == Kept(t, lo, hi)
<1>1. rows \in Seq(Texts) /\ IsInjective(rows) /\ Len(rows) \in Nat /\ DOMAIN rows = 1 .. Len(rows)
    BY JobAssumption, OnceAssumption
<1>2. kept \in Seq(Texts) /\ part \in Seq(Texts)
    BY KeptSeq
<1>3. DOMAIN part = 1 .. hi - lo /\ \A i \in 1 .. hi - lo : part[i] = rows[lo + i]
    <2>1. \A i \in lo + 1 .. hi : i \in 1 .. Len(rows)
        BY <1>1
    <2>2. Len(part) = hi - lo /\ \A i \in 1 .. hi - lo : part[i] = rows[lo + i]
        BY <1>1, <2>1
    <2>3. QED
        BY <1>2, <2>2
<1>4. /\ Elements(kept) = Elements(part) \cap plain
      /\ IsInjective(part) => IsInjective(kept)
    BY <1>2, FilteredElements DEF Kept
<1> HIDE DEF rows, part, kept
<1>5. IsInjective(part)
    <2> SUFFICES ASSUME NEW i \in 1 .. hi - lo, NEW j \in 1 .. hi - lo, part[i] = part[j]
                 PROVE  i = j
        BY <1>3 DEF IsInjective
    <2>1. rows[lo + i] = rows[lo + j] /\ lo + i \in 1 .. Len(rows) /\ lo + j \in 1 .. Len(rows)
        BY <1>1, <1>3 DEF rows
    <2>2. lo + i = lo + j
        BY <1>1, <2>1 DEF IsInjective
    <2>3. QED
        BY <2>2
<1>6. ASSUME NEW r
      PROVE  r \in Elements(part) <=> \E i \in lo + 1 .. hi : rows[i] = r
    <2>1. ASSUME NEW i \in 1 .. hi - lo, part[i] = r
          PROVE  lo + i \in lo + 1 .. hi /\ rows[lo + i] = r
        BY <1>3, <2>1
    <2>2. ASSUME NEW i \in lo + 1 .. hi, rows[i] = r
          PROVE  i - lo \in 1 .. hi - lo /\ part[i - lo] = r
        <3>1. i - lo \in 1 .. hi - lo /\ lo + (i - lo) = i
            OBVIOUS
        <3>2. QED
            BY <1>3, <2>2, <3>1
    <2>3. QED
        BY <1>3, <2>1, <2>2 DEF Elements
<1>7. ASSUME NEW r \in Elements(kept)
      PROVE  r \in Texts /\ nature[r] # "blank" /\ \E i \in lo + 1 .. hi : rows[i] = r
    BY <1>4, <1>6
<1>8. ASSUME NEW r \in PlainRows(t, lo)
      PROVE  r \in PlainRows(t, hi) /\ r \notin Elements(kept)
    <2>1. PICK i \in 1 .. lo : rows[i] = r
        BY DEF PlainRows, rows
    <2>2. i \in 1 .. hi /\ i \in 1 .. Len(rows)
        BY <1>1 DEF rows
    <2>3. ASSUME NEW j \in lo + 1 .. hi
          PROVE  rows[j] # r
        <3>1. j \in 1 .. Len(rows) /\ j # i
            BY <1>1 DEF rows
        <3>2. QED
            BY <1>1, <2>1, <2>2, <3>1 DEF IsInjective
    <2>4. QED
        BY <1>7, <2>1, <2>2, <2>3 DEF PlainRows, rows
<1>9. ASSUME NEW r \in PlainRows(t, hi), r \notin Elements(kept)
      PROVE  r \in PlainRows(t, lo)
    <2>1. PICK i \in 1 .. hi : rows[i] = r
        BY DEF PlainRows, rows
    <2>2. r \in plain
        BY DEF PlainRows
    <2>3. r \notin Elements(part)
        BY <1>4, <1>9, <2>2
    <2>4. i \in 1 .. lo
        BY <1>6, <2>1, <2>3
    <2>5. QED
        BY <2>1, <2>2, <2>4 DEF PlainRows, rows
<1>10. PlainRows(t, lo) = PlainRows(t, hi) \ Elements(kept)
    BY <1>8, <1>9
<1>11. QED
    BY <1>2, <1>4, <1>5, <1>7, <1>10 DEF kept, rows

-----------------------------------------------------------------------------
(* The books of a run: the rows it is through with, and the lost ones. *)

\* The rows of t that the cursor is past.
ReadUpTo(t) ==
    IF todo # <<>> /\ t = Head(todo) THEN at
    ELSE IF t \in read THEN Len(RowsIn[t]) ELSE 0

\* Of these, the ones being embedded are still open.
OpenRows(t) == IF todo # <<>> /\ t = Head(todo) THEN Elements(batch) ELSE {}

Settled(t) == PlainRows(t, ReadUpTo(t)) \ OpenRows(t)
Lost(t)    == {r \in Settled(t) : points[CollectionOf[t]][r] = NoVector}

Working == phase \in {"reading", "embedding", "finished"}
Quiet   == breaks = 0 /\ transients < MaxRetries

\* Where the cursor is.
CursorOK ==
    /\ IsInjective(todo)
    /\ Elements(todo) \cap read = {}
    /\ todo # <<>> => at <= Len(RowsIn[Head(todo)])
    /\ todo # <<>> => at = Len(RowsIn[Head(todo)]) \/ \E q \in Nat : at = q * ReadBatch
    /\ phase = "ensuring" => at = 0 /\ read = {} /\ total = None /\ skipped = None
    /\ phase = "finished" => todo = <<>>

\* The rows being embedded were read in one batch, and have text; they fail for a
\* reason.
BatchOK ==
    /\ IsInjective(batch)
    /\ phase = "embedding" =>
          /\ Elements(batch) \subseteq PlainRows(Head(todo), at)
          /\ \E q \in Nat : \A r \in Elements(batch) : \E i \in 1 .. at :
                RowsIn[Head(todo)][i] = r /\ (i - 1) \div ReadBatch = q
    /\ call = "raised" /\ Quiet => \E r \in Elements(batch) : nature[r] = "refused"

\* Every settled row is counted, and no more are lost than the count of skipped.
Accounted ==
    Working => \A t \in Tables :
        /\ total[t] + skipped[t] = Cardinality(Settled(t))
        /\ Cardinality(Lost(t)) <= skipped[t]

\* When nothing worse came than the retries absorb, a row was lost to a refused one.
LostToRefused ==
    Working /\ Quiet => \A t \in Tables : \A i \in DOMAIN RowsIn[t] :
        RowsIn[t][i] \in Lost(t) => \E r \in BatchOf(t, i) : nature[r] = "refused"

RunInv == IndexInv /\ CursorOK /\ BatchOK /\ Accounted /\ LostToRefused

\* A step that settles and loses nothing.
BooksStand ==
    /\ Working /\ nature' = nature /\ total' = total /\ skipped' = skipped
    /\ Quiet' => Quiet
    /\ \A t \in Tables : Settled(t)' = Settled(t) /\ Lost(t)' = Lost(t)

LEMMA StandingBooks ==
    ASSUME Accounted, LostToRefused, BooksStand
    PROVE  Accounted' /\ LostToRefused'
<1>1. Accounted'
    BY DEF Accounted, BooksStand
<1>2. LostToRefused'
    BY DEF LostToRefused, BooksStand
<1>3. QED
    BY <1>1, <1>2

LEMMA QuietStands ==
    ASSUME breaks \in Nat, breaks' \in Nat, transients \in Nat, transients' \in Nat,
           breaks <= breaks', transients <= transients'
    PROVE  Quiet' => Quiet
BY ClientAssumption DEF Quiet

LEMMA FaultTypes ==
    ASSUME IndexInv
    PROVE  breaks \in Nat /\ transients \in Nat
BY FaultsAssumption DEF IndexInv, TypeOK

\* A step in which table, cursor, batch and index stand.
LEMMA SameBooks ==
    ASSUME IndexInv, Working, nature' = nature, UNCHANGED qdrantVars,
           UNCHANGED <<todo, at, batch, read, total, skipped>>, Quiet' => Quiet
    PROVE  BooksStand
<1>1. ASSUME NEW t \in Tables
      PROVE  Settled(t)' = Settled(t)
    BY DEF Settled, PlainRows, ReadUpTo, OpenRows
<1>2. ASSUME NEW t \in Tables
      PROVE  Lost(t)' = Lost(t)
    BY <1>1 DEF Lost, qdrantVars
<1>3. QED
    BY <1>1, <1>2 DEF BooksStand

LEMMA InitRun == Init => RunInv
<1> SUFFICES ASSUME Init PROVE RunInv
    OBVIOUS
<1>1. CursorOK
    BY DEF Init, CursorOK, IsInjective, Elements
<1>2. BatchOK
    BY DEF Init, ClientInit, BatchOK, IsInjective
<1>3. ~ Working
    BY DEF Init, Working
<1>4. QED
    BY <1>1, <1>2, <1>3, InitIndex DEF RunInv, Accounted, LostToRefused

LEMMA LaunchRun ==
    ASSUME RunInv, NEW again \in BOOLEAN, NEW tables \in SUBSET Tables, Launch(again, tables)
    PROVE  CursorOK' /\ BatchOK' /\ Accounted' /\ LostToRefused'
<1>1. IsInjective(todo') /\ todo' \in Seq(Tables)
    BY JobAssumption, OnceAssumption, FilteredElements DEF Launch
<1>2. ASSUME todo' # <<>>
      PROVE  0 <= Len(RowsIn[Head(todo')]) /\ 0 = 0 * ReadBatch /\ 0 \in Nat
    <2>1. Head(todo') \in Tables
        BY <1>1, <1>2
    <2>2. RowsIn[Head(todo')] \in Seq(Texts)
        BY <2>1, JobAssumption
    <2>3. QED
        BY <2>2, JobAssumption
<1>3. /\ phase' = "ensuring" /\ at' = 0 /\ read' = {} /\ total' = None /\ skipped' = None
      /\ batch' = batch /\ call' = call
    BY DEF Launch, clientVars
<1>4. CursorOK'
    BY <1>1, <1>2, <1>3 DEF CursorOK
<1>5. call = "idle" /\ batch = <<>>
    BY DEF Launch, RunInv, IndexInv, CallOK
<1>6. BatchOK'
    BY <1>3, <1>5 DEF BatchOK, IsInjective
<1>7. ~ Working'
    BY <1>3 DEF Working
<1>8. QED
    BY <1>4, <1>6, <1>7 DEF Accounted, LostToRefused

LEMMA EnsureRun ==
    ASSUME RunInv, NEW c \in Collections, Ensure(c)
    PROVE  CursorOK' /\ BatchOK' /\ Accounted' /\ LostToRefused'
<1>1. /\ phase = "ensuring" /\ phase' = phase /\ call' = call
      /\ UNCHANGED <<todo, at, batch, read, total, skipped>>
    BY DEF Ensure, clientVars
<1>2. call = "idle" /\ batch = <<>>
    BY <1>1 DEF RunInv, IndexInv, CallOK
<1>3. CursorOK'
    BY <1>1 DEF RunInv, CursorOK
<1>4. BatchOK'
    BY <1>1, <1>2 DEF BatchOK, IsInjective
<1>5. ~ Working'
    BY <1>1 DEF Working
<1>6. QED
    BY <1>3, <1>4, <1>5 DEF Accounted, LostToRefused

LEMMA StartRun ==
    ASSUME RunInv, StartReading
    PROVE  CursorOK' /\ BatchOK' /\ Accounted' /\ LostToRefused'
<1>1. /\ phase = "ensuring" /\ phase' = "reading" /\ call' = call
      /\ UNCHANGED <<todo, at, batch, read, total, skipped>>
    BY DEF StartReading, clientVars
<1>2. call = "idle" /\ batch = <<>>
    BY <1>1 DEF RunInv, IndexInv, CallOK
<1>3. at = 0 /\ read = {} /\ total = None /\ skipped = None
    BY <1>1 DEF RunInv, CursorOK
<1>4. CursorOK'
    BY <1>1 DEF RunInv, CursorOK
<1>5. BatchOK'
    BY <1>1, <1>2 DEF BatchOK, IsInjective
<1>6. ASSUME NEW t \in Tables
      PROVE  Settled(t)' = {} /\ Lost(t)' = {}
    <2>1. ReadUpTo(t)' = 0
        BY <1>1, <1>3 DEF ReadUpTo
    <2>2. Settled(t)' = {}
        BY <2>1 DEF Settled, PlainRows
    <2>3. QED
        BY <2>2 DEF Lost
<1>7. ASSUME NEW t \in Tables
      PROVE  total'[t] = 0 /\ skipped'[t] = 0
    BY <1>1, <1>3 DEF None
<1>8. Accounted'
    BY <1>6, <1>7, FS_EmptySet DEF Accounted
<1>9. LostToRefused'
    BY <1>6 DEF LostToRefused
<1>10. QED
    BY <1>4, <1>5, <1>8, <1>9

LEMMA FinishRun ==
    ASSUME RunInv, Finish
    PROVE  CursorOK' /\ BatchOK' /\ Accounted' /\ LostToRefused'
<1>1. /\ phase = "reading" /\ phase' = "finished" /\ todo = <<>>
      /\ call' = call /\ nature' = nature
      /\ UNCHANGED <<todo, at, batch, read, total, skipped>>
      /\ UNCHANGED qdrantVars /\ UNCHANGED <<breaks, transients>>
    BY DEF Finish, clientVars, faultVars
<1>2. call = "idle" /\ batch = <<>>
    BY <1>1 DEF RunInv, IndexInv, CallOK
<1>3. CursorOK'
    BY <1>1 DEF RunInv, CursorOK
<1>4. BatchOK'
    BY <1>1, <1>2 DEF BatchOK, IsInjective
<1>5. Quiet' => Quiet
    BY <1>1 DEF Quiet
<1>6. BooksStand
    BY <1>1, <1>5, SameBooks DEF RunInv, Working
<1>7. QED
    BY <1>3, <1>4, <1>6, StandingBooks DEF RunInv

LEMMA DiesRun ==
    ASSUME RunInv, Dies
    PROVE  CursorOK' /\ BatchOK' /\ Accounted' /\ LostToRefused'
<1>1. phase' = "off" /\ todo' = <<>> /\ batch' = <<>> /\ call' = "idle"
    BY DEF Dies
<1>2. CursorOK'
    BY <1>1 DEF CursorOK, IsInjective, Elements
<1>3. BatchOK'
    BY <1>1 DEF BatchOK, IsInjective
<1>4. ~ Working'
    BY <1>1 DEF Working
<1>5. QED
    BY <1>2, <1>3, <1>4 DEF Accounted, LostToRefused

LEMMA TailOnce ==
    ASSUME NEW E, NEW s \in Seq(E), s # <<>>, IsInjective(s)
    PROVE  /\ IsInjective(Tail(s))
           /\ Elements(Tail(s)) = Elements(s) \ {Head(s)}
<1>1. /\ Len(s) \in Nat \ {0} /\ DOMAIN s = 1 .. Len(s) /\ Head(s) = s[1]
      /\ DOMAIN Tail(s) = 1 .. Len(s) - 1
      /\ \A i \in 1 .. Len(s) - 1 : Tail(s)[i] = s[i + 1]
    OBVIOUS
<1>2. \A i, j \in 1 .. Len(s) : s[i] = s[j] => i = j
    BY <1>1 DEF IsInjective
<1>3. IsInjective(Tail(s))
    BY <1>1, <1>2 DEF IsInjective
<1>4. ASSUME NEW e \in Elements(Tail(s))
      PROVE  e \in Elements(s) /\ e # Head(s)
    <2>1. PICK i \in 1 .. Len(s) - 1 : Tail(s)[i] = e
        BY <1>1 DEF Elements
    <2>2. i + 1 \in 1 .. Len(s) /\ s[i + 1] = e /\ i + 1 # 1 /\ 1 \in 1 .. Len(s)
        BY <1>1, <2>1
    <2>3. QED
        BY <1>1, <1>2, <2>2 DEF Elements
<1>5. ASSUME NEW e \in Elements(s), e # Head(s)
      PROVE  e \in Elements(Tail(s))
    <2>1. PICK i \in 1 .. Len(s) : s[i] = e
        BY <1>1 DEF Elements
    <2>2. i - 1 \in 1 .. Len(s) - 1 /\ (i - 1) + 1 = i
        BY <1>1, <1>5, <2>1
    <2>3. Tail(s)[i - 1] = e
        BY <1>1, <2>1, <2>2
    <2>4. QED
        BY <1>1, <2>2, <2>3 DEF Elements
<1>6. QED
    BY <1>3, <1>4, <1>5

LEMMA HeadElement ==
    ASSUME NEW E, NEW s \in Seq(E), s # <<>>
    PROVE  Head(s) \in Elements(s)
<1>1. 1 \in DOMAIN s /\ Head(s) = s[1]
    OBVIOUS
<1>2. QED
    BY <1>1 DEF Elements

LEMMA NextTableRun ==
    ASSUME RunInv, Fetch, NextTable
    PROVE  CursorOK' /\ BatchOK' /\ Accounted' /\ LostToRefused'
<1> DEFINE h == Head(todo)
<1>1. /\ phase = "reading" /\ todo # <<>> /\ h \in Tables
      /\ at \in Nat /\ Len(RowsIn[h]) \in Nat
      /\ UNCHANGED <<qdrantVars, recreate, targets, total, skipped, faultVars>>
    BY FetchCases DEF RunInv
<1>2. /\ at >= Len(RowsIn[h]) /\ todo' = Tail(todo) /\ at' = 0 /\ read' = read \cup {h}
      /\ UNCHANGED <<clientVars, phase, batch>>
    BY DEF NextTable
<1>3. todo \in Seq(Tables) /\ call = "idle" /\ batch = <<>>
    BY <1>1 DEF RunInv, IndexInv, TypeOK, CallOK
<1>4. at = Len(RowsIn[h]) /\ IsInjective(todo) /\ Elements(todo) \cap read = {}
    <2>1. at <= Len(RowsIn[h])
        BY <1>1 DEF RunInv, CursorOK
    <2>2. at = Len(RowsIn[h])
        BY <1>1, <1>2, <2>1
    <2>3. QED
        BY <2>2 DEF RunInv, CursorOK
<1>5. /\ IsInjective(todo') /\ todo' \in Seq(Tables)
      /\ Elements(todo') = Elements(todo) \ {h}
      /\ todo' # <<>> => Head(todo') \in Elements(todo')
    <2>1. todo' \in Seq(Tables)
        BY <1>1, <1>2, <1>3
    <2>2. QED
        BY <1>1, <1>2, <1>3, <1>4, <2>1, TailOnce, HeadElement
<1>6. CursorOK'
    <2>1. Elements(todo') \cap read' = {}
        BY <1>2, <1>4, <1>5
    <2>2. phase' = "reading"
        BY <1>1, <1>2
    <2>3. todo' # <<>> => at' <= Len(RowsIn[Head(todo')])
        <3>1. ASSUME todo' # <<>>
              PROVE  RowsIn[Head(todo')] \in Seq(Texts)
            <4>1. Head(todo') \in Tables
                BY <1>5, <3>1
            <4>2. QED
                BY <4>1, JobAssumption
        <3>2. QED
            BY <1>2, <3>1
    <2>4. 0 = 0 * ReadBatch
        BY JobAssumption
    <2>5. \E q \in Nat : at' = q * ReadBatch
        BY <1>2, <2>4
    <2>6. QED
        BY <1>5, <2>1, <2>2, <2>3, <2>5 DEF CursorOK
<1>7. BatchOK'
    BY <1>1, <1>2, <1>3 DEF BatchOK, IsInjective, clientVars
<1>8. Elements(batch) = {} /\ Elements(batch') = {}
    BY <1>2, <1>3 DEF Elements
<1>9. nature' = nature
    BY <1>2 DEF clientVars
<1> HIDE DEF h
<1>10. ASSUME NEW t \in Tables
       PROVE  ReadUpTo(t)' = ReadUpTo(t) /\ OpenRows(t)' = {} /\ OpenRows(t) = {}
    <2>1. OpenRows(t)' = {} /\ OpenRows(t) = {}
        BY <1>8 DEF OpenRows
    <2>2. CASE t = h
        <3>1. ~ (todo' # <<>> /\ t = Head(todo')) /\ t \in read'
            BY <1>2, <1>5, <2>2 DEF h
        <3>2. ReadUpTo(t)' = Len(RowsIn[t])
            BY <3>1 DEF ReadUpTo
        <3>3. ReadUpTo(t) = at
            BY <1>1, <2>2 DEF ReadUpTo, h
        <3>4. QED
            BY <1>4, <2>1, <2>2, <3>2, <3>3
    <2>3. CASE t # h /\ todo' # <<>> /\ t = Head(todo')
        <3>1. t \notin read
            BY <1>4, <1>5, <2>3
        <3>2. ReadUpTo(t) = 0
            BY <2>3, <3>1 DEF ReadUpTo, h
        <3>3. ReadUpTo(t)' = at'
            BY <2>3 DEF ReadUpTo
        <3>4. QED
            BY <1>2, <2>1, <3>2, <3>3
    <2>4. CASE t # h /\ ~ (todo' # <<>> /\ t = Head(todo'))
        <3>1. t \in read' <=> t \in read
            BY <1>2, <2>4 DEF h
        <3>2. QED
            BY <2>1, <2>4, <3>1 DEF ReadUpTo, h
    <2>5. QED
        BY <2>2, <2>3, <2>4
<1>11. ASSUME NEW t \in Tables
       PROVE  Settled(t)' = Settled(t) /\ Lost(t)' = Lost(t)
    <2>1. Settled(t)' = Settled(t)
        BY <1>9, <1>10 DEF Settled, PlainRows
    <2>2. QED
        BY <1>1, <2>1 DEF Lost, qdrantVars
<1>12. Quiet' <=> Quiet
    BY <1>1 DEF Quiet, faultVars
<1>13. BooksStand
    BY <1>1, <1>9, <1>11, <1>12 DEF BooksStand, Working
<1>14. QED
    BY <1>6, <1>7, <1>13, StandingBooks DEF RunInv

\* The block of rows that a fetch from q * ReadBatch reads.
LEMMA BlockOf ==
    ASSUME NEW q \in Nat, NEW size \in Nat \ {0}, NEW i \in Nat \ {0},
           i > q * size, i <= q * size + size
    PROVE  (i - 1) \div size = q
<1>1. q * size \in Nat /\ i - 1 \in Nat
    OBVIOUS
<1>2. i - 1 >= q * size /\ i - 1 < q * size + size
    BY <1>1
<1>3. QED
    BY <1>1, <1>2

LEMMA RowsRun ==
    ASSUME RunInv, Fetch, NoRows \/ NextBatch
    PROVE  CursorOK' /\ BatchOK' /\ Accounted' /\ LostToRefused'
<1> DEFINE h == Head(todo)
           kept == Kept(h, at, Upto)
<1>1. /\ phase = "reading" /\ todo # <<>> /\ h \in Tables
      /\ at \in Nat /\ Len(RowsIn[h]) \in Nat
      /\ UNCHANGED <<qdrantVars, recreate, targets, total, skipped, faultVars>>
    BY FetchCases DEF RunInv
<1>2. /\ at < Len(RowsIn[h]) /\ at' = Upto /\ UNCHANGED <<todo, read>>
      /\ \/ kept = <<>> /\ UNCHANGED <<clientVars, phase, batch>>
         \/ batch' = kept /\ phase' = "embedding" /\ EmbedTexts(batch') /\ kept # <<>>
    BY DEF NoRows, NextBatch
<1>3. todo \in Seq(Tables) /\ call = "idle" /\ batch = <<>>
    BY <1>1 DEF RunInv, IndexInv, TypeOK, CallOK
<1>4. /\ Upto \in Nat /\ Upto <= Len(RowsIn[h]) /\ Upto <= at + ReadBatch /\ at < Upto
      /\ Upto = at + ReadBatch \/ Upto = Len(RowsIn[h])
    BY <1>1, <1>2, UptoBounds
<1>5. PICK q \in Nat : at = q * ReadBatch
    BY <1>1, <1>2 DEF RunInv, CursorOK
<1>6. /\ kept \in Seq(Texts) /\ IsInjective(kept)
      /\ \A r \in Elements(kept) :
            r \in Texts /\ nature[r] # "blank" /\ \E i \in at + 1 .. Upto : RowsIn[h][i] = r
      /\ PlainRows(h, at) = PlainRows(h, Upto) \ Elements(kept)
    <2>1. at <= Upto
        BY <1>1, <1>4
    <2>2. QED
        BY <1>1, <1>4, <2>1, KeptRows
<1> HIDE DEF h, kept
<1>7. CursorOK'
    <2>1. (q + 1) * ReadBatch = at + ReadBatch /\ q + 1 \in Nat
        BY <1>5, JobAssumption
    <2>2. at' = Len(RowsIn[Head(todo')]) \/ \E k \in Nat : at' = k * ReadBatch
        BY <1>2, <1>4, <2>1 DEF h
    <2>3. phase' # "ensuring" /\ phase' # "finished"
        BY <1>1, <1>2
    <2>4. at' <= Len(RowsIn[Head(todo')])
        BY <1>2, <1>4 DEF h
    <2>5. IsInjective(todo') /\ Elements(todo') \cap read' = {}
        BY <1>2 DEF RunInv, CursorOK
    <2>6. QED
        BY <2>2, <2>3, <2>4, <2>5 DEF CursorOK
<1>8. nature' = nature
    BY <1>2 DEF EmbedTexts, clientVars
<1>9. BatchOK'
    <2>1. CASE kept = <<>> /\ UNCHANGED <<clientVars, phase, batch>>
        BY <1>1, <1>3, <2>1 DEF BatchOK, IsInjective, clientVars
    <2>2. CASE batch' = kept /\ phase' = "embedding" /\ EmbedTexts(batch') /\ kept # <<>>
        <3>1. \A i \in DOMAIN kept : nature[kept[i]] # "blank"
            BY <1>6 DEF Elements
        <3>2. call' = "posting"
            BY <2>2, <3>1 DEF EmbedTexts
        <3>3. ASSUME NEW r \in Elements(kept)
              PROVE  \E i \in 1 .. Upto : RowsIn[h][i] = r /\ (i - 1) \div ReadBatch = q
            <4>1. PICK i \in at + 1 .. Upto : RowsIn[h][i] = r
                BY <1>6
            <4>2. i \in Nat \ {0} /\ i > q * ReadBatch /\ i <= q * ReadBatch + ReadBatch /\ i \in 1 .. Upto
                <5>1. i \in Nat \ {0} /\ i > at /\ i <= at + ReadBatch /\ i \in 1 .. Upto
                    BY <1>1, <1>4, JobAssumption
                <5>2. QED
                    BY <1>5, <5>1
            <4>3. (i - 1) \div ReadBatch = q
                BY <4>2, JobAssumption, BlockOf
            <4>4. QED
                BY <4>1, <4>2, <4>3
        <3>4. Elements(kept) \subseteq PlainRows(h, Upto)
            BY <1>6, <3>3 DEF PlainRows
        <3>6. Elements(batch') \subseteq PlainRows(Head(todo), at)'
            BY <1>2, <1>8, <2>2, <3>4 DEF h, PlainRows
        <3>7. QED
            BY <1>2, <1>6, <2>2, <3>2, <3>3, <3>6 DEF BatchOK, h
    <2>3. QED
        BY <1>2, <2>1, <2>2
<1>10. Elements(batch) = {} /\ Elements(batch') = Elements(kept)
    BY <1>2, <1>3 DEF Elements
<1>11. ASSUME NEW t \in Tables
       PROVE  Settled(t)' = Settled(t)
    <2>1. CASE t = h
        <3>1. ReadUpTo(t) = at /\ ReadUpTo(t)' = Upto
            BY <1>1, <1>2, <2>1 DEF ReadUpTo, h
        <3>2. OpenRows(t) = {} /\ OpenRows(t)' = Elements(kept)
            BY <1>1, <1>2, <1>10, <2>1 DEF OpenRows, h
        <3>3. Settled(t)' = PlainRows(h, Upto) \ Elements(kept)
            BY <1>8, <2>1, <3>1, <3>2 DEF Settled, PlainRows
        <3>4. Settled(t) = PlainRows(h, at)
            BY <2>1, <3>1, <3>2 DEF Settled
        <3>5. QED
            BY <1>6, <3>3, <3>4
    <2>2. CASE t # h
        <3>1. ReadUpTo(t)' = ReadUpTo(t) /\ OpenRows(t)' = OpenRows(t)
            BY <1>2, <2>2 DEF ReadUpTo, OpenRows, h
        <3>2. QED
            BY <1>8, <3>1 DEF Settled, PlainRows
    <2>3. QED
        BY <2>1, <2>2
<1>12. ASSUME NEW t \in Tables
       PROVE  Lost(t)' = Lost(t)
    BY <1>1, <1>11 DEF Lost, qdrantVars
<1>13. Quiet' <=> Quiet
    BY <1>1 DEF Quiet, faultVars
<1>14. BooksStand
    BY <1>1, <1>8, <1>11, <1>12, <1>13 DEF BooksStand, Working
<1>15. QED
    BY <1>7, <1>9, <1>14, StandingBooks DEF RunInv

LEMMA FetchRun ==
    ASSUME RunInv, Fetch
    PROVE  CursorOK' /\ BatchOK' /\ Accounted' /\ LostToRefused'
<1>1. NextTable \/ NoRows \/ NextBatch
    BY FetchCases DEF RunInv
<1>2. QED
    BY <1>1, NextTableRun, RowsRun

\* A call that raises in a run where nothing broke and the timeouts were few met a
\* refused text.
LEMMA RaisedForReason ==
    ASSUME RunInv, Embed, call' = "raised", Quiet'
    PROVE  \E r \in Elements(batch) : nature[r] = "refused"
<1>1. /\ phase = "embedding" /\ batch \in Seq(Texts) /\ queue \in Seq(Seq(Texts))
      /\ tries \in 0 .. MaxRetries - 1 /\ tries <= transients
      /\ transients \in 0 .. MaxFaults /\ breaks \in 0 .. MaxFaults
    BY DEF Embed, RunInv, IndexInv, TypeOK, ClientTypeOK, CallOK
<1>2. call = "posting"
    BY DEF Embed, Embeds, Rejects, TimesOut, Breaks
<1>3. queue # <<>> /\ IsCut(queue, batch, Len(vectors))
    BY <1>2 DEF RunInv, IndexInv, CallOK, Covers
<1>4. ~ Embeds
    BY DEF Embeds, Extend
<1>5. ~ (Breaks /\ Count(breaks))
    <2> SUFFICES ASSUME Count(breaks) PROVE FALSE
        OBVIOUS
    <2>1. breaks' > 0
        BY <1>1, CountGrows DEF Count
    <2>2. QED
        BY <2>1 DEF Quiet
<1>6. ~ (TimesOut /\ Count(transients))
    <2> SUFFICES ASSUME TimesOut, Count(transients) PROVE FALSE
        OBVIOUS
    <2>1. ~ (tries + 1 < MaxRetries)
        BY <1>2 DEF TimesOut
    <2>2. transients' = transients + 1 \/ transients' >= MaxRetries
        BY <1>1, CountGrows DEF Count
    <2>3. transients' >= MaxRetries
        BY <1>1, <2>1, <2>2, ClientAssumption
    <2>4. transients' \in Nat
        <3>1. transients' \in 0 .. MaxFaults
            BY <1>1, CountGrows DEF Count
        <3>2. QED
            BY <3>1, FaultsAssumption
    <2>5. QED
        BY <2>3, <2>4, ClientAssumption DEF Quiet
<1>7. Rejects
    BY <1>4, <1>5, <1>6 DEF Embed
<1> DEFINE inputs == Head(queue)
<1>8. /\ inputs \in Seq(Texts) /\ Len(inputs) \in Nat \ {0} /\ Len(vectors) \in Nat
      /\ Len(vectors) + Len(inputs) <= Len(batch)
      /\ \A j \in 1 .. Len(inputs) : inputs[j] = batch[Len(vectors) + j]
    BY <1>1, <1>3, CutHead
<1>9. ~ (Len(inputs) > 1) /\ nature[Head(inputs)] = "refused"
    BY <1>2, <1>7 DEF Rejects, Rejectable
<1> HIDE DEF inputs
<1>10. Head(inputs) = batch[Len(vectors) + 1] /\ Len(vectors) + 1 \in DOMAIN batch
    BY <1>1, <1>8
<1>11. QED
    BY <1>9, <1>10 DEF Elements

LEMMA EmbedRun ==
    ASSUME RunInv, Embed
    PROVE  CursorOK' /\ BatchOK' /\ Accounted' /\ LostToRefused'
<1>1. /\ phase = "embedding" /\ UNCHANGED <<qdrantVars, jobVars, runs>> /\ nature' = nature
      /\ transients' \in 0 .. MaxFaults /\ transients <= transients'
      /\ breaks' \in 0 .. MaxFaults /\ breaks <= breaks'
    BY EmbedCases DEF RunInv, CallMoves
<1>2. Quiet' => Quiet
    BY <1>1, QuietStands, FaultTypes, FaultsAssumption DEF RunInv
<1>3. CursorOK'
    BY <1>1 DEF RunInv, CursorOK, jobVars
<1>4. PlainRows(Head(todo), at)' = PlainRows(Head(todo), at)
    BY <1>1 DEF PlainRows, jobVars
<1>5. BatchOK'
    <2>1. call' = "raised" /\ Quiet' => \E r \in Elements(batch) : nature[r] = "refused"
        BY RaisedForReason
    <2>2. QED
        BY <1>1, <1>4, <2>1 DEF RunInv, BatchOK, jobVars
<1>6. BooksStand
    BY <1>1, <1>2, SameBooks DEF RunInv, Working, jobVars
<1>7. QED
    BY <1>3, <1>5, <1>6, StandingBooks DEF RunInv

LEMMA ReadUpToBounds ==
    ASSUME RunInv, NEW t \in Tables
    PROVE  ReadUpTo(t) \in Nat /\ ReadUpTo(t) <= Len(RowsIn[t])
<1>1. at \in Nat
    BY DEF RunInv, IndexInv, TypeOK
<1>2. RowsIn[t] \in Seq(Texts)
    BY JobAssumption
<1>3. Len(RowsIn[t]) \in Nat
    BY <1>2
<1>4. QED
    BY <1>1, <1>3 DEF RunInv, CursorOK, ReadUpTo

LEMMA SettledFinite ==
    ASSUME RunInv, NEW t \in Tables
    PROVE  /\ IsFiniteSet(Settled(t)) /\ Cardinality(Settled(t)) \in Nat
           /\ IsFiniteSet(Lost(t)) /\ Cardinality(Lost(t)) \in Nat
<1>1. Settled(t) \subseteq PlainRows(t, ReadUpTo(t)) /\ Lost(t) \subseteq PlainRows(t, ReadUpTo(t))
    BY DEF Settled, Lost
<1>2. QED
    BY <1>1, ReadUpToBounds, PlainRowsFinite

\* When a batch ends, its rows, and no others, are settled.
LEMMA BatchSettles ==
    ASSUME RunInv, EndBatch, phase = "embedding", NEW t \in Tables
    PROVE  /\ t # Head(todo) => Settled(t)' = Settled(t)
           /\ t = Head(todo) =>
                 /\ Settled(t)' = Settled(t) \cup Elements(batch)
                 /\ Settled(t) \cap Elements(batch) = {}
<1>1. /\ todo # <<>> /\ UNCHANGED <<nature, todo, at, read>> /\ batch' = <<>>
    BY DEF EndBatch, RunInv, IndexInv, CallOK
<1>2. Elements(batch) \subseteq PlainRows(Head(todo), at)
    BY DEF RunInv, BatchOK
<1>3. ReadUpTo(t)' = ReadUpTo(t)
    BY <1>1 DEF ReadUpTo
<1>4. OpenRows(t)' = {}
    BY <1>1 DEF OpenRows, Elements
<1>5. Settled(t)' = PlainRows(t, ReadUpTo(t))
    BY <1>1, <1>3, <1>4 DEF Settled, PlainRows
<1>6. CASE t # Head(todo)
    <2>1. OpenRows(t) = {}
        BY <1>6 DEF OpenRows
    <2>2. QED
        BY <1>5, <1>6, <2>1 DEF Settled
<1>7. CASE t = Head(todo)
    <2>1. OpenRows(t) = Elements(batch) /\ ReadUpTo(t) = at
        BY <1>1, <1>7 DEF OpenRows, ReadUpTo
    <2>2. QED
        BY <1>2, <1>5, <1>7, <2>1 DEF Settled
<1>8. QED
    BY <1>6, <1>7

\* Its rows are as many as it is long.
LEMMA BatchCounts ==
    ASSUME RunInv
    PROVE  /\ Len(batch) \in Nat /\ IsFiniteSet(Elements(batch))
           /\ Cardinality(Elements(batch)) = Len(batch)
<1>1. batch \in Seq(Texts) /\ IsInjective(batch)
    BY DEF RunInv, IndexInv, TypeOK, BatchOK
<1>2. QED
    BY <1>1, ElementsFinite

LEMMA CountWith ==
    ASSUME NEW A, IsFiniteSet(A), NEW B, IsFiniteSet(B)
    PROVE  /\ A \cap B = {} => Cardinality(A \cup B) = Cardinality(A) + Cardinality(B)
           /\ \A C \in SUBSET (A \cup B) :
                 /\ Cardinality(C) \in Nat
                 /\ Cardinality(C) <= Cardinality(A) + Cardinality(B)
           /\ \A C \in SUBSET A : Cardinality(C) \in Nat /\ Cardinality(C) <= Cardinality(A)
<1>1. /\ IsFiniteSet(A \cup B) /\ IsFiniteSet(A \cap B)
      /\ Cardinality(A \cup B) = Cardinality(A) + Cardinality(B) - Cardinality(A \cap B)
    BY FS_Union, FS_Intersection
<1>2. /\ Cardinality(A) \in Nat /\ Cardinality(B) \in Nat /\ Cardinality(A \cap B) \in Nat
      /\ Cardinality(A \cup B) \in Nat
    BY <1>1, FS_CardinalityType
<1>3. A \cap B = {} => Cardinality(A \cup B) = Cardinality(A) + Cardinality(B)
    <2> SUFFICES ASSUME A \cap B = {}
                 PROVE  Cardinality(A \cup B) = Cardinality(A) + Cardinality(B)
        OBVIOUS
    <2>1. Cardinality(A \cap B) = 0
        BY FS_EmptySet
    <2>2. QED
        BY <1>1, <1>2, <2>1
<1>4. ASSUME NEW C \in SUBSET (A \cup B)
      PROVE  Cardinality(C) \in Nat /\ Cardinality(C) <= Cardinality(A) + Cardinality(B)
    <2>1. IsFiniteSet(C) /\ Cardinality(C) <= Cardinality(A \cup B)
        BY <1>1, FS_Subset
    <2>2. Cardinality(C) \in Nat
        BY <2>1, FS_CardinalityType
    <2>3. QED
        BY <1>1, <1>2, <2>1, <2>2
<1>5. ASSUME NEW C \in SUBSET A
      PROVE  Cardinality(C) \in Nat /\ Cardinality(C) <= Cardinality(A)
    BY FS_Subset, FS_CardinalityType
<1>6. QED
    BY <1>3, <1>4, <1>5

\* The cursor stands while a batch ends.
LEMMA EndBatchRun ==
    ASSUME RunInv, EndBatch, phase = "embedding"
    PROVE  CursorOK' /\ BatchOK' /\ Working /\ Head(todo) \in Tables
<1>1. /\ phase' = "reading" /\ batch' = <<>> /\ call' = "idle"
      /\ UNCHANGED <<todo, at, read>>
    BY DEF EndBatch
<1>2. CursorOK'
    BY <1>1 DEF RunInv, CursorOK
<1>3. BatchOK'
    BY <1>1 DEF BatchOK, IsInjective
<1>4. todo # <<>> /\ todo \in Seq(Tables)
    BY DEF RunInv, IndexInv, TypeOK, CallOK
<1>5. Head(todo) \in Tables
    BY <1>4
<1>6. QED
    BY <1>2, <1>3, <1>5 DEF Working

LEMMA UpsertRun ==
    ASSUME RunInv, Upsert
    PROVE  CursorOK' /\ BatchOK' /\ Accounted' /\ LostToRefused'
<1> DEFINE h == Head(todo)
           n == Len(batch)
           B == Elements(batch)
<1>1. /\ EndBatch /\ phase = "embedding" /\ call = "returned" /\ points' = Upserted
      /\ total' = [total EXCEPT ![h] = @ + n]
      /\ skipped' = skipped /\ breaks' = breaks /\ transients' = transients /\ nature' = nature
    BY DEF Upsert, EndBatch
<1>2. CursorOK' /\ BatchOK' /\ Working /\ h \in Tables
    BY <1>1, EndBatchRun
<1>3. /\ n \in Nat /\ IsFiniteSet(B) /\ Cardinality(B) = n
      /\ \A r \in B : r \in Texts
    <2>1. \A r \in B : r \in Texts
        BY DEF Elements, RunInv, IndexInv, TypeOK
    <2>2. QED
        BY <2>1, BatchCounts
<1>4. total \in [Tables -> Nat] /\ skipped \in [Tables -> Nat]
    BY DEF RunInv, IndexInv, TypeOK
<1>5. \A t \in Tables : total'[t] = IF t = h THEN total[t] + n ELSE total[t]
    BY <1>1, <1>2, <1>4
<1>6. \A c \in Collections, r \in Texts :
          points'[c][r] = IF c = CollectionOf[h] /\ r \in B THEN r ELSE points[c][r]
    BY <1>1, UpsertedPoints DEF RunInv, Target
<1>7. \A t \in Tables : CollectionOf[t] \in Collections
    BY DEF Collections
<1>8. Quiet' <=> Quiet
    BY <1>1 DEF Quiet
<1> HIDE DEF h, n, B
<1>9. ASSUME NEW t \in Tables
      PROVE  Lost(t)' \subseteq Lost(t) /\ Lost(t)' \subseteq Texts
    <2>1. \A r \in Settled(t)' : r \in Texts
        BY DEF Settled, PlainRows
    <2>2. ASSUME NEW r \in Lost(t)'
          PROVE  r \in Lost(t) /\ r \in Texts
        <3>1. r \in Settled(t)' /\ r \in Texts /\ points'[CollectionOf[t]][r] = NoVector
            BY <2>1 DEF Lost
        <3>2. r # NoVector
            BY <3>1, JobAssumption
        <3>3. points[CollectionOf[t]][r] = NoVector
            BY <1>6, <1>7, <3>1, <3>2
        <3>4. ~ (t = h /\ r \in B)
            BY <1>6, <1>7, <3>1, <3>2
        <3>5. r \in Settled(t)
            BY <1>1, <3>1, <3>4, BatchSettles DEF h, B
        <3>6. QED
            BY <3>1, <3>3, <3>5 DEF Lost
    <2>3. QED
        BY <2>2
<1>10. ASSUME NEW t \in Tables
       PROVE  /\ total'[t] + skipped'[t] = Cardinality(Settled(t)')
              /\ Cardinality(Lost(t)') <= skipped'[t]
    <2>1. /\ total[t] + skipped[t] = Cardinality(Settled(t)) /\ Cardinality(Lost(t)) <= skipped[t]
          /\ total[t] \in Nat /\ skipped[t] \in Nat
        BY <1>2, <1>4 DEF RunInv, Accounted
    <2>2. /\ IsFiniteSet(Settled(t)) /\ Cardinality(Settled(t)) \in Nat
          /\ IsFiniteSet(Lost(t)) /\ Cardinality(Lost(t)) \in Nat
        BY SettledFinite
    <2>3. Cardinality(Lost(t)') \in Nat /\ Cardinality(Lost(t)') <= Cardinality(Lost(t))
        BY <1>9, <2>2, CountWith
    <2>4. Cardinality(Lost(t)') <= skipped'[t]
        BY <1>1, <2>1, <2>2, <2>3
    <2>5. CASE t = h
        <3>1. Settled(t)' = Settled(t) \cup B /\ Settled(t) \cap B = {}
            BY <1>1, <2>5, BatchSettles DEF h, B
        <3>2. Cardinality(Settled(t)') = Cardinality(Settled(t)) + n
            BY <1>3, <2>2, <3>1, CountWith
        <3>3. QED
            BY <1>1, <1>3, <1>5, <2>1, <2>2, <2>4, <2>5, <3>2
    <2>6. CASE t # h
        <3>1. Settled(t)' = Settled(t)
            BY <1>1, <2>6, BatchSettles DEF h
        <3>2. QED
            BY <1>1, <1>5, <2>1, <2>4, <2>6, <3>1
    <2>7. QED
        BY <2>5, <2>6
<1>11. Accounted'
    BY <1>10 DEF Accounted
<1>12. LostToRefused'
    BY <1>1, <1>2, <1>8, <1>9 DEF RunInv, LostToRefused
<1>13. QED
    BY <1>2, <1>11, <1>12

\* A row lost with a batch that raised in a quiet run was read with a refused one.
LEMMA BatchLostToRefused ==
    ASSUME RunInv, phase = "embedding", call = "raised", Quiet,
           NEW t, t = Head(todo), t \in Tables,
           NEW i \in DOMAIN RowsIn[t], RowsIn[t][i] \in Elements(batch)
    PROVE  \E r \in BatchOf(t, i) : nature[r] = "refused"
<1>1. PICK q \in Nat : \A r \in Elements(batch) : \E j \in 1 .. at :
          RowsIn[t][j] = r /\ (j - 1) \div ReadBatch = q
    BY DEF RunInv, BatchOK
<1>2. PICK r \in Elements(batch) : nature[r] = "refused"
    BY DEF RunInv, BatchOK
<1>3. /\ RowsIn[t] \in Seq(Texts) /\ IsInjective(RowsIn[t])
      /\ DOMAIN RowsIn[t] = 1 .. Len(RowsIn[t]) /\ Len(RowsIn[t]) \in Nat
    BY JobAssumption, OnceAssumption
<1>4. at \in Nat /\ at <= Len(RowsIn[t])
    BY DEF RunInv, IndexInv, TypeOK, CallOK, CursorOK
<1>5. \A j \in 1 .. at : j \in DOMAIN RowsIn[t]
    BY <1>3, <1>4
<1>6. PICK k \in 1 .. at : RowsIn[t][k] = r /\ (k - 1) \div ReadBatch = q
    BY <1>1, <1>2
<1>7. PICK j \in 1 .. at : RowsIn[t][j] = RowsIn[t][i] /\ (j - 1) \div ReadBatch = q
    BY <1>1
<1>8. i = j
    BY <1>3, <1>5, <1>7 DEF IsInjective
<1>9. k \in DOMAIN RowsIn[t] /\ (k - 1) \div ReadBatch = (i - 1) \div ReadBatch
    BY <1>5, <1>6, <1>7, <1>8
<1>10. RowsIn[t][k] \in BatchOf(t, i)
    BY <1>9 DEF BatchOf
<1>11. QED
    BY <1>2, <1>6, <1>10

LEMMA SkipRun ==
    ASSUME RunInv, Skip
    PROVE  CursorOK' /\ BatchOK' /\ Accounted' /\ LostToRefused'
<1> DEFINE h == Head(todo)
           n == Len(batch)
           B == Elements(batch)
<1>1. /\ phase = "embedding" /\ EndBatch
      /\ \/ call = "raised" /\ points' = points /\ breaks' = breaks
         \/ call = "returned" /\ points' \in {points, Upserted} /\ breaks' > 0
      /\ breaks' \in 0 .. MaxFaults /\ breaks <= breaks'
      /\ total' = total
      /\ skipped' = [skipped EXCEPT ![h] = @ + n]
    BY SkipCases DEF RunInv
<1>2. CursorOK' /\ BatchOK' /\ Working /\ h \in Tables
    BY <1>1, EndBatchRun
<1>3. n \in Nat /\ IsFiniteSet(B) /\ Cardinality(B) = n
    BY BatchCounts
<1>4. total \in [Tables -> Nat] /\ skipped \in [Tables -> Nat]
    BY DEF RunInv, IndexInv, TypeOK
<1>5. \A t \in Tables : skipped'[t] = IF t = h THEN skipped[t] + n ELSE skipped[t]
    BY <1>1, <1>2, <1>4
<1>6. ASSUME NEW c \in Collections, NEW r \in Texts, points'[c][r] = NoVector
      PROVE  points[c][r] = NoVector
    <2>1. CASE points' = points
        BY <1>6, <2>1
    <2>2. CASE points' = Upserted /\ call = "returned"
        <3>1. points'[c][r] = r \/ points'[c][r] = points[c][r]
            BY <1>1, <2>2, UpsertedPoints DEF RunInv
        <3>2. QED
            BY <1>6, <3>1, JobAssumption
    <2>3. QED
        BY <1>1, <2>1, <2>2
<1>7. \A t \in Tables : CollectionOf[t] \in Collections
    BY DEF Collections
<1>8. transients' = transients /\ nature' = nature
    BY <1>1 DEF EndBatch
<1>9. breaks \in Nat /\ breaks' \in Nat
    BY <1>1, FaultTypes, FaultsAssumption DEF RunInv
<1>10. Quiet' => Quiet /\ call = "raised"
    BY <1>1, <1>8, <1>9 DEF Quiet
<1> HIDE DEF h, n, B
<1>11. ASSUME NEW t \in Tables, NEW r \in Lost(t)'
       PROVE  r \in Lost(t) \/ (t = h /\ r \in B)
    <2>1. r \in Settled(t)' /\ points'[CollectionOf[t]][r] = NoVector
        BY <1>11 DEF Lost
    <2>2. r \in Texts
        BY <2>1 DEF Settled, PlainRows
    <2>3. points[CollectionOf[t]][r] = NoVector
        BY <1>6, <1>7, <2>1, <2>2
    <2>4. r \in Settled(t) \/ (t = h /\ r \in B)
        BY <1>1, <2>1, BatchSettles DEF h, B
    <2>5. QED
        BY <2>3, <2>4 DEF Lost
<1>12. ASSUME NEW t \in Tables
       PROVE  /\ total'[t] + skipped'[t] = Cardinality(Settled(t)')
              /\ Cardinality(Lost(t)') <= skipped'[t]
    <2>1. /\ total[t] + skipped[t] = Cardinality(Settled(t)) /\ Cardinality(Lost(t)) <= skipped[t]
          /\ total[t] \in Nat /\ skipped[t] \in Nat
        BY <1>2, <1>4 DEF RunInv, Accounted
    <2>2. /\ IsFiniteSet(Settled(t)) /\ Cardinality(Settled(t)) \in Nat
          /\ IsFiniteSet(Lost(t)) /\ Cardinality(Lost(t)) \in Nat
        BY SettledFinite
    <2>3. CASE t = h
        <3>1. Settled(t)' = Settled(t) \cup B /\ Settled(t) \cap B = {}
            BY <1>1, <2>3, BatchSettles DEF h, B
        <3>2. Cardinality(Settled(t)') = Cardinality(Settled(t)) + n
            BY <1>3, <2>2, <3>1, CountWith
        <3>3. Lost(t)' \in SUBSET (Lost(t) \cup B)
            BY <1>11
        <3>4. Cardinality(Lost(t)') \in Nat /\ Cardinality(Lost(t)') <= Cardinality(Lost(t)) + n
            BY <1>3, <2>2, <3>3, CountWith
        <3>5. QED
            BY <1>1, <1>3, <1>5, <2>1, <2>2, <2>3, <3>2, <3>4
    <2>4. CASE t # h
        <3>1. Settled(t)' = Settled(t)
            BY <1>1, <2>4, BatchSettles DEF h
        <3>2. Lost(t)' \in SUBSET Lost(t)
            BY <1>11, <2>4
        <3>3. Cardinality(Lost(t)') \in Nat /\ Cardinality(Lost(t)') <= Cardinality(Lost(t))
            BY <2>2, <3>2, CountWith
        <3>4. QED
            BY <1>1, <1>5, <2>1, <2>2, <2>4, <3>1, <3>3
    <2>5. QED
        BY <2>3, <2>4
<1>13. Accounted'
    BY <1>12 DEF Accounted
<1>14. LostToRefused'
    <2> SUFFICES ASSUME Quiet', NEW t \in Tables, NEW i \in DOMAIN RowsIn[t],
                        RowsIn[t][i] \in Lost(t)'
                 PROVE  \E r \in BatchOf(t, i) : nature[r] = "refused"
        BY <1>8 DEF LostToRefused
    <2>1. CASE RowsIn[t][i] \in Lost(t)
        BY <1>2, <1>10, <2>1 DEF RunInv, LostToRefused
    <2>2. CASE t = h /\ RowsIn[t][i] \in B
        BY <1>1, <1>10, <2>2, BatchLostToRefused DEF h, B
    <2>3. QED
        BY <1>11, <2>1, <2>2
<1>15. QED
    BY <1>2, <1>13, <1>14

LEMMA StutterRun == ASSUME RunInv, UNCHANGED vars PROVE RunInv'
<1>1. /\ UNCHANGED <<nature, call>> /\ UNCHANGED qdrantVars
      /\ UNCHANGED <<phase, todo, at, batch, read, total, skipped>>
      /\ UNCHANGED <<transients, breaks>>
    BY DEF vars, clientVars, jobVars, faultVars
<1>2. IndexInv'
    BY StutterIndex DEF RunInv
<1>3. CursorOK'
    BY <1>1 DEF RunInv, CursorOK
<1>4. Quiet' <=> Quiet
    BY <1>1 DEF Quiet
<1>5. PlainRows(Head(todo), at)' = PlainRows(Head(todo), at)
    BY <1>1 DEF PlainRows
<1>6. BatchOK'
    BY <1>1, <1>4, <1>5 DEF RunInv, BatchOK
<1>7. Accounted' /\ LostToRefused'
    <2>1. CASE Working
        BY <1>1, <1>4, <2>1, SameBooks, StandingBooks DEF RunInv
    <2>2. CASE ~ Working
        BY <1>1, <2>2 DEF Working, Accounted, LostToRefused
    <2>3. QED
        BY <2>1, <2>2
<1>8. QED
    BY <1>2, <1>3, <1>6, <1>7 DEF RunInv

LEMMA StepRun == RunInv /\ [Next]_vars => RunInv'
<1> SUFFICES ASSUME RunInv, [Next]_vars PROVE RunInv'
    OBVIOUS
<1>1. CASE UNCHANGED vars
    BY <1>1, StutterRun
<1>2. CASE Next
    <2>1. IndexInv'
        BY <1>2, StepIndex DEF RunInv
    <2>2. ASSUME NEW again \in BOOLEAN, NEW tables \in SUBSET Tables, Launch(again, tables)
          PROVE  RunInv'
        BY <2>1, <2>2, LaunchRun DEF RunInv
    <2>3. ASSUME NEW c \in Collections, Ensure(c)
          PROVE  RunInv'
        BY <2>1, <2>3, EnsureRun DEF RunInv
    <2>4. CASE StartReading \/ Finish \/ Fetch \/ Embed
        BY <2>1, <2>4, StartRun, FinishRun, FetchRun, EmbedRun DEF RunInv
    <2>5. CASE Upsert \/ Skip \/ Dies
        BY <2>1, <2>5, UpsertRun, SkipRun, DiesRun DEF RunInv
    <2>6. QED
        BY <1>2, <2>2, <2>3, <2>4, <2>5 DEF Next, Work
<1>3. QED
    BY <1>1, <1>2

\* The books of a run of reembed.py: every row the cursor is past is counted once, as
\* embedded or as skipped, and what is lost is among the skipped.
THEOREM RunInvariance == Spec => []RunInv
BY InitRun, StepRun, PTL DEF Spec

\* At the end of a run, whatever the last one was, the books are those of the
\* tables it read.
LEMMA FinishedBooks ==
    ASSUME RunInv, phase = "finished", NEW t \in read
    PROVE  t \in Tables /\ Settled(t) = Plain(t) /\ Lost(t) = Missing(t) /\ Working
<1>1. todo = <<>> /\ t \in Tables
    BY DEF RunInv, CursorOK, IndexInv, TypeOK
<1>2. RowsIn[t] \in Seq(Texts)
    BY <1>1, JobAssumption
<1>3. Settled(t) = PlainRows(t, Len(RowsIn[t]))
    BY <1>1 DEF Settled, OpenRows, ReadUpTo
<1>4. PlainRows(t, Len(RowsIn[t])) = Plain(t)
    BY <1>2 DEF PlainRows, Plain, Rows
<1>5. Settled(t) = Plain(t)
    BY <1>3, <1>4
<1>6. Lost(t) = Missing(t)
    BY <1>5 DEF Lost, Missing
<1>7. QED
    BY <1>1, <1>5, <1>6 DEF Working

\* The counts a finished run logs account for every row with text of a table it
\* read, and it says at least how many are missing.
THEOREM RowsAlwaysAccounted == Spec => []RowsAccounted
<1>1. RunInv => RowsAccounted
    <2> SUFFICES ASSUME RunInv, phase = "finished", NEW t \in read
                 PROVE  /\ total[t] + skipped[t] = Cardinality(Plain(t))
                        /\ Cardinality(Missing(t)) <= skipped[t]
        BY DEF RowsAccounted
    <2>1. t \in Tables /\ Settled(t) = Plain(t) /\ Lost(t) = Missing(t) /\ Working
        BY FinishedBooks
    <2>2. QED
        BY <2>1 DEF RunInv, Accounted
<1>2. QED
    BY <1>1, RunInvariance, PTL

\* In a run where nothing broke and the timeouts were few, a row is missing only
\* when a text read in one batch with it was refused.
THEOREM OnlyRefusedRowsSkipped == Spec => []OnlyRefusedSkip
<1>1. RunInv => OnlyRefusedSkip
    <2> SUFFICES ASSUME RunInv, phase = "finished", breaks = 0, transients < MaxRetries,
                        NEW t \in read, NEW i \in DOMAIN RowsIn[t], RowsIn[t][i] \in Missing(t)
                 PROVE  \E r \in BatchOf(t, i) : nature[r] = "refused"
        BY DEF OnlyRefusedSkip
    <2>1. t \in Tables /\ Lost(t) = Missing(t) /\ Working
        BY FinishedBooks
    <2>2. QED
        BY <2>1 DEF RunInv, LostToRefused, Quiet
<1>2. QED
    BY <1>1, RunInvariance, PTL
=============================================================================
