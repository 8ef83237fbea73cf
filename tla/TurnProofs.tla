------------------------------ MODULE TurnProofs ------------------------------
(***************************************************************************)
(* Proofs about the components of Turn, for any streams, questions, tools, *)
(* layouts, ground truths and bounds.                                      *)
(*                                                                         *)
(* The channel (ToolChannel): the state is well typed, which includes that *)
(* the holder of the lock and nobody else is calling and that those who    *)
(* wait are those in the queue, and CallsSerialized.  The types are not    *)
(* inductive: that a stream which leaves the queue is no longer in it      *)
(* needs that none is in it twice.  Calls are serialized since the request *)
(* of the holder is the last one made, and the server has them in order.   *)
(*                                                                         *)
(* The page (ChatUi), whose invariant has two parts.  PlacedInv: wherever  *)
(* an ask() is, it is for the conversation it was meant for, and whatever  *)
(* is saved was posted.  ViewInv: a page whose handlers never met has at   *)
(* most one under way; how far that one is says which rows of the log are  *)
(* not saved yet, or what the page will show when its answer comes.        *)
(*                                                                         *)
(* The citations (Citations), by CiteInv: besides that neither list has a  *)
(* source twice, whatever a turn has, was shown or has saved is of a       *)
(* source in the pool.  Titles are needed too: that a source always comes  *)
(* with the same one is why what an answer called it finds it later.       *)
(*                                                                         *)
(* The lookups (Lookups) and the queries of the case (CaseQueries): each   *)
(* reply is right by the step that makes it, and what that takes is about  *)
(* lists, which the lemmas on Ordering at the beginning say.               *)
(***************************************************************************)
EXTENDS Turn, Ordering, FiniteSetTheorems, WellFoundedInduction, TLAPS

-----------------------------------------------------------------------------
(* Lists in an order. *)

\* W is a strict order, and of two elements of S one is before the other.
Orders(W, S) ==
    /\ \A x \in S : <<x, x>> \notin W
    /\ \A x, y \in S : x # y => <<x, y>> \in W \/ <<y, x>> \in W
    /\ \A x, y, z \in S : <<x, y>> \in W /\ <<y, z>> \in W => <<x, z>> \in W

Rank(S, W, x) == Cardinality({y \in S : <<y, x>> \in W})

LEMMA RankType ==
    ASSUME NEW S, IsFiniteSet(S), NEW W, Orders(W, S), NEW x \in S
    PROVE  Rank(S, W, x) \in 0 .. Cardinality(S) - 1
<1> DEFINE Y == {y \in S : <<y, x>> \in W}
<1>1. Y \in SUBSET S /\ x \notin Y
    BY DEF Orders
<1>2. Rank(S, W, x) = Cardinality(Y)
    BY DEF Rank
<1> HIDE DEF Y
<1>3. Y # S
    BY <1>1
<1>4. IsFiniteSet(Y) /\ Cardinality(Y) <= Cardinality(S) /\ Cardinality(Y) # Cardinality(S)
    BY <1>1, <1>3, FS_Subset
<1>5. Cardinality(Y) \in Nat /\ Cardinality(S) \in Nat
    BY <1>4, FS_CardinalityType
<1>6. QED
    BY <1>2, <1>4, <1>5

LEMMA RankGrows ==
    ASSUME NEW S, IsFiniteSet(S), NEW W, Orders(W, S), NEW x \in S, NEW y \in S, <<x, y>> \in W
    PROVE  Rank(S, W, x) < Rank(S, W, y)
<1> DEFINE Y == {z \in S : <<z, x>> \in W}
           V == {z \in S : <<z, y>> \in W}
<1>1. Y \in SUBSET V /\ V \in SUBSET S /\ x \in V /\ x \notin Y
    BY DEF Orders
<1>2. Rank(S, W, x) = Cardinality(Y) /\ Rank(S, W, y) = Cardinality(V)
    BY DEF Rank
<1> HIDE DEF Y, V
<1>3. IsFiniteSet(V)
    BY <1>1, FS_Subset
<1>4. Y # V
    BY <1>1
<1>5. IsFiniteSet(Y) /\ Cardinality(Y) <= Cardinality(V) /\ Cardinality(Y) # Cardinality(V)
    BY <1>1, <1>3, <1>4, FS_Subset
<1>6. Cardinality(Y) \in Nat /\ Cardinality(V) \in Nat
    BY <1>3, <1>5, FS_CardinalityType
<1>7. QED
    BY <1>2, <1>5, <1>6

\* Every place is some element's.
LEMMA RankTaken ==
    ASSUME NEW S, IsFiniteSet(S), NEW W, Orders(W, S), NEW n \in 1 .. Cardinality(S)
    PROVE  \E x \in S : Rank(S, W, x) = n - 1
<1> DEFINE Z == 0 .. Cardinality(S) - 1
           f == [x \in S |-> Rank(S, W, x)]
<1>1. Cardinality(S) \in Nat
    BY FS_CardinalityType
<1>2. \A x, y \in S : x # y => Rank(S, W, x) # Rank(S, W, y)
    <2>1. SUFFICES ASSUME NEW x \in S, NEW y \in S, x # y PROVE Rank(S, W, x) # Rank(S, W, y)
        OBVIOUS
    <2>2. Rank(S, W, x) \in 0 .. Cardinality(S) - 1 /\ Rank(S, W, y) \in 0 .. Cardinality(S) - 1
        BY RankType
    <2>3. CASE <<x, y>> \in W
        BY <1>1, <2>2, <2>3, RankGrows
    <2>4. CASE <<y, x>> \in W
        BY <1>1, <2>2, <2>4, RankGrows
    <2>5. QED
        BY <2>1, <2>3, <2>4 DEF Orders
<1>3. f \in Injection(S, Z)
    <2>1. f \in [S -> Z]
        BY RankType
    <2>2. \A x, y \in S : f[x] = f[y] => x = y
        BY <1>2
    <2> HIDE DEF f
    <2>3. QED
        BY <2>1, <2>2 DEF Injection, IsInjective
<1>4. IsFiniteSet(Z) /\ Cardinality(Z) = Cardinality(S)
    <2>1. PICK c \in Nat : c = Cardinality(S)
        BY <1>1
    <2>2. IsFiniteSet(0 .. c - 1) /\ Cardinality(0 .. c - 1) = IF 0 > c - 1 THEN 0 ELSE (c - 1) - 0 + 1
        BY FS_Interval
    <2>3. Cardinality(0 .. c - 1) = c
        BY <2>2
    <2>4. QED
        BY <2>1, <2>2, <2>3
<1>5. n - 1 \in Z
    BY <1>1
<1> HIDE DEF f, Z
<1>6. f \in Surjection(S, Z)
    BY <1>3, <1>4, FS_Injection
<1>7. \E x \in S : f[x] = n - 1
    BY <1>5, <1>6 DEF Surjection
<1>8. QED
    BY <1>7 DEF f

\* The list has every element of S once, each after those before it.
LEMMA InOrderSays ==
    ASSUME NEW S, IsFiniteSet(S), NEW W, Orders(W, S), NEW s, s = InOrder(S, W)
    PROVE  /\ s \in Seq(S) /\ Len(s) = Cardinality(S) /\ Cardinality(S) \in Nat
           /\ DOMAIN s = 1 .. Cardinality(S)
           /\ \A x \in S : \E n \in DOMAIN s : s[n] = x
           /\ \A m, n \in DOMAIN s : m < n => <<s[m], s[n]>> \in W
           /\ \A m, n \in DOMAIN s : s[m] = s[n] => m = n
<1>1. Cardinality(S) \in Nat
    BY FS_CardinalityType
<1>2. s = [n \in 1 .. Cardinality(S) |-> CHOOSE x \in S : Rank(S, W, x) = n - 1]
    BY Zenon DEF InOrder, Rank
<1>3. DOMAIN s = 1 .. Cardinality(S)
    BY <1>2
<1>4. ASSUME NEW n \in DOMAIN s PROVE s[n] \in S /\ Rank(S, W, s[n]) = n - 1
    <2>1. s[n] = CHOOSE x \in S : Rank(S, W, x) = n - 1
        BY <1>2, <1>3
    <2>2. \E x \in S : Rank(S, W, x) = n - 1
        BY <1>3, RankTaken
    <2>3. QED
        BY <2>1, <2>2
<1>5. s \in Seq(S) /\ Len(s) = Cardinality(S)
    <2>1. s = [n \in 1 .. Cardinality(S) |-> s[n]] /\ \A n \in 1 .. Cardinality(S) : s[n] \in S
        BY <1>2, <1>3, <1>4
    <2>2. QED
        BY <1>1, <2>1
<1>6. ASSUME NEW m \in DOMAIN s, NEW n \in DOMAIN s, m < n PROVE <<s[m], s[n]>> \in W
    <2>1. Rank(S, W, s[m]) = m - 1 /\ Rank(S, W, s[n]) = n - 1 /\ s[m] \in S /\ s[n] \in S
        BY <1>4
    <2>2. s[m] # s[n]
        BY <1>1, <1>3, <1>6, <2>1
    <2>3. ~ (Rank(S, W, s[n]) < Rank(S, W, s[m]))
        BY <1>1, <1>3, <1>6, <2>1
    <2>4. <<s[n], s[m]>> \notin W
        BY <2>1, <2>3, RankGrows
    <2>5. QED
        BY <2>1, <2>2, <2>4 DEF Orders
<1>7. ASSUME NEW x \in S PROVE \E n \in DOMAIN s : s[n] = x
    <2>1. PICK n : n = Rank(S, W, x) + 1
        OBVIOUS
    <2>2. n \in DOMAIN s /\ Rank(S, W, x) = n - 1
        BY <1>1, <1>3, <2>1, RankType
    <2>3. s[n] \in S /\ Rank(S, W, s[n]) = Rank(S, W, x)
        BY <1>4, <2>2
    <2>4. Rank(S, W, x) \in Int
        BY <1>1, RankType
    <2>5. <<s[n], x>> \notin W /\ <<x, s[n]>> \notin W
        BY <2>3, <2>4, RankGrows
    <2>6. s[n] = x
        BY <2>3, <2>5 DEF Orders
    <2>7. QED
        BY <2>2, <2>6
<1>8. \A m, n \in DOMAIN s : s[m] = s[n] => m = n
    BY <1>1, <1>3, <1>4
<1>9. QED
    BY <1>1, <1>3, <1>5, <1>6, <1>7, <1>8

\* Numbers, from the least on.
LEMMA AscendingSays ==
    ASSUME NEW S \in SUBSET Int, IsFiniteSet(S), NEW s, s = Ascending(S)
    PROVE  /\ s \in Seq(S) /\ Len(s) = Cardinality(S) /\ Cardinality(S) \in Nat
           /\ DOMAIN s = 1 .. Cardinality(S)
           /\ \A x \in S : \E n \in DOMAIN s : s[n] = x
           /\ \A m, n \in DOMAIN s : m < n => s[m] < s[n]
           /\ \A m, n \in DOMAIN s : s[m] = s[n] => m = n
<1>1. PICK W : W = {p \in S \X S : p[1] < p[2]}
    OBVIOUS
<1>2. s = InOrder(S, W)
    BY <1>1 DEF Ascending
<1>3. \A x, y \in S : <<x, y>> \in W <=> x < y
    BY <1>1
<1>4. Orders(W, S)
    BY <1>3 DEF Orders
<1>5. /\ s \in Seq(S) /\ Len(s) = Cardinality(S) /\ Cardinality(S) \in Nat
      /\ DOMAIN s = 1 .. Cardinality(S)
      /\ \A x \in S : \E n \in DOMAIN s : s[n] = x
      /\ \A m, n \in DOMAIN s : m < n => <<s[m], s[n]>> \in W
      /\ \A m, n \in DOMAIN s : s[m] = s[n] => m = n
    BY <1>2, <1>4, InOrderSays
<1>6. ASSUME NEW m \in DOMAIN s, NEW n \in DOMAIN s, m < n PROVE s[m] < s[n]
    <2>1. s[m] \in S /\ s[n] \in S /\ <<s[m], s[n]>> \in W
        BY <1>5, <1>6
    <2>2. QED
        BY <1>3, <2>1
<1>7. QED
    BY <1>5, <1>6

\* Selected has what s has at the places K, in the order it has it there.
LEMMA SelectedSays ==
    ASSUME NEW T, NEW s \in Seq(T), NEW K \in SUBSET (DOMAIN s), NEW r, r = Selected(s, K),
           NEW at, at = Ascending(K)
    PROVE  /\ r \in Seq(T) /\ Len(r) = Len(at) /\ DOMAIN r = DOMAIN at /\ DOMAIN at = 1 .. Len(at)
           /\ \A n \in DOMAIN at : at[n] \in K /\ r[n] = s[at[n]]
           /\ \A k \in K : \E n \in DOMAIN at : at[n] = k
           /\ \A m, n \in DOMAIN at : m < n => at[m] < at[n]
           /\ Len(at) = Cardinality(K) /\ Len(at) \in Nat
<1>1. K \in SUBSET Int /\ IsFiniteSet(K)
    <2>1. Len(s) \in Nat /\ DOMAIN s = 1 .. Len(s)
        OBVIOUS
    <2>2. IsFiniteSet(1 .. Len(s))
        BY <2>1, FS_Interval
    <2>3. K \in SUBSET (1 .. Len(s))
        BY <2>1
    <2>4. QED
        BY <2>1, <2>2, <2>3, FS_Subset
<1>3. /\ at \in Seq(K) /\ Len(at) = Cardinality(K) /\ Cardinality(K) \in Nat
      /\ DOMAIN at = 1 .. Cardinality(K)
      /\ \A x \in K : \E n \in DOMAIN at : at[n] = x
      /\ \A m, n \in DOMAIN at : m < n => at[m] < at[n]
    BY <1>1, AscendingSays
<1>5. r = [n \in DOMAIN at |-> s[at[n]]]
    BY DEF Selected
<1>6. \A n \in DOMAIN at : at[n] \in K /\ s[at[n]] \in T
    BY <1>3
<1>7. r \in Seq(T) /\ Len(r) = Len(at) /\ DOMAIN r = DOMAIN at /\ \A n \in DOMAIN at : r[n] = s[at[n]]
    <2>1. PICK c \in Nat : c = Cardinality(K)
        BY <1>3
    <2>2. r = [n \in 1 .. c |-> s[at[n]]] /\ \A n \in 1 .. c : s[at[n]] \in T
        BY <1>3, <1>5, <1>6, <2>1
    <2>3. r \in Seq(T) /\ Len(r) = c
        BY <2>2
    <2>4. QED
        BY <1>3, <1>5, <2>1, <2>3
<1>8. QED
    BY <1>3, <1>6, <1>7

\* The components share these definitions.
LEMMA SameOrder ==
    ASSUME NEW S, NEW W
    PROVE  /\ L!InOrder(S, W) = InOrder(S, W) /\ L!Cardinality(S) = Cardinality(S)
           /\ Q!InOrder(S, W) = InOrder(S, W) /\ Q!Cardinality(S) = Cardinality(S)
           /\ R!InOrder(S, W) = InOrder(S, W) /\ R!Cardinality(S) = Cardinality(S)
<1>1. L!InOrder(S, W) = InOrder(S, W)
    BY DEF L!InOrder, InOrder, L!Cardinality, Cardinality
<1>2. Q!InOrder(S, W) = InOrder(S, W)
    BY DEF Q!InOrder, InOrder, Q!Cardinality, Cardinality
<1>3. R!InOrder(S, W) = InOrder(S, W)
    BY DEF R!InOrder, InOrder, R!Cardinality, Cardinality
<1>4. L!Cardinality(S) = Cardinality(S) /\ Q!Cardinality(S) = Cardinality(S) /\ R!Cardinality(S) = Cardinality(S)
    BY DEF L!Cardinality, Q!Cardinality, R!Cardinality, Cardinality
<1>5. QED
    BY <1>1, <1>2, <1>3, <1>4

LEMMA SameSelected ==
    ASSUME NEW s, NEW K
    PROVE  /\ L!Ascending(K) = Ascending(K) /\ Q!Ascending(K) = Ascending(K)
           /\ L!Selected(s, K) = Selected(s, K) /\ R!Selected(s, K) = Selected(s, K)
<1>1. L!Ascending(K) = Ascending(K)
    BY SameOrder, Zenon DEF L!Ascending, Ascending
<1>2. Q!Ascending(K) = Ascending(K)
    BY SameOrder, Zenon DEF Q!Ascending, Ascending
<1>3. R!Ascending(K) = Ascending(K)
    BY SameOrder, Zenon DEF R!Ascending, Ascending
<1>4. QED
    BY <1>1, <1>2, <1>3 DEF L!Selected, R!Selected, Selected

\* A list's values decide what it is a list of.
LEMMA ValuesOf ==
    ASSUME NEW T, NEW s \in Seq(T), NEW D, \A n \in DOMAIN s : s[n] \in D
    PROVE  s \in Seq(D)
<1>1. PICK c \in Nat : c = Len(s) /\ DOMAIN s = 1 .. c
    OBVIOUS
<1>2. PICK r : r = [n \in 1 .. c |-> s[n]]
    OBVIOUS
<1>3. \A n \in 1 .. c : s[n] \in D
    BY <1>1
<1>4. r \in Seq(D)
    BY <1>2, <1>3
<1>5. r = s
    BY <1>1, <1>2
<1>6. QED
    BY <1>4, <1>5

\* The first of a list, at most n.
Fewer(n, l) == IF n < l THEN n ELSE l

StartOf(T, s, n, c, r) ==
    /\ c \in Nat /\ c <= n /\ c <= Len(s)
    /\ Len(s) <= n => c = Len(s)
    /\ c # Len(s) => c = n
    /\ r \in Seq(T) /\ Len(r) = c /\ DOMAIN r = 1 .. c
    /\ \A k \in 1 .. c : r[k] = s[k]

LEMMA FirstSays ==
    ASSUME NEW T, NEW s \in Seq(T), NEW n \in Nat, NEW c, c = Fewer(n, Len(s)), NEW r, r = SubSeq(s, 1, c)
    PROVE  StartOf(T, s, n, c, r)
<1>1. PICK l \in Nat : l = Len(s) /\ DOMAIN s = 1 .. l
    OBVIOUS
<1>2. c \in Nat /\ c <= n /\ c <= l /\ (l <= n => c = l) /\ (c # l => c = n)
    BY <1>1 DEF Fewer
<1>3. SubSeq(s, 1, c) = [k \in 1 .. c |-> s[k]]
    BY <1>1, <1>2
<1>4. \A k \in 1 .. c : s[k] \in T
    BY <1>1, <1>2
<1>5. r = [k \in 1 .. c |-> s[k]]
    BY <1>3
<1>6. r \in Seq(T) /\ Len(r) = c /\ DOMAIN r = 1 .. c /\ \A k \in 1 .. c : r[k] = s[k]
    BY <1>2, <1>4, <1>5
<1>7. QED
    BY <1>1, <1>2, <1>6 DEF StartOf

\* The values of a list that has none twice are as many as it is long.
LEMMA ValuesCount ==
    ASSUME NEW T, NEW s \in Seq(T), \A m, n \in DOMAIN s : s[m] = s[n] => m = n,
           NEW S, S = {s[k] : k \in DOMAIN s}
    PROVE  IsFiniteSet(S) /\ Cardinality(S) = Len(s)
<1>1. PICK c \in Nat : c = Len(s) /\ DOMAIN s = 1 .. c
    OBVIOUS
<1>2. PICK f : f = [k \in 1 .. c |-> s[k]]
    OBVIOUS
<1>3. f \in [1 .. c -> S]
    BY <1>1, <1>2
<1>4. \A x \in S : \E k \in 1 .. c : f[k] = x
    BY <1>1, <1>2
<1>5. \A m, n \in 1 .. c : f[m] = f[n] => m = n
    BY <1>1, <1>2
<1>6. f \in Bijection(1 .. c, S)
    BY <1>3, <1>4, <1>5 DEF Bijection, Injection, Surjection, IsInjective
<1>7. ExistsBijection(1 .. c, S)
    BY <1>6 DEF ExistsBijection
<1>8. IsFiniteSet(S) /\ Cardinality(S) = c
    BY <1>7, FS_Interval, FS_Bijection, FS_CountingElements
<1>9. QED
    BY <1>1, <1>8

-----------------------------------------------------------------------------
(* The channel. *)


\* No stream waits twice.
OnceInQueue == \A i, j \in DOMAIN queue : queue[i] = queue[j] => i = j

\* Whoever waits has a request left within the bound.
RequestsLeft == sent + Len(queue) <= MaxRequests

Inv == TypeOK /\ OnceInQueue /\ RequestsLeft

-----------------------------------------------------------------------------
\* A stream joins the queue, the first one leaves it, or any other.
LEMMA JoinQueue ==
    ASSUME NEW T, NEW q \in Seq(T), NEW t \in T, \A i, j \in DOMAIN q : q[i] = q[j] => i = j,
           t \notin ToSet(q)
    PROVE  /\ Append(q, t) \in Seq(T) /\ ToSet(Append(q, t)) = ToSet(q) \cup {t}
           /\ \A i, j \in DOMAIN Append(q, t) : Append(q, t)[i] = Append(q, t)[j] => i = j
<1> DEFINE r == Append(q, t)
<1>1. /\ r \in Seq(T) /\ Len(q) \in Nat /\ Len(r) = Len(q) + 1 /\ r[Len(q) + 1] = t
      /\ DOMAIN q = 1 .. Len(q) /\ DOMAIN r = 1 .. Len(q) + 1
      /\ \A i \in 1 .. Len(q) : r[i] = q[i]
    OBVIOUS
<1> HIDE DEF r
<1>2. ToSet(r) = ToSet(q) \cup {t}
    BY <1>1 DEF ToSet
<1>3. ASSUME NEW i \in DOMAIN r, NEW j \in DOMAIN r, r[i] = r[j] PROVE i = j
    <2>1. \A k \in 1 .. Len(q) : q[k] # t
        BY <1>1 DEF ToSet
    <2> QED
        BY <1>1, <1>3, <2>1
<1> QED
    BY <1>1, <1>2, <1>3 DEF r

LEMMA LeaveQueue ==
    ASSUME NEW T, NEW q \in Seq(T), NEW k \in DOMAIN q,
           \A i, j \in DOMAIN q : q[i] = q[j] => i = j
    PROVE  /\ RemoveAt(q, k) \in Seq(T) /\ Len(RemoveAt(q, k)) = Len(q) - 1
           /\ ToSet(RemoveAt(q, k)) = ToSet(q) \ {q[k]}
           /\ \A i, j \in DOMAIN RemoveAt(q, k) : RemoveAt(q, k)[i] = RemoveAt(q, k)[j] => i = j
<1> DEFINE r == RemoveAt(q, k)
           f == SubSeq(q, 1, k - 1)
           g == SubSeq(q, k + 1, Len(q))
<1>1. /\ r \in Seq(T) /\ Len(r) = Len(q) - 1
      /\ \A i \in 1 .. Len(r) : r[i] = q[IF i < k THEN i ELSE i + 1]
    <2>1. Len(q) \in Nat /\ k \in 1 .. Len(q) /\ DOMAIN q = 1 .. Len(q)
        OBVIOUS
    <2>2. \A i \in 1 .. Len(q) : q[i] \in T
        OBVIOUS
    <2>3. f \in Seq(T) /\ Len(f) = k - 1 /\ \A i \in 1 .. k - 1 : f[i] = q[i]
        BY <2>1, <2>2
    <2>4. /\ g \in Seq(T) /\ Len(g) = Len(q) - k
          /\ \A i \in 1 .. Len(q) - k : g[i] = q[k + i]
        BY <2>1, <2>2
    <2> HIDE DEF f, g
    <2>5. /\ f \o g \in Seq(T) /\ Len(f \o g) = Len(q) - 1
          /\ \A i \in 1 .. Len(q) - 1 : (f \o g)[i] = IF i < k THEN f[i] ELSE g[i - (k - 1)]
        <3>1. /\ f \o g \in Seq(T) /\ Len(f \o g) = Len(f) + Len(g)
              /\ \A i \in 1 .. Len(f) + Len(g) :
                    (f \o g)[i] = IF i <= Len(f) THEN f[i] ELSE g[i - Len(f)]
            BY <2>3, <2>4, SMTT(20)
        <3>2. Len(f) + Len(g) = Len(q) - 1 /\ \A i \in Int : i <= Len(f) <=> i < k
            BY <2>1, <2>3, <2>4
        <3> QED
            BY <2>3, <3>1, <3>2
    <2>6. r = f \o g
        BY DEF RemoveAt, f, g
    <2>7. ASSUME NEW i \in 1 .. Len(q) - 1 PROVE (f \o g)[i] = q[IF i < k THEN i ELSE i + 1]
        <3>1. CASE i < k
            BY <2>1, <2>3, <2>5, <3>1
        <3>2. CASE i >= k
            <4>1. i - (k - 1) \in 1 .. Len(q) - k /\ k + (i - (k - 1)) = i + 1
                BY <2>1, <3>2
            <4>2. g[i - (k - 1)] = q[i + 1] /\ ~(i < k)
                BY <2>1, <2>4, <3>2, <4>1
            <4> QED
                BY <2>5, <4>2
        <3>3. i < k \/ i >= k
            BY <2>1
        <3> QED
            BY <3>1, <3>2, <3>3
    <2> HIDE DEF r
    <2>8. r \in Seq(T) /\ Len(r) = Len(q) - 1
        BY <2>5, <2>6
    <2>9. \A i \in 1 .. Len(q) - 1 : r[i] = q[IF i < k THEN i ELSE i + 1]
        BY <2>6, <2>7
    <2> QED
        BY <2>8, <2>9
<1> HIDE DEF r
<1>4. Len(q) \in Nat /\ k \in 1 .. Len(q) /\ DOMAIN q = 1 .. Len(q) /\ DOMAIN r = 1 .. Len(q) - 1
    BY <1>1
<1>2. ToSet(r) = ToSet(q) \ {q[k]}
    <2>1. ASSUME NEW i \in DOMAIN q, i # k PROVE q[i] \in ToSet(r)
        <3>1. CASE i < k
            BY <1>4, <1>1, <3>1 DEF ToSet
        <3>2. CASE i > k
            <4>1. i - 1 \in 1 .. Len(r) /\ r[i - 1] = q[i]
                BY <1>4, <1>1, <3>2
            <4> QED
                BY <4>1, <1>4, <1>1 DEF ToSet
        <3> QED
            BY <1>4, <2>1, <3>1, <3>2
    <2>2. ASSUME NEW i \in DOMAIN r PROVE r[i] \in ToSet(q) /\ r[i] # q[k]
        BY <1>4, <1>1 DEF ToSet
    <2> QED
        BY <1>4, <2>1, <2>2 DEF ToSet
<1>3. \A i, j \in DOMAIN r : r[i] = r[j] => i = j
    <2>1. ASSUME NEW i \in DOMAIN r, NEW j \in DOMAIN r, r[i] = r[j] PROVE i = j
        <3> DEFINE Place(n) == IF n < k THEN n ELSE n + 1
        <3>1. /\ Place(i) \in DOMAIN q /\ Place(j) \in DOMAIN q
              /\ r[i] = q[Place(i)] /\ r[j] = q[Place(j)]
            BY <1>1, <1>4
        <3>2. Place(i) = Place(j)
            BY <2>1, <3>1
        <3> QED
            BY <1>4, <3>2
    <2> QED
        BY <2>1
<1> QED
    BY <1>1, <1>2, <1>3 DEF r

LEMMA LeaveFirst ==
    ASSUME NEW T, NEW q \in Seq(T), q # <<>>, \A i, j \in DOMAIN q : q[i] = q[j] => i = j
    PROVE  /\ Head(q) \in T /\ Head(q) \in ToSet(q)
           /\ Tail(q) \in Seq(T) /\ ToSet(Tail(q)) = ToSet(q) \ {Head(q)}
           /\ \A i, j \in DOMAIN Tail(q) : Tail(q)[i] = Tail(q)[j] => i = j
<1>1. /\ Head(q) = q[1] /\ Len(Tail(q)) = Len(q) - 1 /\ 1 \in DOMAIN q
      /\ \A i \in 1 .. Len(Tail(q)) : Tail(q)[i] = q[i + 1]
    OBVIOUS
<1>2. ToSet(Tail(q)) = ToSet(q) \ {Head(q)}
    <2>1. ASSUME NEW i \in DOMAIN q, i # 1 PROVE q[i] \in ToSet(Tail(q))
        <3>1. i - 1 \in 1 .. Len(Tail(q)) /\ Tail(q)[i - 1] = q[i]
            BY <1>1, <2>1
        <3> QED
            BY <3>1 DEF ToSet
    <2>2. ASSUME NEW i \in DOMAIN Tail(q) PROVE Tail(q)[i] \in ToSet(q) /\ Tail(q)[i] # Head(q)
        BY <1>1 DEF ToSet
    <2> QED
        BY <1>1, <2>1, <2>2 DEF ToSet
<1>3. ASSUME NEW i \in DOMAIN Tail(q), NEW j \in DOMAIN Tail(q), Tail(q)[i] = Tail(q)[j]
      PROVE  i = j
    BY <1>1, <1>3
<1>4. Head(q) \in T /\ Tail(q) \in Seq(T)
    OBVIOUS
<1>5. Head(q) \in ToSet(q)
    BY <1>1 DEF ToSet
<1> QED
    BY <1>2, <1>3, <1>4, <1>5

-----------------------------------------------------------------------------
LEMMA InitInv == Init => Inv
BY ChannelAssumption DEF Init, Inv, TypeOK, OnceInQueue, RequestsLeft, ToSet

\* A stream sends a request: the types of what Send assigns.
LEMMA SendTypes ==
    ASSUME TypeOK, NEW s \in Streams, Send(s), sent < MaxRequests, lock = NoStream
    PROVE  /\ sent' = sent + 1 /\ sent' \in 0 .. MaxRequests
           /\ inbox' \in Seq(1 .. MaxRequests)
           /\ ticket' \in [Streams -> 0 .. sent']
           /\ place' \in [Streams -> {"idle", "waiting", "calling"}] /\ lock' \in Streams
           /\ \A t \in Streams : (place'[t] = "calling") = (lock' = t)
           /\ {t \in Streams : place'[t] = "waiting"} = {t \in Streams : place[t] = "waiting"} \ {s}
<1>1. sent' = sent + 1 /\ sent' \in 1 .. MaxRequests
    BY ChannelAssumption DEF TypeOK, Send
<1>2. inbox' \in Seq(1 .. MaxRequests)
    <2>1. inbox \in Seq(1 .. MaxRequests) /\ sent + 1 \in 1 .. MaxRequests
        BY <1>1 DEF TypeOK, Send
    <2>2. Append(inbox, sent + 1) \in Seq(1 .. MaxRequests)
        BY <2>1
    <2> QED
        BY <2>1, <2>2 DEF Send
<1>3. \A n \in 0 .. sent : n \in 0 .. sent'
    BY <1>1 DEF TypeOK
<1>4. ticket' \in [Streams -> 0 .. sent']
    BY <1>1, <1>3 DEF TypeOK, Send
<1>5. lock' = s /\ place' = [place EXCEPT ![s] = "calling"]
    BY DEF Send
<1>6. /\ place' \in [Streams -> {"idle", "waiting", "calling"}] /\ lock' \in Streams
      /\ \A t \in Streams : (place'[t] = "calling") = (lock' = t)
    BY <1>5, ChannelAssumption DEF TypeOK
<1>7. {t \in Streams : place'[t] = "waiting"} = {t \in Streams : place[t] = "waiting"} \ {s}
    BY <1>5 DEF TypeOK
<1> QED
    BY <1>1, <1>2, <1>4, <1>6, <1>7

\* The holder gives the lock back: the types of what Release assigns.
LEMMA ReleaseTypes ==
    ASSUME TypeOK, Release(lock), lock # NoStream
    PROVE  /\ place' \in [Streams -> {"idle", "waiting", "calling"}]
           /\ lock' = NoStream
           /\ \A t \in Streams : (place'[t] = "calling") = (lock' = t)
           /\ {t \in Streams : place'[t] = "waiting"} = {t \in Streams : place[t] = "waiting"}
BY ChannelAssumption DEF TypeOK, Release

\* The first one of the queue sends its request; so does a caller when it is free.
LEMMA WakeInv == ASSUME Inv, Wake PROVE Inv'
<1> USE DEF Inv, Wake
<1>1. /\ Head(queue) \in Streams /\ Tail(queue) \in Seq(Streams)
      /\ ToSet(Tail(queue)) = ToSet(queue) \ {Head(queue)}
      /\ \A i, j \in DOMAIN Tail(queue) : Tail(queue)[i] = Tail(queue)[j] => i = j
    BY LeaveFirst DEF TypeOK, OnceInQueue
<1>2. Len(queue) \in Nat \ {0} /\ Len(Tail(queue)) = Len(queue) - 1
    BY DEF TypeOK
<1>3. sent < MaxRequests
    BY <1>2, ChannelAssumption DEF RequestsLeft, TypeOK
<1>4. /\ sent' = sent + 1 /\ sent' \in 0 .. MaxRequests
      /\ inbox' \in Seq(1 .. MaxRequests)
      /\ ticket' \in [Streams -> 0 .. sent']
      /\ place' \in [Streams -> {"idle", "waiting", "calling"}] /\ lock' \in Streams
      /\ \A t \in Streams : (place'[t] = "calling") = (lock' = t)
      /\ {t \in Streams : place'[t] = "waiting"}
            = {t \in Streams : place[t] = "waiting"} \ {Head(queue)}
    BY <1>1, <1>3, SendTypes
<1>5. RequestsLeft'
    BY <1>2, <1>4, ChannelAssumption DEF RequestsLeft, TypeOK
<1>6. OnceInQueue'
    BY <1>1 DEF OnceInQueue
<1>7. server' = server /\ queue' = Tail(queue)
    OBVIOUS
<1>8. TypeOK'
    BY <1>1, <1>4, <1>7 DEF TypeOK
<1> QED
    BY <1>5, <1>6, <1>8

LEMMA CallInv == ASSUME Inv, NEW s \in Streams, Call(s) PROVE Inv'
<1> USE DEF Inv
<1>1. server' = server /\ place[s] = "idle" /\ sent + Len(queue) < MaxRequests
    BY DEF Call
<1>2. CASE Free
    <2>1. Send(s) /\ queue' = queue /\ queue = <<>> /\ lock = NoStream
        BY <1>2 DEF Call, Free
    <2>2. sent < MaxRequests
        BY <1>1, <2>1, ChannelAssumption DEF TypeOK
    <2>3. /\ sent' = sent + 1 /\ sent' \in 0 .. MaxRequests
          /\ inbox' \in Seq(1 .. MaxRequests)
          /\ ticket' \in [Streams -> 0 .. sent']
          /\ place' \in [Streams -> {"idle", "waiting", "calling"}] /\ lock' \in Streams
          /\ \A t \in Streams : (place'[t] = "calling") = (lock' = t)
          /\ {t \in Streams : place'[t] = "waiting"} = {t \in Streams : place[t] = "waiting"} \ {s}
        BY <1>1, <2>1, <2>2, SendTypes
    <2>4. {t \in Streams : place'[t] = "waiting"} = ToSet(queue')
        BY <1>1, <2>1, <2>3 DEF TypeOK
    <2>5. TypeOK'
        BY <1>1, <2>1, <2>3, <2>4 DEF TypeOK
    <2>6. OnceInQueue' /\ RequestsLeft'
        BY <1>1, <2>1, <2>3, ChannelAssumption DEF OnceInQueue, RequestsLeft, TypeOK
    <2> QED
        BY <2>5, <2>6
<1>3. CASE ~Free
    <2>1. /\ queue' = Append(queue, s) /\ place' = [place EXCEPT ![s] = "waiting"]
          /\ UNCHANGED <<inbox, sent, ticket, lock>>
        BY <1>3 DEF Call
    <2>2. s \notin ToSet(queue)
        BY <1>1 DEF TypeOK
    <2>3. /\ queue' \in Seq(Streams) /\ ToSet(queue') = ToSet(queue) \cup {s}
          /\ OnceInQueue'
        <3>1. queue \in Seq(Streams) /\ \A i, j \in DOMAIN queue : queue[i] = queue[j] => i = j
            BY DEF TypeOK, OnceInQueue
        <3>2. /\ Append(queue, s) \in Seq(Streams)
              /\ ToSet(Append(queue, s)) = ToSet(queue) \cup {s}
              /\ \A i, j \in DOMAIN Append(queue, s) :
                    Append(queue, s)[i] = Append(queue, s)[j] => i = j
            BY <2>2, <3>1, JoinQueue
        <3> QED
            BY <2>1, <3>2 DEF OnceInQueue
    <2>4. Len(queue') = Len(queue) + 1 /\ Len(queue) \in Nat
        BY <2>1 DEF TypeOK
    <2>5. RequestsLeft'
        BY <1>1, <2>1, <2>4, ChannelAssumption DEF RequestsLeft, TypeOK
    <2>6. place' \in [Streams -> {"idle", "waiting", "calling"}]
        BY <2>1 DEF TypeOK
    <2>7. \A t \in Streams : (place'[t] = "calling") = (lock' = t)
        BY <1>1, <2>1 DEF TypeOK
    <2>8. {t \in Streams : place'[t] = "waiting"} = ToSet(queue')
        BY <2>1, <2>3 DEF TypeOK
    <2>9. TypeOK'
        BY <1>1, <2>1, <2>3, <2>6, <2>7, <2>8 DEF TypeOK
    <2> QED
        BY <2>3, <2>5, <2>9
<1> QED
    BY <1>2, <1>3

LEMMA CancelInv == ASSUME Inv, NEW s \in Streams, Cancel(s) PROVE Inv'
<1> USE DEF Inv
<1>1. UNCHANGED <<server, inbox, sent, ticket>>
    BY DEF Cancel
<1>2. CASE place[s] = "calling"
    <2>1. lock = s /\ lock # NoStream /\ Release(s) /\ queue' = queue
        BY <1>2, ChannelAssumption DEF Cancel, TypeOK
    <2>2. TypeOK'
        BY <1>1, <2>1, ReleaseTypes DEF TypeOK
    <2>3. OnceInQueue' /\ RequestsLeft'
        BY <1>1, <2>1 DEF OnceInQueue, RequestsLeft
    <2> QED
        BY <2>2, <2>3
<1>3. CASE place[s] = "waiting"
    <2>1. /\ \E k \in DOMAIN queue : queue[k] = s /\ queue' = RemoveAt(queue, k)
          /\ place' = [place EXCEPT ![s] = "idle"] /\ lock' = lock
        BY <1>3 DEF Cancel
    <2>2. PICK k \in DOMAIN queue : queue[k] = s /\ queue' = RemoveAt(queue, k)
        BY <2>1
    <2>3. /\ queue' \in Seq(Streams) /\ ToSet(queue') = ToSet(queue) \ {s}
          /\ \A i, j \in DOMAIN queue' : queue'[i] = queue'[j] => i = j
          /\ Len(queue') = Len(queue) - 1 /\ Len(queue) \in Nat
        <3>1. queue \in Seq(Streams) /\ \A i, j \in DOMAIN queue : queue[i] = queue[j] => i = j
            BY DEF TypeOK, OnceInQueue
        <3>2. Len(RemoveAt(queue, k)) = Len(queue) - 1
            BY <3>1, LeaveQueue
        <3> QED
            BY <2>2, <3>1, <3>2, LeaveQueue
    <2>4. place' \in [Streams -> {"idle", "waiting", "calling"}]
        BY <2>1 DEF TypeOK
    <2>5. \A t \in Streams : (place'[t] = "calling") = (lock' = t)
        BY <1>3, <2>1 DEF TypeOK
    <2>6. {t \in Streams : place'[t] = "waiting"} = ToSet(queue')
        BY <2>1, <2>3 DEF TypeOK
    <2>7. TypeOK'
        BY <1>1, <2>1, <2>3, <2>4, <2>5, <2>6 DEF TypeOK
    <2>8. OnceInQueue'
        BY <2>3 DEF OnceInQueue
    <2>9. RequestsLeft'
        BY <1>1, <2>3, ChannelAssumption DEF RequestsLeft, TypeOK
    <2> QED
        BY <2>7, <2>8, <2>9
<1> QED
    BY <1>2, <1>3 DEF Cancel

LEMMA AnswerInv == ASSUME Inv, Answer PROVE Inv'
<1> USE DEF Inv
<1>1. UNCHANGED <<server, sent, ticket, queue>> /\ inbox # <<>> /\ inbox' = Tail(inbox)
    BY DEF Answer
<1>2. inbox' \in Seq(1 .. MaxRequests)
    BY <1>1 DEF TypeOK
<1>3. OnceInQueue' /\ RequestsLeft'
    BY <1>1 DEF OnceInQueue, RequestsLeft
<1>4. CASE ~ Awaited(Head(inbox))
    BY <1>1, <1>2, <1>3, <1>4 DEF Answer, TypeOK
<1>5. CASE Awaited(Head(inbox))
    <2>1. Release(lock) /\ lock # NoStream
        BY <1>5 DEF Answer, Awaited
    <2>2. TypeOK'
        BY <1>1, <1>2, <2>1, ReleaseTypes DEF TypeOK
    <2> QED
        BY <1>3, <2>2
<1> QED
    BY <1>4, <1>5

LEMMA NextInv == ASSUME Inv, [Next]_vars PROVE Inv'
<1>1. CASE Connect
    BY <1>1 DEF Connect, Inv, TypeOK, OnceInQueue, RequestsLeft
<1>2. CASE Close
    BY <1>2 DEF Close, Inv, TypeOK, OnceInQueue, RequestsLeft
<1>3. CASE \E s \in Streams : Call(s) \/ Cancel(s)
    BY <1>3, CallInv, CancelInv
<1>4. CASE Wake
    BY <1>4, WakeInv
<1>5. CASE Answer
    BY <1>5, AnswerInv
<1>6. CASE Break
    <2>1. inbox' \in Seq(1 .. MaxRequests) /\ server' \in {"none", "up", "hung", "dead"}
        <3>1. <<>> \in Seq(1 .. MaxRequests) /\ inbox \in Seq(1 .. MaxRequests)
            BY DEF Inv, TypeOK
        <3>2. inbox' = inbox \/ inbox' = <<>>
            BY <1>6 DEF Break
        <3>3. server' \in {"hung", "dead"}
            BY <1>6 DEF Break
        <3> QED
            BY <3>1, <3>2, <3>3
    <2>2. UNCHANGED <<sent, place, ticket, lock, queue>>
        BY <1>6 DEF Break
    <2>3. TypeOK'
        BY <2>1, <2>2 DEF Inv, TypeOK
    <2> QED
        BY <2>2, <2>3 DEF Inv, OnceInQueue, RequestsLeft
<1>7. CASE Raise
    <2>1. /\ Release(lock) /\ lock # NoStream
          /\ UNCHANGED <<server, inbox, sent, ticket, queue>>
        BY <1>7 DEF Raise
    <2>2. TypeOK'
        BY <2>1, ReleaseTypes DEF Inv, TypeOK
    <2>3. OnceInQueue' /\ RequestsLeft'
        BY <2>1 DEF Inv, OnceInQueue, RequestsLeft
    <2> QED
        BY <2>2, <2>3 DEF Inv
<1>8. CASE UNCHANGED vars
    BY <1>8 DEF vars, Inv, TypeOK, OnceInQueue, RequestsLeft
<1> QED
    BY <1>1, <1>2, <1>3, <1>4, <1>5, <1>6, <1>7, <1>8 DEF Next

\* The state is well typed: the stream that holds the lock is the one that calls,
\* and those who wait are those in the queue (the async with of call_tool).
THEOREM TypeCorrect == Spec => []TypeOK
<1>1. Inv => TypeOK
    BY DEF Inv
<1> QED
    BY <1>1, InitInv, NextInv, PTL DEF Spec

-----------------------------------------------------------------------------
\* The server has requests in the order they were made, and what the holder of the lock
\* waits for is the last one made.
Serial ==
    /\ \A i \in 1 .. Len(inbox) : inbox[i] <= sent
    /\ \A i, j \in 1 .. Len(inbox) : i < j => inbox[i] < inbox[j]
    /\ lock # NoStream => ticket[lock] = sent

LEMMA SendSerial ==
    ASSUME TypeOK, Serial, NEW s \in Streams, Send(s)
    PROVE  Serial'
<1>1. /\ sent \in Nat /\ sent' = sent + 1 /\ lock' = s /\ ticket' = [ticket EXCEPT ![s] = sent + 1]
      /\ inbox' = inbox \/ inbox' = Append(inbox, sent + 1)
    BY ChannelAssumption DEF TypeOK, Send
<1>2. inbox \in Seq(Nat) /\ Len(inbox) \in Nat /\ \A i \in 1 .. Len(inbox) : inbox[i] \in Nat
    <2>1. inbox \in Seq(1 .. MaxRequests)
        BY DEF TypeOK
    <2>2. QED
        BY <2>1, ChannelAssumption
<1>3. ticket'[lock'] = sent'
    BY <1>1 DEF TypeOK
<1>4. CASE inbox' = inbox
    BY <1>1, <1>2, <1>3, <1>4 DEF Serial
<1>5. CASE inbox' = Append(inbox, sent + 1)
    <2>1. /\ Len(inbox') = Len(inbox) + 1 /\ inbox'[Len(inbox) + 1] = sent + 1
          /\ \A i \in 1 .. Len(inbox) : inbox'[i] = inbox[i]
        BY <1>2, <1>5
    <2>2. \A i \in 1 .. Len(inbox') : i \in 1 .. Len(inbox) \/ i = Len(inbox) + 1
        BY <1>2, <2>1
    <2>3. \A i \in 1 .. Len(inbox') : inbox'[i] <= sent'
        BY <1>1, <1>2, <2>1, <2>2 DEF Serial
    <2>4. \A i, j \in 1 .. Len(inbox') : i < j => inbox'[i] < inbox'[j]
        <3>1. SUFFICES ASSUME NEW i \in 1 .. Len(inbox'), NEW j \in 1 .. Len(inbox'), i < j
                       PROVE  inbox'[i] < inbox'[j]
            OBVIOUS
        <3>2. i \in 1 .. Len(inbox) /\ inbox'[i] = inbox[i]
            BY <1>2, <2>1, <3>1
        <3>3. CASE j \in 1 .. Len(inbox)
            BY <2>1, <3>1, <3>2, <3>3 DEF Serial
        <3>4. CASE j = Len(inbox) + 1
            BY <1>1, <1>2, <2>1, <3>2, <3>4 DEF Serial
        <3>5. QED
            BY <2>2, <3>3, <3>4
    <2>5. QED
        BY <1>3, <2>3, <2>4 DEF Serial
<1>6. QED
    BY <1>1, <1>4, <1>5

LEMMA NextSerial == ASSUME Inv, Serial, [Next]_vars PROVE Serial'
<1>1. TypeOK
    BY DEF Inv
<1>2. ASSUME NEW s \in Streams, Send(s) PROVE Serial'
    BY <1>1, <1>2, SendSerial
<1>3. ASSUME inbox' = inbox \/ inbox' = <<>>, UNCHANGED <<sent, ticket>>, lock' = lock \/ lock' = NoStream
      PROVE  Serial'
    BY <1>3 DEF Serial
<1>4. ASSUME NEW s \in Streams, Call(s) PROVE Serial'
    <2>1. Send(s) \/ UNCHANGED <<inbox, sent, ticket, lock>>
        BY <1>4 DEF Call
    <2>2. QED
        BY <1>2, <1>3, <2>1
<1>5. CASE Wake
    <2>1. Send(Head(queue)) /\ queue # <<>>
        BY <1>5 DEF Wake
    <2>2. Head(queue) \in Streams
        BY <1>1, <2>1 DEF TypeOK
    <2>3. QED
        BY <1>2, <2>1, <2>2
<1>6. CASE Answer
    <2>1. inbox # <<>> /\ inbox' = Tail(inbox) /\ UNCHANGED <<sent, ticket>> /\ (lock' = lock \/ lock' = NoStream)
        BY <1>6 DEF Answer, Release
    <2>2. inbox \in Seq(1 .. MaxRequests)
        BY <1>1 DEF TypeOK
    <2>3. /\ Len(inbox') \in Nat /\ Len(inbox) = Len(inbox') + 1
          /\ \A i \in 1 .. Len(inbox') : inbox'[i] = inbox[i + 1] /\ i + 1 \in 1 .. Len(inbox)
        BY <2>1, <2>2
    <2>4. QED
        BY <2>1, <2>3 DEF Serial
<1>7. CASE Connect \/ Close \/ Break \/ Raise \/ UNCHANGED vars
    BY <1>3, <1>7 DEF Connect, Close, Break, Raise, Release, vars
<1>8. ASSUME NEW s \in Streams, Cancel(s) PROVE Serial'
    BY <1>3, <1>8 DEF Cancel, Release
<1>9. QED
    BY <1>4, <1>5, <1>6, <1>7, <1>8 DEF Next

LEMMA SerialOne == ASSUME Inv, Serial PROVE OneAtATime
<1> SUFFICES ASSUME NEW i \in DOMAIN inbox, NEW s \in Streams, place[s] = "calling", ticket[s] = inbox[i]
             PROVE  i = Len(inbox)
    BY DEF OneAtATime
<1>1. inbox \in Seq(1 .. MaxRequests) /\ lock = s /\ lock # NoStream
    BY ChannelAssumption DEF Inv, TypeOK
<1>2. inbox[i] = sent /\ sent \in Nat
    BY <1>1, ChannelAssumption DEF Serial, Inv, TypeOK
<1>3. /\ Len(inbox) \in Nat /\ i \in 1 .. Len(inbox) /\ Len(inbox) \in 1 .. Len(inbox)
      /\ inbox[Len(inbox)] \in Nat
    BY <1>1, ChannelAssumption
<1>4. inbox[Len(inbox)] <= sent /\ (i < Len(inbox) => inbox[i] < inbox[Len(inbox)])
    BY <1>3 DEF Serial
<1>5. QED
    BY <1>2, <1>3, <1>4

\* Of the requests the server has not answered only the last is one that somebody still
\* waits for, whoever is cancelled in call or in the queue (mcp_client.py).
THEOREM CallsAlwaysSerialized == Spec => []CallsSerialized
<1>1. Init => Serial
    BY DEF Init, Serial
<1>2. Inv /\ Serial => CallsSerialized
    BY SerialOne DEF CallsSerialized
<1>3. Inv /\ Serial /\ [Next]_vars => Inv' /\ Serial'
    BY NextInv, NextSerial
<1> QED
    BY <1>1, <1>2, <1>3, InitInv, PTL DEF Spec

-----------------------------------------------------------------------------
(* The page. *)

\* The conversation a question was meant for.
Place(q) == IF meant[q] # U!NoChat THEN meant[q] ELSE given[q]

ServerOK ==
    /\ made \in 0 .. MaxChats /\ there \subseteq 1 .. made
    /\ saved \in [U!Chats -> Seq(U!Entry)]
    /\ \A c \in U!Chats : c > made => saved[c] = <<>>

PageOK == convId \in 0 .. made /\ log \in Seq(U!Entry)

\* How far an ask() is: it is for the conversation it was meant for.
AskOK(q) ==
    /\ ask[q] \in {"creating", "created"} => meant[q] = U!NoChat
    /\ ask[q] = "created" => given[q] # U!NoChat
    /\ ask[q] \in {"posted", "streaming", "closing"} => cid[q] # U!NoChat /\ cid[q] = Place(q)

AskingOK ==
    /\ ask \in [Questions -> {"none", "creating", "created", "posted", "streaming", "closing", "ended"}]
    /\ cid \in [Questions -> 0 .. made] /\ meant \in [Questions -> 0 .. made]
    /\ given \in [Questions -> 0 .. made]
    /\ \A q \in Questions : AskOK(q)

\* A click that is under way is of a conversation there was, or has its answer.
ClickOK(f) ==
    /\ f.id <= clicked /\ f.chat \in -made .. made
    /\ f.kind = "delete" \/ (f.kind = "open" /\ ~ f.served) \/ (f.kind = "new" /\ f.served) => f.chat > 0

FlightOK ==
    /\ flight \subseteq U!Click /\ clicked \in 0 .. MaxClicks
    /\ \A f, g \in flight : f.id = g.id => f = g
    /\ \A f \in flight : ClickOK(f)

\* What is saved was posted, and where it was meant to be.
RowsOK ==
    \A c \in U!Chats : \A i \in 1 .. Len(saved[c]) :
        /\ ask[saved[c][i].q] \notin {"none", "creating", "created"}
        /\ c = Place(saved[c][i].q)

FaultsOK == faults \in 0 .. MaxFaults /\ view \in {"true", "muddled", "reloading"}

PlacedInv == ServerOK /\ PageOK /\ AskingOK /\ FlightOK /\ RowsOK /\ FaultsOK

LEMMA PlacedInvSays == ASSUME U!UiAssumption, PlacedInv PROVE U!QuestionsPlaced
<1>1. U!TypeOK
    BY DEF PlacedInv, ServerOK, PageOK, AskingOK, AskOK, FlightOK, FaultsOK, U!TypeOK
<1>2. \A c \in U!Chats : DOMAIN saved[c] = 1 .. Len(saved[c])
    BY DEF PlacedInv, ServerOK
<1>3. U!AsksGoWhereMeant
    BY <1>2 DEF PlacedInv, RowsOK, Place, U!AsksGoWhereMeant
<1>4. QED
    BY <1>1, <1>3 DEF U!QuestionsPlaced

LEMMA InitPlaced == ASSUME U!UiAssumption, U!Init PROVE PlacedInv
<1>1. \A c \in U!Chats : saved[c] = <<>>
    BY DEF U!Init
<1>2. ServerOK
    BY <1>1 DEF U!Init, ServerOK, U!UiAssumption
<1>3. PageOK /\ FlightOK /\ FaultsOK
    BY DEF U!Init, PageOK, FlightOK, FaultsOK, U!NoChat, U!UiAssumption
<1>4. AskingOK
    BY DEF U!Init, AskingOK, AskOK, U!NoChat
<1>5. RowsOK
    BY <1>1 DEF RowsOK
<1>6. QED
    BY <1>2, <1>3, <1>4, <1>5 DEF PlacedInv

LEMMA SamePage ==
    ASSUME PageOK, UNCHANGED <<convId, log>>, made \in Nat, made' \in Nat, made <= made'
    PROVE  PageOK'
BY DEF PageOK

LEMMA SameAsking ==
    ASSUME AskingOK, UNCHANGED <<ask, cid, meant, given>>, made \in Nat, made' \in Nat, made <= made'
    PROVE  AskingOK'
<1>1. cid' \in [Questions -> 0 .. made'] /\ meant' \in [Questions -> 0 .. made']
      /\ given' \in [Questions -> 0 .. made']
    BY DEF AskingOK
<1>2. \A q \in Questions : AskOK(q)'
    BY DEF AskingOK, AskOK, Place
<1>3. QED
    BY <1>1, <1>2 DEF AskingOK

LEMMA SameFlight ==
    ASSUME FlightOK, flight' \subseteq flight, clicked' = clicked, made \in Nat, made' \in Nat, made <= made'
    PROVE  FlightOK'
<1>1. \A f \in flight : ClickOK(f)'
    <2>1. SUFFICES ASSUME NEW f \in flight PROVE ClickOK(f)'
        OBVIOUS
    <2>2. ClickOK(f) /\ f \in U!Click
        BY DEF FlightOK
    <2>3. QED
        BY <2>2 DEF ClickOK, U!Click
<1>2. QED
    BY <1>1 DEF FlightOK

LEMMA SameRows ==
    ASSUME RowsOK, UNCHANGED saved, NEW S, S = {q \in Questions : ask[q] \notin {"none", "creating", "created"}},
           \A q \in S : ask'[q] \notin {"none", "creating", "created"} /\ Place(q)' = Place(q),
           ServerOK
    PROVE  RowsOK'
<1>1. \A c \in U!Chats : \A i \in 1 .. Len(saved[c]) : saved[c][i].q \in Questions
    <2>1. \A c \in U!Chats : \A i \in 1 .. Len(saved[c]) : saved[c][i] \in U!Entry
        BY DEF ServerOK
    <2>2. QED
        BY <2>1 DEF U!Entry
<1>2. SUFFICES ASSUME NEW c \in U!Chats, NEW i \in 1 .. Len(saved[c])
               PROVE  /\ ask'[saved[c][i].q] \notin {"none", "creating", "created"}
                      /\ c = Place(saved[c][i].q)'
    BY DEF RowsOK
<1>3. saved[c][i].q \in S /\ c = Place(saved[c][i].q)
    BY <1>1 DEF RowsOK
<1>4. QED
    BY <1>3

\* What all the steps use.
LEMMA PlacedTypes ==
    ASSUME U!UiAssumption, PlacedInv
    PROVE  /\ made \in Nat /\ made <= MaxChats /\ MaxChats \in Nat /\ MaxClicks \in Nat /\ MaxFaults \in Nat
           /\ convId \in 0 .. made /\ log \in Seq(U!Entry) /\ clicked \in Nat
           /\ \A c \in U!Chats : saved[c] \in Seq(U!Entry)
           /\ \A q \in Questions : U!Both(q) \in Seq(U!Entry) /\ U!Both(q)[1] \in U!Entry /\ U!Both(q)[2] \in U!Entry
           /\ \A q \in Questions : U!Both(q)[1].q = q /\ U!Both(q)[2].q = q
<1>1. \A q \in Questions : U!Both(q) \in Seq(U!Entry) /\ U!Both(q)[1] \in U!Entry /\ U!Both(q)[2] \in U!Entry
    BY DEF U!Both, U!Entry
<1>2. \A q \in Questions : U!Both(q)[1].q = q /\ U!Both(q)[2].q = q
    BY DEF U!Both
<1>3. QED
    BY <1>1, <1>2 DEF PlacedInv, ServerOK, PageOK, FlightOK, U!UiAssumption

\* The last part of ask().
LEMMA PostsPlaced ==
    ASSUME U!UiAssumption, PlacedInv, NEW q \in Questions, NEW c \in 1 .. made, U!Posts(q, c), UNCHANGED given,
           meant' \in [Questions -> 0 .. made], made' = made,
           \A p \in Questions \ {q} : meant'[p] = meant[p],
           c = IF meant'[q] # U!NoChat THEN meant'[q] ELSE given[q]
    PROVE  AskingOK' /\ log' \in Seq(U!Entry) /\ ask'[q] = "posted" /\ \A p \in Questions \ {q} : ask'[p] = ask[p]
<1>1. log' \in Seq(U!Entry)
    BY PlacedTypes DEF U!Posts
<1>2. /\ ask' \in [Questions -> {"none", "creating", "created", "posted", "streaming", "closing", "ended"}]
      /\ cid' \in [Questions -> 0 .. made]
      /\ ask'[q] = "posted" /\ cid'[q] = c
      /\ \A p \in Questions \ {q} : ask'[p] = ask[p] /\ cid'[p] = cid[p]
    BY PlacedTypes DEF PlacedInv, AskingOK, U!Posts
<1>3. ASSUME NEW p \in Questions
      PROVE  AskOK(p)'
    <2>1. CASE p = q
        BY <1>2, <2>1, PlacedTypes DEF AskOK, Place, U!NoChat
    <2>2. CASE p # q
        BY <1>2, <2>2 DEF PlacedInv, AskingOK, AskOK, Place
    <2>3. QED
        BY <2>1, <2>2
<1>4. AskingOK'
    BY <1>2, <1>3 DEF PlacedInv, AskingOK
<1>5. QED
    BY <1>1, <1>2, <1>4

LEMMA SubmitPlaced == ASSUME U!UiAssumption, PlacedInv, NEW q \in Questions, U!Submit(q) PROVE PlacedInv'
<1>1. /\ ask[q] = "none" /\ meant' = [meant EXCEPT ![q] = convId]
      /\ UNCHANGED <<made, there, saved, convId, given, flight, clicked, faults>>
    BY DEF U!Submit, U!server
<1>2. /\ meant' \in [Questions -> 0 .. made] /\ meant'[q] = convId
      /\ \A p \in Questions \ {q} : meant'[p] = meant[p]
    BY <1>1, PlacedTypes DEF PlacedInv, AskingOK
<1>3. AskingOK' /\ log' \in Seq(U!Entry) /\ \A p \in Questions \ {q} : ask'[p] = ask[p]
    <2>1. CASE convId # U!NoChat
        <3>1. U!Posts(q, convId) /\ convId \in 1 .. made
            BY <2>1, PlacedTypes DEF U!Submit, U!NoChat
        <3>2. PICK c \in 1 .. made : c = convId
            BY <3>1
        <3>3. U!Posts(q, c)
            BY <3>1, <3>2
        <3>4. QED
            BY <1>1, <1>2, <2>1, <3>2, <3>3, PostsPlaced
    <2>2. CASE convId = U!NoChat
        <3>1. ask' = [ask EXCEPT ![q] = "creating"] /\ UNCHANGED <<log, cid>>
            BY <2>2 DEF U!Submit
        <3>2. /\ ask' \in [Questions -> {"none", "creating", "created", "posted", "streaming", "closing", "ended"}]
              /\ ask'[q] = "creating" /\ \A p \in Questions \ {q} : ask'[p] = ask[p]
            BY <3>1 DEF PlacedInv, AskingOK
        <3>3. \A p \in Questions : AskOK(p)'
            BY <1>1, <1>2, <2>2, <3>1, <3>2 DEF PlacedInv, AskingOK, AskOK, Place
        <3>4. QED
            BY <1>1, <1>2, <3>1, <3>2, <3>3, PlacedTypes DEF PlacedInv, AskingOK
    <2>3. QED
        BY <2>1, <2>2
<1>4. RowsOK'
    <2>1. PICK S : S = {p \in Questions : ask[p] \notin {"none", "creating", "created"}}
        OBVIOUS
    <2>2. \A p \in S : ask'[p] \notin {"none", "creating", "created"} /\ Place(p)' = Place(p)
        BY <1>1, <1>2, <1>3, <2>1 DEF Place
    <2>3. QED
        BY <1>1, <2>1, <2>2, SameRows DEF PlacedInv
<1>5. FaultsOK'
    BY <1>1 DEF U!Submit, U!Starts, PlacedInv, FaultsOK
<1>6. ServerOK' /\ PageOK' /\ FlightOK'
    BY <1>1, <1>3, PlacedTypes DEF PlacedInv, ServerOK, PageOK, FlightOK, ClickOK
<1>7. QED
    BY <1>3, <1>4, <1>5, <1>6 DEF PlacedInv

LEMMA EnsuredPlaced == ASSUME U!UiAssumption, PlacedInv, NEW q \in Questions, U!Ensured(q) PROVE PlacedInv'
<1>1. /\ ask[q] = "created" /\ convId' = given[q] /\ U!Posts(q, given[q])
      /\ UNCHANGED <<made, there, saved, meant, given, flight, clicked, faults, view>>
    BY DEF U!Ensured, U!server
<1>2. PICK c \in 1 .. made : c = given[q] /\ meant[q] = U!NoChat
    BY <1>1, PlacedTypes DEF PlacedInv, AskingOK, AskOK, U!NoChat
<1>3. U!Posts(q, c) /\ meant' = meant /\ meant \in [Questions -> 0 .. made]
    BY <1>1, <1>2 DEF PlacedInv, AskingOK
<1>4. AskingOK' /\ log' \in Seq(U!Entry) /\ ask'[q] = "posted" /\ \A p \in Questions \ {q} : ask'[p] = ask[p]
    BY <1>1, <1>2, <1>3, PostsPlaced
<1>5. RowsOK'
    <2>1. PICK S : S = {p \in Questions : ask[p] \notin {"none", "creating", "created"}}
        OBVIOUS
    <2>2. \A p \in S : ask'[p] \notin {"none", "creating", "created"} /\ Place(p)' = Place(p)
        BY <1>1, <1>4, <2>1 DEF Place
    <2>3. QED
        BY <1>1, <2>1, <2>2, SameRows DEF PlacedInv
<1>6. ServerOK' /\ PageOK' /\ FlightOK' /\ FaultsOK'
    BY <1>1, <1>2, <1>4, PlacedTypes DEF PlacedInv, ServerOK, PageOK, FlightOK, ClickOK, FaultsOK
<1>7. QED
    BY <1>4, <1>5, <1>6 DEF PlacedInv

\* The server makes a conversation.
LEMMA CreatesServer ==
    ASSUME U!UiAssumption, PlacedInv, NEW c \in U!Chats, U!Creates(c), saved' = saved
    PROVE  ServerOK' /\ c \in 1 .. made' /\ made' = made + 1 /\ saved[c] = <<>> /\ c \in there' /\ c # U!NoChat
<1>1. c = made + 1 /\ made' = c /\ there' = there \cup {c} /\ made < MaxChats
    BY DEF U!Creates
<1>2. QED
    BY <1>1, PlacedTypes DEF PlacedInv, ServerOK, U!NoChat, U!Chats

LEMMA ServeEnsurePlaced ==
    ASSUME U!UiAssumption, PlacedInv, NEW q \in Questions, U!ServeEnsure(q) PROVE PlacedInv'
<1>1. PICK c \in U!Chats : U!Creates(c) /\ given' = [given EXCEPT ![q] = c]
    BY DEF U!ServeEnsure
<1>2. /\ ask[q] = "creating" /\ ask' = [ask EXCEPT ![q] = "created"]
      /\ UNCHANGED <<saved, convId, log, cid, meant, flight, clicked, faults, view>>
    BY DEF U!ServeEnsure, U!page
<1>3. ServerOK' /\ c \in 1 .. made' /\ made' = made + 1
    BY <1>1, <1>2, CreatesServer
<1>4. made \in Nat /\ made' \in Nat /\ made <= made'
    BY <1>3, PlacedTypes
<1>5. /\ ask' \in [Questions -> {"none", "creating", "created", "posted", "streaming", "closing", "ended"}]
      /\ ask'[q] = "created" /\ given'[q] = c
      /\ \A p \in Questions \ {q} : ask'[p] = ask[p] /\ given'[p] = given[p]
    BY <1>1, <1>2 DEF PlacedInv, AskingOK
<1>6. AskingOK'
    <2>1. cid' \in [Questions -> 0 .. made'] /\ meant' \in [Questions -> 0 .. made']
        BY <1>2, <1>4 DEF PlacedInv, AskingOK
    <2>2. given' \in [Questions -> 0 .. made']
        BY <1>1, <1>3, <1>4 DEF PlacedInv, AskingOK
    <2>3. \A p \in Questions : AskOK(p)'
        BY <1>2, <1>3, <1>5 DEF PlacedInv, AskingOK, AskOK, Place, U!NoChat
    <2>4. QED
        BY <1>5, <2>1, <2>2, <2>3 DEF AskingOK
<1>7. RowsOK'
    <2>1. PICK S : S = {p \in Questions : ask[p] \notin {"none", "creating", "created"}}
        OBVIOUS
    <2>2. \A p \in S : ask'[p] \notin {"none", "creating", "created"} /\ Place(p)' = Place(p)
        BY <1>2, <1>5, <2>1 DEF Place
    <2>3. QED
        BY <1>2, <2>1, <2>2, SameRows DEF PlacedInv
<1>8. PageOK' /\ FlightOK' /\ FaultsOK'
    BY <1>2, <1>4, SamePage, SameFlight DEF PlacedInv, FaultsOK
<1>9. QED
    BY <1>3, <1>6, <1>7, <1>8 DEF PlacedInv

\* A row of q joins a transcript.
LEMMA AppendsRow ==
    ASSUME U!UiAssumption, PlacedInv, NEW q \in Questions, NEW c \in 1 .. made, c = Place(q), NEW e \in U!Entry,
           e.q = q, saved' = [saved EXCEPT ![c] = Append(@, e)], made' = made, there' = there \cup {c},
           UNCHANGED <<meant, given>>, ask[q] \notin {"none", "creating", "created"},
           \A p \in Questions : ask[p] \notin {"none", "creating", "created"} =>
               ask'[p] \notin {"none", "creating", "created"}
    PROVE  ServerOK' /\ RowsOK'
<1>1. /\ c \in U!Chats /\ saved[c] \in Seq(U!Entry) /\ made \in Nat
      /\ saved'[c] = Append(saved[c], e) /\ \A d \in U!Chats \ {c} : saved'[d] = saved[d]
      /\ saved' \in [U!Chats -> Seq(U!Entry)]
    BY PlacedTypes DEF PlacedInv, ServerOK, U!Chats
<1>2. ServerOK'
    <2>1. made' \in 0 .. MaxChats /\ there' \subseteq 1 .. made'
        BY <1>1 DEF PlacedInv, ServerOK
    <2>2. \A d \in U!Chats : d > made' => saved'[d] = <<>>
        BY <1>1 DEF PlacedInv, ServerOK, U!Chats
    <2>3. QED
        BY <1>1, <2>1, <2>2 DEF ServerOK
<1>3. ASSUME NEW d \in U!Chats, NEW i \in 1 .. Len(saved'[d])
      PROVE  \E p \in Questions : p = saved'[d][i].q /\ d = Place(p)
                                 /\ ask[p] \notin {"none", "creating", "created"}
    <2>1. CASE d = c /\ i = Len(saved[c]) + 1
        <3>1. saved'[d][i] = e
            BY <1>1, <2>1
        <3>2. QED
            BY <2>1, <3>1
    <2>2. CASE ~ (d = c /\ i = Len(saved[c]) + 1)
        <3>1. i \in 1 .. Len(saved[d]) /\ saved'[d][i] = saved[d][i]
            BY <1>1, <1>3, <2>2
        <3>2. saved[d][i] \in U!Entry
            BY <1>3, <3>1, PlacedTypes
        <3>3. saved[d][i].q \in Questions
            BY <3>2 DEF U!Entry
        <3>4. ask[saved[d][i].q] \notin {"none", "creating", "created"} /\ d = Place(saved[d][i].q)
            BY <3>1 DEF PlacedInv, RowsOK
        <3>5. QED
            BY <3>1, <3>3, <3>4
    <2>3. QED
        BY <2>1, <2>2
<1>4. \A p \in Questions : Place(p)' = Place(p)
    BY DEF Place
<1>5. RowsOK'
    <2>1. ASSUME NEW d \in U!Chats, NEW i \in 1 .. Len(saved'[d])
          PROVE  \E p \in Questions : /\ p = saved'[d][i].q /\ ask'[p] \notin {"none", "creating", "created"}
                                     /\ d = (IF meant'[p] # U!NoChat THEN meant'[p] ELSE given'[p])
        <3>1. PICK p \in Questions : p = saved'[d][i].q /\ d = Place(p)
                                     /\ ask[p] \notin {"none", "creating", "created"}
            BY <1>3, <2>1
        <3>2. QED
            BY <3>1 DEF Place
    <2>2. QED
        BY <2>1, SMTT(20) DEF RowsOK, Place
<1>6. QED
    BY <1>2, <1>5

\* An ask() goes on, and nothing else of it changes.
LEMMA GoesOn ==
    ASSUME PlacedInv, NEW q \in Questions, ask[q] \in {"posted", "streaming", "closing"},
           NEW to \in {"streaming", "closing", "ended"}, ask' = [ask EXCEPT ![q] = to],
           UNCHANGED <<made, cid, meant, given>>
    PROVE  /\ AskingOK' /\ ask'[q] = to
           /\ \A p \in Questions \ {q} : ask'[p] = ask[p]
           /\ \A p \in Questions : ask[p] \notin {"none", "creating", "created"} =>
                  ask'[p] \notin {"none", "creating", "created"}
<1>1. /\ ask' \in [Questions -> {"none", "creating", "created", "posted", "streaming", "closing", "ended"}]
      /\ ask'[q] = to /\ \A p \in Questions \ {q} : ask'[p] = ask[p]
    BY DEF PlacedInv, AskingOK
<1>2. \A p \in Questions : AskOK(p)'
    BY <1>1 DEF PlacedInv, AskingOK, AskOK, Place
<1>3. QED
    BY <1>1, <1>2 DEF PlacedInv, AskingOK

LEMMA ServeChatPlaced ==
    ASSUME U!UiAssumption, PlacedInv, NEW q \in Questions, U!ServeChat(q) PROVE PlacedInv'
<1>1. /\ ask[q] = "posted"
      /\ UNCHANGED <<there, made, convId, log, cid, meant, given, flight, clicked, faults, view>>
    BY DEF U!ServeChat, U!page
<1>2. cid[q] \in 0 .. made /\ cid[q] # U!NoChat /\ cid[q] = Place(q)
    BY <1>1 DEF PlacedInv, AskingOK, AskOK
<1>3. PICK to \in {"streaming", "closing", "ended"} : ask' = [ask EXCEPT ![q] = to]
    BY DEF U!ServeChat
<1>4. /\ AskingOK' /\ \A p \in Questions : ask[p] \notin {"none", "creating", "created"} =>
                          ask'[p] \notin {"none", "creating", "created"}
    BY <1>1, <1>3, GoesOn
<1>5. ServerOK' /\ RowsOK'
    <2>1. CASE cid[q] \in there
        <3>1. PICK c \in 1 .. made : c = cid[q]
            BY <1>2 DEF U!NoChat
        <3>2. PICK e \in U!Entry : e = U!Both(q)[1] /\ e.q = q
            BY PlacedTypes
        <3>3. saved' = [saved EXCEPT ![c] = Append(@, e)] /\ there' = there \cup {c}
            BY <1>1, <2>1, <3>1, <3>2 DEF U!ServeChat
        <3>4. QED
            BY <1>1, <1>2, <1>4, <3>1, <3>2, <3>3, AppendsRow
    <2>2. CASE cid[q] \notin there
        <3>1. UNCHANGED saved
            BY <2>2 DEF U!ServeChat
        <3>2. PICK S : S = {p \in Questions : ask[p] \notin {"none", "creating", "created"}}
            OBVIOUS
        <3>3. \A p \in S : ask'[p] \notin {"none", "creating", "created"} /\ Place(p)' = Place(p)
            BY <1>1, <1>4, <3>2 DEF Place
        <3>4. RowsOK'
            BY <3>1, <3>2, <3>3, SameRows DEF PlacedInv
        <3>5. QED
            BY <1>1, <3>1, <3>4 DEF PlacedInv, ServerOK
    <2>3. QED
        BY <2>1, <2>2
<1>6. PageOK' /\ FlightOK' /\ FaultsOK'
    BY <1>1, PlacedTypes, SamePage, SameFlight DEF PlacedInv, FaultsOK
<1>7. QED
    BY <1>4, <1>5, <1>6 DEF PlacedInv

LEMMA EndStreamPlaced ==
    ASSUME U!UiAssumption, PlacedInv, NEW q \in Questions, U!EndStream(q) PROVE PlacedInv'
<1>1. /\ ask[q] = "streaming" /\ ask' = [ask EXCEPT ![q] = "closing"]
      /\ there' = there \cup {cid[q]} /\ saved' = [saved EXCEPT ![cid[q]] = Append(@, U!Both(q)[2])]
      /\ UNCHANGED <<made, convId, log, cid, meant, given, flight, clicked, faults, view>>
    BY DEF U!EndStream, U!page
<1>2. cid[q] \in 0 .. made /\ cid[q] # U!NoChat /\ cid[q] = Place(q)
    BY <1>1 DEF PlacedInv, AskingOK, AskOK
<1>3. /\ AskingOK' /\ \A p \in Questions : ask[p] \notin {"none", "creating", "created"} =>
                          ask'[p] \notin {"none", "creating", "created"}
    BY <1>1, GoesOn
<1>4. PICK c \in 1 .. made : c = cid[q]
    BY <1>2 DEF U!NoChat
<1>5. PICK e \in U!Entry : e = U!Both(q)[2] /\ e.q = q
    BY PlacedTypes
<1>6. ServerOK' /\ RowsOK'
    BY <1>1, <1>2, <1>3, <1>4, <1>5, AppendsRow
<1>7. PageOK' /\ FlightOK' /\ FaultsOK'
    BY <1>1, PlacedTypes, SamePage, SameFlight DEF PlacedInv, FaultsOK
<1>8. QED
    BY <1>3, <1>6, <1>7 DEF PlacedInv

LEMMA AskEndsPlaced ==
    ASSUME U!UiAssumption, PlacedInv, NEW q \in Questions, U!AskEnds(q) PROVE PlacedInv'
<1>1. /\ ask[q] = "closing" /\ ask' = [ask EXCEPT ![q] = "ended"]
      /\ UNCHANGED <<made, there, saved, convId, log, cid, meant, given, flight, clicked, faults, view>>
    BY DEF U!AskEnds, U!server, U!page
<1>2. /\ AskingOK' /\ \A p \in Questions : ask[p] \notin {"none", "creating", "created"} =>
                          ask'[p] \notin {"none", "creating", "created"}
    BY <1>1, GoesOn
<1>3. RowsOK'
    <2>1. PICK S : S = {p \in Questions : ask[p] \notin {"none", "creating", "created"}}
        OBVIOUS
    <2>2. \A p \in S : ask'[p] \notin {"none", "creating", "created"} /\ Place(p)' = Place(p)
        BY <1>1, <1>2, <2>1 DEF Place
    <2>3. QED
        BY <1>1, <2>1, <2>2, SameRows DEF PlacedInv
<1>4. ServerOK' /\ PageOK' /\ FlightOK' /\ FaultsOK'
    BY <1>1, PlacedTypes, SamePage, SameFlight DEF PlacedInv, ServerOK, FaultsOK
<1>5. QED
    BY <1>2, <1>3, <1>4 DEF PlacedInv

LEMMA SameRowsAsking ==
    ASSUME ServerOK, RowsOK, UNCHANGED <<saved, ask, meant, given>> PROVE RowsOK'
<1>1. PICK S : S = {p \in Questions : ask[p] \notin {"none", "creating", "created"}}
    OBVIOUS
<1>2. \A p \in S : ask'[p] \notin {"none", "creating", "created"} /\ Place(p)' = Place(p)
    BY <1>1 DEF Place
<1>3. QED
    BY <1>1, <1>2, SameRows

\* A click joins those under way, or gets its answer.
LEMMA ClickSent ==
    ASSUME U!UiAssumption, PlacedInv, NEW g \in U!Click, g.id = clicked + 1, clicked' = clicked + 1,
           clicked < MaxClicks, made' = made, ClickOK(g)', flight' = flight \cup {g}
    PROVE  FlightOK'
<1>1. \A f \in flight : f \in U!Click /\ ClickOK(f) /\ f.id \in Nat
    BY PlacedTypes DEF PlacedInv, FlightOK, U!Click
<1>2. \A f \in flight : f.id <= clicked /\ ClickOK(f)'
    BY <1>1, PlacedTypes DEF ClickOK
<1>3. \A f \in flight : f.id # g.id
    BY <1>1, <1>2, PlacedTypes
<1>4. flight' \subseteq U!Click /\ clicked' \in 0 .. MaxClicks
    BY <1>1, PlacedTypes
<1>5. \A f, h \in flight' : f.id = h.id => f = h
    BY <1>3 DEF PlacedInv, FlightOK
<1>6. QED
    BY <1>2, <1>4, <1>5 DEF FlightOK

LEMMA ClickServed ==
    ASSUME U!UiAssumption, PlacedInv, NEW f \in flight, NEW g \in U!Click, g.id = f.id, clicked' = clicked,
           made' \in Nat, made <= made', ClickOK(g)', flight' = (flight \ {f}) \cup {g}
    PROVE  FlightOK'
<1>1. FlightOK
    BY DEF PlacedInv
<1>2. \A h \in flight : ClickOK(h)'
    <2>1. SUFFICES ASSUME NEW h \in flight PROVE ClickOK(h)'
        OBVIOUS
    <2>2. ClickOK(h) /\ h \in U!Click
        BY <1>1 DEF FlightOK
    <2>3. QED
        BY <2>2, PlacedTypes, SMTT(20) DEF ClickOK, U!Click
<1>3. flight' \subseteq U!Click /\ clicked' \in 0 .. MaxClicks
    BY <1>1 DEF FlightOK
<1>4. \A h, k \in flight' : h.id = k.id => h = k
    BY <1>1 DEF FlightOK
<1>5. QED
    BY <1>2, <1>3, <1>4 DEF FlightOK

LEMMA ClicksPlaced == ASSUME U!UiAssumption, PlacedInv, U!Clicks PROVE PlacedInv'
<1>1. /\ UNCHANGED <<made, there, saved, convId, log, ask, cid, meant, given, faults>>
      /\ view' = "muddled" \/ view' = "reloading" \/ view' = view
    BY DEF U!Clicks, U!server, U!page, U!asking, U!Starts
<1>2. PICK kind \in {"open", "new", "delete"}, c \in 0 .. made :
          U!Sends(kind, c) /\ (kind # "new" => c > 0)
    <2>1. \A c \in U!Listed : c \in 0 .. made /\ c > 0
        BY PlacedTypes DEF U!Listed
    <2>2. U!NoChat \in 0 .. made
        BY PlacedTypes DEF U!NoChat
    <2>3. QED
        BY <2>1, <2>2 DEF U!Clicks
<1>3. PICK g : g = [id |-> clicked + 1, kind |-> kind, chat |-> c, served |-> FALSE, rows |-> <<>>]
    OBVIOUS
<1>4. clicked < MaxClicks /\ clicked' = clicked + 1 /\ flight' = flight \cup {g}
    BY <1>2, <1>3 DEF U!Sends
<1>5. g \in U!Click /\ g.id = clicked + 1
    BY <1>2, <1>3, <1>4, PlacedTypes DEF U!Click
<1>6. ClickOK(g)'
    BY <1>1, <1>2, <1>3, <1>4, PlacedTypes DEF ClickOK
<1>7. FlightOK'
    BY <1>1, <1>4, <1>5, <1>6, ClickSent
<1>8. AskingOK' /\ PageOK' /\ RowsOK'
    BY <1>1, PlacedTypes, SameAsking, SamePage, SameRowsAsking DEF PlacedInv
<1>9. ServerOK' /\ FaultsOK'
    BY <1>1 DEF PlacedInv, ServerOK, FaultsOK
<1>10. QED
    BY <1>7, <1>8, <1>9 DEF PlacedInv

\* A conversation is emptied, or the server's part stays as it is.
LEMMA EmptiesPlaced ==
    ASSUME U!UiAssumption, PlacedInv, NEW c \in U!Chats, made' = made, there' = there \ {c},
           saved' = [saved EXCEPT ![c] = <<>>], UNCHANGED <<ask, meant, given>>
    PROVE  ServerOK' /\ RowsOK'
<1>1. /\ saved'[c] = <<>> /\ \A d \in U!Chats \ {c} : saved'[d] = saved[d]
      /\ saved' \in [U!Chats -> Seq(U!Entry)]
    BY DEF PlacedInv, ServerOK
<1>2. ServerOK'
    BY <1>1 DEF PlacedInv, ServerOK
<1>3. ASSUME NEW d \in U!Chats, NEW i \in 1 .. Len(saved'[d])
      PROVE  i \in 1 .. Len(saved[d]) /\ saved'[d][i] = saved[d][i]
    BY <1>1
<1>4. RowsOK'
    BY <1>3 DEF PlacedInv, RowsOK, Place
<1>5. QED
    BY <1>2, <1>4

LEMMA ServeOpenPlaced == ASSUME U!UiAssumption, PlacedInv, NEW f \in flight, U!ServeOpen(f) PROVE PlacedInv'
<1>1. /\ f.kind = "open" /\ ~ f.served
      /\ UNCHANGED <<made, there, saved, convId, log, ask, cid, meant, given, clicked, faults, view>>
    BY DEF U!ServeOpen, U!server, U!page, U!asking
<1>2. f \in U!Click /\ ClickOK(f)
    BY DEF PlacedInv, FlightOK
<1>3. f.chat \in 1 .. made
    BY <1>1, <1>2, PlacedTypes DEF ClickOK, U!Click
<1>4. PICK c \in {f.chat, -f.chat}, rows \in Seq(U!Entry) : U!Replies(f, c, rows)
    <2>1. saved[f.chat] \in Seq(U!Entry) /\ <<>> \in Seq(U!Entry)
        BY <1>3, PlacedTypes DEF U!Chats
    <2>2. QED
        BY <2>1 DEF U!ServeOpen
<1>5. PICK g : g = [f EXCEPT !.served = TRUE, !.chat = c, !.rows = rows]
    OBVIOUS
<1>6. flight' = (flight \ {f}) \cup {g}
    BY <1>4, <1>5 DEF U!Replies
<1>7. c \in -made .. made /\ c \in -MaxChats .. MaxChats
    BY <1>3, PlacedTypes
<1>8. g \in U!Click /\ g.id = f.id /\ g.kind = "open" /\ g.served /\ g.chat = c
    BY <1>1, <1>2, <1>5, <1>7 DEF U!Click
<1>9. ClickOK(g)'
    BY <1>1, <1>2, <1>7, <1>8 DEF ClickOK
<1>10. FlightOK'
    BY <1>1, <1>6, <1>8, <1>9, PlacedTypes, ClickServed
<1>11. AskingOK' /\ PageOK' /\ RowsOK'
    BY <1>1, PlacedTypes, SameAsking, SamePage, SameRowsAsking DEF PlacedInv
<1>12. ServerOK' /\ FaultsOK'
    BY <1>1 DEF PlacedInv, ServerOK, FaultsOK
<1>13. QED
    BY <1>10, <1>11, <1>12 DEF PlacedInv

LEMMA ServeNewPlaced == ASSUME U!UiAssumption, PlacedInv, NEW f \in flight, U!ServeNew(f) PROVE PlacedInv'
<1>1. /\ f.kind = "new"
      /\ UNCHANGED <<saved, convId, log, ask, cid, meant, given, clicked, faults, view>>
    BY DEF U!ServeNew, U!page, U!asking
<1>2. f \in U!Click /\ ClickOK(f)
    BY DEF PlacedInv, FlightOK
<1>3. PICK c \in U!Chats : U!Creates(c) /\ U!Replies(f, c, <<>>)
    BY DEF U!ServeNew
<1>4. ServerOK' /\ c \in 1 .. made' /\ made' = made + 1
    BY <1>1, <1>3, CreatesServer
<1>5. PICK g : g = [f EXCEPT !.served = TRUE, !.chat = c, !.rows = <<>>]
    OBVIOUS
<1>6. flight' = (flight \ {f}) \cup {g}
    BY <1>3, <1>5 DEF U!Replies
<1>7. made' \in Nat /\ made <= made' /\ c \in -made' .. made' /\ c \in -MaxChats .. MaxChats
    BY <1>4, PlacedTypes DEF U!Chats
<1>8. g \in U!Click /\ g.id = f.id /\ g.chat = c /\ c > 0
    <2>1. <<>> \in Seq(U!Entry)
        OBVIOUS
    <2>2. QED
        <3>1. g \in U!Click /\ g.id = f.id /\ g.chat = c
            BY <1>2, <1>5, <1>7, <2>1 DEF U!Click
        <3>2. c > 0
            BY <1>4, PlacedTypes
        <3>3. QED
            BY <3>1, <3>2
<1>9. ClickOK(g)'
    BY <1>1, <1>2, <1>7, <1>8 DEF ClickOK
<1>10. FlightOK'
    BY <1>1, <1>6, <1>7, <1>8, <1>9, ClickServed
<1>11. AskingOK' /\ PageOK' /\ RowsOK'
    BY <1>1, <1>7, PlacedTypes, SameAsking, SamePage, SameRowsAsking DEF PlacedInv
<1>12. FaultsOK'
    BY <1>1 DEF PlacedInv, FaultsOK
<1>13. QED
    BY <1>4, <1>10, <1>11, <1>12 DEF PlacedInv

LEMMA ServeDeletePlaced == ASSUME U!UiAssumption, PlacedInv, NEW f \in flight, U!ServeDelete(f) PROVE PlacedInv'
<1>1. /\ f.kind = "delete" /\ there' = there \ {f.chat} /\ saved' = [saved EXCEPT ![f.chat] = <<>>]
      /\ U!Replies(f, f.chat, <<>>)
      /\ UNCHANGED <<made, convId, log, ask, cid, meant, given, clicked, faults, view>>
    BY DEF U!ServeDelete, U!page, U!asking
<1>2. f \in U!Click /\ ClickOK(f)
    BY DEF PlacedInv, FlightOK
<1>3. PICK c \in 1 .. made : c = f.chat /\ c \in U!Chats
    BY <1>1, <1>2, PlacedTypes DEF ClickOK, U!Click, U!Chats
<1>4. PICK g : g = [f EXCEPT !.served = TRUE, !.chat = c, !.rows = <<>>]
    OBVIOUS
<1>5. flight' = (flight \ {f}) \cup {g}
    BY <1>1, <1>3, <1>4 DEF U!Replies
<1>6. g \in U!Click /\ g.id = f.id /\ g.chat = c
    <2>1. <<>> \in Seq(U!Entry) /\ c \in -MaxChats .. MaxChats
        BY PlacedTypes
    <2>2. QED
        BY <1>2, <1>3, <1>4, <2>1 DEF U!Click
<1>7. ClickOK(g)'
    BY <1>1, <1>2, <1>3, <1>6, PlacedTypes DEF ClickOK
<1>8. FlightOK'
    BY <1>1, <1>5, <1>6, <1>7, PlacedTypes, ClickServed
<1>9. ServerOK' /\ RowsOK'
    BY <1>1, <1>3, EmptiesPlaced
<1>10. AskingOK' /\ PageOK' /\ FaultsOK'
    BY <1>1, PlacedTypes, SameAsking, SamePage DEF PlacedInv, FaultsOK
<1>11. QED
    BY <1>8, <1>9, <1>10 DEF PlacedInv

\* The page takes an answer up.
LEMMA TakesPlaced ==
    ASSUME U!UiAssumption, PlacedInv, NEW f \in flight, U!Opened(f) \/ U!Newed(f) \/ U!Deleted(f)
    PROVE  PlacedInv'
<1>1. /\ UNCHANGED <<made, there, saved, ask, cid, meant, given, clicked, faults>>
      /\ flight' = flight \ {f}
    BY DEF U!Opened, U!Newed, U!Deleted, U!server, U!asking
<1>2. f \in U!Click /\ ClickOK(f)
    BY DEF PlacedInv, FlightOK
<1>3. f.rows \in Seq(U!Entry) /\ f.chat \in -made .. made
    BY <1>2 DEF U!Click, ClickOK
<1>4. ASSUME U!Opened(f)
      PROVE  PageOK'
    <2>1. CASE f.chat > 0
        <3>1. convId' = f.chat /\ log' = f.rows
            BY <1>4, <2>1 DEF U!Opened, U!Shows
        <3>2. f.chat \in 0 .. made
            BY <1>3, <2>1, PlacedTypes
        <3>3. QED
            BY <1>1, <1>3, <3>1, <3>2 DEF PageOK
    <2>2. CASE ~ (f.chat > 0)
        <3>1. (convId' = U!NoChat \/ convId' = convId) /\ log' = log
            BY <1>4, <2>2 DEF U!Opened
        <3>2. QED
            BY <1>1, <3>1, PlacedTypes DEF PageOK, U!NoChat
    <2>3. QED
        BY <2>1, <2>2
<1>5. ASSUME U!Newed(f)
      PROVE  PageOK'
    <2>1. f.chat > 0 /\ convId' = f.chat /\ log' = <<>>
        BY <1>2, <1>5 DEF U!Newed, U!Shows, ClickOK
    <2>2. QED
        BY <1>1, <1>3, <2>1, PlacedTypes DEF PageOK
<1>6. ASSUME U!Deleted(f)
      PROVE  PageOK'
    <2>1. (convId' = U!NoChat /\ log' = <<>>) \/ (convId' = convId /\ log' = log)
        BY <1>6 DEF U!Deleted, U!Shows, U!page
    <2>2. convId' \in 0 .. made
        BY <2>1, PlacedTypes DEF U!NoChat
    <2>3. log' \in Seq(U!Entry)
        <3>1. CASE log' = <<>>
            BY <3>1
        <3>2. CASE log' = log
            BY <3>2, PlacedTypes
        <3>3. QED
            BY <2>1, <3>1, <3>2
    <2>4. QED
        BY <1>1, <2>2, <2>3 DEF PageOK
<1>7. view' \in {"true", "muddled", "reloading"}
    BY DEF U!Opened, U!Newed, U!Deleted, U!Ended, PlacedInv, FaultsOK
<1>8. AskingOK' /\ RowsOK' /\ FlightOK'
    BY <1>1, PlacedTypes, SameAsking, SameRowsAsking, SameFlight DEF PlacedInv
<1>9. ServerOK' /\ FaultsOK'
    BY <1>1, <1>7 DEF PlacedInv, ServerOK, FaultsOK
<1>10. QED
    BY <1>4, <1>5, <1>6, <1>8, <1>9 DEF PlacedInv

\* Some asks end where they are.
LEMMA AsksEnd ==
    ASSUME PlacedInv, ask' \in [Questions -> {ask[q] : q \in Questions} \cup {"ended"}],
           \A q \in Questions : ask'[q] = ask[q] \/ ask'[q] = "ended", UNCHANGED <<made, saved, cid, meant, given>>
    PROVE  AskingOK' /\ RowsOK'
<1>1. ask' \in [Questions -> {"none", "creating", "created", "posted", "streaming", "closing", "ended"}]
    BY DEF PlacedInv, AskingOK
<1>2. \A q \in Questions : AskOK(q)'
    BY DEF PlacedInv, AskingOK, AskOK, Place
<1>3. RowsOK'
    <2>1. PICK S : S = {p \in Questions : ask[p] \notin {"none", "creating", "created"}}
        OBVIOUS
    <2>2. \A p \in S : ask'[p] \notin {"none", "creating", "created"} /\ Place(p)' = Place(p)
        BY <2>1 DEF Place
    <2>3. QED
        BY <2>1, <2>2, SameRows DEF PlacedInv
<1>4. QED
    BY <1>1, <1>2, <1>3 DEF PlacedInv, AskingOK

LEMMA BreaksPlaced == ASSUME U!UiAssumption, PlacedInv, U!Breaks PROVE PlacedInv'
<1>1. /\ faults < MaxFaults /\ faults' = faults + 1 /\ view' = "muddled"
      /\ UNCHANGED <<made, there, saved, convId, log, cid, meant, given, clicked>>
    BY DEF U!Breaks, U!Fault, U!server, U!page
<1>2. \/ \E q \in Questions : ask' = [ask EXCEPT ![q] = "ended"] /\ UNCHANGED flight
      \/ UNCHANGED ask /\ flight' \subseteq flight
    BY DEF U!Breaks
<1>3. AskingOK' /\ RowsOK'
    <2>1. CASE UNCHANGED ask
        BY <1>1, <2>1, PlacedTypes, SameAsking, SameRowsAsking DEF PlacedInv
    <2>2. ASSUME NEW q \in Questions, ask' = [ask EXCEPT ![q] = "ended"]
          PROVE  AskingOK' /\ RowsOK'
        <3>1. /\ ask' \in [Questions -> {ask[p] : p \in Questions} \cup {"ended"}]
              /\ \A p \in Questions : ask'[p] = ask[p] \/ ask'[p] = "ended"
            BY <2>2 DEF PlacedInv, AskingOK
        <3>2. QED
            BY <1>1, <3>1, AsksEnd
    <2>3. QED
        BY <1>2, <2>1, <2>2
<1>4. ServerOK' /\ PageOK' /\ FlightOK' /\ FaultsOK'
    BY <1>1, <1>2, PlacedTypes, SamePage, SameFlight DEF PlacedInv, ServerOK, FaultsOK
<1>5. QED
    BY <1>3, <1>4 DEF PlacedInv

LEMMA ReloadPlaced == ASSUME U!UiAssumption, PlacedInv, U!Reload PROVE PlacedInv'
<1>1. /\ faults < MaxFaults /\ faults' = faults + 1 /\ view' \in {"true", "reloading"}
      /\ log' = <<>>
      /\ ask' = [q \in Questions |-> IF ask[q] = "none" THEN "none" ELSE "ended"]
      /\ UNCHANGED <<made, there, saved, convId, cid, meant, given>>
    BY DEF U!Reload, U!Fault, U!server
<1>2. AskingOK' /\ RowsOK'
    <2>1. /\ ask' \in [Questions -> {ask[p] : p \in Questions} \cup {"ended"}]
          /\ \A p \in Questions : ask'[p] = ask[p] \/ ask'[p] = "ended"
        BY <1>1
    <2>2. QED
        BY <1>1, <2>1, AsksEnd
<1>3. FlightOK'
    <2>1. CASE convId = U!NoChat
        BY <2>1 DEF U!Reload, PlacedInv, FlightOK
    <2>2. CASE convId # U!NoChat
        <3>1. PICK g : g = [id |-> clicked + 1, kind |-> "open", chat |-> convId, served |-> FALSE, rows |-> <<>>]
            OBVIOUS
        <3>2. clicked < MaxClicks /\ clicked' = clicked + 1 /\ flight' = {g}
            BY <2>2, <3>1 DEF U!Reload
        <3>3. convId \in -MaxChats .. MaxChats /\ convId \in -made .. made /\ convId > 0
            BY <2>2, PlacedTypes DEF U!NoChat
        <3>4. g \in U!Click /\ g.id = clicked + 1 /\ clicked' \in 0 .. MaxClicks
            BY <3>1, <3>2, <3>3, PlacedTypes DEF U!Click
        <3>5. ClickOK(g)'
            BY <1>1, <3>1, <3>2, <3>3, PlacedTypes DEF ClickOK
        <3>6. QED
            BY <3>2, <3>4, <3>5 DEF FlightOK
    <2>3. QED
        BY <2>1, <2>2
<1>4. ServerOK' /\ PageOK' /\ FaultsOK'
    BY <1>1, PlacedTypes DEF PlacedInv, ServerOK, PageOK, FaultsOK
<1>5. QED
    BY <1>2, <1>3, <1>4 DEF PlacedInv

LEMMA OtherTabPlaced == ASSUME U!UiAssumption, PlacedInv, U!OtherTab PROVE PlacedInv'
<1>1. /\ faults < MaxFaults /\ faults' = faults + 1 /\ view' = "muddled"
      /\ UNCHANGED <<made, convId, log, ask, cid, meant, given, flight, clicked>>
    BY DEF U!OtherTab, U!Fault, U!page, U!asking
<1>2. PICK c \in there : there' = there \ {c} /\ saved' = [saved EXCEPT ![c] = <<>>]
    BY DEF U!OtherTab
<1>3. c \in U!Chats
    BY PlacedTypes DEF PlacedInv, ServerOK, U!Chats
<1>4. ServerOK' /\ RowsOK'
    BY <1>1, <1>2, <1>3, EmptiesPlaced
<1>5. AskingOK' /\ PageOK' /\ FlightOK' /\ FaultsOK'
    BY <1>1, PlacedTypes, SameAsking, SamePage, SameFlight DEF PlacedInv, FaultsOK
<1>6. QED
    BY <1>4, <1>5 DEF PlacedInv

LEMMA StepPlaced == ASSUME U!UiAssumption, PlacedInv, [U!Next]_U!vars PROVE PlacedInv'
<1>1. CASE UNCHANGED U!vars
    <2>1. UNCHANGED <<made, there, saved, convId, log, ask, cid, meant, given, flight, clicked, faults, view>>
        BY <1>1 DEF U!vars, U!server, U!page, U!asking
    <2>2. AskingOK' /\ PageOK' /\ FlightOK' /\ RowsOK'
        BY <2>1, PlacedTypes, SameAsking, SamePage, SameFlight, SameRowsAsking DEF PlacedInv
    <2>3. QED
        BY <2>1, <2>2 DEF PlacedInv, ServerOK, FaultsOK
<1>2. CASE U!Next
    BY <1>2, SubmitPlaced, ServeEnsurePlaced, EnsuredPlaced, ServeChatPlaced, EndStreamPlaced, AskEndsPlaced,
       ClicksPlaced, ServeOpenPlaced, ServeNewPlaced, ServeDeletePlaced, TakesPlaced, BreaksPlaced,
       ReloadPlaced, OtherTabPlaced DEF U!Next, U!AskStep, U!ClickStep
<1>3. QED
    BY <1>1, <1>2

-----------------------------------------------------------------------------
(* What the page shows. *)

Active(q) == ask[q] \notin {"none", "ended"}

\* The page shows its conversation, which the server has.
Shown == U!ShowsTranscript /\ (convId # U!NoChat => convId \in there)

\* One ask() runs, on a page nothing else happens to: what of the log is not saved yet.
AskView(q) ==
    /\ view = "true" /\ flight = {} /\ Active(q) /\ \A p \in Questions \ {q} : ~ Active(p)
    /\ ask[q] \in {"creating", "created"} => convId = U!NoChat /\ log = <<>>
    /\ ask[q] = "created" => given[q] \in there /\ saved[given[q]] = <<>>
    /\ ask[q] \in {"posted", "streaming", "closing"} => convId = cid[q] /\ convId \in there
    /\ ask[q] = "posted" => log = saved[convId] \o U!Both(q)
    /\ ask[q] = "streaming" => log = Append(saved[convId], U!Both(q)[2])
    /\ ask[q] = "closing" => Shown

\* One click is under way: what its answer will make the page show.
ClickView(f) ==
    /\ U!Idle /\ flight = {f} /\ view \in {"true", "reloading"}
    /\ view = "reloading" => f.kind # "delete"
    /\ view = "true" => Shown \/ (f.kind = "delete" /\ f.served /\ f.chat = convId)
    /\ f.kind = "open" /\ f.served /\ f.chat > 0 => f.chat \in there /\ f.rows = saved[f.chat]
    /\ f.kind = "open" /\ f.served /\ ~ (f.chat > 0) /\ view = "true" => convId # -f.chat
    /\ f.kind = "new" /\ f.served => f.chat \in there /\ saved[f.chat] = <<>>

ViewInv ==
    view # "muddled" =>
        \/ U!Quiet /\ view = "true" /\ Shown
        \/ \E q \in Questions : AskView(q)
        \/ \E f \in flight : ClickView(f)

UiInv == PlacedInv /\ ViewInv

LEMMA InitView == ASSUME U!Init PROVE ViewInv
BY DEF U!Init, ViewInv, U!Quiet, U!Idle, Shown, U!ShowsTranscript, U!NoChat

\* Of the three ways of being undisturbed.
LEMMA QuietView ==
    ASSUME ViewInv, view # "muddled", U!Quiet PROVE view = "true" /\ Shown
BY DEF ViewInv, U!Quiet, U!Idle, AskView, Active, ClickView

LEMMA ActiveView ==
    ASSUME ViewInv, view # "muddled", NEW q \in Questions, Active(q) PROVE AskView(q)
BY DEF ViewInv, U!Quiet, U!Idle, AskView, Active, ClickView

LEMMA UnderWayView ==
    ASSUME ViewInv, view # "muddled", NEW f \in flight PROVE ClickView(f)
BY DEF ViewInv, U!Quiet, U!Idle, AskView, Active, ClickView

LEMMA SubmitView == ASSUME U!UiAssumption, UiInv, NEW q \in Questions, U!Submit(q) PROVE ViewInv'
<1>1. SUFFICES ASSUME view' # "muddled" PROVE AskView(q)'
    BY DEF ViewInv
<1>2. U!Quiet /\ view' = view /\ view # "muddled"
    BY <1>1 DEF U!Submit, U!Starts
<1>3. view = "true" /\ Shown
    BY <1>2, QuietView DEF UiInv
<1>4. /\ ask \in [Questions -> {"none", "creating", "created", "posted", "streaming", "closing", "ended"}]
      /\ cid \in [Questions -> 0 .. made]
    BY DEF UiInv, PlacedInv, AskingOK
<1>5. UNCHANGED <<there, saved, convId, given, flight>>
    BY DEF U!Submit, U!server
<1>6. flight = {} /\ \A p \in Questions : ~ Active(p)
    BY <1>2 DEF U!Quiet, U!Idle, Active
<1>7. CASE convId # U!NoChat
    <2>1. log' = log \o U!Both(q) /\ ask' = [ask EXCEPT ![q] = "posted"] /\ cid' = [cid EXCEPT ![q] = convId]
        BY <1>7 DEF U!Submit, U!Posts
    <2>2. ask'[q] = "posted" /\ cid'[q] = convId /\ \A p \in Questions \ {q} : ask'[p] = ask[p]
        BY <1>4, <2>1
    <2>3. log = saved[convId] /\ convId \in there
        BY <1>3, <1>7 DEF Shown, U!ShowsTranscript
    <2>4. U!Both(q)' = U!Both(q)
        BY DEF U!Both
    <2>5. QED
        BY <1>2, <1>3, <1>5, <1>6, <2>1, <2>2, <2>3, <2>4 DEF AskView, Active
<1>8. CASE convId = U!NoChat
    <2>1. ask' = [ask EXCEPT ![q] = "creating"] /\ UNCHANGED log
        BY <1>8 DEF U!Submit
    <2>2. ask'[q] = "creating" /\ \A p \in Questions \ {q} : ask'[p] = ask[p]
        BY <1>4, <2>1
    <2>3. log = <<>>
        BY <1>3, <1>8 DEF Shown, U!ShowsTranscript
    <2>4. QED
        BY <1>2, <1>3, <1>5, <1>6, <1>8, <2>1, <2>2, <2>3 DEF AskView, Active, U!NoChat
<1>9. QED
    BY <1>7, <1>8

\* What a step of an ask() leaves of the others.
LEMMA AskStepView ==
    ASSUME U!UiAssumption, UiInv, NEW q \in Questions, U!AskStep(q), view' # "muddled"
    PROVE  /\ view' = view /\ flight' = flight /\ AskView(q) /\ view = "true" /\ flight = {} /\ meant' = meant
           /\ \A p \in Questions \ {q} : ask'[p] = ask[p] /\ ask[p] \in {"none", "ended"}
           /\ ask \in [Questions -> {"none", "creating", "created", "posted", "streaming", "closing", "ended"}]
           /\ cid \in [Questions -> 0 .. made] /\ given \in [Questions -> 0 .. made]
<1>1. /\ ask \in [Questions -> {"none", "creating", "created", "posted", "streaming", "closing", "ended"}]
      /\ cid \in [Questions -> 0 .. made] /\ given \in [Questions -> 0 .. made]
    BY DEF UiInv, PlacedInv, AskingOK
<1>2. view' = view /\ flight' = flight /\ meant' = meant
    BY DEF U!AskStep, U!ServeEnsure, U!Ensured, U!ServeChat, U!EndStream, U!AskEnds
<1>3. Active(q)
    BY DEF U!AskStep, U!ServeEnsure, U!Ensured, U!ServeChat, U!EndStream, U!AskEnds, Active
<1>4. AskView(q)
    BY <1>2, <1>3, ActiveView DEF UiInv
<1>5. \A p \in Questions \ {q} : ask'[p] = ask[p]
    BY <1>1 DEF U!AskStep, U!ServeEnsure, U!Ensured, U!ServeChat, U!EndStream, U!AskEnds, U!Posts
<1>6. QED
    BY <1>1, <1>2, <1>4, <1>5 DEF AskView, Active

LEMMA EnsureView == ASSUME U!UiAssumption, UiInv, NEW q \in Questions, U!ServeEnsure(q) PROVE ViewInv'
<1>1. SUFFICES ASSUME view' # "muddled" PROVE AskView(q)'
    BY DEF ViewInv
<1>2. U!AskStep(q)
    BY DEF U!AskStep
<1>3. /\ view' = view /\ flight' = flight /\ AskView(q) /\ view = "true" /\ flight = {}
      /\ \A p \in Questions \ {q} : ask'[p] = ask[p] /\ ask[p] \in {"none", "ended"}
      /\ ask \in [Questions -> {"none", "creating", "created", "posted", "streaming", "closing", "ended"}]
      /\ given \in [Questions -> 0 .. made]
    BY <1>1, <1>2, AskStepView
<1>4. PICK c \in U!Chats : U!Creates(c) /\ given' = [given EXCEPT ![q] = c]
    BY DEF U!ServeEnsure
<1>5. ask[q] = "creating" /\ ask' = [ask EXCEPT ![q] = "created"] /\ UNCHANGED <<saved, convId, log>>
    BY DEF U!ServeEnsure, U!page
<1>6. saved[c] = <<>> /\ c \in there'
    BY <1>4, <1>5, CreatesServer DEF UiInv
<1>7. ask'[q] = "created" /\ given'[q] = c /\ convId = U!NoChat /\ log = <<>>
    BY <1>3, <1>4, <1>5 DEF AskView
<1>8. QED
    BY <1>3, <1>5, <1>6, <1>7 DEF AskView, Active, U!NoChat

LEMMA EnsuredView == ASSUME U!UiAssumption, UiInv, NEW q \in Questions, U!Ensured(q) PROVE ViewInv'
<1>1. SUFFICES ASSUME view' # "muddled" PROVE AskView(q)'
    BY DEF ViewInv
<1>2. U!AskStep(q)
    BY DEF U!AskStep
<1>3. /\ view' = view /\ flight' = flight /\ AskView(q) /\ view = "true" /\ flight = {}
      /\ \A p \in Questions \ {q} : ask'[p] = ask[p] /\ ask[p] \in {"none", "ended"}
      /\ ask \in [Questions -> {"none", "creating", "created", "posted", "streaming", "closing", "ended"}]
      /\ cid \in [Questions -> 0 .. made]
    BY <1>1, <1>2, AskStepView
<1>4. PICK c : c = given[q] /\ convId' = c /\ U!Posts(q, c)
    BY DEF U!Ensured
<1>5. ask[q] = "created" /\ UNCHANGED <<there, saved>>
    BY DEF U!Ensured, U!server
<1>6. /\ log' = log \o U!Both(q) /\ ask' = [ask EXCEPT ![q] = "posted"] /\ cid' = [cid EXCEPT ![q] = c]
    BY <1>4 DEF U!Posts
<1>7. log = <<>> /\ c \in there /\ saved[c] = <<>>
    BY <1>3, <1>4, <1>5 DEF AskView
<1>8. ask'[q] = "posted" /\ cid'[q] = c
    BY <1>3, <1>6
<1>9. U!Both(q)' = U!Both(q)
    BY DEF U!Both
<1>10. QED
    BY <1>3, <1>4, <1>5, <1>6, <1>7, <1>8, <1>9 DEF AskView, Active

\* Both rows, one after the other.
LEMMA BothRows ==
    ASSUME NEW T, NEW s \in Seq(T), NEW a \in T, NEW b \in T
    PROVE  s \o <<a, b>> = Append(Append(s, a), b)
OBVIOUS

LEMMA ServeChatView == ASSUME U!UiAssumption, UiInv, NEW q \in Questions, U!ServeChat(q) PROVE ViewInv'
<1>1. SUFFICES ASSUME view' # "muddled" PROVE AskView(q)'
    BY DEF ViewInv
<1>2. U!AskStep(q)
    BY DEF U!AskStep
<1>3. /\ view' = view /\ flight' = flight /\ AskView(q) /\ view = "true" /\ flight = {}
      /\ \A p \in Questions \ {q} : ask'[p] = ask[p] /\ ask[p] \in {"none", "ended"}
      /\ ask \in [Questions -> {"none", "creating", "created", "posted", "streaming", "closing", "ended"}]
    BY <1>1, <1>2, AskStepView
<1>4. ask[q] = "posted" /\ UNCHANGED <<there, convId, log, cid>>
    BY DEF U!ServeChat, U!page
<1>5. convId = cid[q] /\ convId \in there /\ log = saved[convId] \o U!Both(q)
    BY <1>3, <1>4 DEF AskView
<1>6. saved' = [saved EXCEPT ![convId] = Append(@, U!Both(q)[1])] /\ ask' = [ask EXCEPT ![q] = "streaming"]
    BY <1>5 DEF U!ServeChat
<1>7. /\ convId \in U!Chats /\ saved \in [U!Chats -> Seq(U!Entry)] /\ saved[convId] \in Seq(U!Entry)
      /\ U!Both(q)[1] \in U!Entry /\ U!Both(q)[2] \in U!Entry
    BY <1>5, PlacedTypes DEF UiInv, PlacedInv, ServerOK, U!Chats
<1>8. U!Both(q) = <<U!Both(q)[1], U!Both(q)[2]>>
    BY DEF U!Both
<1>9. saved'[convId] = Append(saved[convId], U!Both(q)[1]) /\ ask'[q] = "streaming"
    BY <1>3, <1>6, <1>7
<1>10. log = Append(saved'[convId], U!Both(q)[2])
    <2>1. PICK s \in Seq(U!Entry), a \in U!Entry, b \in U!Entry :
              s = saved[convId] /\ a = U!Both(q)[1] /\ b = U!Both(q)[2]
        BY <1>7
    <2>2. s \o <<a, b>> = Append(Append(s, a), b)
        BY ONLY BothRows
    <2>3. QED
        BY <1>5, <1>8, <1>9, <2>1, <2>2
<1>11. U!Both(q)' = U!Both(q)
    BY DEF U!Both
<1>12. QED
    BY <1>3, <1>4, <1>5, <1>9, <1>10, <1>11 DEF AskView, Active

LEMMA EndStreamView == ASSUME U!UiAssumption, UiInv, NEW q \in Questions, U!EndStream(q) PROVE ViewInv'
<1>1. SUFFICES ASSUME view' # "muddled" PROVE AskView(q)'
    BY DEF ViewInv
<1>2. U!AskStep(q)
    BY DEF U!AskStep
<1>3. /\ view' = view /\ flight' = flight /\ AskView(q) /\ view = "true" /\ flight = {}
      /\ \A p \in Questions \ {q} : ask'[p] = ask[p] /\ ask[p] \in {"none", "ended"}
      /\ ask \in [Questions -> {"none", "creating", "created", "posted", "streaming", "closing", "ended"}]
    BY <1>1, <1>2, AskStepView
<1>4. /\ ask[q] = "streaming" /\ UNCHANGED <<convId, log, cid>> /\ there' = there \cup {cid[q]}
      /\ saved' = [saved EXCEPT ![cid[q]] = Append(@, U!Both(q)[2])] /\ ask' = [ask EXCEPT ![q] = "closing"]
    BY DEF U!EndStream, U!page
<1>5. convId = cid[q] /\ convId \in there /\ log = Append(saved[convId], U!Both(q)[2])
    BY <1>3, <1>4 DEF AskView
<1>6. convId \in U!Chats /\ saved \in [U!Chats -> Seq(U!Entry)] /\ convId # U!NoChat
    BY <1>5, PlacedTypes DEF UiInv, PlacedInv, ServerOK, U!Chats, U!NoChat
<1>7. saved'[convId] = log /\ ask'[q] = "closing" /\ convId \in there'
    BY <1>3, <1>4, <1>5, <1>6
<1>8. Shown'
    BY <1>4, <1>6, <1>7 DEF Shown, U!ShowsTranscript, U!NoChat
<1>9. QED
    BY <1>3, <1>4, <1>5, <1>7, <1>8 DEF AskView, Active

LEMMA AskEndsView == ASSUME U!UiAssumption, UiInv, NEW q \in Questions, U!AskEnds(q) PROVE ViewInv'
<1>1. SUFFICES ASSUME view' # "muddled" PROVE (U!Quiet /\ view = "true" /\ Shown)'
    BY DEF ViewInv
<1>2. U!AskStep(q)
    BY DEF U!AskStep
<1>3. /\ view' = view /\ flight' = flight /\ AskView(q) /\ view = "true" /\ flight = {}
      /\ \A p \in Questions \ {q} : ask'[p] = ask[p] /\ ask[p] \in {"none", "ended"}
      /\ ask \in [Questions -> {"none", "creating", "created", "posted", "streaming", "closing", "ended"}]
    BY <1>1, <1>2, AskStepView
<1>4. ask[q] = "closing" /\ ask' = [ask EXCEPT ![q] = "ended"] /\ UNCHANGED <<there, saved, convId, log>>
    BY DEF U!AskEnds, U!server, U!page
<1>5. Shown
    BY <1>3, <1>4 DEF AskView
<1>6. Shown'
    BY <1>4, <1>5 DEF Shown, U!ShowsTranscript, U!NoChat
<1>7. U!Quiet'
    BY <1>3, <1>4 DEF U!Quiet, U!Idle
<1>8. QED
    BY <1>3, <1>6, <1>7

LEMMA ClicksView == ASSUME U!UiAssumption, UiInv, U!Clicks PROVE ViewInv'
<1>1. SUFFICES ASSUME view' # "muddled" PROVE ViewInv'
    BY DEF ViewInv
<1>2. PICK kind \in {"open", "new", "delete"}, c \in 0 .. made :
          /\ U!Sends(kind, c)
          /\ view' = (IF ~ U!Quiet THEN "muddled"
                      ELSE IF kind # "delete" /\ view = "muddled" THEN "reloading" ELSE view)
    <2>1. \A c \in U!Listed : c \in 0 .. made
        BY PlacedTypes DEF UiInv, U!Listed
    <2>2. U!NoChat \in 0 .. made
        BY PlacedTypes DEF UiInv, U!NoChat
    <2>3. CASE \E c \in U!Listed : U!Sends("open", c) /\ U!Starts(TRUE)
        BY <2>1, <2>3 DEF U!Starts
    <2>4. CASE U!Sends("new", U!NoChat) /\ U!Starts(TRUE)
        BY <2>2, <2>4 DEF U!Starts
    <2>5. CASE \E c \in U!Listed : U!Sends("delete", c) /\ U!Starts(FALSE)
        BY <2>1, <2>5 DEF U!Starts
    <2>6. QED
        BY <2>3, <2>4, <2>5 DEF U!Clicks
<1>3. PICK g : g = [id |-> clicked + 1, kind |-> kind, chat |-> c, served |-> FALSE, rows |-> <<>>]
    OBVIOUS
<1>4. U!Quiet /\ flight' = flight \cup {g}
    BY <1>1, <1>2, <1>3 DEF U!Sends
<1>5. flight = {} /\ U!Idle
    BY <1>4 DEF U!Quiet
<1>6. UNCHANGED <<there, saved, convId, log, ask>>
    BY DEF U!Clicks, U!server, U!page, U!asking
<1>7. U!Idle' /\ (Shown => Shown')
    BY <1>5, <1>6 DEF U!Idle, Shown, U!ShowsTranscript, U!NoChat
<1>8. flight' = {g} /\ g \in flight' /\ ~ g.served /\ g.kind = kind
    BY <1>3, <1>4, <1>5
<1>9. CASE view = "muddled"
    <2>1. view' = "reloading" /\ kind # "delete"
        BY <1>1, <1>2, <1>4, <1>9
    <2>2. QED
        BY <1>7, <1>8, <2>1 DEF ViewInv, ClickView
<1>10. CASE view # "muddled"
    <2>1. view = "true" /\ Shown
        BY <1>4, <1>10, QuietView DEF UiInv
    <2>2. view' = "true"
        BY <1>2, <1>4, <2>1
    <2>3. QED
        BY <1>7, <1>8, <2>1, <2>2 DEF ViewInv, ClickView
<1>11. QED
    BY <1>9, <1>10

\* What the server's part of a click leaves.
LEMMA ServesView ==
    ASSUME U!UiAssumption, UiInv, NEW f \in flight, view # "muddled",
           U!ServeOpen(f) \/ U!ServeNew(f) \/ U!ServeDelete(f)
    PROVE  /\ ClickView(f) /\ U!Idle' /\ ~ f.served /\ flight = {f}
           /\ f \in U!Click /\ (f.kind # "new" => f.chat \in 1 .. made)
           /\ UNCHANGED <<convId, log, view>> /\ (view = "true" => Shown)
<1>1. ~ f.served /\ UNCHANGED <<convId, log, view, ask>>
    BY DEF U!ServeOpen, U!ServeNew, U!ServeDelete, U!page, U!asking
<1>2. ClickView(f)
    BY UnderWayView DEF UiInv
<1>3. f \in U!Click /\ ClickOK(f)
    BY DEF UiInv, PlacedInv, FlightOK
<1>4. f.kind # "new" => f.chat \in 1 .. made
    BY <1>1, <1>3, PlacedTypes DEF UiInv, ClickOK, U!Click
<1>5. U!Idle' /\ flight = {f} /\ (view = "true" => Shown)
    BY <1>1, <1>2 DEF ClickView, U!Idle
<1>6. QED
    BY <1>1, <1>2, <1>3, <1>4, <1>5

LEMMA ServeOpenView == ASSUME U!UiAssumption, UiInv, NEW f \in flight, U!ServeOpen(f) PROVE ViewInv'
<1>1. view' = view
    BY DEF U!ServeOpen
<1>2. SUFFICES ASSUME view # "muddled" PROVE \E g \in flight' : ClickView(g)'
    BY <1>1 DEF ViewInv
<1>3. /\ ClickView(f) /\ U!Idle' /\ flight = {f} /\ f \in U!Click /\ (f.kind # "new" => f.chat \in 1 .. made)
      /\ UNCHANGED <<convId, log, view>> /\ (view = "true" => Shown)
    BY <1>2, ServesView
<1>4. f.kind = "open" /\ UNCHANGED <<there, saved>> /\ f.chat \in 1 .. made
    BY <1>3 DEF U!ServeOpen, U!server
<1>5. Shown => Shown'
    BY <1>3, <1>4 DEF Shown, U!ShowsTranscript, U!NoChat
<1>6. CASE f.chat \in there
    <2>1. PICK g : g = [f EXCEPT !.served = TRUE, !.chat = f.chat, !.rows = saved[f.chat]]
        OBVIOUS
    <2>2. flight' = {g}
        BY <1>3, <1>6, <2>1 DEF U!ServeOpen, U!Replies
    <2>3. g.kind = "open" /\ g.served /\ g.chat = f.chat /\ g.rows = saved[f.chat] /\ f.chat > 0
        BY <1>3, <1>4, <2>1, PlacedTypes DEF U!Click, UiInv
    <2>4. QED
        BY <1>3, <1>4, <1>5, <1>6, <2>2, <2>3 DEF ClickView
<1>7. CASE f.chat \notin there
    <2>1. PICK g : g = [f EXCEPT !.served = TRUE, !.chat = -f.chat, !.rows = <<>>]
        OBVIOUS
    <2>2. flight' = {g}
        BY <1>3, <1>7, <2>1 DEF U!ServeOpen, U!Replies
    <2>3. g.kind = "open" /\ g.served /\ g.chat = -f.chat /\ ~ (g.chat > 0) /\ -g.chat = f.chat
        BY <1>3, <1>4, <2>1, PlacedTypes DEF U!Click, UiInv
    <2>4. view = "true" => convId # f.chat
        BY <1>3, <1>4, <1>7, PlacedTypes DEF Shown, U!NoChat, UiInv
    <2>5. QED
        BY <1>3, <1>4, <1>5, <2>2, <2>3, <2>4 DEF ClickView
<1>8. QED
    BY <1>6, <1>7

LEMMA ServeNewView == ASSUME U!UiAssumption, UiInv, NEW f \in flight, U!ServeNew(f) PROVE ViewInv'
<1>1. view' = view
    BY DEF U!ServeNew
<1>2. SUFFICES ASSUME view # "muddled" PROVE \E g \in flight' : ClickView(g)'
    BY <1>1 DEF ViewInv
<1>3. /\ ClickView(f) /\ U!Idle' /\ flight = {f} /\ f \in U!Click
      /\ UNCHANGED <<convId, log, view>> /\ (view = "true" => Shown)
    BY <1>2, ServesView
<1>4. PICK c \in U!Chats : U!Creates(c) /\ U!Replies(f, c, <<>>)
    BY DEF U!ServeNew
<1>5. f.kind = "new" /\ UNCHANGED saved
    BY DEF U!ServeNew
<1>6. saved[c] = <<>> /\ c \in there'
    BY <1>4, <1>5, CreatesServer DEF UiInv
<1>7. there' = there \cup {c}
    BY <1>4 DEF U!Creates
<1>8. Shown => Shown'
    BY <1>3, <1>5, <1>7 DEF Shown, U!ShowsTranscript, U!NoChat
<1>9. PICK g : g = [f EXCEPT !.served = TRUE, !.chat = c, !.rows = <<>>]
    OBVIOUS
<1>10. flight' = {g}
    BY <1>3, <1>4, <1>9 DEF U!Replies
<1>11. g.kind = "new" /\ g.served /\ g.chat = c
    BY <1>3, <1>5, <1>9 DEF U!Click
<1>12. QED
    BY <1>3, <1>5, <1>6, <1>8, <1>10, <1>11 DEF ClickView

LEMMA ServeDeleteView == ASSUME U!UiAssumption, UiInv, NEW f \in flight, U!ServeDelete(f) PROVE ViewInv'
<1>1. view' = view
    BY DEF U!ServeDelete
<1>2. SUFFICES ASSUME view # "muddled" PROVE \E g \in flight' : ClickView(g)'
    BY <1>1 DEF ViewInv
<1>3. /\ ClickView(f) /\ U!Idle' /\ flight = {f} /\ f \in U!Click
      /\ UNCHANGED <<convId, log, view>> /\ (view = "true" => Shown)
    BY <1>2, ServesView
<1>4. /\ f.kind = "delete" /\ there' = there \ {f.chat} /\ saved' = [saved EXCEPT ![f.chat] = <<>>]
      /\ U!Replies(f, f.chat, <<>>)
    BY DEF U!ServeDelete
<1>5. PICK g : g = [f EXCEPT !.served = TRUE, !.chat = f.chat, !.rows = <<>>]
    OBVIOUS
<1>6. flight' = {g}
    BY <1>3, <1>4, <1>5 DEF U!Replies
<1>7. g.kind = "delete" /\ g.served /\ g.chat = f.chat
    BY <1>3, <1>4, <1>5 DEF U!Click
<1>8. Shown /\ f.chat # convId => Shown'
    <2>1. saved \in [U!Chats -> Seq(U!Entry)] /\ (convId # U!NoChat => convId \in U!Chats)
        BY PlacedTypes DEF UiInv, PlacedInv, ServerOK, U!NoChat, U!Chats
    <2>2. convId # U!NoChat /\ f.chat # convId => saved'[convId] = saved[convId]
        BY <1>4, <2>1
    <2>3. QED
        BY <1>3, <1>4, <2>2 DEF Shown, U!ShowsTranscript, U!NoChat
<1>9. view = "reloading" => f.kind # "delete"
    BY <1>3 DEF ClickView
<1>10. view \in {"true", "reloading"}
    BY <1>3 DEF ClickView
<1>11. QED
    BY <1>3, <1>4, <1>6, <1>7, <1>8, <1>9, <1>10 DEF ClickView

\* The page takes the answer up, and is at rest.
LEMMA TakesView ==
    ASSUME U!UiAssumption, UiInv, NEW f \in flight, U!Opened(f) \/ U!Newed(f) \/ U!Deleted(f)
    PROVE  ViewInv'
<1>1. SUFFICES ASSUME view' # "muddled" PROVE (U!Quiet /\ view = "true" /\ Shown)'
    BY DEF ViewInv
<1>2. view # "muddled"
    BY <1>1 DEF U!Opened, U!Newed, U!Deleted, U!Ended
<1>3. ClickView(f)
    BY <1>2, UnderWayView DEF UiInv
<1>4. f.served /\ UNCHANGED <<there, saved, ask>> /\ flight' = flight \ {f}
    BY DEF U!Opened, U!Newed, U!Deleted, U!server, U!asking
<1>5. flight = {f} /\ U!Idle /\ view \in {"true", "reloading"}
    BY <1>3 DEF ClickView
<1>6. U!Quiet'
    BY <1>4, <1>5 DEF U!Quiet, U!Idle
<1>7. ASSUME U!Opened(f)
      PROVE  view' = "true" /\ Shown'
    <2>1. CASE f.chat > 0
        <3>1. view' = "true" /\ convId' = f.chat /\ log' = f.rows
            BY <1>5, <1>7, <2>1 DEF U!Opened, U!Shows, U!Ended
        <3>2. f.chat \in there /\ f.rows = saved[f.chat]
            BY <1>3, <1>7, <2>1 DEF U!Opened, ClickView
        <3>3. f.chat # U!NoChat
            BY <2>1 DEF U!NoChat
        <3>4. QED
            BY <1>4, <3>1, <3>2, <3>3 DEF Shown, U!ShowsTranscript, U!NoChat
    <2>2. CASE ~ (f.chat > 0)
        <3>1. view = "true" /\ view' = view
            BY <1>1, <1>5, <1>7, <2>2 DEF U!Opened, U!Ended
        <3>2. convId # -f.chat /\ Shown
            BY <1>3, <1>7, <2>2, <3>1 DEF U!Opened, ClickView
        <3>3. UNCHANGED <<convId, log>>
            BY <1>7, <2>2, <3>2 DEF U!Opened
        <3>4. QED
            BY <1>4, <3>1, <3>2, <3>3 DEF Shown, U!ShowsTranscript, U!NoChat
    <2>3. QED
        BY <2>1, <2>2
<1>8. ASSUME U!Newed(f)
      PROVE  view' = "true" /\ Shown'
    <2>1. view' = "true" /\ convId' = f.chat /\ log' = <<>>
        BY <1>5, <1>8 DEF U!Newed, U!Shows, U!Ended
    <2>2. f.chat \in there /\ saved[f.chat] = <<>>
        BY <1>3, <1>8 DEF U!Newed, ClickView
    <2>3. QED
        BY <1>4, <2>1, <2>2 DEF Shown, U!ShowsTranscript, U!NoChat
<1>9. ASSUME U!Deleted(f)
      PROVE  view' = "true" /\ Shown'
    <2>1. f.kind = "delete" /\ view' = view
        BY <1>9 DEF U!Deleted
    <2>2. view = "true"
        BY <1>3, <1>5, <2>1 DEF ClickView
    <2>3. CASE f.chat = convId
        <3>1. convId' = U!NoChat /\ log' = <<>>
            BY <1>9, <2>3 DEF U!Deleted, U!Shows
        <3>2. QED
            BY <2>1, <2>2, <3>1 DEF Shown, U!ShowsTranscript, U!NoChat
    <2>4. CASE f.chat # convId
        <3>1. UNCHANGED <<convId, log>>
            BY <1>9, <2>4 DEF U!Deleted, U!page
        <3>2. Shown
            BY <1>3, <2>2, <2>4 DEF ClickView
        <3>3. QED
            BY <1>4, <2>1, <2>2, <3>1, <3>2 DEF Shown, U!ShowsTranscript, U!NoChat
    <2>5. QED
        BY <2>3, <2>4
<1>10. QED
    BY <1>6, <1>7, <1>8, <1>9

LEMMA ReloadView == ASSUME U!UiAssumption, UiInv, U!Reload PROVE ViewInv'
<1>1. /\ log' = <<>> /\ UNCHANGED <<convId, there, saved>>
      /\ ask' = [q \in Questions |-> IF ask[q] = "none" THEN "none" ELSE "ended"]
    BY DEF U!Reload, U!server
<1>2. U!Idle'
    BY <1>1 DEF U!Idle
<1>3. CASE convId = U!NoChat
    <2>1. flight' = {} /\ view' = "true"
        BY <1>3 DEF U!Reload
    <2>2. Shown'
        BY <1>1, <1>3 DEF Shown, U!ShowsTranscript, U!NoChat
    <2>3. QED
        BY <1>2, <2>1, <2>2 DEF ViewInv, U!Quiet
<1>4. CASE convId # U!NoChat
    <2>1. PICK g : g = [id |-> clicked + 1, kind |-> "open", chat |-> convId, served |-> FALSE, rows |-> <<>>]
        OBVIOUS
    <2>2. flight' = {g} /\ view' = "reloading"
        BY <1>4, <2>1 DEF U!Reload
    <2>3. g.kind = "open" /\ ~ g.served /\ g \in flight'
        BY <2>1, <2>2
    <2>4. ClickView(g)'
        BY <1>2, <2>2, <2>3 DEF ClickView
    <2>5. QED
        BY <2>3, <2>4 DEF ViewInv
<1>5. QED
    BY <1>3, <1>4

LEMMA StepUi == ASSUME U!UiAssumption, UiInv, [U!Next]_U!vars PROVE UiInv'
<1>1. PlacedInv'
    BY StepPlaced DEF UiInv
<1>2. CASE UNCHANGED U!vars
    <2>1. UNCHANGED <<made, there, saved, convId, log, ask, cid, meant, given, flight, clicked, faults, view>>
        BY <1>2 DEF U!vars, U!server, U!page, U!asking
    <2>2. ViewInv'
        BY <2>1 DEF UiInv, ViewInv, U!Quiet, U!Idle, AskView, Active, ClickView, Shown, U!ShowsTranscript, U!NoChat, U!Both
    <2>3. QED
        BY <1>1, <2>2 DEF UiInv
<1>3. ASSUME U!Breaks \/ U!OtherTab
      PROVE  ViewInv'
    BY <1>3 DEF U!Breaks, U!OtherTab, ViewInv
<1>4. CASE U!Next
    <2>1. ViewInv'
        BY <1>3, <1>4, SubmitView, EnsureView, EnsuredView, ServeChatView, EndStreamView, AskEndsView,
           ClicksView, ServeOpenView, ServeNewView, ServeDeleteView, TakesView, ReloadView
           DEF U!Next, U!AskStep, U!ClickStep
    <2>2. QED
        BY <1>1, <2>1 DEF UiInv
<1>5. QED
    BY <1>2, <1>4

LEMMA ViewInvSays == ASSUME ViewInv PROVE U!QuietLogIsTranscript
BY QuietView DEF U!QuietLogIsTranscript, Shown

-----------------------------------------------------------------------------
(* The citations. *)

Less == {pair \in Nat \X Nat : pair[1] < pair[2]}

LEMMA LessWellFounded == IsWellFoundedOn(Less, Nat)
BY NatLessThanWellFounded DEF OpToRel, Less

LEMMA LeastOf ==
    ASSUME NEW S \in SUBSET Nat, S # {}
    PROVE  \E x \in S : \A y \in S : x <= y
<1>1. PICK x \in S : \A y \in S : ~ (<<y, x>> \in Less)
    BY LessWellFounded, WFMin
<1>2. \A y \in S : ~ (y < x)
    BY <1>1 DEF Less
<1>3. QED
    BY <1>2

\* Citations as _citations_from makes them: a source has one title.
Cited == {c \in R!Citations : c.title = IF Kind[c.source] = "law" THEN NoName ELSE Title[c.source]}

SourcesOf(list) == {list[k].source : k \in DOMAIN list}
Once(list) == \A j, k \in DOMAIN list : list[j].source = list[k].source => j = k

LEMMA CitationCited ==
    ASSUME R!CitationsAssumption, NEW tool \in Tools, NEW s \in Sources
    PROVE  R!Citation(tool, s) \in Cited /\ R!Citation(tool, s).source = s
<1>1. Title[s] \in Names \cup {NoName}
    BY DEF R!CitationsAssumption
<1>2. /\ R!Citation(tool, s).source = s /\ R!Citation(tool, s).fallback \in BOOLEAN
      /\ R!Citation(tool, s).title = IF Kind[s] = "law" THEN NoName ELSE Title[s]
      /\ R!Citation(tool, s).class \in {Standing[s], NoName}
    BY DEF R!Citation
<1>3. R!Citation(tool, s) \in R!Citations
    <2>1. PICK cl \in {Standing[t] : t \in Sources} \cup {NoName} :
              cl = IF tool = "kb_law_search" THEN Standing[s] ELSE NoName
        OBVIOUS
    <2>2. PICK ti \in Names \cup {NoName} : ti = IF Kind[s] = "law" THEN NoName ELSE Title[s]
        BY <1>1
    <2>3. PICK fb \in BOOLEAN : fb = (tool # "case_overview" \/ s = overview)
        OBVIOUS
    <2>4. R!Citation(tool, s) = [source |-> s, title |-> ti, class |-> cl, fallback |-> fb]
        BY <2>1, <2>2, <2>3 DEF R!Citation
    <2>5. QED
        BY <2>4 DEF R!Citations
<1>4. QED
    BY <1>2, <1>3 DEF Cited

LEMMA KeyIsSource ==
    ASSUME R!CitationsAssumption, NEW c \in Cited, NEW d \in Cited
    PROVE  R!Key(c) = R!Key(d) <=> c.source = d.source
<1>1. c.source \in Sources /\ d.source \in Sources
    BY DEF Cited, R!Citations
<1>2. QED
    BY <1>1 DEF R!Key, R!CitationsAssumption

\* Two lists, one after the other.
LEMMA JoinSays ==
    ASSUME NEW T, NEW s \in Seq(T), NEW t \in Seq(T), NEW r, r = s \o t
    PROVE  /\ r \in Seq(T) /\ Len(r) = Len(s) + Len(t) /\ Len(t) \in Nat
           /\ DOMAIN r = 1 .. Len(s) + Len(t)
           /\ \A k \in 1 .. Len(s) : r[k] = s[k]
           /\ \A k \in 1 .. Len(t) : r[Len(s) + k] = t[k]
<1>1. r \in Seq(T) /\ Len(r) = Len(s) + Len(t) /\ Len(t) \in Nat /\ Len(s) \in Nat
    OBVIOUS
<1>2. DOMAIN r = 1 .. Len(s) + Len(t)
    BY <1>1
<1>3. \A k \in 1 .. Len(s) : r[k] = s[k]
    OBVIOUS
<1>4. \A k \in 1 .. Len(t) : r[Len(s) + k] = t[k]
    OBVIOUS
<1>5. QED
    BY <1>1, <1>2, <1>3, <1>4

\* What the loop over new citations makes of a list.
LEMMA AddAllSays ==
    ASSUME R!CitationsAssumption, NEW list \in Seq(Cited), NEW cs \in Seq(Cited),
           NEW new, new = R!AddAll(list, cs)
    PROVE  /\ new \in Seq(Cited) /\ Len(list) <= Len(new)
           /\ \A k \in DOMAIN list : k \in DOMAIN new /\ new[k] = list[k]
           /\ SourcesOf(new) = SourcesOf(list) \cup SourcesOf(cs)
           /\ Once(list) => Once(new)
<1>1. PICK K : K = R!New(list, cs)
    OBVIOUS
<1>2. K \in SUBSET (DOMAIN cs) /\ DOMAIN cs = 1 .. Len(cs) /\ Len(cs) \in Nat
      /\ DOMAIN list = 1 .. Len(list) /\ Len(list) \in Nat
    BY <1>1 DEF R!New
<1>3. \A k \in DOMAIN cs : cs[k] \in Cited
    OBVIOUS
<1>4. \A k \in DOMAIN list : list[k] \in Cited
    OBVIOUS
<1>5. \A k \in DOMAIN cs : k \in K <=> /\ \A j \in DOMAIN list : list[j].source # cs[k].source
                                      /\ \A j \in 1 .. k - 1 : cs[j].source # cs[k].source
    <2>1. SUFFICES ASSUME NEW k \in DOMAIN cs
                   PROVE  k \in K <=> /\ \A j \in DOMAIN list : list[j].source # cs[k].source
                                      /\ \A j \in 1 .. k - 1 : cs[j].source # cs[k].source
        OBVIOUS
    <2>2. k \in K <=> /\ \A j \in DOMAIN list : R!Key(list[j]) # R!Key(cs[k])
                      /\ \A j \in 1 .. k - 1 : R!Key(cs[j]) # R!Key(cs[k])
        BY <1>1 DEF R!New, R!ToSet
    <2>3. \A j \in 1 .. k - 1 : j \in DOMAIN cs
        BY <1>2
    <2>4. QED
        BY <1>3, <1>4, <2>2, <2>3, KeyIsSource
<1>6. PICK sel : sel = Selected(cs, K)
    OBVIOUS
<1>7. PICK at : at = Ascending(K)
    OBVIOUS
<1>8. /\ sel \in Seq(Cited) /\ Len(sel) = Len(at) /\ DOMAIN sel = DOMAIN at /\ DOMAIN at = 1 .. Len(at)
      /\ \A n \in DOMAIN at : at[n] \in K /\ sel[n] = cs[at[n]]
      /\ \A k \in K : \E n \in DOMAIN at : at[n] = k
      /\ \A m, n \in DOMAIN at : m < n => at[m] < at[n]
      /\ Len(at) = Cardinality(K) /\ Len(at) \in Nat
    BY <1>2, <1>6, <1>7, SelectedSays
<1>9. new = list \o sel
    BY <1>1, <1>6, SameSelected DEF R!AddAll
<1>10. /\ new \in Seq(Cited) /\ Len(new) = Len(list) + Len(sel) /\ Len(sel) \in Nat
       /\ DOMAIN new = 1 .. Len(list) + Len(sel)
       /\ \A k \in 1 .. Len(list) : new[k] = list[k]
       /\ \A k \in 1 .. Len(sel) : new[Len(list) + k] = sel[k]
    <2>1. sel \in Seq(Cited)
        BY <1>8
    <2>2. QED
        BY <1>9, <2>1, JoinSays
<1>11. \A k \in DOMAIN new : k \in DOMAIN list \/ \E n \in DOMAIN at : k = Len(list) + n
    <2>1. SUFFICES ASSUME NEW k \in DOMAIN new, ~ (k <= Len(list))
                   PROVE  \E n \in DOMAIN at : k = Len(list) + n
        BY <1>2, <1>10
    <2>2. k - Len(list) \in DOMAIN at /\ k = Len(list) + (k - Len(list))
        BY <1>2, <1>8, <1>10, <2>1
    <2>3. QED
        BY <2>2
<1>12. \A n \in DOMAIN at : Len(list) + n \in DOMAIN new /\ new[Len(list) + n] = cs[at[n]] /\ at[n] \in K
    <2>1. SUFFICES ASSUME NEW n \in DOMAIN at
                   PROVE  Len(list) + n \in DOMAIN new /\ new[Len(list) + n] = cs[at[n]] /\ at[n] \in K
        OBVIOUS
    <2>2. n \in 1 .. Len(sel) /\ at[n] \in K /\ sel[n] = cs[at[n]]
        BY <1>8
    <2>3. Len(list) + n \in 1 .. Len(list) + Len(sel)
        BY <1>2, <1>10, <2>2
    <2>4. QED
        BY <1>10, <2>2, <2>3
<1>13. \A k \in DOMAIN list : k \in DOMAIN new /\ new[k] = list[k]
    BY <1>2, <1>10
<1>14. SourcesOf(new) = SourcesOf(list) \cup SourcesOf(cs)
    <2>1. SourcesOf(new) \subseteq SourcesOf(list) \cup SourcesOf(cs)
        BY <1>2, <1>11, <1>12, <1>13 DEF SourcesOf
    <2>2. SourcesOf(list) \subseteq SourcesOf(new)
        BY <1>13 DEF SourcesOf
    <2>3. ASSUME NEW k \in DOMAIN cs PROVE cs[k].source \in SourcesOf(new)
        <3>1. PICK S : S = {j \in DOMAIN cs : cs[j].source = cs[k].source}
            OBVIOUS
        <3>2. S \in SUBSET Nat /\ k \in S
            BY <1>2, <3>1
        <3>3. PICK f \in S : \A y \in S : f <= y
            BY <3>2, LeastOf
        <3>4. f \in DOMAIN cs /\ cs[f].source = cs[k].source
            BY <3>1
        <3>5. \A j \in 1 .. f - 1 : cs[j].source # cs[f].source
            BY <1>2, <3>1, <3>3, <3>4
        <3>6. CASE f \in K
            <4>1. PICK n \in DOMAIN at : at[n] = f
                BY <1>8, <3>6
            <4>2. QED
                BY <1>12, <3>4, <4>1 DEF SourcesOf
        <3>7. CASE f \notin K
            <4>1. PICK j \in DOMAIN list : list[j].source = cs[f].source
                BY <1>5, <3>4, <3>5, <3>7
            <4>2. QED
                BY <2>2, <3>4, <4>1 DEF SourcesOf
        <3>8. QED
            BY <3>6, <3>7
    <2>4. QED
        BY <2>1, <2>2, <2>3 DEF SourcesOf
<1>15. ASSUME Once(list), NEW j \in DOMAIN new, NEW k \in DOMAIN new, new[j].source = new[k].source
       PROVE  j = k
    <2>1. CASE j \in DOMAIN list /\ k \in DOMAIN list
        BY <1>13, <1>15, <2>1 DEF Once
    <2>2. \A i \in DOMAIN list : \A n \in DOMAIN at : new[i].source # new[Len(list) + n].source
        BY <1>2, <1>5, <1>12, <1>13
    <2>3. ASSUME NEW m \in DOMAIN at, NEW n \in DOMAIN at, new[Len(list) + m].source = new[Len(list) + n].source
          PROVE  m = n
        <3>1. cs[at[m]].source = cs[at[n]].source /\ at[m] \in K /\ at[n] \in K
            BY <1>12, <2>3
        <3>2. at[m] \in 1 .. Len(cs) /\ at[n] \in 1 .. Len(cs)
            BY <1>2, <3>1
        <3>3. ~ (at[m] < at[n])
            BY <1>2, <1>5, <3>1, <3>2
        <3>4. ~ (at[n] < at[m])
            BY <1>2, <1>5, <3>1, <3>2
        <3>5. QED
            BY <1>8, <3>3, <3>4
    <2>4. QED
        BY <1>11, <1>15, <2>1, <2>2, <2>3
<1>16. QED
    BY <1>2, <1>10, <1>13, <1>14, <1>15 DEF Once

\* What _CiteResolver finds: an entry with the very label if there is one, the first;
\* or else the first of those alike; 0 if none is.
LEMMA LeastSays ==
    ASSUME NEW S \in SUBSET (Nat \ {0})
    PROVE  /\ S = {} => R!Least(S) = 0
           /\ S # {} => R!Least(S) \in S /\ \A k \in S : R!Least(S) <= k
<1>1. ASSUME S # {} PROVE R!Least(S) \in S /\ \A k \in S : R!Least(S) <= k
    <2>1. PICK x \in S : \A y \in S : x <= y
        BY <1>1, LeastOf
    <2>2. R!Least(S) = CHOOSE k \in S : \A j \in S : k <= j
        BY <1>1 DEF R!Least
    <2>3. QED
        BY <2>1, <2>2
<1>2. QED
    BY <1>1 DEF R!Least

Likes(list, k, m) == \E l \in R!Labels(list[k]) : R!Alike(m, l)

LEMMA FindSays ==
    ASSUME NEW T, NEW list \in Seq(T), NEW m, NEW f, f = R!Find(list, m)
    PROVE  /\ f \in {0} \cup DOMAIN list
           /\ f # 0 => m \in R!Labels(list[f]) \/ Likes(list, f, m)
           /\ f # 0 /\ m \notin R!Labels(list[f]) => \A k \in DOMAIN list : m \notin R!Labels(list[k])
           /\ \A k \in DOMAIN list : m \in R!Labels(list[k]) =>
                  f # 0 /\ m \in R!Labels(list[f]) /\ f <= k
           /\ (\A k \in DOMAIN list : m \notin R!Labels(list[k])) =>
                  \A k \in DOMAIN list : Likes(list, k, m) => f # 0 /\ f <= k
<1>1. PICK E, F : E = R!Exact(list, m) /\ F = R!Fuzzy(list, m)
    OBVIOUS
<1>2. /\ \A k : k \in E <=> k \in DOMAIN list /\ m \in R!Labels(list[k])
      /\ \A k : k \in F <=> k \in DOMAIN list /\ Likes(list, k, m)
    BY <1>1 DEF R!Exact, R!Fuzzy, Likes
<1>3. E \in SUBSET (Nat \ {0}) /\ F \in SUBSET (Nat \ {0})
    BY <1>2
<1>4. CASE E # {}
    <2>1. f = R!Least(E)
        BY <1>1, <1>4 DEF R!Find
    <2>2. f \in E /\ \A k \in E : f <= k
        BY <1>3, <1>4, <2>1, LeastSays
    <2>3. QED
        BY <1>2, <1>3, <2>2
<1>5. CASE E = {}
    <2>1. f = R!Least(F)
        BY <1>1, <1>5 DEF R!Find
    <2>2. F = {} => f = 0
        BY <1>3, <2>1, LeastSays
    <2>3. F # {} => f \in F /\ \A k \in F : f <= k
        BY <1>3, <2>1, LeastSays
    <2>4. QED
        BY <1>2, <1>3, <1>5, <2>2, <2>3
<1>6. QED
    BY <1>4, <1>5

\* A pool that grows at its end resolves a marker as before, but for an exact label.
LEMMA FindStable ==
    ASSUME NEW T, NEW list \in Seq(T), NEW new \in Seq(T), NEW m, R!Find(list, m) # 0,
           \A k \in DOMAIN list : k \in DOMAIN new /\ new[k] = list[k]
    PROVE  LET old == list[R!Find(list, m)]
               now == new[R!Find(new, m)]
           IN  now = old \/ (m \notin R!Labels(old) /\ m \in R!Labels(now))
<1>1. PICK f, g : f = R!Find(list, m) /\ g = R!Find(new, m)
    OBVIOUS
<1>2. /\ f \in DOMAIN list
      /\ m \in R!Labels(list[f]) \/ Likes(list, f, m)
      /\ m \notin R!Labels(list[f]) => \A k \in DOMAIN list : m \notin R!Labels(list[k])
      /\ \A k \in DOMAIN list : m \in R!Labels(list[k]) => m \in R!Labels(list[f]) /\ f <= k
      /\ (\A k \in DOMAIN list : m \notin R!Labels(list[k])) =>
             \A k \in DOMAIN list : Likes(list, k, m) => f <= k
    BY <1>1, FindSays
<1>3. /\ g \in {0} \cup DOMAIN new
      /\ g # 0 => m \in R!Labels(new[g]) \/ Likes(new, g, m)
      /\ g # 0 /\ m \notin R!Labels(new[g]) => \A k \in DOMAIN new : m \notin R!Labels(new[k])
      /\ \A k \in DOMAIN new : m \in R!Labels(new[k]) =>
             g # 0 /\ m \in R!Labels(new[g]) /\ g <= k
      /\ (\A k \in DOMAIN new : m \notin R!Labels(new[k])) =>
             \A k \in DOMAIN new : Likes(new, k, m) => g # 0 /\ g <= k
    BY <1>1, FindSays
<1>4. /\ DOMAIN list = 1 .. Len(list) /\ Len(list) \in Nat
      /\ DOMAIN new = 1 .. Len(new) /\ Len(new) \in Nat
    OBVIOUS
<1>5. f \in DOMAIN new /\ new[f] = list[f] /\ \A k \in 1 .. f : k \in DOMAIN list /\ new[k] = list[k]
    BY <1>2, <1>4
<1>6. \A k \in DOMAIN list : Likes(list, k, m) <=> Likes(new, k, m)
    BY DEF Likes
<1>7. CASE m \in R!Labels(list[f])
    <2>1. g # 0 /\ m \in R!Labels(new[g]) /\ g <= f
        BY <1>3, <1>5, <1>7
    <2>2. g \in 1 .. f
        BY <1>3, <1>4, <2>1
    <2>3. f <= g
        BY <1>2, <1>5, <2>1, <2>2
    <2>4. g = f
        BY <1>2, <1>4, <2>2, <2>3
    <2>5. QED
        BY <1>1, <1>5, <2>4
<1>8. CASE m \notin R!Labels(list[f]) /\ m \in R!Labels(new[g])
    BY <1>1, <1>8
<1>9. CASE m \notin R!Labels(list[f]) /\ m \notin R!Labels(new[g])
    <2>1. Likes(new, f, m)
        BY <1>2, <1>6, <1>9
    <2>2. \A k \in DOMAIN new : m \notin R!Labels(new[k])
        BY <1>3, <1>9
    <2>3. g # 0 /\ g <= f
        BY <1>3, <1>5, <2>1, <2>2
    <2>4. g \in 1 .. f /\ Likes(new, g, m)
        BY <1>3, <1>4, <1>9, <2>3
    <2>5. f <= g
        BY <1>2, <1>5, <1>6, <1>9, <2>4
    <2>6. g = f
        BY <1>2, <1>4, <2>3, <2>4, <2>5
    <2>7. QED
        BY <1>1, <1>5, <2>6
<1>10. QED
    BY <1>7, <1>8, <1>9

\* The pool entries an answer cites, each once, where its first marker is before that of
\* the next.
OrderOfUse(ms, o) ==
    /\ o \in Seq(Nat) /\ (\A n \in DOMAIN o : o[n] \in DOMAIN pool) /\ Len(o) \in Nat /\ DOMAIN o = 1 .. Len(o)
    /\ \A n \in DOMAIN o : \E k \in DOMAIN ms : o[n] = R!Find(pool, ms[k])
    /\ \A k \in DOMAIN ms : R!Find(pool, ms[k]) # 0 => \E n \in DOMAIN o : o[n] = R!Find(pool, ms[k])
    /\ \A m, n \in DOMAIN o : o[m] = o[n] => m = n
    /\ \A k \in DOMAIN ms : \A n \in DOMAIN o : o[n] = R!Find(pool, ms[k]) /\ n > 1 =>
           \E i \in 1 .. k - 1 : R!Find(pool, ms[i]) = o[n - 1]

LEMMA OrderedSays ==
    ASSUME pool \in Seq(Cited), NEW ms \in Seq(Names), NEW o, o = R!Ordered(ms)
    PROVE  OrderOfUse(ms, o)
<1> DEFINE found == [k \in DOMAIN ms |-> R!Find(pool, ms[k])]
           K == {k \in DOMAIN ms : found[k] \notin {0} \cup {found[j] : j \in 1 .. k - 1}}
<1>1. R!Ordered(ms) = R!Selected(found, K)
    BY Zenon DEF R!Ordered
<1>2. Len(ms) \in Nat /\ DOMAIN ms = 1 .. Len(ms) /\ DOMAIN pool = 1 .. Len(pool)
    OBVIOUS
<1>3. \A k \in DOMAIN ms : found[k] = R!Find(pool, ms[k]) /\ found[k] \in {0} \cup DOMAIN pool
    <2>1. \A k \in DOMAIN ms : R!Find(pool, ms[k]) \in {0} \cup DOMAIN pool
        BY FindSays
    <2>2. QED
        BY <2>1
<1>4. found \in Seq({0} \cup DOMAIN pool) /\ DOMAIN found = DOMAIN ms
    <2>1. PICK c \in Nat : c = Len(ms)
        BY <1>2
    <2>2. found = [k \in 1 .. c |-> found[k]] /\ \A k \in 1 .. c : found[k] \in {0} \cup DOMAIN pool
        BY <1>2, <1>3, <2>1
    <2>3. QED
        BY <1>2, <2>1, <2>2
<1> HIDE DEF found
<1>5. K \in SUBSET (DOMAIN ms)
    OBVIOUS
<1>6. K \in SUBSET (DOMAIN found)
    BY <1>4
<1>7. \A k \in DOMAIN ms : k \in K <=> found[k] # 0 /\ \A j \in 1 .. k - 1 : found[j] # found[k]
    OBVIOUS
<1> HIDE DEF K
<1>8. o = Selected(found, K)
    BY <1>1, SameSelected
<1>9. PICK at : at = Ascending(K)
    OBVIOUS
<1>10. /\ o \in Seq({0} \cup DOMAIN pool) /\ Len(o) = Len(at) /\ DOMAIN o = DOMAIN at /\ DOMAIN at = 1 .. Len(at)
       /\ \A n \in DOMAIN at : at[n] \in K /\ o[n] = found[at[n]]
       /\ \A k \in K : \E n \in DOMAIN at : at[n] = k
       /\ \A m, n \in DOMAIN at : m < n => at[m] < at[n]
       /\ Len(at) \in Nat
    <2>1. PICK Z : Z = {0} \cup DOMAIN pool
        OBVIOUS
    <2>2. found \in Seq(Z)
        BY <1>4, <2>1
    <2>3. K \in SUBSET (DOMAIN found)
        BY <1>6
    <2>4. /\ o \in Seq(Z) /\ Len(o) = Len(at) /\ DOMAIN o = DOMAIN at /\ DOMAIN at = 1 .. Len(at)
          /\ \A n \in DOMAIN at : at[n] \in K /\ o[n] = found[at[n]]
          /\ \A k \in K : \E n \in DOMAIN at : at[n] = k
          /\ \A m, n \in DOMAIN at : m < n => at[m] < at[n]
          /\ Len(at) = Cardinality(K) /\ Len(at) \in Nat
        BY <1>8, <1>9, <2>2, <2>3, SelectedSays
    <2>5. QED
        BY <2>1, <2>4
<1>11. \A n \in DOMAIN o : at[n] \in DOMAIN ms /\ at[n] \in K /\ o[n] = found[at[n]] /\ o[n] \in DOMAIN pool
    <2>1. \A n \in DOMAIN o : at[n] \in K /\ o[n] = found[at[n]]
        BY <1>10
    <2>2. \A k \in K : k \in DOMAIN ms /\ found[k] # 0
        BY <1>5, <1>7
    <2>3. \A k \in K : found[k] \in DOMAIN pool
        BY <1>3, <2>2
    <2>4. QED
        BY <2>1, <2>2, <2>3
<1>12. o \in Seq(Nat)
    <2>1. PICK Z : Z = {0} \cup DOMAIN pool
        OBVIOUS
    <2>2. o \in Seq(Z) /\ \A n \in DOMAIN o : o[n] \in Nat
        BY <1>2, <1>10, <1>11, <2>1
    <2>3. QED
        BY <2>2, ValuesOf
<1>13. ASSUME NEW k \in DOMAIN ms, found[k] # 0
       PROVE  \E f \in K : f <= k /\ found[f] = found[k]
    <2>1. PICK S : S = {j \in DOMAIN ms : found[j] = found[k]}
        OBVIOUS
    <2>2. S \in SUBSET Nat /\ k \in S
        BY <1>2, <2>1
    <2>3. PICK f \in S : \A y \in S : f <= y
        BY <2>2, LeastOf
    <2>4. \A j \in 1 .. f - 1 : found[j] # found[f]
        BY <1>2, <2>1, <2>3
    <2>5. f \in K
        BY <1>7, <1>13, <2>1, <2>4
    <2>6. QED
        BY <2>1, <2>2, <2>3, <2>5
<1>14. \A n \in DOMAIN o : \E k \in DOMAIN ms : o[n] = R!Find(pool, ms[k])
    BY <1>3, <1>11
<1>15. ASSUME NEW k \in DOMAIN ms, R!Find(pool, ms[k]) # 0
       PROVE  \E n \in DOMAIN o : o[n] = R!Find(pool, ms[k])
    <2>1. PICK f \in K : found[f] = found[k]
        BY <1>3, <1>13, <1>15
    <2>2. PICK n \in DOMAIN at : at[n] = f
        BY <1>10
    <2>3. QED
        BY <1>3, <1>10, <2>1, <2>2
<1>16. ASSUME NEW m \in DOMAIN o, NEW n \in DOMAIN o, m < n
       PROVE  o[m] # o[n]
    <2>1. at[m] < at[n] /\ at[m] \in 1 .. Len(ms) /\ at[n] \in 1 .. Len(ms)
        BY <1>2, <1>10, <1>11, <1>16
    <2>2. at[m] \in 1 .. at[n] - 1
        BY <1>2, <2>1
    <2>3. QED
        BY <1>7, <1>11, <2>2
<1>17. ASSUME NEW k \in DOMAIN ms, NEW n \in DOMAIN o, o[n] = R!Find(pool, ms[k]), n > 1
       PROVE  \E i \in 1 .. k - 1 : R!Find(pool, ms[i]) = o[n - 1]
    <2>1. n - 1 \in DOMAIN o /\ n - 1 < n
        BY <1>10, <1>17
    <2>2. found[k] = found[at[n]] /\ found[k] # 0
        BY <1>3, <1>7, <1>11, <1>17
    <2>3. PICK f \in K : f <= k /\ found[f] = found[k]
        BY <1>13, <2>2
    <2>4. f \in 1 .. Len(ms) /\ at[n] \in 1 .. Len(ms) /\ at[n - 1] \in 1 .. Len(ms)
        BY <1>2, <1>5, <1>11, <2>1
    <2>5. ~ (at[n] < f) /\ ~ (f < at[n])
        <3>1. at[n] < f => at[n] \in 1 .. f - 1
            BY <2>4
        <3>2. f < at[n] => f \in 1 .. at[n] - 1
            BY <2>4
        <3>3. QED
            BY <1>2, <1>7, <1>11, <2>2, <2>3, <2>4, <3>1, <3>2
    <2>6. at[n - 1] < at[n]
        BY <1>10, <2>1
    <2>7. at[n - 1] \in 1 .. k - 1
        BY <1>2, <2>3, <2>4, <2>5, <2>6
    <2>8. R!Find(pool, ms[at[n - 1]]) = o[n - 1]
        BY <1>3, <1>11, <2>1
    <2>9. QED
        BY <2>7, <2>8
<1>18. \A m, n \in DOMAIN o : o[m] = o[n] => m = n
    BY <1>10, <1>16
<1>19. QED
    BY <1>10, <1>11, <1>12, <1>14, <1>15, <1>17, <1>18 DEF OrderOfUse

\* The answer's record: numbers that name its sources as TokensNameSources says.
Numbers(a) == {a.tokens[j] : j \in DOMAIN a.tokens} \ {0}

NumbersOK(a) ==
    /\ a.markers \in Seq(Names) /\ a.sources \in Seq(Cited)
    /\ a.tokens \in [DOMAIN a.markers -> 0 .. Len(a.sources)]
    /\ Numbers(a) # {} => Numbers(a) = DOMAIN a.sources
    /\ Numbers(a) = {} => \A n \in DOMAIN a.sources : a.sources[n].fallback
    /\ \A j \in DOMAIN a.tokens : a.tokens[j] # 0 =>
          /\ a.tokens[j] > 1 => \E i \in 1 .. (j - 1) : a.tokens[i] = a.tokens[j] - 1
          /\ \E l \in R!Labels(a.sources[a.tokens[j]]) : l = a.markers[j] \/ R!Alike(a.markers[j], l)

\* The sources an answer shows, and their numbers.
SourcesFor(o) ==
    IF o # <<>> THEN [n \in DOMAIN o |-> pool[o[n]]]
    ELSE R!Selected(cites, {k \in DOMAIN cites : cites[k].fallback})

LEMMA SourcesForSays ==
    ASSUME pool \in Seq(Cited), cites \in Seq(Cited), SourcesOf(cites) \subseteq SourcesOf(pool),
           NEW o \in Seq(Nat), \A n \in DOMAIN o : o[n] \in DOMAIN pool,
           NEW s, s = SourcesFor(o)
    PROVE  /\ s \in Seq(Cited) /\ SourcesOf(s) \subseteq SourcesOf(pool)
           /\ o # <<>> => DOMAIN s = DOMAIN o /\ \A n \in DOMAIN o : s[n] = pool[o[n]]
           /\ o = <<>> => \A n \in DOMAIN s : s[n].fallback
<1>1. CASE o # <<>>
    <2>1. PICK c \in Nat : c = Len(o) /\ DOMAIN o = 1 .. c
        OBVIOUS
    <2>2. s = [n \in 1 .. c |-> pool[o[n]]]
        BY <1>1, <2>1 DEF SourcesFor
    <2>3. \A n \in 1 .. c : o[n] \in DOMAIN pool /\ pool[o[n]] \in Cited
        BY <2>1
    <2>4. s \in Seq(Cited) /\ DOMAIN s = 1 .. c /\ \A n \in 1 .. c : s[n] = pool[o[n]]
        BY <2>2, <2>3
    <2>5. SourcesOf(s) \subseteq SourcesOf(pool)
        BY <2>3, <2>4, SMTT(20) DEF SourcesOf
    <2>6. QED
        BY <1>1, <2>1, <2>4, <2>5
<1>2. CASE o = <<>>
    <2>1. PICK K : K = {k \in DOMAIN cites : cites[k].fallback}
        OBVIOUS
    <2>2. K \in SUBSET (DOMAIN cites) /\ \A k \in K : cites[k].fallback
        BY <2>1
    <2>3. s = Selected(cites, K)
        BY <1>2, <2>1, SameSelected DEF SourcesFor
    <2>4. PICK at : at = Ascending(K)
        OBVIOUS
    <2>5. /\ s \in Seq(Cited) /\ DOMAIN s = DOMAIN at
          /\ \A n \in DOMAIN at : at[n] \in K /\ s[n] = cites[at[n]]
        BY <2>2, <2>3, <2>4, SelectedSays
    <2>6. SourcesOf(s) \subseteq SourcesOf(cites)
        BY <2>2, <2>5 DEF SourcesOf
    <2>7. QED
        BY <1>2, <2>2, <2>5, <2>6
<1>3. QED
    BY <1>1, <1>2

LEMMA TokensSay ==
    ASSUME pool \in Seq(Cited), NEW ms \in Seq(Names), NEW o, o = R!Ordered(ms),
           NEW s \in Seq(Cited),
           o # <<>> => DOMAIN s = DOMAIN o /\ \A n \in DOMAIN o : s[n] = pool[o[n]],
           o = <<>> => \A n \in DOMAIN s : s[n].fallback,
           NEW t, t = [k \in DOMAIN ms |-> R!Token(ms[k], o)]
    PROVE  NumbersOK([markers |-> ms, tokens |-> t, sources |-> s])
<1>1. /\ o \in Seq(Nat) /\ (\A n \in DOMAIN o : o[n] \in DOMAIN pool) /\ Len(o) \in Nat /\ DOMAIN o = 1 .. Len(o)
      /\ \A n \in DOMAIN o : \E k \in DOMAIN ms : o[n] = R!Find(pool, ms[k])
      /\ \A k \in DOMAIN ms : R!Find(pool, ms[k]) # 0 => \E n \in DOMAIN o : o[n] = R!Find(pool, ms[k])
      /\ \A m, n \in DOMAIN o : o[m] = o[n] => m = n
      /\ \A k \in DOMAIN ms : \A n \in DOMAIN o : o[n] = R!Find(pool, ms[k]) /\ n > 1 =>
             \E i \in 1 .. k - 1 : R!Find(pool, ms[i]) = o[n - 1]
    <2>1. OrderOfUse(ms, o)
        BY OrderedSays
    <2>2. QED
        BY <2>1 DEF OrderOfUse
<1>3. /\ o # <<>> => DOMAIN s = DOMAIN o /\ \A n \in DOMAIN o : s[n] = pool[o[n]]
      /\ o = <<>> => \A n \in DOMAIN s : s[n].fallback
    OBVIOUS
<1>4. t = [k \in DOMAIN ms |-> R!Token(ms[k], o)]
    OBVIOUS
<1>5. PICK a : a = [markers |-> ms, tokens |-> t, sources |-> s]
    OBVIOUS
<1>6. DOMAIN ms = 1 .. Len(ms) /\ Len(ms) \in Nat /\ DOMAIN s = 1 .. Len(s) /\ Len(s) \in Nat
    BY <1>3
<1>7. \A k \in DOMAIN ms : R!Find(pool, ms[k]) \in {0} \cup DOMAIN pool
    BY FindSays
<1>8. DOMAIN pool = 1 .. Len(pool) /\ 0 \notin DOMAIN pool
    OBVIOUS
<1>9. \A k \in DOMAIN ms :
         \/ t[k] = 0 /\ R!Find(pool, ms[k]) = 0
         \/ t[k] \in DOMAIN o /\ o[t[k]] = R!Find(pool, ms[k]) /\ R!Find(pool, ms[k]) # 0
    BY <1>1, <1>4 DEF R!Token
<1>10. \A n \in DOMAIN o : o[n] # 0 /\ n # 0
    BY <1>1, <1>8
<1>11. \A k \in DOMAIN ms : \A n \in DOMAIN o : o[n] = R!Find(pool, ms[k]) => t[k] = n
    <2>1. \A m, n \in DOMAIN o : o[m] = o[n] => m = n
        BY <1>1
    <2>2. SUFFICES ASSUME NEW k \in DOMAIN ms, NEW n \in DOMAIN o, o[n] = R!Find(pool, ms[k])
                   PROVE  t[k] = n
        OBVIOUS
    <2>3. t[k] \in DOMAIN o /\ o[t[k]] = o[n]
        BY <1>9, <1>10, <2>2
    <2>4. QED
        BY <2>1, <2>3
<1>12. o # <<>> <=> DOMAIN o # {}
    <2>1. PICK c : c = Len(o) /\ DOMAIN o = 1 .. c /\ c \in Nat
        BY <1>1
    <2>2. o = <<>> <=> c = 0
        BY <1>1, <2>1
    <2>3. 1 .. c = {} <=> c = 0
        BY <2>1, SMTT(20)
    <2>4. QED
        BY <2>1, <2>2, <2>3
<1>13. t \in [DOMAIN ms -> 0 .. Len(s)]
    <2>1. \A k \in DOMAIN ms : t[k] # 0 => t[k] \in DOMAIN s
        BY <1>3, <1>9, <1>12
    <2>2. \A k \in DOMAIN ms : t[k] \in 0 .. Len(s)
        BY <1>6, <2>1
    <2>3. QED
        BY <1>4, <2>2
<1>14. {t[j] : j \in DOMAIN t} \ {0} = DOMAIN o
    <2>1. \A j \in DOMAIN t : t[j] # 0 => t[j] \in DOMAIN o
        BY <1>4, <1>9
    <2>2. \A n \in DOMAIN o : n # 0 /\ \E j \in DOMAIN t : t[j] = n
        BY <1>1, <1>4, <1>10, <1>11
    <2>3. \A n : n \in {t[j] : j \in DOMAIN t} \ {0} <=> n \in DOMAIN o
        BY <2>1, <2>2
    <2>4. QED
        BY <2>3
<1>15. ASSUME NEW j \in DOMAIN ms, t[j] # 0, t[j] > 1
       PROVE  \E i \in 1 .. (j - 1) : t[i] = t[j] - 1
    <2>1. t[j] \in DOMAIN o /\ o[t[j]] = R!Find(pool, ms[j])
        BY <1>9, <1>15
    <2>2. PICK i \in 1 .. j - 1 : R!Find(pool, ms[i]) = o[t[j] - 1]
        BY <1>1, <1>15, <2>1
    <2>3. i \in DOMAIN ms /\ t[j] - 1 \in DOMAIN o
        <3>1. t[j] \in 1 .. Len(o) /\ Len(o) \in Nat /\ j \in 1 .. Len(ms) /\ i \in 1 .. j - 1
            BY <1>1, <1>6, <2>1
        <3>2. i \in 1 .. Len(ms) /\ t[j] - 1 \in 1 .. Len(o)
            BY <1>6, <1>15, <3>1
        <3>3. QED
            BY <1>1, <1>6, <3>2
    <2>4. t[i] = t[j] - 1
        BY <1>11, <2>2, <2>3
    <2>5. QED
        BY <2>4
<1>16. ASSUME NEW j \in DOMAIN ms, t[j] # 0
       PROVE  \E l \in R!Labels(s[t[j]]) : l = ms[j] \/ R!Alike(ms[j], l)
    <2>1. PICK f : f = R!Find(pool, ms[j])
        OBVIOUS
    <2>2. f # 0 /\ t[j] \in DOMAIN o /\ o[t[j]] = f
        BY <1>9, <1>16, <2>1
    <2>3. s[t[j]] = pool[f]
        BY <1>3, <1>12, <2>2
    <2>4. ms[j] \in R!Labels(pool[f]) \/ Likes(pool, f, ms[j])
        BY <2>1, <2>2, FindSays
    <2>5. QED
        BY <2>3, <2>4 DEF Likes
<1>17. PICK N : N = Numbers(a)
    OBVIOUS
<1>18. N = DOMAIN o
    BY <1>5, <1>14, <1>17 DEF Numbers
<1>19. N # {} => N = DOMAIN s
    BY <1>3, <1>12, <1>18
<1>20. N = {} => \A n \in DOMAIN s : s[n].fallback
    BY <1>3, <1>12, <1>18
<1>21. DOMAIN t = DOMAIN ms
    BY <1>4
<1>22. /\ \A j \in DOMAIN t : t[j] # 0 /\ t[j] > 1 => \E i \in 1 .. (j - 1) : t[i] = t[j] - 1
       /\ \A j \in DOMAIN t : t[j] # 0 => \E l \in R!Labels(s[t[j]]) : l = ms[j] \/ R!Alike(ms[j], l)
    <2>1. \A j \in DOMAIN t : t[j] # 0 /\ t[j] > 1 => \E i \in 1 .. (j - 1) : t[i] = t[j] - 1
        BY <1>15, <1>21
    <2>2. \A j \in DOMAIN t : t[j] # 0 => \E l \in R!Labels(s[t[j]]) : l = ms[j] \/ R!Alike(ms[j], l)
        BY <1>16, <1>21
    <2>3. QED
        BY <2>1, <2>2
<1>23. NumbersOK(a)
    <2>1. /\ a.markers \in Seq(Names) /\ a.sources \in Seq(Cited)
          /\ a.tokens \in [DOMAIN a.markers -> 0 .. Len(a.sources)]
        BY <1>3, <1>5, <1>13
    <2>2. /\ N # {} => N = DOMAIN a.sources
          /\ N = {} => \A n \in DOMAIN a.sources : a.sources[n].fallback
        BY <1>5, <1>19, <1>20
    <2>3. \A j \in DOMAIN a.tokens : a.tokens[j] # 0 /\ a.tokens[j] > 1 =>
             \E i \in 1 .. (j - 1) : a.tokens[i] = a.tokens[j] - 1
        BY <1>5, <1>22
    <2>4. \A j \in DOMAIN a.tokens : a.tokens[j] # 0 =>
             \E l \in R!Labels(a.sources[a.tokens[j]]) : l = a.markers[j] \/ R!Alike(a.markers[j], l)
        BY <1>5, <1>22
    <2>5. QED
        BY <1>17, <2>1, <2>2, <2>3, <2>4 DEF NumbersOK
<1>24. QED
    BY <1>5, <1>23

-----------------------------------------------------------------------------
(* The inductive invariant of the citations. *)

ListsOK ==
    /\ pool \in Seq(Cited) /\ cites \in Seq(Cited) /\ shown \in Seq(Cited)
    /\ Once(pool) /\ Once(cites)
    /\ SourcesOf(cites) \cup seen \cup SourcesOf(shown) \subseteq SourcesOf(pool)

CountsOK == calls \in -1 .. MaxCalls /\ turns \in 0 .. MaxTurns /\ restarts \in 0 .. MaxRestarts

CiteInv == ListsOK /\ CountsOK /\ NumbersOK(answered)

LEMMA NoneShown == \A list \in Seq(Cited) : list = <<>> => Once(list) /\ SourcesOf(list) = {}
BY DEF Once, SourcesOf

LEMMA NothingNumbered == NumbersOK(R!NoAnswer)
<1>1. PICK a : a = [markers |-> <<>>, tokens |-> <<>>, sources |-> <<>>]
    OBVIOUS
<1>2. PICK e : e = <<>>
    OBVIOUS
<1>3. a.markers = e /\ a.tokens = e /\ a.sources = e
    BY <1>1, <1>2
<1>4. e \in Seq(Names) /\ e \in Seq(Cited) /\ DOMAIN e = {} /\ Len(e) = 0
    BY <1>2
<1>5. e \in [DOMAIN e -> 0 .. Len(e)]
    BY <1>2, <1>4
<1>6. Numbers(a) = {}
    BY <1>3, <1>4 DEF Numbers
<1>7. NumbersOK(a)
    BY <1>3, <1>4, <1>5, <1>6 DEF NumbersOK
<1>8. QED
    BY <1>1, <1>7 DEF R!NoAnswer

LEMMA InitCite == ASSUME R!CitationsAssumption, R!Init PROVE CiteInv
<1>1. pool = <<>> /\ cites = <<>> /\ shown = <<>> /\ seen = {} /\ calls = -1 /\ turns = 0 /\ restarts = 0
      /\ answered = R!NoAnswer
    BY DEF R!Init
<1>2. pool \in Seq(Cited) /\ cites \in Seq(Cited) /\ shown \in Seq(Cited)
    BY <1>1
<1>3. ListsOK
    BY <1>1, <1>2, NoneShown DEF ListsOK
<1>4. CountsOK
    BY <1>1 DEF CountsOK, R!CitationsAssumption
<1>5. QED
    BY <1>1, <1>3, <1>4, NothingNumbered DEF CiteInv

LEMMA BeginCite == ASSUME R!CitationsAssumption, CiteInv, R!Begin PROVE CiteInv'
<1>1. /\ turns < MaxTurns /\ turns' = turns + 1 /\ calls' = 0 /\ cites' = <<>> /\ answered' = R!NoAnswer
      /\ pool' = pool /\ shown' = shown /\ seen' = seen /\ restarts' = restarts
    BY DEF R!Begin
<1>2. cites' \in Seq(Cited)
    BY <1>1
<1>3. Once(cites') /\ SourcesOf(cites') = {}
    BY <1>1, <1>2, NoneShown
<1>4. ListsOK'
    BY <1>1, <1>2, <1>3 DEF CiteInv, ListsOK
<1>5. CountsOK'
    BY <1>1 DEF CiteInv, CountsOK, R!CitationsAssumption
<1>6. NumbersOK(answered)'
    BY <1>1, NothingNumbered
<1>7. QED
    BY <1>4, <1>5, <1>6 DEF CiteInv

LEMMA HitsCited ==
    ASSUME R!CitationsAssumption, NEW tool \in Tools, NEW hits \in Seq(Sources),
           NEW cs, cs = [k \in DOMAIN hits |-> R!Citation(tool, hits[k])]
    PROVE  cs \in Seq(Cited) /\ SourcesOf(cs) = R!ToSet(hits)
<1>1. PICK c \in Nat : c = Len(hits) /\ DOMAIN hits = 1 .. c
    OBVIOUS
<1>2. \A k \in 1 .. c : R!Citation(tool, hits[k]) \in Cited /\ R!Citation(tool, hits[k]).source = hits[k]
    BY <1>1, CitationCited
<1>3. cs = [k \in 1 .. c |-> R!Citation(tool, hits[k])]
    BY <1>1
<1>4. cs \in Seq(Cited) /\ DOMAIN cs = 1 .. c /\ \A k \in 1 .. c : cs[k].source = hits[k]
    BY <1>2, <1>3
<1>5. QED
    BY <1>1, <1>4 DEF SourcesOf, R!ToSet

LEMMA ToolCite ==
    ASSUME R!CitationsAssumption, CiteInv, NEW tool \in Tools, NEW hits \in Finds[tool], R!ToolReturns(tool, hits)
    PROVE  CiteInv'
<1>1. PICK cs : cs = [k \in DOMAIN hits |-> R!Citation(tool, hits[k])]
    OBVIOUS
<1>2. /\ calls \in 0 .. MaxCalls - 1 /\ calls' = calls + 1
      /\ cites' = R!AddAll(cites, cs) /\ pool' = R!AddAll(pool, cites') /\ seen' = seen \cup R!ToSet(hits)
      /\ answered' = answered /\ shown' = shown /\ turns' = turns /\ restarts' = restarts
    BY <1>1 DEF R!ToolReturns
<1>3. cs \in Seq(Cited) /\ SourcesOf(cs) = R!ToSet(hits)
    BY <1>1, HitsCited DEF R!CitationsAssumption
<1>4. PICK new : new = cites'
    OBVIOUS
<1>5. PICK all : all = pool'
    OBVIOUS
<1>6. pool \in Seq(Cited) /\ cites \in Seq(Cited) /\ shown \in Seq(Cited) /\ Once(pool) /\ Once(cites)
      /\ SourcesOf(cites) \cup seen \cup SourcesOf(shown) \subseteq SourcesOf(pool)
    BY DEF CiteInv, ListsOK
<1>7. new \in Seq(Cited) /\ SourcesOf(new) = SourcesOf(cites) \cup SourcesOf(cs) /\ Once(new)
    BY <1>2, <1>3, <1>4, <1>6, AddAllSays
<1>8. all \in Seq(Cited) /\ SourcesOf(all) = SourcesOf(pool) \cup SourcesOf(new) /\ Once(all)
    BY <1>2, <1>4, <1>5, <1>6, <1>7, AddAllSays
<1>9. ListsOK'
    <2>1. /\ pool' \in Seq(Cited) /\ cites' \in Seq(Cited) /\ shown' \in Seq(Cited)
          /\ Once(pool') /\ Once(cites')
        BY <1>2, <1>4, <1>5, <1>6, <1>7, <1>8
    <2>2. /\ SourcesOf(cites') = SourcesOf(cites) \cup R!ToSet(hits)
          /\ SourcesOf(pool') = SourcesOf(pool) \cup SourcesOf(cites) \cup R!ToSet(hits)
        BY <1>3, <1>4, <1>5, <1>7, <1>8
    <2>3. SourcesOf(cites') \cup seen' \cup SourcesOf(shown') \subseteq SourcesOf(pool')
        BY <1>2, <1>6, <2>2
    <2>4. QED
        BY <2>1, <2>3 DEF ListsOK
<1>10. CountsOK'
    BY <1>2 DEF CiteInv, CountsOK, R!CitationsAssumption
<1>11. NumbersOK(answered)'
    BY <1>2 DEF CiteInv
<1>12. QED
    BY <1>9, <1>10, <1>11 DEF CiteInv

LEMMA AnswerCite ==
    ASSUME R!CitationsAssumption, CiteInv, NEW ms \in Seq(Names), R!Answer(ms)
    PROVE  CiteInv'
<1>1. pool \in Seq(Cited) /\ cites \in Seq(Cited) /\ shown \in Seq(Cited) /\ Once(pool)
      /\ SourcesOf(cites) \cup seen \cup SourcesOf(shown) \subseteq SourcesOf(pool)
    BY DEF CiteInv, ListsOK
<1>2. PICK o : o = R!Ordered(ms)
    OBVIOUS
<1>3. PICK s : s = SourcesFor(o)
    OBVIOUS
<1>4. PICK t : t = [k \in DOMAIN ms |-> R!Token(ms[k], o)]
    OBVIOUS
<1>5. /\ answered' = [markers |-> ms, tokens |-> t, sources |-> s]
      /\ shown' = R!AddAll(shown, answered'.sources) /\ calls' = -1 /\ cites' = <<>>
      /\ pool' = pool /\ turns' = turns /\ seen' = seen /\ restarts' = restarts
    BY <1>2, <1>3, <1>4 DEF R!Answer, SourcesFor
<1>6. o \in Seq(Nat) /\ \A n \in DOMAIN o : o[n] \in DOMAIN pool
    <2>1. OrderOfUse(ms, o)
        BY <1>1, <1>2, OrderedSays
    <2>2. QED
        BY <2>1 DEF OrderOfUse
<1>7. SourcesOf(cites) \subseteq SourcesOf(pool)
    BY <1>1
<1>8. /\ s \in Seq(Cited) /\ SourcesOf(s) \subseteq SourcesOf(pool)
      /\ o # <<>> => DOMAIN s = DOMAIN o /\ \A n \in DOMAIN o : s[n] = pool[o[n]]
      /\ o = <<>> => \A n \in DOMAIN s : s[n].fallback
    BY <1>1, <1>3, <1>6, <1>7, SourcesForSays
<1>9. NumbersOK([markers |-> ms, tokens |-> t, sources |-> s])
    BY <1>1, <1>2, <1>4, <1>8, TokensSay
<1>10. answered'.sources = s
    BY <1>5
<1>11. PICK new : new = shown'
    OBVIOUS
<1>12. new \in Seq(Cited) /\ SourcesOf(new) = SourcesOf(shown) \cup SourcesOf(s)
    BY <1>1, <1>5, <1>8, <1>10, <1>11, AddAllSays
<1>13. cites' \in Seq(Cited)
    BY <1>5
<1>14. Once(cites') /\ SourcesOf(cites') = {}
    BY <1>5, <1>13, NoneShown
<1>15. ListsOK'
    BY <1>1, <1>5, <1>8, <1>11, <1>12, <1>13, <1>14 DEF ListsOK
<1>16. CountsOK'
    BY <1>5 DEF CiteInv, CountsOK, R!CitationsAssumption
<1>17. NumbersOK(answered)'
    BY <1>5, <1>9
<1>18. QED
    BY <1>15, <1>16, <1>17 DEF CiteInv

LEMMA FailCite == ASSUME R!CitationsAssumption, CiteInv, R!Fail PROVE CiteInv'
<1>1. calls' = -1 /\ cites' = <<>> /\ pool' = pool /\ answered' = answered /\ shown' = shown /\ turns' = turns
      /\ seen' = seen /\ restarts' = restarts
    BY DEF R!Fail
<1>2. cites' \in Seq(Cited)
    BY <1>1
<1>3. Once(cites') /\ SourcesOf(cites') = {}
    BY <1>1, <1>2, NoneShown
<1>4. ListsOK'
    BY <1>1, <1>2, <1>3 DEF CiteInv, ListsOK
<1>5. CountsOK'
    BY <1>1 DEF CiteInv, CountsOK, R!CitationsAssumption
<1>6. NumbersOK(answered)'
    BY <1>1 DEF CiteInv
<1>7. QED
    BY <1>4, <1>5, <1>6 DEF CiteInv

LEMMA RestartCite == ASSUME R!CitationsAssumption, CiteInv, R!Restart PROVE CiteInv'
<1>1. /\ restarts < MaxRestarts /\ restarts' = restarts + 1 /\ pool' = R!AddAll(<<>>, shown)
      /\ calls' = -1 /\ cites' = <<>> /\ seen' = {}
      /\ answered' = answered /\ shown' = shown /\ turns' = turns
    BY DEF R!Restart, R!Seeded
<1>2. PICK e : e = <<>>
    OBVIOUS
<1>3. e \in Seq(Cited)
    BY <1>2
<1>4. Once(e) /\ SourcesOf(e) = {}
    BY <1>2, <1>3, NoneShown
<1>5. PICK all : all = pool'
    OBVIOUS
<1>6. all \in Seq(Cited) /\ SourcesOf(all) = SourcesOf(e) \cup SourcesOf(shown) /\ Once(all)
    <2>1. shown \in Seq(Cited) /\ all = R!AddAll(e, shown)
        BY <1>1, <1>2, <1>5 DEF CiteInv, ListsOK
    <2>2. QED
        BY <1>3, <1>4, <2>1, AddAllSays
<1>7. ListsOK'
    BY <1>1, <1>2, <1>3, <1>4, <1>5, <1>6 DEF CiteInv, ListsOK
<1>8. CountsOK'
    BY <1>1 DEF CiteInv, CountsOK, R!CitationsAssumption
<1>9. NumbersOK(answered)'
    BY <1>1 DEF CiteInv
<1>10. QED
    BY <1>7, <1>8, <1>9 DEF CiteInv

LEMMA StepCite == ASSUME R!CitationsAssumption, CiteInv, [R!Next]_R!vars PROVE CiteInv'
<1>1. CASE R!Begin
    BY <1>1, BeginCite
<1>2. CASE \E tool \in Tools : \E hits \in Finds[tool] : R!ToolReturns(tool, hits)
    BY <1>2, ToolCite
<1>3. CASE \E n \in 0 .. MaxMarkers : \E ms \in [1 .. n -> Markers] : R!Answer(ms)
    <2>1. PICK n \in 0 .. MaxMarkers : \E ms \in [1 .. n -> Markers] : R!Answer(ms)
        BY <1>3
    <2>2. PICK ms \in [1 .. n -> Markers] : R!Answer(ms)
        BY <2>1
    <2>3. n \in Nat /\ Markers \subseteq Names
        BY DEF R!CitationsAssumption
    <2>4. ms \in Seq(Names)
        BY <2>3
    <2>5. QED
        BY <2>2, <2>4, AnswerCite
<1>4. CASE R!Fail
    BY <1>4, FailCite
<1>5. CASE R!Restart
    BY <1>5, RestartCite
<1>6. CASE UNCHANGED R!vars
    BY <1>6 DEF R!vars, CiteInv, ListsOK, CountsOK
<1>7. QED
    BY <1>1, <1>2, <1>3, <1>4, <1>5, <1>6 DEF R!Next

-----------------------------------------------------------------------------
(* What the invariant says of the run's properties. *)

LEMMA CitedIsCitation == \A s \in Seq(Cited) : s \in Seq(R!Citations)
<1>1. SUFFICES ASSUME NEW s \in Seq(Cited) PROVE s \in Seq(R!Citations)
    OBVIOUS
<1>2. \A n \in DOMAIN s : s[n] \in R!Citations
    BY DEF Cited
<1>3. QED
    BY <1>2, ValuesOf

\* One source, one set of labels: the pool's entry of what an answer showed has them too.
LEMMA StaysCitable == ASSUME R!CitationsAssumption, CiteInv PROVE R!CitedStaysCitable
<1>1. SUFFICES ASSUME NEW n \in DOMAIN shown, NEW l \in R!Labels(shown[n])
               PROVE  R!Find(pool, l) # 0 /\ l \in R!Labels(pool[R!Find(pool, l)])
    BY DEF R!CitedStaysCitable, R!ToSet
<1>2. pool \in Seq(Cited) /\ shown \in Seq(Cited) /\ SourcesOf(shown) \subseteq SourcesOf(pool)
    BY DEF CiteInv, ListsOK
<1>3. PICK k \in DOMAIN pool : pool[k].source = shown[n].source
    BY <1>2 DEF SourcesOf
<1>4. pool[k] \in Cited /\ shown[n] \in Cited
    BY <1>2
<1>5. pool[k].title = shown[n].title
    BY <1>3, <1>4 DEF Cited
<1>6. l \in R!Labels(pool[k])
    BY <1>3, <1>5 DEF R!Labels
<1>7. QED
    BY <1>2, <1>6, FindSays

LEMMA CiteInvSays == ASSUME R!CitationsAssumption, CiteInv PROVE R!CitationsSound /\ R!TokensNameSources
<1>1. R!TypeOK
    <2>1. /\ pool \in Seq(R!Citations) /\ cites \in Seq(R!Citations) /\ shown \in Seq(R!Citations)
          /\ answered.sources \in Seq(R!Citations)
        BY CitedIsCitation DEF CiteInv, ListsOK, NumbersOK
    <2>2. seen \subseteq Sources
        <3>1. pool \in Seq(Cited) /\ seen \subseteq SourcesOf(pool)
            BY DEF CiteInv, ListsOK
        <3>2. SourcesOf(pool) \subseteq Sources
            BY <3>1 DEF SourcesOf, Cited, R!Citations
        <3>3. QED
            BY <3>1, <3>2
    <2>3. QED
        BY <2>1, <2>2 DEF R!TypeOK, CiteInv, CountsOK, NumbersOK
<1>2. R!OneEntryPerSource
    <2>1. \A list \in {pool, cites} : Once(list)
        BY DEF CiteInv, ListsOK
    <2>2. {c.source : c \in R!ToSet(cites)} = SourcesOf(cites) /\ {c.source : c \in R!ToSet(pool)} = SourcesOf(pool)
        BY DEF R!ToSet, SourcesOf
    <2>3. QED
        BY <2>1, <2>2 DEF R!OneEntryPerSource, Once, CiteInv, ListsOK
<1>3. R!TokensNameSources
    <2>1. R!ToSet(answered.tokens) \ {0} = Numbers(answered)
        BY DEF R!ToSet, Numbers
    <2>2. NumbersOK(answered)
        BY DEF CiteInv
    <2>3. Numbers(answered) = {} => \A c \in R!ToSet(answered.sources) : c.fallback
        BY <2>2 DEF NumbersOK, R!ToSet
    <2>4. QED
        BY <2>1, <2>2, <2>3 DEF NumbersOK, R!TokensNameSources
<1>4. QED
    BY <1>1, <1>2, <1>3, StaysCitable DEF R!CitationsSound

\* In a session the pool only grows, at its end.
LEMMA PoolGrows ==
    ASSUME R!CitationsAssumption, CiteInv, [R!Next]_R!vars, restarts' = restarts
    PROVE  \A k \in DOMAIN pool : k \in DOMAIN pool' /\ pool'[k] = pool[k]
<1>1. CASE \E tool \in Tools : \E hits \in Finds[tool] : R!ToolReturns(tool, hits)
    <2>1. PICK new, all : new = cites' /\ all = pool'
        OBVIOUS
    <2>2. all = R!AddAll(pool, new)
        BY <1>1, <2>1 DEF R!ToolReturns
    <2>3. pool \in Seq(Cited) /\ new \in Seq(Cited)
        BY <2>1, StepCite DEF CiteInv, ListsOK
    <2>4. \A k \in DOMAIN pool : k \in DOMAIN all /\ all[k] = pool[k]
        BY <2>2, <2>3, AddAllSays
    <2>5. QED
        BY <2>1, <2>4
<1>2. CASE ~ \E tool \in Tools : \E hits \in Finds[tool] : R!ToolReturns(tool, hits)
    <2>1. restarts \in Nat
        BY DEF CiteInv, CountsOK, R!CitationsAssumption
    <2>2. pool' = pool
        <3>1. CASE R!Begin \/ R!Fail \/ UNCHANGED R!vars
            BY <3>1 DEF R!Begin, R!Fail, R!vars
        <3>2. CASE \E n \in 0 .. MaxMarkers : \E ms \in [1 .. n -> Markers] : R!Answer(ms)
            BY <3>2 DEF R!Answer
        <3>3. ~ R!Restart
            BY <2>1 DEF R!Restart
        <3>4. QED
            BY <1>2, <3>1, <3>2, <3>3 DEF R!Next
    <2>3. QED
        BY <2>2
<1>3. QED
    BY <1>1, <1>2

Stable ==
    restarts' = restarts =>
        \A m \in Markers : R!Find(pool, m) # 0 =>
            LET old == pool[R!Find(pool, m)]  new == pool'[R!Find(pool', m)] IN
            new = old \/ (m \notin R!Labels(old) /\ m \in R!Labels(new))

LEMMA StepStable == ASSUME R!CitationsAssumption, CiteInv, [R!Next]_R!vars PROVE Stable
<1>1. SUFFICES ASSUME restarts' = restarts, NEW m \in Markers, R!Find(pool, m) # 0
               PROVE  LET old == pool[R!Find(pool, m)]  new == pool'[R!Find(pool', m)] IN
                      new = old \/ (m \notin R!Labels(old) /\ m \in R!Labels(new))
    BY DEF Stable
<1>2. PICK all : all = pool'
    OBVIOUS
<1>3. pool \in Seq(Cited) /\ all \in Seq(Cited)
    BY <1>2, StepCite DEF CiteInv, ListsOK
<1>4. \A k \in DOMAIN pool : k \in DOMAIN all /\ all[k] = pool[k]
    BY <1>1, <1>2, PoolGrows
<1>5. LET old == pool[R!Find(pool, m)]  now == all[R!Find(all, m)] IN
      now = old \/ (m \notin R!Labels(old) /\ m \in R!Labels(now))
    BY <1>1, <1>3, <1>4, FindStable
<1>6. QED
    BY <1>2, <1>5

-----------------------------------------------------------------------------
(* The lookups. *)

\* At most limit of S, those with the least numbers.
LEMMA ScrollSays ==
    ASSUME NEW S \in SUBSET Int, IsFiniteSet(S), NEW limit \in Nat, NEW s, s = L!Scroll(S, limit),
           NEW V, V = L!ToSet(s)
    PROVE  /\ V \subseteq S /\ IsFiniteSet(V) /\ Cardinality(V) <= limit
           /\ Cardinality(S) <= limit => V = S
<1>1. PICK at : at = Ascending(S)
    OBVIOUS
<1>2. /\ at \in Seq(S) /\ Len(at) = Cardinality(S)
      /\ \A x \in S : \E n \in DOMAIN at : at[n] = x
      /\ \A m, n \in DOMAIN at : at[m] = at[n] => m = n
    BY <1>1, AscendingSays
<1>3. PICK c : c = Fewer(limit, Len(at))
    OBVIOUS
<1>4. s = SubSeq(at, 1, c)
    BY <1>1, <1>3, SameSelected DEF L!Scroll, L!FirstOf, Fewer
<1>5. StartOf(S, at, limit, c, s)
    BY <1>2, <1>3, <1>4, FirstSays
<1>6. /\ c \in Nat /\ c <= limit /\ c <= Len(at) /\ (Len(at) <= limit => c = Len(at))
      /\ s \in Seq(S) /\ Len(s) = c /\ DOMAIN s = 1 .. c
      /\ \A k \in 1 .. c : s[k] = at[k]
      /\ DOMAIN at = 1 .. Len(at) /\ Len(at) \in Nat
    BY <1>2, <1>5 DEF StartOf
<1>7. \A m, n \in DOMAIN s : s[m] = s[n] => m = n
    BY <1>2, <1>6
<1>8. V = {s[k] : k \in DOMAIN s}
    BY DEF L!ToSet
<1>9. s \in Seq(S) /\ \A k \in DOMAIN s : s[k] \in S
    <2>1. s \in Seq(S)
        BY <1>6
    <2>2. \A k \in DOMAIN s : s[k] \in S
        BY <2>1
    <2>3. QED
        BY <2>1, <2>2
<1>10. V \subseteq S /\ IsFiniteSet(V) /\ Cardinality(V) = c
    <2>1. \A x \in V : \E k \in DOMAIN s : x = s[k]
        BY <1>8
    <2>2. V \subseteq S
        BY <1>9, <2>1
    <2>3. IsFiniteSet(V) /\ Cardinality(V) = Len(s)
        BY <1>7, <1>8, <1>9, ValuesCount
    <2>4. QED
        BY <1>6, <2>2, <2>3
<1>11. ASSUME Cardinality(S) <= limit PROVE S \subseteq V
    <2>1. DOMAIN s = DOMAIN at /\ \A n \in DOMAIN at : s[n] = at[n]
        BY <1>2, <1>6, <1>11
    <2>2. QED
        BY <1>2, <1>8, <2>1
<1>12. QED
    BY <1>6, <1>10, <1>11

\* The rows of a lookup: what the scroll found, in the order W.
Returned(rows, wanted, limit) ==
    /\ rows \in Seq(Points) /\ Len(rows) <= limit
    /\ L!ToSet(rows) \subseteq wanted
    /\ Len(rows) = Cardinality(L!ToSet(rows))
    /\ Cardinality(wanted) <= limit => L!ToSet(rows) = wanted

LEMMA SortedSays ==
    ASSUME NEW S \in SUBSET Points, Points \in SUBSET Int, IsFiniteSet(Points), NEW limit \in Nat,
           NEW V, V = L!ToSet(L!Scroll(S, limit)), NEW W, Orders(W, V), NEW rows, rows = InOrder(V, W)
    PROVE  Returned(rows, S, limit) /\ \A j, k \in DOMAIN rows : j < k => <<rows[j], rows[k]>> \in W
<1>1. S \in SUBSET Int /\ IsFiniteSet(S)
    BY FS_Subset
<1>2. /\ V \subseteq S /\ IsFiniteSet(V) /\ Cardinality(V) <= limit
      /\ Cardinality(S) <= limit => V = S
    BY <1>1, ScrollSays
<1>3. /\ rows \in Seq(V) /\ Len(rows) = Cardinality(V)
      /\ \A x \in V : \E n \in DOMAIN rows : rows[n] = x
      /\ \A m, n \in DOMAIN rows : m < n => <<rows[m], rows[n]>> \in W
    BY <1>2, InOrderSays
<1>4. PICK ToS : ToS = L!ToSet(rows)
    OBVIOUS
<1>5. ToS = V
    <2>1. \A x : x \in ToS <=> \E n \in DOMAIN rows : rows[n] = x
        BY <1>4 DEF L!ToSet
    <2>2. \A n \in DOMAIN rows : rows[n] \in V
        BY <1>3
    <2>3. QED
        BY <1>3, <2>1, <2>2
<1>6. rows \in Seq(Points)
    <2>1. \A n \in DOMAIN rows : rows[n] \in V
        BY <1>3
    <2>2. \A n \in DOMAIN rows : rows[n] \in Points
        BY <1>2, <2>1
    <2>3. QED
        BY <1>3, <2>2, ValuesOf
<1>7. QED
    BY <1>2, <1>3, <1>4, <1>5, <1>6 DEF Returned

\* Points have places, and each its index and region.
LEMMA PayloadTypes ==
    ASSUME L!LookupsAssumption, payload \in Layouts
    PROVE  /\ Points \in SUBSET Int /\ IsFiniteSet(Points)
           /\ \A i \in Points : L!Index(i) \in Nat /\ L!Region(i) \in Nat
<1>1. payload \in [Points -> L!Payload] /\ Regions \subseteq Nat
    BY DEF L!LookupsAssumption
<1>2. \A i \in Points : payload[i] \in L!Payload
    BY <1>1
<1>3. Points \in SUBSET Int /\ IsFiniteSet(Points)
    BY DEF L!LookupsAssumption, L!IsFiniteSet, IsFiniteSet
<1>4. \A x \in L!Payload : x.index \in Nat /\ x.region \in Nat
    <2>1. \A x \in L!Payload : x.index \in 0 .. MaxIndex /\ x.region \in Regions
        BY DEF L!Payload
    <2>2. \A n \in 0 .. MaxIndex : n \in Nat
        BY DEF L!LookupsAssumption
    <2>3. QED
        BY <1>1, <2>1, <2>2
<1>5. \A i \in Points : L!Index(i) \in Nat /\ L!Region(i) \in Nat
    BY <1>2, <1>4, Zenon DEF L!Index, L!Region
<1>6. QED
    BY <1>3, <1>5

LEMMA ReadingOrder ==
    ASSUME L!LookupsAssumption, payload \in Layouts, NEW V \in SUBSET Points
    PROVE  /\ Orders({p \in V \X V : L!Reads(p[1], p[2])}, V)
           /\ Orders({p \in V \X V : L!Region(p[1]) < L!Region(p[2])
                          \/ (L!Region(p[1]) = L!Region(p[2]) /\ L!Reads(p[1], p[2]))}, V)
<1>1. \A i \in V : i \in Int /\ L!Index(i) \in Nat /\ L!Region(i) \in Nat
    BY PayloadTypes
<1>2. PICK Y : Y = {p \in V \X V : L!Reads(p[1], p[2])}
    OBVIOUS
<1>3. \A i, j \in V : <<i, j>> \in Y <=> L!Index(i) < L!Index(j) \/ (L!Index(i) = L!Index(j) /\ i < j)
    BY <1>2 DEF L!Reads
<1>4. Orders(Y, V)
    BY <1>1, <1>3 DEF Orders
<1>5. PICK Z : Z = {p \in V \X V : L!Region(p[1]) < L!Region(p[2])
                        \/ (L!Region(p[1]) = L!Region(p[2]) /\ L!Reads(p[1], p[2]))}
    OBVIOUS
<1>6. \A i, j \in V : <<i, j>> \in Z <=> L!Region(i) < L!Region(j) \/ (L!Region(i) = L!Region(j) /\ <<i, j>> \in Y)
    BY <1>2, <1>5
<1>7. Orders(Z, V)
    <2>1. /\ \A i \in V : <<i, i>> \notin Y
          /\ \A i, j \in V : i # j => <<i, j>> \in Y \/ <<j, i>> \in Y
          /\ \A i, j, k \in V : <<i, j>> \in Y /\ <<j, k>> \in Y => <<i, k>> \in Y
        BY <1>4, Zenon DEF Orders
    <2>2. PICK f : f = [i \in V |-> L!Region(i)]
        OBVIOUS
    <2>3. /\ \A i \in V : f[i] \in Nat
          /\ \A i, j \in V : <<i, j>> \in Z <=> f[i] < f[j] \/ (f[i] = f[j] /\ <<i, j>> \in Y)
        BY <1>1, <1>6, <2>2
    <2>4. ASSUME NEW i \in V PROVE <<i, i>> \notin Z
        BY <2>1, <2>3
    <2>5. ASSUME NEW i \in V, NEW j \in V, i # j PROVE <<i, j>> \in Z \/ <<j, i>> \in Z
        BY <2>1, <2>3, <2>5
    <2>6. ASSUME NEW i \in V, NEW j \in V, NEW k \in V, <<i, j>> \in Z, <<j, k>> \in Z PROVE <<i, k>> \in Z
        BY <2>1, <2>3, <2>6
    <2>7. QED
        BY <2>4, <2>5, <2>6 DEF Orders
<1>8. QED
    BY <1>2, <1>4, <1>5, <1>7

\* The two sorts, of what a scroll for S found.
LEMMA ByIndexSays ==
    ASSUME L!LookupsAssumption, payload \in Layouts, NEW S \in SUBSET Points, NEW limit \in Nat,
           NEW rows, rows = L!ByIndex(L!Scroll(S, limit))
    PROVE  Returned(rows, S, limit) /\ \A j, k \in DOMAIN rows : j < k => L!Index(rows[j]) <= L!Index(rows[k])
<1>1. PICK V : V = L!ToSet(L!Scroll(S, limit))
    OBVIOUS
<1>2. PICK W : W = {p \in V \X V : L!Reads(p[1], p[2])}
    OBVIOUS
<1>3. rows = InOrder(V, W)
    BY <1>1, <1>2, SameOrder DEF L!ByIndex
<1>4. Points \in SUBSET Int /\ IsFiniteSet(Points) /\ \A i \in Points : L!Index(i) \in Nat
    BY PayloadTypes
<1>5. V \in SUBSET Points
    <2>1. S \in SUBSET Int /\ IsFiniteSet(S)
        BY <1>4, FS_Subset
    <2>2. V \subseteq S
        BY <1>1, <2>1, ScrollSays
    <2>3. QED
        BY <2>2
<1>6. Orders(W, V)
    BY <1>2, <1>5, ReadingOrder
<1>7. Returned(rows, S, limit) /\ \A j, k \in DOMAIN rows : j < k => <<rows[j], rows[k]>> \in W
    BY <1>1, <1>3, <1>4, <1>6, SortedSays
<1>8. ASSUME NEW i, NEW j, <<i, j>> \in W PROVE L!Index(i) <= L!Index(j)
    <2>1. i \in Points /\ j \in Points /\ L!Reads(i, j)
        BY <1>2, <1>5, <1>8
    <2>2. QED
        BY <1>4, <2>1 DEF L!Reads
<1>9. QED
    BY <1>7, <1>8

LEMMA ByRegionSays ==
    ASSUME L!LookupsAssumption, payload \in Layouts, NEW S \in SUBSET Points, NEW limit \in Nat,
           NEW rows, rows = L!ByRegion(L!Scroll(S, limit))
    PROVE  /\ Returned(rows, S, limit)
           /\ \A j, k \in DOMAIN rows : j < k /\ L!Region(rows[j]) = L!Region(rows[k]) =>
                  L!Index(rows[j]) <= L!Index(rows[k])
<1>1. PICK V : V = L!ToSet(L!Scroll(S, limit))
    OBVIOUS
<1>2. PICK W : W = {p \in V \X V : L!Region(p[1]) < L!Region(p[2])
                        \/ (L!Region(p[1]) = L!Region(p[2]) /\ L!Reads(p[1], p[2]))}
    OBVIOUS
<1>3. rows = InOrder(V, W)
    BY <1>1, <1>2, SameOrder DEF L!ByRegion
<1>4. Points \in SUBSET Int /\ IsFiniteSet(Points) /\ \A i \in Points : L!Index(i) \in Nat /\ L!Region(i) \in Nat
    BY PayloadTypes
<1>5. V \in SUBSET Points
    <2>1. S \in SUBSET Int /\ IsFiniteSet(S)
        BY <1>4, FS_Subset
    <2>2. V \subseteq S
        BY <1>1, <2>1, ScrollSays
    <2>3. QED
        BY <2>2
<1>6. Orders(W, V)
    BY <1>2, <1>5, ReadingOrder
<1>7. Returned(rows, S, limit) /\ \A j, k \in DOMAIN rows : j < k => <<rows[j], rows[k]>> \in W
    BY <1>1, <1>3, <1>4, <1>6, SortedSays
<1>8. ASSUME NEW i, NEW j, <<i, j>> \in W, L!Region(i) = L!Region(j) PROVE L!Index(i) <= L!Index(j)
    <2>1. /\ i \in Points /\ j \in Points
          /\ L!Region(i) < L!Region(j) \/ (L!Region(i) = L!Region(j) /\ L!Reads(i, j))
        BY <1>2, <1>5, <1>8
    <2>2. L!Reads(i, j)
        BY <1>4, <1>8, <2>1
    <2>3. QED
        BY <1>4, <2>1, <2>2 DEF L!Reads
<1>9. QED
    BY <1>7, <1>8

\* A lookup's reply.
LEMMA LookupReply ==
    ASSUME L!LookupsAssumption, L!TypeOK, NEW tool \in {"passage", "law_lookup", "verses"},
           NEW wanted \in SUBSET Points, NEW limit \in Nat, NEW rows, Returned(rows, wanted, limit),
           \A j, k \in DOMAIN rows : j < k /\ (tool = "verses" => L!Region(rows[j]) = L!Region(rows[k])) =>
               L!Index(rows[j]) <= L!Index(rows[k]),
           reply' = L!Reply(tool, wanted, limit, rows), payload' = payload, present' = present
    PROVE  L!LookupsRight'
<1>1. PICK r : r = reply'
    OBVIOUS
<1>2. PICK none : none = [i \in {} |-> "binding"]
    OBVIOUS
<1>3. PICK zero : zero = [c \in L!Classes |-> 0]
    OBVIOUS
<1>4. r.tool = tool /\ r.wanted = wanted /\ r.limit = limit /\ r.rows = rows /\ r.class = none /\ r.counts = zero
    BY <1>1, <1>2, <1>3 DEF L!Reply
<1>5. DOMAIN none = {} /\ none \in [DOMAIN none -> L!Classes] /\ zero \in [L!Classes -> Nat]
    BY <1>2, <1>3
<1>6. rows \in Seq(Points) /\ Len(rows) <= limit
    BY DEF Returned
<1>7. L!TypeOK'
    <2>1. /\ r.tool \in {"passage", "law_lookup", "verses", "search", "law_search"}
          /\ r.wanted \subseteq Points /\ r.limit \in Nat
        BY <1>4
    <2>2. r.rows \in Seq(Points) /\ Len(r.rows) <= r.limit
        BY <1>4, <1>6
    <2>3. r.class \in [DOMAIN r.class -> L!Classes] /\ DOMAIN r.class \subseteq Points
          /\ r.counts \in [L!Classes -> Nat]
        BY <1>4, <1>5
    <2>4. QED
        BY <1>1, <2>1, <2>2, <2>3 DEF L!TypeOK
<1>8. L!LookupsExact'
    <2>1. /\ L!ToSet(r.rows) \subseteq r.wanted
          /\ Len(r.rows) = L!Cardinality(L!ToSet(r.rows))
          /\ L!Cardinality(r.wanted) <= r.limit => L!ToSet(r.rows) = r.wanted
        BY <1>4, SameOrder DEF Returned
    <2>2. QED
        BY <1>1, <2>1 DEF L!LookupsExact
<1>9. L!LookupsOrdered'
    BY <1>1, <1>4 DEF L!LookupsOrdered, L!Index, L!Region
<1>10. L!HitsAllClassed'
    BY <1>1, <1>4 DEF L!HitsAllClassed
<1>11. QED
    BY <1>7, <1>8, <1>9, <1>10 DEF L!LookupsRight

\* A search's hits, as Qdrant ranked them.
LEMMA HitsSay ==
    ASSUME L!LookupsAssumption, payload \in Layouts, NEW S \in SUBSET Points, NEW limit \in Nat,
           NEW h \in L!Hits(S, limit)
    PROVE  h \in Seq(Points) /\ Len(h) <= limit
<1>1. Points \in SUBSET Int /\ IsFiniteSet(Points)
    BY PayloadTypes
<1>2. IsFiniteSet(S) /\ Cardinality(S) \in Nat
    BY <1>1, FS_Subset, FS_CardinalityType
<1>3. PICK n : n = IF Cardinality(S) < limit THEN Cardinality(S) ELSE limit
    OBVIOUS
<1>4. n \in Nat /\ n <= limit
    BY <1>2, <1>3
<1>5. h \in [1 .. n -> S]
    BY <1>3, SameOrder DEF L!Hits
<1>6. h \in [1 .. n -> Points]
    BY <1>5
<1>7. QED
    BY <1>4, <1>6

LEMMA SearchRight ==
    ASSUME L!LookupsAssumption, L!TypeOK, NEW region, L!Search(region)
    PROVE  L!LookupsRight'
<1>1. PICK S : S = L!Where(region)
    OBVIOUS
<1>2. PICK h \in L!Hits(S, Limit) : reply' = L!Reply("search", S, Limit, h)
    BY <1>1 DEF L!Search
<1>3. payload' = payload /\ present' = present /\ payload \in Layouts /\ S \in SUBSET Points /\ Limit \in Nat
    BY <1>1 DEF L!Search, L!Where, L!TypeOK, L!LookupsAssumption
<1>4. h \in Seq(Points) /\ Len(h) <= Limit
    BY <1>2, <1>3, HitsSay
<1>5. PICK r : r = reply'
    OBVIOUS
<1>6. PICK none, zero : none = [i \in {} |-> "binding"] /\ zero = [c \in L!Classes |-> 0]
    OBVIOUS
<1>7. r.tool = "search" /\ r.wanted = S /\ r.limit = Limit /\ r.rows = h /\ r.class = none /\ r.counts = zero
    BY <1>2, <1>5, <1>6 DEF L!Reply
<1>8. DOMAIN none = {} /\ none \in [DOMAIN none -> L!Classes] /\ zero \in [L!Classes -> Nat]
    BY <1>6
<1>9. L!TypeOK'
    BY <1>3, <1>4, <1>5, <1>7, <1>8 DEF L!TypeOK
<1>10. L!LookupsExact' /\ L!LookupsOrdered' /\ L!HitsAllClassed'
    BY <1>5, <1>7 DEF L!LookupsExact, L!LookupsOrdered, L!HitsAllClassed, L!Lookup
<1>11. QED
    BY <1>9, <1>10 DEF L!LookupsRight

\* Each class of a law search is counted by its own list.
LEMMA PartSays ==
    ASSUME NEW h \in Seq(Points), NEW c
    PROVE  Len(L!Part(h, c)) = Cardinality({k \in DOMAIN h : L!Class(h[k]) = c}) /\ Len(L!Part(h, c)) \in Nat
<1>1. PICK K : K = {k \in DOMAIN h : L!Class(h[k]) = c}
    OBVIOUS
<1>2. PICK r : r = Selected(h, K)
    OBVIOUS
<1>3. PICK at : at = Ascending(K)
    OBVIOUS
<1>4. K \in SUBSET (DOMAIN h)
    BY <1>1
<1>5. Len(r) = Len(at) /\ Len(at) = Cardinality(K) /\ Len(at) \in Nat
    BY <1>2, <1>3, <1>4, SelectedSays
<1>6. L!Part(h, c) = r
    BY <1>1, <1>2, SameSelected DEF L!Part
<1>7. QED
    BY <1>1, <1>5, <1>6

LEMMA LawSearchRight ==
    ASSUME L!LookupsAssumption, L!TypeOK, NEW region, L!LawSearch(region)
    PROVE  L!LookupsRight'
<1>1. PICK S : S = L!Where(region)
    OBVIOUS
<1>2. PICK h \in L!Hits(S, Limit) :
          reply' = [L!Reply("law_search", S, Limit, L!Labelled(h)) EXCEPT
                        !.class = [i \in L!ToSet(h) |-> L!Class(i)],
                        !.counts = [c \in L!Classes |-> Len(L!Part(h, c))]]
    BY <1>1 DEF L!LawSearch
<1>3. payload' = payload /\ present' = present /\ payload \in Layouts /\ S \in SUBSET Points /\ Limit \in Nat
    BY <1>1 DEF L!LawSearch, L!Where, L!TypeOK, L!LookupsAssumption
<1>4. h \in Seq(Points) /\ Len(h) <= Limit
    BY <1>2, <1>3, HitsSay
<1>5. PICK r : r = reply'
    OBVIOUS
<1>6. PICK V : V = L!ToSet(h)
    OBVIOUS
<1>7. PICK class : class = [i \in V |-> L!Class(i)]
    OBVIOUS
<1>8. PICK counts : counts = [c \in L!Classes |-> Len(L!Part(h, c))]
    OBVIOUS
<1>9. r.tool = "law_search" /\ r.wanted = S /\ r.limit = Limit /\ r.rows = h /\ r.class = class /\ r.counts = counts
    BY <1>2, <1>5, <1>6, <1>7, <1>8 DEF L!Reply, L!Labelled
<1>10. V \subseteq Points /\ \A k \in DOMAIN h : h[k] \in V
    BY <1>4, <1>6 DEF L!ToSet
<1>11. DOMAIN class = V /\ class \in [V -> L!Classes]
    BY <1>7 DEF L!Class, L!Classes
<1>12. counts \in [L!Classes -> Nat]
    BY <1>4, <1>8, PartSays
<1>13. L!TypeOK'
    BY <1>3, <1>4, <1>5, <1>9, <1>10, <1>11, <1>12 DEF L!TypeOK
<1>14. L!LookupsExact' /\ L!LookupsOrdered'
    BY <1>5, <1>9 DEF L!LookupsExact, L!LookupsOrdered, L!Lookup
<1>15. ASSUME NEW c \in L!Classes PROVE counts[c] = L!Cardinality({j \in DOMAIN h : class[h[j]] = c})
    <2>1. counts[c] = Cardinality({k \in DOMAIN h : L!Class(h[k]) = c})
        BY <1>4, <1>8, PartSays
    <2>2. \A k \in DOMAIN h : class[h[k]] = L!Class(h[k])
        BY <1>7, <1>10
    <2>3. {j \in DOMAIN h : class[h[j]] = c} = {k \in DOMAIN h : L!Class(h[k]) = c}
        BY <2>2
    <2>4. QED
        BY <2>1, <2>3, SameOrder
<1>16. L!HitsAllClassed'
    <2>1. L!ToSet(r.rows) = DOMAIN r.class
        BY <1>6, <1>9, <1>11
    <2>2. \A c \in L!Classes : r.counts[c] = L!Cardinality({j \in DOMAIN r.rows : r.class[r.rows[j]] = c})
        BY <1>9, <1>15
    <2>3. QED
        BY <1>5, <2>1, <2>2 DEF L!HitsAllClassed
<1>17. QED
    BY <1>13, <1>14, <1>16 DEF L!LookupsRight

LEMMA ScriptureRight ==
    ASSUME L!LookupsAssumption, L!TypeOK, NEW g, NEW region, NEW first \in 0 .. MaxIndex, NEW last \in 0 .. MaxIndex,
           last # 0 => first # 0, L!ScriptureLookup(g, first, last, region)
    PROVE  L!LookupsRight'
<1>1. PICK wanted : wanted = {i \in L!OfGroup(g) \cap L!Where(region) :
                                 \/ first = 0
                                 \/ last = 0 /\ L!Index(i) = first
                                 \/ last # 0 /\ L!Index(i) \in first .. last}
    OBVIOUS
<1>2. PICK found : found = {i \in L!OfGroup(g) \cap L!Where(region) : L!InRange(i, L!Parsed(first, last))}
    OBVIOUS
<1>3. /\ reply' = L!Reply("verses", wanted, VerseLimit, L!ByRegion(L!Scroll(found, VerseLimit)))
      /\ payload' = payload /\ present' = present
    BY <1>1, <1>2, Zenon DEF L!ScriptureLookup
<1>4. payload \in Layouts /\ VerseLimit \in Nat
    BY DEF L!TypeOK, L!LookupsAssumption
<1>5. wanted \in SUBSET Points
    BY <1>1 DEF L!OfGroup, L!TypeOK
<1>6. \A i \in Points : L!Index(i) \in Nat
    BY <1>4, PayloadTypes
<1>7. first \in Nat /\ last \in Nat
    BY DEF L!LookupsAssumption
<1>8. wanted = found
    <2>1. PICK ref : ref = L!Parsed(first, last)
        OBVIOUS
    <2>2. ref.from = first /\ ref.to = IF last # 0 THEN last ELSE first
        BY <2>1 DEF L!Parsed
    <2>3. ASSUME NEW i \in Points
          PROVE  L!InRange(i, ref) <=> \/ first = 0
                                       \/ last = 0 /\ L!Index(i) = first
                                       \/ last # 0 /\ L!Index(i) \in first .. last
        BY <1>6, <1>7, <2>2 DEF L!InRange
    <2>4. L!OfGroup(g) \cap L!Where(region) \subseteq Points
        BY DEF L!OfGroup, L!TypeOK
    <2>5. QED
        BY <1>1, <1>2, <2>1, <2>3, <2>4
<1>9. PICK rows : rows = L!ByRegion(L!Scroll(found, VerseLimit))
    OBVIOUS
<1>10. /\ Returned(rows, wanted, VerseLimit)
       /\ \A j, k \in DOMAIN rows : j < k /\ L!Region(rows[j]) = L!Region(rows[k]) =>
              L!Index(rows[j]) <= L!Index(rows[k])
    BY <1>4, <1>5, <1>8, <1>9, ByRegionSays
<1>11. reply' = L!Reply("verses", wanted, VerseLimit, rows)
    BY <1>3, <1>9
<1>12. QED
    BY <1>3, <1>4, <1>5, <1>10, <1>11, LookupReply

\* One step of the tools.
LEMMA StepLookups ==
    ASSUME L!LookupsAssumption, L!LookupsRight, [L!Next]_L!vars
    PROVE  L!LookupsRight'
<1>1. L!TypeOK /\ payload \in Layouts /\ PassageLimit \in Nat /\ Limit \in Nat
    BY DEF L!LookupsRight, L!TypeOK, L!LookupsAssumption
<1>2. ASSUME NEW g \in Groups, L!GetPassage(g) PROVE L!LookupsRight'
    <2>1. PICK S : S = L!OfGroup(g)
        OBVIOUS
    <2>2. PICK rows : rows = L!ByIndex(L!Scroll(S, PassageLimit))
        OBVIOUS
    <2>3. reply' = L!Reply("passage", S, PassageLimit, rows) /\ payload' = payload /\ present' = present
        BY <1>2, <2>1, <2>2 DEF L!GetPassage
    <2>4. S \in SUBSET Points
        BY <1>1, <2>1 DEF L!OfGroup, L!TypeOK
    <2>5. Returned(rows, S, PassageLimit) /\ \A j, k \in DOMAIN rows : j < k => L!Index(rows[j]) <= L!Index(rows[k])
        BY <1>1, <2>2, <2>4, ByIndexSays
    <2>6. QED
        BY <1>1, <2>3, <2>4, <2>5, LookupReply
<1>3. ASSUME NEW g \in Groups, NEW region, L!LawLookup(g, region) PROVE L!LookupsRight'
    <2>1. PICK S : S = L!OfGroup(g) \cap L!Where(region)
        OBVIOUS
    <2>2. PICK rows : rows = L!ByIndex(L!Scroll(S, Limit))
        OBVIOUS
    <2>3. reply' = L!Reply("law_lookup", S, Limit, rows) /\ payload' = payload /\ present' = present
        BY <1>3, <2>1, <2>2 DEF L!LawLookup
    <2>4. S \in SUBSET Points
        BY <1>1, <2>1 DEF L!OfGroup, L!TypeOK
    <2>5. Returned(rows, S, Limit) /\ \A j, k \in DOMAIN rows : j < k => L!Index(rows[j]) <= L!Index(rows[k])
        BY <1>1, <2>2, <2>4, ByIndexSays
    <2>6. QED
        BY <1>1, <2>3, <2>4, <2>5, LookupReply
<1>4. CASE L!Return
    BY <1>1, <1>4 DEF L!Return, L!LookupsRight, L!TypeOK, L!LookupsExact, L!LookupsOrdered, L!HitsAllClassed, L!Lookup
<1>5. CASE L!Reindex
    <2>1. reply = None /\ reply' = None /\ payload' = payload /\ present' \subseteq Points
        BY <1>5 DEF L!Reindex
    <2>2. QED
        BY <1>1, <2>1 DEF L!LookupsRight, L!TypeOK, L!LookupsExact, L!LookupsOrdered, L!HitsAllClassed, L!Lookup
<1>6. CASE UNCHANGED L!vars
    BY <1>6 DEF L!vars, L!LookupsRight, L!TypeOK, L!LookupsExact, L!LookupsOrdered, L!HitsAllClassed, L!Lookup,
       L!Index, L!Region
<1>7. CASE \E g \in Groups, r \in Regions \cup {None} :
             \/ L!LawLookup(g, r)
             \/ \E first, last \in 0 .. MaxIndex :
                   (last # 0 => first # 0) /\ L!ScriptureLookup(g, first, last, r)
    BY <1>1, <1>3, <1>7, ScriptureRight
<1>8. CASE \E r \in Regions \cup {None} : L!Search(r) \/ L!LawSearch(r)
    BY <1>1, <1>8, SearchRight, LawSearchRight
<1>9. QED
    BY <1>2, <1>4, <1>5, <1>6, <1>7, <1>8 DEF L!Next

-----------------------------------------------------------------------------
(* The queries of the case. *)

CaseInv == truth \in Truths /\ Q!CaseAnswersRight

\* The values of a list.
ValuesIn(s) == {s[k] : k \in DOMAIN s}

\* LIMIT: the first of those wanted, all of them if they are so few.
LEMMA LimitSays ==
    ASSUME NEW S, NEW at \in Seq(S), \A x \in S : \E n \in DOMAIN at : at[n] = x, Len(at) = Cardinality(S),
           NEW limit \in Nat, NEW rows, rows = Q!FirstOf(at, limit)
    PROVE  /\ rows \in Seq(S) /\ Len(rows) <= limit
           /\ \A k \in DOMAIN rows : k \in DOMAIN at /\ rows[k] = at[k]
           /\ \A n \in DOMAIN at : n \notin DOMAIN rows => Len(rows) = limit /\ \A k \in DOMAIN rows : k < n
           /\ Cardinality(S) <= limit => ValuesIn(rows) = S
<1>1. PICK c : c = Fewer(limit, Len(at))
    OBVIOUS
<1>2. rows = SubSeq(at, 1, c)
    BY <1>1 DEF Q!FirstOf, Fewer
<1>3. StartOf(S, at, limit, c, rows)
    BY <1>1, <1>2, FirstSays
<1>4. /\ c \in Nat /\ c <= limit /\ c <= Len(at) /\ (Len(at) <= limit => c = Len(at)) /\ (c # Len(at) => c = limit)
      /\ rows \in Seq(S) /\ Len(rows) = c /\ DOMAIN rows = 1 .. c
      /\ \A k \in 1 .. c : rows[k] = at[k]
    BY <1>3 DEF StartOf
<1>5. DOMAIN at = 1 .. Len(at) /\ Len(at) \in Nat
    OBVIOUS
<1>6. \A k \in DOMAIN rows : k \in DOMAIN at /\ rows[k] = at[k]
    BY <1>4, <1>5
<1>7. \A n \in DOMAIN at : n \notin DOMAIN rows => Len(rows) = limit /\ \A k \in DOMAIN rows : k < n
    BY <1>4, <1>5
<1>8. ASSUME Cardinality(S) <= limit PROVE ValuesIn(rows) = S
    <2>1. DOMAIN rows = DOMAIN at
        BY <1>4, <1>5, <1>8
    <2>2. \A x \in S : \E n \in DOMAIN rows : rows[n] = x
        BY <1>6, <2>1
    <2>3. \A n \in DOMAIN rows : rows[n] \in S
        BY <1>4
    <2>4. \A x : x \in ValuesIn(rows) <=> x \in S
        BY <2>2, <2>3 DEF ValuesIn
    <2>5. QED
        BY <2>4
<1>9. QED
    BY <1>4, <1>6, <1>7, <1>8

\* ORDER BY id LIMIT.
LEMMA FirstRows ==
    ASSUME NEW S \in SUBSET Int, IsFiniteSet(S), NEW limit \in Nat,
           NEW rows, rows = Q!FirstOf(Q!Ascending(S), limit)
    PROVE  /\ rows \in Seq(S) /\ Len(rows) <= limit /\ ValuesIn(rows) \subseteq S
           /\ Cardinality(S) <= limit => ValuesIn(rows) = S
<1>1. PICK at : at = Ascending(S)
    OBVIOUS
<1>2. at \in Seq(S) /\ (\A x \in S : \E n \in DOMAIN at : at[n] = x) /\ Len(at) = Cardinality(S)
    BY <1>1, AscendingSays
<1>3. rows = Q!FirstOf(at, limit)
    BY <1>1, SameSelected
<1>4. rows \in Seq(S) /\ Len(rows) <= limit /\ (Cardinality(S) <= limit => ValuesIn(rows) = S)
    BY <1>2, <1>3, LimitSays
<1>5. ValuesIn(rows) \subseteq S
    BY <1>4 DEF ValuesIn
<1>6. QED
    BY <1>4, <1>5

\* The tables are finite.
Tables == {"events", "facts", "flags", "observations"}

LEMMA TableTypes ==
    ASSUME Q!QueriesAssumption, truth \in Truths
    PROVE  /\ \A table \in Tables : DOMAIN truth[table] \in SUBSET Int /\ IsFiniteSet(DOMAIN truth[table])
           /\ Q!Entities \in SUBSET Int /\ IsFiniteSet(Q!Entities)
           /\ \A k \in DOMAIN truth.events : truth.events[k].date \in Nat
<1>1. ASSUME NEW T, NEW s \in Seq(T) PROVE DOMAIN s \in SUBSET Int /\ IsFiniteSet(DOMAIN s)
    <2>1. PICK l \in Nat : DOMAIN s = 1 .. l
        OBVIOUS
    <2>2. QED
        BY <2>1, FS_Interval
<1>2. \A table \in Tables : truth[table] \in Seq(Q!Range(truth[table]))
    BY DEF Q!QueriesAssumption, Tables
<1>3. IdText \in Seq(Q!Range(IdText))
    BY DEF Q!QueriesAssumption
<1>4. \A k \in DOMAIN truth.events : truth.events[k].date \in Nat
    BY DEF Q!QueriesAssumption
<1>5. QED
    BY <1>1, <1>2, <1>3, <1>4 DEF Q!Entities

\* What a query answers.
LEMMA AnswersSay ==
    ASSUME NEW tool, NEW args, NEW limit, NEW rows, Q!Answers(tool, args, limit, rows)
    PROVE  /\ truth' = truth
           /\ told'.tool = tool /\ told'.args = args /\ told'.limit = limit /\ told'.rows = rows
           /\ tool = "people" => \A e \in ValuesIn(rows) : told'.links[e].in = Q!ReferencedBy(e)
<1>1. PICK links : links = [e \in {rows[k] : k \in DOMAIN rows} |->
                              IF tool = "people" THEN [out |-> Q!Outgoing(e), in |-> Q!ReferencedBy(e)]
                              ELSE [out |-> {}, in |-> {}]]
    OBVIOUS
<1>2. told' = [tool |-> tool, args |-> args, limit |-> limit, rows |-> rows, links |-> links] /\ truth' = truth
    BY <1>1, Zenon DEF Q!Answers
<1>3. tool = "people" => \A e \in ValuesIn(rows) : links[e] = [out |-> Q!Outgoing(e), in |-> Q!ReferencedBy(e)]
    BY <1>1 DEF ValuesIn
<1>4. /\ told'.tool = tool /\ told'.args = args /\ told'.limit = limit /\ told'.rows = rows
      /\ told'.links = links /\ truth' = truth
    BY <1>2
<1>5. ASSUME tool = "people", NEW e \in ValuesIn(rows) PROVE told'.links[e].in = Q!ReferencedBy(e)
    <2>1. links[e].in = Q!ReferencedBy(e)
        <3>1. PICK v, w : v = Q!Outgoing(e) /\ w = Q!ReferencedBy(e)
            OBVIOUS
        <3>2. links[e] = [out |-> v, in |-> w]
            BY <1>3, <1>5, <3>1
        <3>3. links[e].in = w
            BY <3>2
        <3>4. QED
            BY <3>1, <3>3
    <2>2. QED
        BY <1>4, <2>1
<1>6. QED
    BY <1>4, <1>5

\* Rows of a table, or entities.
RowsFrom(tool) ==
    IF tool \in {"people", "participants"} THEN Q!Entities
    ELSE DOMAIN truth[IF tool = "timeline" THEN "events" ELSE tool]

LEMMA AnswersTyped ==
    ASSUME NEW tool \in {"people", "participants", "timeline", "facts", "flags", "observations"}, NEW args,
           NEW limit \in Limits, NEW rows \in Seq(RowsFrom(tool)), Len(rows) <= limit,
           Q!Answers(tool, args, limit, rows)
    PROVE  Q!TypeOK'
<1>1. PICK r : r = told'
    OBVIOUS
<1>2. r.tool = tool /\ r.limit = limit /\ r.rows = rows /\ truth' = truth
    BY <1>1, AnswersSay
<1>3. r.rows \in Seq(IF r.tool \in {"people", "participants"} THEN Q!Entities
                     ELSE DOMAIN truth'[IF r.tool = "timeline" THEN "events" ELSE r.tool])
    BY <1>2, Zenon DEF RowsFrom
<1>4. QED
    BY <1>1, <1>2, <1>3 DEF Q!TypeOK

\* Rows that are the first of some of the table's are rows of the table.
LEMMA RowsTyped ==
    ASSUME NEW T, NEW S \in SUBSET T, NEW rows \in Seq(S)
    PROVE  rows \in Seq(T)
<1>1. \A k \in DOMAIN rows : rows[k] \in T
    OBVIOUS
<1>2. QED
    BY <1>1, ValuesOf

\* Who is found by a name that someone has: those who have it.
LEMMA NamedResolve ==
    ASSUME NEW name, name # <<>>, Q!Named(name) # {}
    PROVE  Q!Resolve(name) = Q!Named(name)
<1>1. \A e \in Q!Entities : name \in Q!Aliases(e) \/ name = IdText[e] <=>
                            name \in Q!Person(e).aliases \cup {Q!Person(e).name, IdText[e]}
    BY DEF Q!Aliases
<1>2. Q!Exactly(name) = Q!Named(name)
    BY <1>1, Zenon DEF Q!Exactly, Q!Named
<1>3. QED
    BY <1>2 DEF Q!Resolve

LEMMA PeopleRight ==
    ASSUME Q!QueriesAssumption, CaseInv, Q!EntityLookup
    PROVE  CaseInv'
<1>1. PICK name \in Texts \ {<<>>}, limit \in Limits :
          Q!Answers("people", [name |-> name], limit, Q!FirstOf(Q!Ascending(Q!Resolve(name)), limit))
    BY DEF Q!EntityLookup
<1>2. PICK S : S = Q!Resolve(name)
    OBVIOUS
<1>3. PICK rows : rows = Q!FirstOf(Q!Ascending(S), limit)
    OBVIOUS
<1>4. PICK args : args = [name |-> name]
    OBVIOUS
<1>5. Q!Answers("people", args, limit, rows)
    BY <1>1, <1>2, <1>3, <1>4
<1>6. truth \in Truths /\ Q!Entities \in SUBSET Int /\ IsFiniteSet(Q!Entities) /\ limit \in Nat
    BY TableTypes DEF CaseInv, Q!QueriesAssumption
<1>7. S \in SUBSET Q!Entities
    BY <1>2 DEF Q!Resolve, Q!Exactly, Q!Partly, Q!AllWords
<1>8. S \in SUBSET Int /\ IsFiniteSet(S)
    BY <1>6, <1>7, FS_Subset
<1>9. /\ rows \in Seq(S) /\ Len(rows) <= limit /\ ValuesIn(rows) \subseteq S
      /\ Cardinality(S) <= limit => ValuesIn(rows) = S
    BY <1>3, <1>6, <1>8, FirstRows
<1>10. rows \in Seq(RowsFrom("people"))
    <2>1. rows \in Seq(Q!Entities)
        BY <1>7, <1>9, RowsTyped
    <2>2. RowsFrom("people") = Q!Entities
        BY DEF RowsFrom
    <2>3. QED
        BY <2>1, <2>2
<1>11. Q!TypeOK'
    BY <1>5, <1>9, <1>10, AnswersTyped
<1>12. PICK r : r = told'
    OBVIOUS
<1>13. /\ truth' = truth /\ r.tool = "people" /\ r.args = args /\ r.limit = limit /\ r.rows = rows
       /\ \A e \in ValuesIn(rows) : r.links[e].in = Q!ReferencedBy(e)
    BY <1>5, <1>12, AnswersSay
<1>14. Q!RowSet' = ValuesIn(rows)
    BY <1>12, <1>13, Zenon DEF Q!RowSet, ValuesIn
<1>15. Q!NamedIsFound'
    <2>1. PICK N : N = Q!Named(name)
        OBVIOUS
    <2>2. N # {} => S = N
        BY <1>2, <2>1, NamedResolve
    <2>3. N # {} => ValuesIn(rows) \subseteq N /\ (Cardinality(N) <= limit => ValuesIn(rows) = N)
        BY <1>9, <2>2
    <2>4. Q!Named(name)' = N
        BY <1>13, <2>1 DEF Q!Named, Q!Person
    <2>5. r.args.name = name
        BY <1>4, <1>13
    <2>6. Q!Cardinality(N) = Cardinality(N)
        BY SameOrder
    <2>7. (Q!Named(r.args.name))' = N
        BY <1>12, <2>4, <2>5 DEF Q!Named
    <2>8. QED
        BY <1>12, <1>13, <1>14, <2>3, <2>5, <2>6, <2>7 DEF Q!NamedIsFound
<1>16. Q!RelationsMirrored'
    <2>1. ASSUME NEW e \in ValuesIn(rows), NEW f \in Q!Entities \ {e}, NEW k
          PROVE  [who |-> f, kind |-> k] \in Q!ReferencedBy(e) <=> [who |-> e, kind |-> k] \in Q!Outgoing(f)
        <3>1. [who |-> f, kind |-> k] \in Q!ReferencedBy(e) <=> \E r1 \in Q!Person(f).rels : r1.to = e /\ r1.kind = k
            <4>1. PICK x : x = [who |-> f, kind |-> k]
                OBVIOUS
            <4>2. x \in Q!ReferencedBy(e) <=>
                      \E f1 \in Q!Entities \ {e} : \E r1 \in Q!Person(f1).rels :
                          r1.to = e /\ x = [who |-> f1, kind |-> r1.kind]
                BY DEF Q!ReferencedBy
            <4>3. \A f1, k1 : x = [who |-> f1, kind |-> k1] <=> f1 = f /\ k1 = k
                BY <4>1
            <4>4. QED
                BY <4>1, <4>2, <4>3
        <3>2. [who |-> e, kind |-> k] \in Q!Outgoing(f) <=> \E r1 \in Q!Person(f).rels : r1.to = e /\ r1.kind = k
            BY DEF Q!Outgoing
        <3>3. QED
            BY <3>1, <3>2
    <2>2. \A e \in ValuesIn(rows) : \A f \in Q!Entities \ {e} : \A k :
              [who |-> f, kind |-> k] \in r.links[e].in <=> [who |-> e, kind |-> k] \in Q!Outgoing(f)
        <3>1. SUFFICES ASSUME NEW e \in ValuesIn(rows), NEW f \in Q!Entities \ {e}, NEW k
                       PROVE  [who |-> f, kind |-> k] \in r.links[e].in <=> [who |-> e, kind |-> k] \in Q!Outgoing(f)
            OBVIOUS
        <3>2. r.links[e].in = Q!ReferencedBy(e)
            BY <1>13
        <3>3. QED
            BY <2>1, <3>2
    <2>3. \A f : Q!Outgoing(f)' = Q!Outgoing(f)
        BY <1>13 DEF Q!Outgoing, Q!Person
    <2>4. QED
        BY <1>12, <1>13, <1>14, <2>2, <2>3 DEF Q!RelationsMirrored
<1>17. Q!TimelineTellsFirst' /\ Q!FiltersNarrow'
    BY <1>12, <1>13 DEF Q!TimelineTellsFirst, Q!FiltersNarrow
<1>18. QED
    BY <1>6, <1>11, <1>13, <1>15, <1>16, <1>17 DEF CaseInv, Q!CaseAnswersRight

LEMMA RowsFinite ==
    ASSUME Q!QueriesAssumption, truth \in Truths,
           NEW tool \in {"people", "participants", "timeline", "facts", "flags", "observations"},
           NEW S \in SUBSET RowsFrom(tool)
    PROVE  S \in SUBSET Int /\ IsFiniteSet(S)
<1>1. \A table \in Tables : DOMAIN truth[table] \in SUBSET Int /\ IsFiniteSet(DOMAIN truth[table])
    BY TableTypes
<1>2. Q!Entities \in SUBSET Int /\ IsFiniteSet(Q!Entities)
    BY TableTypes
<1>3. RowsFrom(tool) \in SUBSET Int /\ IsFiniteSet(RowsFrom(tool))
    BY <1>1, <1>2 DEF RowsFrom, Tables
<1>4. QED
    BY <1>3, FS_Subset

\* A query that lists rows by their number.
LEMMA ListedRight ==
    ASSUME Q!QueriesAssumption, CaseInv, NEW tool \in {"participants", "facts", "flags", "observations"}, NEW args,
           NEW limit \in Limits, NEW S \in SUBSET RowsFrom(tool),
           NEW rows, rows = Q!FirstOf(Q!Ascending(S), limit), Q!Answers(tool, args, limit, rows)
    PROVE  /\ truth' = truth /\ told'.tool = tool /\ told'.args = args /\ Q!RowSet' \subseteq S
           /\ Q!TypeOK' /\ Q!NamedIsFound' /\ Q!RelationsMirrored' /\ Q!TimelineTellsFirst'
<1>1. truth \in Truths /\ limit \in Nat
    BY DEF CaseInv, Q!QueriesAssumption
<1>2. S \in SUBSET Int /\ IsFiniteSet(S)
    BY <1>1, RowsFinite
<1>3. rows \in Seq(S) /\ Len(rows) <= limit /\ ValuesIn(rows) \subseteq S
    BY <1>1, <1>2, FirstRows
<1>4. rows \in Seq(RowsFrom(tool))
    BY <1>3, RowsTyped
<1>5. Q!TypeOK'
    BY <1>3, <1>4, AnswersTyped
<1>6. PICK r : r = told'
    OBVIOUS
<1>7. truth' = truth /\ r.tool = tool /\ r.args = args /\ r.limit = limit /\ r.rows = rows
    BY <1>6, AnswersSay
<1>8. Q!RowSet' = ValuesIn(rows)
    BY <1>6, <1>7, Zenon DEF Q!RowSet, ValuesIn
<1>9. Q!NamedIsFound' /\ Q!RelationsMirrored' /\ Q!TimelineTellsFirst'
    BY <1>6, <1>7 DEF Q!NamedIsFound, Q!RelationsMirrored, Q!TimelineTellsFirst
<1>10. QED
    BY <1>3, <1>5, <1>6, <1>7, <1>8, <1>9

LEMMA ParticipantsRight ==
    ASSUME Q!QueriesAssumption, CaseInv, Q!ListParticipants
    PROVE  CaseInv'
<1>1. PICK role \in Texts, type \in Texts, limit \in Limits :
          Q!Answers("participants", [role |-> role, type |-> type], limit,
                    Q!FirstOf(Q!Ascending({e \in Q!Entities : Q!Participates(e, [role |-> role, type |-> type])}), limit))
    BY DEF Q!ListParticipants
<1>2. PICK args : args = [role |-> role, type |-> type]
    OBVIOUS
<1>3. PICK S : S = {e \in Q!Entities : Q!Participates(e, args)}
    OBVIOUS
<1>4. PICK rows : rows = Q!FirstOf(Q!Ascending(S), limit)
    OBVIOUS
<1>5. Q!Answers("participants", args, limit, rows)
    BY <1>1, <1>2, <1>3, <1>4
<1>6. S \in SUBSET RowsFrom("participants")
    BY <1>3 DEF RowsFrom
<1>7. /\ truth' = truth /\ told'.tool = "participants"
      /\ Q!TypeOK' /\ Q!NamedIsFound' /\ Q!RelationsMirrored' /\ Q!TimelineTellsFirst'
    BY <1>4, <1>5, <1>6, ListedRight
<1>8. Q!FiltersNarrow'
    BY <1>7 DEF Q!FiltersNarrow
<1>9. QED
    BY <1>7, <1>8 DEF CaseInv, Q!CaseAnswersRight

LEMMA FlagsRight ==
    ASSUME Q!QueriesAssumption, CaseInv, Q!FlagsQuery
    PROVE  CaseInv'
<1>1. PICK type \in Texts, severity \in Texts, text \in Texts, limit \in Limits :
          Q!Answers("flags", [type |-> type, severity |-> severity, text |-> text], limit,
                    Q!FirstOf(Q!Ascending({k \in DOMAIN truth.flags :
                        Q!Flagged(truth.flags[k], [type |-> type, severity |-> severity, text |-> text])}), limit))
    BY DEF Q!FlagsQuery
<1>2. PICK args : args = [type |-> type, severity |-> severity, text |-> text]
    OBVIOUS
<1>3. PICK S : S = {k \in DOMAIN truth.flags : Q!Flagged(truth.flags[k], args)}
    OBVIOUS
<1>4. PICK rows : rows = Q!FirstOf(Q!Ascending(S), limit)
    OBVIOUS
<1>5. Q!Answers("flags", args, limit, rows)
    BY <1>1, <1>2, <1>3, <1>4
<1>6. S \in SUBSET RowsFrom("flags")
    BY <1>3 DEF RowsFrom
<1>7. /\ truth' = truth /\ told'.tool = "flags"
      /\ Q!TypeOK' /\ Q!NamedIsFound' /\ Q!RelationsMirrored' /\ Q!TimelineTellsFirst'
    BY <1>4, <1>5, <1>6, ListedRight
<1>8. Q!FiltersNarrow'
    BY <1>7 DEF Q!FiltersNarrow
<1>9. QED
    BY <1>7, <1>8 DEF CaseInv, Q!CaseAnswersRight

LEMMA ObservationsRight ==
    ASSUME Q!QueriesAssumption, CaseInv, Q!ObservationsQuery
    PROVE  CaseInv'
<1>1. PICK observer \in Texts, subject \in Texts, text \in Texts, limit \in Limits :
          Q!Answers("observations", [observer |-> observer, subject |-> subject, text |-> text], limit,
                    Q!FirstOf(Q!Ascending({k \in DOMAIN truth.observations :
                        Q!Observed(truth.observations[k],
                                   [observer |-> observer, subject |-> subject, text |-> text])}), limit))
    BY DEF Q!ObservationsQuery
<1>2. PICK args : args = [observer |-> observer, subject |-> subject, text |-> text]
    OBVIOUS
<1>3. PICK S : S = {k \in DOMAIN truth.observations : Q!Observed(truth.observations[k], args)}
    OBVIOUS
<1>4. PICK rows : rows = Q!FirstOf(Q!Ascending(S), limit)
    OBVIOUS
<1>5. Q!Answers("observations", args, limit, rows)
    BY <1>1, <1>2, <1>3, <1>4
<1>6. S \in SUBSET RowsFrom("observations")
    BY <1>3 DEF RowsFrom
<1>7. /\ truth' = truth /\ told'.tool = "observations"
      /\ Q!TypeOK' /\ Q!NamedIsFound' /\ Q!RelationsMirrored' /\ Q!TimelineTellsFirst'
    BY <1>4, <1>5, <1>6, ListedRight
<1>8. Q!FiltersNarrow'
    BY <1>7 DEF Q!FiltersNarrow
<1>9. QED
    BY <1>7, <1>8 DEF CaseInv, Q!CaseAnswersRight

LEMMA FactsRight ==
    ASSUME Q!QueriesAssumption, CaseInv, Q!FactsQuery
    PROVE  CaseInv'
<1>1. PICK subject \in Texts, object \in Texts, text \in Texts, limit \in Limits :
          \E a : /\ a = [subject |-> subject, predicate |-> <<>>, object |-> object, category |-> <<>>, text |-> text]
                 /\ Q!Answers("facts", a, limit,
                       Q!FirstOf(Q!Ascending({k \in DOMAIN truth.facts : Q!FactHolds(truth.facts[k], a)}), limit))
    BY DEF Q!FactsQuery
<1>2. PICK args : /\ args = [subject |-> subject, predicate |-> <<>>, object |-> object, category |-> <<>>, text |-> text]
                  /\ Q!Answers("facts", args, limit,
                       Q!FirstOf(Q!Ascending({k \in DOMAIN truth.facts : Q!FactHolds(truth.facts[k], args)}), limit))
    BY <1>1
<1>3. PICK S : S = {k \in DOMAIN truth.facts : Q!FactHolds(truth.facts[k], args)}
    OBVIOUS
<1>4. PICK rows : rows = Q!FirstOf(Q!Ascending(S), limit)
    OBVIOUS
<1>5. Q!Answers("facts", args, limit, rows)
    BY <1>2, <1>3, <1>4
<1>6. S \in SUBSET RowsFrom("facts")
    BY <1>3 DEF RowsFrom
<1>7. /\ truth' = truth /\ told'.tool = "facts" /\ told'.args = args /\ Q!RowSet' \subseteq S
      /\ Q!TypeOK' /\ Q!NamedIsFound' /\ Q!RelationsMirrored' /\ Q!TimelineTellsFirst'
    BY <1>4, <1>5, <1>6, ListedRight
<1>8. ASSUME NEW k \in S
      PROVE  /\ args.subject # <<>> => Q!Within(args.subject, truth.facts[k].subject)
             /\ args.object # <<>> => Q!Within(args.object, truth.facts[k].object)
             /\ args.text # <<>> => \E f \in {"subject", "predicate", "object"} : Q!Within(args.text, truth.facts[k][f])
    <2>1. Q!FactHolds(truth.facts[k], args)
        BY <1>3
    <2>2. QED
        BY <2>1 DEF Q!FactHolds, Q!Given, Q!Like
<1>9. PICK r : r = told'
    OBVIOUS
<1>10. Q!FiltersNarrow'
    <2>1. r.tool = "facts" /\ r.args = args
        BY <1>7, <1>9
    <2>2. \A k \in Q!RowSet' :
              /\ r.args.subject # <<>> => Q!Within(r.args.subject, truth.facts[k].subject)
              /\ r.args.object # <<>> => Q!Within(r.args.object, truth.facts[k].object)
              /\ r.args.text # <<>> =>
                    \E f \in {"subject", "predicate", "object"} : Q!Within(r.args.text, truth.facts[k][f])
        BY <1>7, <1>8, <2>1
    <2>3. QED
        BY <1>7, <1>9, <2>2 DEF Q!FiltersNarrow, Q!RowSet, Q!Within
<1>11. QED
    BY <1>7, <1>10 DEF CaseInv, Q!CaseAnswersRight

\* The order of the timeline.
LEMMA DateOrder ==
    ASSUME NEW S \in SUBSET Int, NEW d, \A t \in S : d[t] \in Nat, NEW W,
           W = {p \in S \X S : d[p[1]] < d[p[2]] \/ (d[p[1]] = d[p[2]] /\ p[1] < p[2])}
    PROVE  /\ Orders(W, S)
           /\ \A t, u \in S : <<t, u>> \in W => d[t] <= d[u]
<1>1. \A t, u \in S : <<t, u>> \in W <=> d[t] < d[u] \/ (d[t] = d[u] /\ t < u)
    OBVIOUS
<1>2. \A t \in S : t \in Int /\ d[t] \in Int
    OBVIOUS
<1>3. ASSUME NEW t \in S PROVE <<t, t>> \notin W
    BY <1>1, <1>2
<1>4. ASSUME NEW t \in S, NEW u \in S, t # u PROVE <<t, u>> \in W \/ <<u, t>> \in W
    BY <1>1, <1>2, <1>4
<1>5. ASSUME NEW t \in S, NEW u \in S, NEW v \in S, <<t, u>> \in W, <<u, v>> \in W PROVE <<t, v>> \in W
    BY <1>1, <1>2, <1>5
<1>6. Orders(W, S)
    BY <1>3, <1>4, <1>5 DEF Orders
<1>7. ASSUME NEW t \in S, NEW u \in S, <<t, u>> \in W PROVE d[t] <= d[u]
    BY <1>1, <1>2, <1>7
<1>8. QED
    BY <1>6, <1>7

LEMMA EarliestSays ==
    ASSUME Q!QueriesAssumption, truth \in Truths, NEW S \in SUBSET (DOMAIN truth.events), NEW limit \in Nat,
           NEW rows, rows = Q!Earliest(Q!Ascending(S), limit)
    PROVE  /\ rows \in Seq(S) /\ Len(rows) <= limit
           /\ \A t \in S : t \notin ValuesIn(rows) =>
                 /\ Len(rows) = limit
                 /\ \A u \in ValuesIn(rows) : truth.events[u].date <= truth.events[t].date
<1>1. DOMAIN truth.events \in SUBSET Int /\ IsFiniteSet(DOMAIN truth.events)
      /\ \A k \in DOMAIN truth.events : truth.events[k].date \in Nat
    BY TableTypes DEF Tables
<1>2. S \in SUBSET Int /\ IsFiniteSet(S)
    BY <1>1, FS_Subset
<1>3. PICK d : d = [t \in S |-> truth.events[t].date]
    OBVIOUS
<1>4. \A t \in S : d[t] \in Nat /\ d[t] = truth.events[t].date
    BY <1>1, <1>3
<1>5. PICK W : W = {p \in S \X S : d[p[1]] < d[p[2]] \/ (d[p[1]] = d[p[2]] /\ p[1] < p[2])}
    OBVIOUS
<1>6. Orders(W, S) /\ \A t, u \in S : <<t, u>> \in W => d[t] <= d[u]
    BY <1>2, <1>4, <1>5, DateOrder
<1>7. PICK by : by = Ascending(S)
    OBVIOUS
<1>8. by \in Seq(S) /\ \A x \in S : \E n \in DOMAIN by : by[n] = x
    BY <1>2, <1>7, AscendingSays
<1>9. Q!ToSet(by) = S
    <2>1. \A x : x \in Q!ToSet(by) <=> \E n \in DOMAIN by : by[n] = x
        BY DEF Q!ToSet
    <2>2. \A n \in DOMAIN by : by[n] \in S
        BY <1>8
    <2>3. QED
        BY <1>8, <2>1, <2>2
<1>10. PICK at : at = InOrder(S, W)
    OBVIOUS
<1>11. Q!ByDate(by) = at
    <2>1. W = {p \in S \X S : truth.events[p[1]].date < truth.events[p[2]].date
                  \/ (truth.events[p[1]].date = truth.events[p[2]].date /\ p[1] < p[2])}
        BY <1>4, <1>5
    <2>2. Q!ByDate(by) = Q!InOrder(S, {p \in S \X S : truth.events[p[1]].date < truth.events[p[2]].date
                  \/ (truth.events[p[1]].date = truth.events[p[2]].date /\ p[1] < p[2])})
        BY <1>9, Zenon DEF Q!ByDate
    <2>3. QED
        BY <1>10, <2>1, <2>2, SameOrder
<1>12. /\ at \in Seq(S) /\ Len(at) = Cardinality(S) /\ \A x \in S : \E n \in DOMAIN at : at[n] = x
       /\ \A m, n \in DOMAIN at : m < n => <<at[m], at[n]>> \in W
    BY <1>2, <1>6, <1>10, InOrderSays
<1>13. rows = Q!FirstOf(at, limit)
    BY <1>7, <1>11, SameSelected DEF Q!Earliest
<1>14. /\ rows \in Seq(S) /\ Len(rows) <= limit
       /\ \A k \in DOMAIN rows : k \in DOMAIN at /\ rows[k] = at[k]
       /\ \A n \in DOMAIN at : n \notin DOMAIN rows => Len(rows) = limit /\ \A k \in DOMAIN rows : k < n
    BY <1>12, <1>13, LimitSays, ZenonT(30)
<1>15. ASSUME NEW t \in S, t \notin ValuesIn(rows)
       PROVE  /\ Len(rows) = limit
              /\ \A u \in ValuesIn(rows) : truth.events[u].date <= truth.events[t].date
    <2>1. PICK n \in DOMAIN at : at[n] = t
        BY <1>12
    <2>2. n \notin DOMAIN rows
        BY <1>14, <1>15, <2>1 DEF ValuesIn
    <2>3. Len(rows) = limit /\ \A k \in DOMAIN rows : k < n
        BY <1>14, <2>1, <2>2
    <2>4. ASSUME NEW k \in DOMAIN rows PROVE truth.events[rows[k]].date <= truth.events[t].date
        <3>1. k \in DOMAIN at /\ rows[k] = at[k] /\ k < n /\ at[k] \in S
            BY <1>12, <1>14, <2>3
        <3>2. <<at[k], t>> \in W
            BY <1>12, <2>1, <3>1
        <3>3. d[at[k]] <= d[t]
            BY <1>6, <3>1, <3>2
        <3>4. QED
            BY <1>4, <3>1, <3>3
    <2>5. QED
        BY <2>3, <2>4 DEF ValuesIn
<1>16. QED
    BY <1>14, <1>15

LEMMA TimelineRight ==
    ASSUME Q!QueriesAssumption, CaseInv, Q!TimelineQuery
    PROVE  CaseInv'
<1>1. PICK from \in Dates, to \in Dates, category \in Texts, text \in Texts, entity \in Texts, limit \in Limits :
          LET a == [from |-> from, to |-> to, category |-> category, text |-> text, entity |-> entity] IN
          /\ Q!Cardinality({f \in {"category", "text", "entity"} : a[f] # <<>>}) <= 1
          /\ Q!Answers("timeline", a, limit,
                       Q!Earliest(Q!Ascending({t \in DOMAIN truth.events : Q!Happens(t, a)}), limit))
    BY Zenon DEF Q!TimelineQuery
<1>2. PICK args : /\ args = [from |-> from, to |-> to, category |-> category, text |-> text, entity |-> entity]
                  /\ Q!Answers("timeline", args, limit,
                       Q!Earliest(Q!Ascending({t \in DOMAIN truth.events : Q!Happens(t, args)}), limit))
    BY <1>1
<1>3. PICK S : S = {t \in DOMAIN truth.events : Q!Happens(t, args)}
    OBVIOUS
<1>4. PICK rows : rows = Q!Earliest(Q!Ascending(S), limit)
    OBVIOUS
<1>5. Q!Answers("timeline", args, limit, rows)
    BY <1>2, <1>3, <1>4
<1>6. truth \in Truths /\ limit \in Nat /\ args.from \in Nat /\ args.to \in Nat
    BY <1>2 DEF CaseInv, Q!QueriesAssumption
<1>7. S \in SUBSET (DOMAIN truth.events)
    BY <1>3
<1>8. /\ rows \in Seq(S) /\ Len(rows) <= limit
      /\ \A t \in S : t \notin ValuesIn(rows) =>
            /\ Len(rows) = limit
            /\ \A u \in ValuesIn(rows) : truth.events[u].date <= truth.events[t].date
    BY <1>4, <1>6, <1>7, EarliestSays
<1>9. ValuesIn(rows) \subseteq S
    BY <1>8 DEF ValuesIn
<1>10. rows \in Seq(RowsFrom("timeline"))
    <2>1. S \in SUBSET RowsFrom("timeline")
        BY <1>7 DEF RowsFrom
    <2>2. QED
        BY <1>8, <2>1, RowsTyped
<1>11. Q!TypeOK'
    BY <1>5, <1>8, <1>10, AnswersTyped
<1>12. PICK r : r = told'
    OBVIOUS
<1>13. truth' = truth /\ r.tool = "timeline" /\ r.args = args /\ r.limit = limit /\ r.rows = rows
    BY <1>5, <1>12, AnswersSay
<1>14. Q!RowSet' = ValuesIn(rows)
    BY <1>12, <1>13, Zenon DEF Q!RowSet, ValuesIn
<1>15. PICK who : who = IF Q!Named(args.entity) # {} THEN Q!Named(args.entity) ELSE Q!Resolve(args.entity)
    OBVIOUS
<1>16. PICK theirs : theirs = {t \in DOMAIN truth.events :
                         LET r1 == truth.events[t] IN
                         /\ args.from = 0 \/ r1.date >= args.from
                         /\ args.to = 0 \/ r1.date \in 1 .. args.to
                         /\ args.entity = <<>> \/ r1.involved \cap who # {}}
    OBVIOUS
<1>17. ASSUME args.category = <<>>, args.text = <<>> PROVE theirs = S
    <2>1. args.entity # <<>> => who = Q!Resolve(args.entity)
        BY <1>15, NamedResolve
    <2>2. \A t \in DOMAIN truth.events : truth.events[t].date \in Nat
        BY <1>6, TableTypes
    <2>3. ASSUME NEW t \in DOMAIN truth.events
          PROVE  Q!Happens(t, args) <=>
                    /\ args.from = 0 \/ truth.events[t].date >= args.from
                    /\ args.to = 0 \/ truth.events[t].date \in 1 .. args.to
                    /\ args.entity = <<>> \/ truth.events[t].involved \cap who # {}
        <3>1. PICK date \in Nat : date = truth.events[t].date
            BY <2>2
        <3>2. Q!Happens(t, args) <=>
                 /\ args.from # 0 => date # 0 /\ date >= args.from
                 /\ args.to # 0 => date # 0 /\ date <= args.to
                 /\ args.entity # <<>> => truth.events[t].involved \cap Q!Resolve(args.entity) # {}
            BY <1>17, <3>1 DEF Q!Happens, Q!Given, Q!Involved
        <3>3. (args.from # 0 => date # 0 /\ date >= args.from) <=> (args.from = 0 \/ date >= args.from)
            BY <1>6
        <3>4. (args.to # 0 => date # 0 /\ date <= args.to) <=> (args.to = 0 \/ date \in 1 .. args.to)
            BY <1>6
        <3>5. QED
            BY <2>1, <3>1, <3>2, <3>3, <3>4
    <2>4. \A t : t \in theirs <=> t \in S
        BY <1>3, <1>16, <2>3
    <2>5. QED
        BY <2>4
<1>18. Q!TimelineTellsFirst'
    <2>1. Q!Named(args.entity)' = Q!Named(args.entity) /\ Q!Resolve(args.entity)' = Q!Resolve(args.entity)
        BY <1>13 DEF Q!Named, Q!Resolve, Q!Exactly, Q!Partly, Q!AllWords, Q!Aliases, Q!Person
    <2>2. args.category = <<>> /\ args.text = <<>> =>
              /\ ValuesIn(rows) \subseteq theirs
              /\ \A t \in theirs \ ValuesIn(rows) :
                    /\ Len(rows) = limit
                    /\ \A u \in ValuesIn(rows) : truth.events[u].date <= truth.events[t].date
        BY <1>8, <1>9, <1>17
    <2>3. QED
        BY <1>12, <1>13, <1>14, <1>15, <1>16, <2>1, <2>2 DEF Q!TimelineTellsFirst
<1>19. Q!NamedIsFound' /\ Q!RelationsMirrored' /\ Q!FiltersNarrow'
    BY <1>12, <1>13 DEF Q!NamedIsFound, Q!RelationsMirrored, Q!FiltersNarrow
<1>20. QED
    BY <1>6, <1>11, <1>13, <1>18, <1>19 DEF CaseInv, Q!CaseAnswersRight

LEMMA StepCase == ASSUME Q!QueriesAssumption, CaseInv, [Q!Next]_Q!vars PROVE CaseInv'
<1>1. CASE Q!Return
    BY <1>1 DEF Q!Return, CaseInv, Q!CaseAnswersRight, Q!TypeOK, Q!NamedIsFound, Q!RelationsMirrored,
       Q!TimelineTellsFirst, Q!FiltersNarrow
<1>2. CASE UNCHANGED Q!vars
    <2>1. told' = told /\ truth' = truth
        BY <1>2 DEF Q!vars
    <2>2. Q!TypeOK' /\ truth' \in Truths
        BY <2>1 DEF CaseInv, Q!CaseAnswersRight, Q!TypeOK
    <2>3. Q!RowSet' = Q!RowSet /\ (\A e : Q!Person(e)' = Q!Person(e))
        BY <2>1 DEF Q!RowSet, Q!Person
    <2>4. Q!NamedIsFound' = Q!NamedIsFound
        BY <2>1, <2>3 DEF Q!NamedIsFound, Q!Named
    <2>5. Q!RelationsMirrored' = Q!RelationsMirrored
        BY <2>1, <2>3 DEF Q!RelationsMirrored, Q!Outgoing
    <2>6. Q!TimelineTellsFirst' = Q!TimelineTellsFirst
        BY <2>1, <2>3 DEF Q!TimelineTellsFirst, Q!Named, Q!Resolve, Q!Exactly, Q!Partly, Q!AllWords, Q!Aliases, Q!Person
    <2>7. Q!FiltersNarrow' = Q!FiltersNarrow
        BY <2>1, <2>3 DEF Q!FiltersNarrow
    <2>8. QED
        BY <2>2, <2>4, <2>5, <2>6, <2>7 DEF CaseInv, Q!CaseAnswersRight
<1>3. QED
    BY <1>1, <1>2, PeopleRight, ParticipantsRight, TimelineRight, FactsRight, FlagsRight, ObservationsRight DEF Q!Next

-----------------------------------------------------------------------------
(* Of the components, as they run. *)

\* However handlers and answers interleave, break or are reloaded away, the page's own
\* invariant holds.
THEOREM UiInvariance == ASSUME U!UiAssumption PROVE U!Spec => []UiInv
<1>1. U!Init => UiInv
    BY InitPlaced, InitView DEF UiInv
<1>2. UiInv /\ [U!Next]_U!vars => UiInv'
    BY StepUi
<1>3. QED
    BY <1>1, <1>2, PTL DEF U!Spec

LEMMA StepComponents ==
    ASSUME [TurnNext]_turnVars
    PROVE  [Next]_vars /\ [U!Next]_U!vars /\ [R!Next]_R!vars /\ [L!Next]_L!vars /\ [Q!Next]_Q!vars
<1>1. /\ UNCHANGED pageVars => UNCHANGED U!vars
      /\ UNCHANGED citeVars => UNCHANGED R!vars
      /\ UNCHANGED lookupVars => UNCHANGED L!vars
      /\ UNCHANGED queryVars => UNCHANGED Q!vars
    BY DEF pageVars, U!vars, U!server, U!page, U!asking, citeVars, R!vars, lookupVars, L!vars, queryVars, Q!vars
<1>2. CASE UNCHANGED turnVars
    BY <1>1, <1>2 DEF turnVars
<1>3. CASE TurnNext
    BY <1>1, <1>3 DEF TurnNext, MayRest, turnVars
<1>4. QED
    BY <1>2, <1>3

\* The composition does to each component what the component's specification says.
THEOREM ComponentsKept == TurnSpec => Spec /\ U!Spec /\ R!Spec /\ L!Spec /\ Q!Spec
<1>1. TurnInit => Init /\ U!Init /\ R!Init /\ L!Init /\ Q!Init
    BY DEF TurnInit
<1>2. [TurnNext]_turnVars =>
          [Next]_vars /\ [U!Next]_U!vars /\ [R!Next]_R!vars /\ [L!Next]_L!vars /\ [Q!Next]_Q!vars
    BY StepComponents
<1>3. QED
    BY <1>1, <1>2, PTL DEF TurnSpec, Spec, U!Spec, R!Spec, L!Spec, Q!Spec

\* A question typed on the page is saved in the conversation it was typed in, or in the
\* one made for it, whatever the user opens, deletes or reloads while ask() waits.
THEOREM QuestionsAlwaysPlaced == TurnSpec => []QuestionsPlaced
<1>1. UiInv => QuestionsPlaced
    BY TurnAssumption, PlacedInvSays DEF UiInv, QuestionsPlaced
<1>2. U!Spec => []UiInv
    BY TurnAssumption, UiInvariance
<1>3. QED
    BY <1>1, <1>2, ComponentsKept, PTL

\* A page at rest, which no two handlers met on and none failed on since it was loaded,
\* shows the transcript its conversation has on the server.
THEOREM QuietLogAlwaysTranscript == TurnSpec => []QuietLogIsTranscript
<1>1. UiInv => QuietLogIsTranscript
    BY ViewInvSays DEF UiInv, QuietLogIsTranscript
<1>2. U!Spec => []UiInv
    BY TurnAssumption, UiInvariance
<1>3. QED
    BY <1>1, <1>2, ComponentsKept, PTL

THEOREM CiteInvariance == ASSUME R!CitationsAssumption PROVE R!Spec => []CiteInv
<1>1. R!Init => CiteInv
    BY InitCite
<1>2. CiteInv /\ [R!Next]_R!vars => CiteInv'
    BY StepCite
<1>3. QED
    BY <1>1, <1>2, PTL DEF R!Spec

\* However often and by whatever tool a source is retrieved, the turn's list and the pool
\* have it once, and what an answer showed can be cited ever after, through restarts.
THEOREM CitationsAlwaysSound == TurnSpec => []CitationsSound
<1>1. CiteInv => CitationsSound
    BY TurnAssumption, CiteInvSays DEF CitationsSound
<1>2. R!Spec => []CiteInv
    BY TurnAssumption, CiteInvariance
<1>3. QED
    BY <1>1, <1>2, ComponentsKept, PTL

\* The numbers in an answer are those of its sources, in the order of their first use, and
\* each is of a source its marker matches.
THEOREM TokensAlwaysNameSources == TurnSpec => []TokensNameSources
<1>1. CiteInv => TokensNameSources
    BY TurnAssumption, CiteInvSays DEF TokensNameSources
<1>2. R!Spec => []CiteInv
    BY TurnAssumption, CiteInvariance
<1>3. QED
    BY <1>1, <1>2, ComponentsKept, PTL

\* While a session lives a marker keeps the source it resolves to, unless one comes that
\* has exactly its name.
THEOREM ResolutionAlwaysStable == TurnSpec => ResolutionStable
<1>1. R!Spec => []CiteInv
    BY TurnAssumption, CiteInvariance
<1>2. CiteInv /\ [R!Next]_R!vars => [Stable]_R!vars
    BY TurnAssumption, StepStable
<1>3. ResolutionStable <=> [][Stable]_R!vars
    BY DEF ResolutionStable, R!ResolutionStable, Stable
<1>4. QED
    BY <1>1, <1>2, <1>3, ComponentsKept, PTL DEF R!Spec

THEOREM LookupsInvariance == ASSUME L!LookupsAssumption PROVE L!Spec => []L!LookupsRight
<1>1. L!Init => L!LookupsRight
    BY DEF L!Init, L!LookupsRight, L!TypeOK, L!LookupsExact, L!LookupsOrdered, L!HitsAllClassed, L!Lookup
<1>2. L!LookupsRight /\ [L!Next]_L!vars => L!LookupsRight'
    BY StepLookups
<1>3. QED
    BY <1>1, <1>2, PTL DEF L!Spec

\* A lookup returns what was asked for, whole if it fits, in reading order, and the classes
\* of a law search are of the hits it returns: for any points in any collections.
THEOREM LookupsAlwaysRight == TurnSpec => []LookupsRight
<1>1. L!LookupsRight => LookupsRight
    BY DEF LookupsRight
<1>2. L!Spec => []L!LookupsRight
    BY TurnAssumption, LookupsInvariance
<1>3. QED
    BY <1>1, <1>2, ComponentsKept, PTL

THEOREM CaseInvariance == ASSUME Q!QueriesAssumption PROVE Q!Spec => []CaseInv
<1>1. Q!Init => CaseInv
    BY DEF Q!Init, CaseInv, Q!CaseAnswersRight, Q!TypeOK, Q!NamedIsFound, Q!RelationsMirrored,
       Q!TimelineTellsFirst, Q!FiltersNarrow
<1>2. CaseInv /\ [Q!Next]_Q!vars => CaseInv'
    BY StepCase
<1>3. QED
    BY <1>1, <1>2, PTL DEF Q!Spec

\* What the queries answer of the case is what the ground truth says, for any ground truth
\* and any question.
THEOREM CaseAnswersAlwaysRight == TurnSpec => []CaseAnswersRight
<1>1. CaseInv => CaseAnswersRight
    BY DEF CaseInv, CaseAnswersRight
<1>2. Q!Spec => []CaseInv
    BY TurnAssumption, CaseInvariance
<1>3. QED
    BY <1>1, <1>2, ComponentsKept, PTL
=============================================================================
