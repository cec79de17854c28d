-------------------------- MODULE StaTable_proofs ---------------------------
(***************************************************************************)
(* The station table and the timeouts of the event loop of 8021xd, for any *)
(* number of stations, memory blocks and buckets and any session timeouts. *)
(*                                                                         *)
(* TimerInv is about the list of the event loop alone: sorted, and no two   *)
(* timeouts with the same handler and station.  It needs no hypothesis on   *)
(* signals.  TableInv ties list, chains, counter, memory and ticks together *)
(* and says what Ap_get_sta has done when it is half way; it is kept if     *)
(* signals come only while the loop waits (SIGNALS = "select").             *)
(***************************************************************************)
EXTENDS StaTable, FiniteSetTheorems, SequenceTheorems, WellFoundedInduction,
        TLAPS

-----------------------------------------------------------------------------
(* Positions and the sequences that are left of them.                      *)

\* The least of a set of natural numbers exists.
LEMMA MinExists ==
  ASSUME NEW S, S \subseteq Nat, S # {}
  PROVE  Min(S) \in S /\ \A n \in S : Min(S) <= n
<1> DEFINE R == OpToRel(<, Nat)
<1>1. IsWellFoundedOn(R, Nat)
  BY NatLessThanWellFounded
<1>2. R = {ss \in Nat \X Nat : ss[1] < ss[2]}
  BY Zenon DEF OpToRel
<1>3. \A x, y \in Nat : x < y => <<x, y>> \in R
  BY <1>2
<1> HIDE DEF R
<1>4. PICK m \in S : \A y \in S : ~(<<y, m>> \in R)
  BY <1>1, WFMin
<1>5. ASSUME NEW y \in S PROVE m <= y
  <2>1. y \in Nat /\ m \in Nat
    OBVIOUS
  <2>2. ~(y < m)
    BY <2>1, <1>3, <1>4
  <2>3. QED
    BY <2>1, <2>2
<1>6. QED
  BY <1>5 DEF Min

\* How many positions of S there are up to i.
Rank(S, i) == Cardinality({j \in S : j <= i})

\* Ranks count the positions of S upwards from 1.
LEMMA RankFacts ==
  ASSUME NEW n \in Nat, NEW S, S \subseteq 1 .. n
  PROVE  /\ IsFiniteSet(S) /\ Cardinality(S) \in Nat
         /\ \A i \in S : Rank(S, i) \in 1 .. Cardinality(S)
         /\ \A i, j \in S : i < j => Rank(S, i) < Rank(S, j)
         /\ \A k \in 1 .. Cardinality(S) : \E i \in S : Rank(S, i) = k
<1>1. IsFiniteSet(1 .. n)
  BY FS_Interval
<1>2. IsFiniteSet(S) /\ Cardinality(S) \in Nat
  BY <1>1, FS_Subset, FS_CardinalityType
<1>3. ASSUME NEW i \in S
      PROVE  /\ IsFiniteSet({j \in S : j <= i})
             /\ Rank(S, i) \in 1 .. Cardinality(S)
             /\ Rank(S, i) \in Nat
  <2> DEFINE U == {j \in S : j <= i}
  <2>1. U \in SUBSET S /\ i \in U
    OBVIOUS
  <2> HIDE DEF U
  <2>2. IsFiniteSet(U) /\ Cardinality(U) <= Cardinality(S)
    BY <1>2, <2>1, FS_Subset
  <2>3. Cardinality(U) \in Nat /\ Cardinality(U) # 0
    BY <2>1, <2>2, FS_CardinalityType, FS_EmptySet
  <2>4. QED
    BY <1>2, <2>2, <2>3 DEF U, Rank
<1>4. ASSUME NEW i \in S, NEW j \in S, i < j
      PROVE  Rank(S, i) < Rank(S, j)
  <2> DEFINE U == {k \in S : k <= i}
             V == {k \in S : k <= j}
  <2>1. i \in Nat /\ j \in Nat /\ \A k \in S : k <= i => k <= j
    BY <1>4
  <2>b. i < j
    BY <1>4
  <2>c. ~(j <= i) /\ j <= j
    BY <2>b, <2>1
  <2>a. U \subseteq V /\ j \in V /\ j \notin U
    BY <2>c, <2>1, Zenon
  <2>2. IsFiniteSet(U) /\ IsFiniteSet(V)
    BY <1>3
  <2>3. Cardinality(U) = Rank(S, i) /\ Cardinality(V) = Rank(S, j)
    BY DEF Rank
  <2> HIDE DEF U, V
  <2>4. Cardinality(U \cup {j}) = Cardinality(U) + 1
    BY <2>a, <2>2, FS_AddElement
  <2>5. U \cup {j} \in SUBSET V
    BY <2>a
  <2>6. Cardinality(U \cup {j}) <= Cardinality(V)
    BY <2>2, <2>5, FS_Subset
  <2>7. Cardinality(U) \in Nat /\ Cardinality(V) \in Nat
    BY <2>2, FS_CardinalityType
  <2>8. QED
    BY <2>3, <2>4, <2>6, <2>7
<1> DEFINE N == 1 .. Cardinality(S)
           f == [i \in S |-> Rank(S, i)]
<1>5. f \in Injection(S, N)
  <2>1. f \in [S -> N]
    BY <1>3
  <2>2. ASSUME NEW i \in S, NEW j \in S, f[i] = f[j] PROVE i = j
    <3>1. i \in Nat /\ j \in Nat
      OBVIOUS
    <3>a. Rank(S, i) = Rank(S, j)
      BY <2>2
    <3>2. Rank(S, i) \in Nat
      BY <1>3, Zenon
    <3>3. ~(i < j) /\ ~(j < i)
      BY <3>1, <3>a, <3>2, <1>4
    <3>4. QED
      BY <3>1, <3>3
  <2>3. QED
    BY <2>1, <2>2 DEF Injection, IsInjective
<1>6. IsFiniteSet(N) /\ Cardinality(N) = Cardinality(S)
  BY <1>2, FS_Interval
<1> HIDE DEF f, N
<1>7. f \in Surjection(S, N)
  BY <1>5, <1>6, FS_Injection
<1>8. \A k \in N : \E i \in S : f[i] = k
  BY <1>7 DEF Surjection
<1>9. QED
  BY <1>2, <1>3, <1>4, <1>8 DEF f, N

\* The k-th element of r is the one of s at p[k], and p goes up through all
\* of the positions S.
Selects(p, s, S, r) ==
  /\ p \in [DOMAIN r -> S]
  /\ \A k \in DOMAIN r : r[k] = s[p[k]]
  /\ \A k, l \in DOMAIN r : k < l => p[k] < p[l]
  /\ \A i \in S : \E k \in DOMAIN r : p[k] = i

\* Keep(s, S) is the sequence of the elements of s at the positions S.
LEMMA KeepFacts ==
  ASSUME NEW T, NEW s \in Seq(T), NEW S, S \subseteq DOMAIN s
  PROVE  /\ Keep(s, S) \in Seq(T)
         /\ Len(Keep(s, S)) = Cardinality(S)
         /\ \E p : Selects(p, s, S, Keep(s, S))
<1> DEFINE N == 1 .. Cardinality(S)
           C(k) == CHOOSE i \in S : Rank(S, i) = k
           p == [k \in N |-> C(k)]
<1>0. Len(s) \in Nat /\ DOMAIN s = 1 .. Len(s)
  OBVIOUS
<1>1. /\ Cardinality(S) \in Nat
      /\ \A i \in S : Rank(S, i) \in N
      /\ \A i, j \in S : i < j => Rank(S, i) < Rank(S, j)
      /\ \A k \in N : \E i \in S : Rank(S, i) = k
  BY <1>0, RankFacts
<1>2. \A k \in N : C(k) \in S /\ Rank(S, C(k)) = k
  BY <1>1, Zenon
<1>3. Keep(s, S) = [k \in N |-> s[C(k)]]
  BY Zenon DEF Keep, Rank
<1>4. \A i, j \in S : Rank(S, i) = Rank(S, j) => i = j
  <2> SUFFICES ASSUME NEW i \in S, NEW j \in S, Rank(S, i) = Rank(S, j)
               PROVE  i = j
    OBVIOUS
  <2>1. i \in Nat /\ j \in Nat
    BY <1>0
  <2>2. Rank(S, i) \in Nat
    BY <1>1
  <2>3. ~(i < j) /\ ~(j < i)
    BY <2>1, <2>2, <1>1
  <2>4. QED
    BY <2>1, <2>3
<1> HIDE DEF C
<1>5. \A k \in N : s[C(k)] \in T
  BY <1>0, <1>2
<1>6. /\ Keep(s, S) \in Seq(T)
      /\ DOMAIN Keep(s, S) = N
      /\ Len(Keep(s, S)) = Cardinality(S)
  BY <1>1, <1>3, <1>5
<1>7. p \in [N -> S] /\ \A k \in N : p[k] = C(k)
  BY <1>2
<1>8. ASSUME NEW k \in N, NEW l \in N, k < l PROVE p[k] < p[l]
  <2>1. C(k) \in S /\ C(l) \in S /\ Rank(S, C(k)) = k /\ Rank(S, C(l)) = l
    BY <1>2
  <2>2. C(k) \in Nat /\ C(l) \in Nat /\ k \in Nat /\ l \in Nat
    BY <2>1, <1>0, <1>1
  <2>3. ~(C(l) < C(k)) /\ C(l) # C(k)
    BY <2>1, <2>2, <1>1, <1>8
  <2>4. QED
    BY <2>2, <2>3, <1>7
<1>9. ASSUME NEW i \in S PROVE \E k \in N : p[k] = i
  <2>1. Rank(S, i) \in N
    BY <1>1
  <2>2. C(Rank(S, i)) = i
    BY <2>1, <1>2, <1>4
  <2>3. QED
    BY <2>1, <2>2, <1>7
<1>10. \A k \in N : Keep(s, S)[k] = s[p[k]]
  BY <1>3, <1>7
<1> HIDE DEF p, N
<1>11. Selects(p, s, S, Keep(s, S))
  BY <1>6, <1>7, <1>8, <1>9, <1>10 DEF Selects
<1>12. QED
  BY <1>6, <1>11

\* A set of positions that holds every position below one of its own is an
\* initial segment.
LEMMA InitialSegment ==
  ASSUME NEW n \in Nat, NEW S, S \subseteq 1 .. n,
         \A i \in S : \A j \in 1 .. i : j \in S
  PROVE  Cardinality(S) \in 0 .. n /\ S = 1 .. Cardinality(S)
<1>1. /\ Cardinality(S) \in Nat
      /\ \A i \in S : Rank(S, i) \in 1 .. Cardinality(S)
      /\ \A k \in 1 .. Cardinality(S) : \E i \in S : Rank(S, i) = k
  BY RankFacts
<1>2. ASSUME NEW i \in S PROVE Rank(S, i) = i
  <2>1. i \in Nat
    OBVIOUS
  <2>2. \A j \in S : j <= i => j \in 1 .. i
    BY <2>1
  <2>3. \A j \in 1 .. i : j \in S /\ j <= i
    BY <2>1
  <2>4. {j \in S : j <= i} = 1 .. i
    BY <2>2, <2>3, Zenon
  <2>5. Cardinality(1 .. i) = i
    BY <2>1, FS_Interval
  <2>6. QED
    BY <2>4, <2>5 DEF Rank
<1>3. S = 1 .. Cardinality(S)
  BY <1>1, <1>2
<1>4. Cardinality(S) <= n
  <2>1. CASE Cardinality(S) = 0
    BY <2>1
  <2>2. CASE Cardinality(S) # 0
    <3>1. Cardinality(S) \in 1 .. Cardinality(S)
      BY <2>2, <1>1
    <3>2. Cardinality(S) \in S
      BY <3>1, <1>3
    <3>3. Cardinality(S) \in 1 .. n
      BY <3>2, Zenon
    <3>4. QED
      BY <3>3
  <2>3. QED
    BY <2>1, <2>2
<1>5. QED
  BY <1>1, <1>3, <1>4

\* The part of a sequence from position m to n.
LEMMA PartFacts ==
  ASSUME NEW T, NEW s \in Seq(T), NEW m \in 1 .. Len(s) + 1,
         NEW n \in m - 1 .. Len(s)
  PROVE  /\ SubSeq(s, m, n) \in Seq(T)
         /\ Len(SubSeq(s, m, n)) = n - m + 1
         /\ \A i \in 1 .. n - m + 1 : SubSeq(s, m, n)[i] = s[m + i - 1]
<1>0. Len(s) \in Nat /\ m \in Int /\ n \in Int /\ 1 <= m /\ m <= n + 1 /\
     n <= Len(s)
  OBVIOUS
<1>1. \A i \in m .. n : i \in 1 .. Len(s)
  BY <1>0
<1>2. \A i \in m .. n : s[i] \in T
  BY <1>1
<1>3. /\ SubSeq(s, m, n) \in Seq(T)
      /\ Len(SubSeq(s, m, n)) = IF m <= n THEN n - m + 1 ELSE 0
      /\ \A i \in 1 .. n - m + 1 : SubSeq(s, m, n)[i] = s[m + i - 1]
  BY <1>0, <1>2, SubSeqProperties
<1>4. CASE m <= n
  BY <1>3, <1>4
<1>5. CASE ~(m <= n)
  <2>1. n - m + 1 = 0
    BY <1>0, <1>5
  <2>2. QED
    BY <1>3, <1>5, <2>1
<1>6. QED
  BY <1>4, <1>5

\* r is s with e put behind position k: what follows moves up by one.
Inserted(r, s, k, e) ==
  /\ Len(r) = Len(s) + 1
  /\ r[k + 1] = e
  /\ \A i \in 1 .. k : r[i] = s[i]
  /\ \A i \in k + 2 .. Len(s) + 1 : r[i] = s[i - 1]

\* What InsertAt does.
LEMMA InsertFacts ==
  ASSUME NEW T, NEW s \in Seq(T), NEW k \in 0 .. Len(s), NEW e \in T
  PROVE  /\ InsertAt(s, k + 1, e) \in Seq(T)
         /\ Inserted(InsertAt(s, k + 1, e), s, k, e)
<1> DEFINE A == SubSeq(s, 1, k)
           B == SubSeq(s, k + 1, Len(s))
           D == A \o <<e>>
           r == D \o B
<1>0. Len(s) \in Nat /\ k \in Nat /\ k <= Len(s) /\ (k + 1) - 1 = k
  OBVIOUS
<1>1. A \in Seq(T) /\ Len(A) = k /\ \A i \in 1 .. k : A[i] = s[i]
  <2>1. 1 \in 1 .. Len(s) + 1 /\ k \in 1 - 1 .. Len(s) /\ k - 1 + 1 = k
    BY <1>0
  <2>2. /\ A \in Seq(T) /\ Len(A) = k - 1 + 1
        /\ \A i \in 1 .. k - 1 + 1 : A[i] = s[1 + i - 1]
    BY <2>1, PartFacts
  <2>3. \A i \in 1 .. k : 1 + i - 1 = i
    OBVIOUS
  <2> HIDE DEF A
  <2>4. QED
    BY <2>1, <2>2, <2>3
<1>2. /\ B \in Seq(T) /\ Len(B) = Len(s) - k
      /\ \A i \in 1 .. Len(s) - k : B[i] = s[k + i]
  <2>1. /\ k + 1 \in 1 .. Len(s) + 1 /\ Len(s) \in (k + 1) - 1 .. Len(s)
        /\ Len(s) - (k + 1) + 1 = Len(s) - k
    BY <1>0
  <2>2. /\ B \in Seq(T) /\ Len(B) = Len(s) - (k + 1) + 1
        /\ \A i \in 1 .. Len(s) - (k + 1) + 1 : B[i] = s[(k + 1) + i - 1]
    BY <2>1, PartFacts
  <2>3. \A i \in 1 .. Len(s) - k : (k + 1) + i - 1 = k + i
    BY <1>0
  <2> HIDE DEF B
  <2>4. QED
    BY <2>1, <2>2, <2>3
<1>3. InsertAt(s, k + 1, e) = r
  <2>1. InsertAt(s, k + 1, e)
          = SubSeq(s, 1, (k + 1) - 1) \o <<e>> \o SubSeq(s, k + 1, Len(s))
    BY DEF InsertAt
  <2>2. SubSeq(s, 1, (k + 1) - 1) = A
    BY <1>0
  <2>3. QED
    BY <2>1, <2>2, Zenon
<1> HIDE DEF A, B
<1>4. /\ D \in Seq(T) /\ Len(D) = k + 1 /\ D[k + 1] = e
      /\ \A i \in 1 .. k : D[i] = s[i]
  BY <1>0, <1>1
<1> HIDE DEF D
<1>5. /\ r \in Seq(T) /\ Len(r) = Len(D) + Len(B)
      /\ \A i \in 1 .. Len(D) + Len(B) :
           r[i] = IF i <= Len(D) THEN D[i] ELSE B[i - Len(D)]
  BY <1>2, <1>4, ConcatProperties
<1> HIDE DEF r
<1>6. Len(r) = Len(s) + 1 /\ Len(D) + Len(B) = Len(s) + 1
  BY <1>0, <1>2, <1>4, <1>5
<1>7. \A i \in 1 .. k + 1 : r[i] = D[i]
  BY <1>0, <1>4, <1>5, <1>6
<1>8. ASSUME NEW i \in k + 2 .. Len(s) + 1 PROVE r[i] = s[i - 1]
  <2>1. /\ i - (k + 1) \in 1 .. Len(s) - k /\ k + (i - (k + 1)) = i - 1
        /\ i \in 1 .. Len(s) + 1 /\ ~(i <= k + 1)
    BY <1>0
  <2>2. r[i] = B[i - (k + 1)]
    BY <2>1, <1>4, <1>5, <1>6
  <2>3. QED
    BY <2>1, <2>2, <1>2
<1>9. r[k + 1] = e /\ \A i \in 1 .. k : r[i] = s[i]
  BY <1>0, <1>4, <1>7
<1>10. Inserted(r, s, k, e)
  BY <1>6, <1>8, <1>9 DEF Inserted
<1>11. QED
  BY <1>3, <1>5, <1>10

\* r is s without position m: what follows moves down by one.
Removed(r, s, m) ==
  /\ Len(r) = Len(s) - 1
  /\ \A i \in 1 .. m - 1 : r[i] = s[i]
  /\ \A i \in m .. Len(s) - 1 : r[i] = s[i + 1]

\* What RemoveAt does.
LEMMA RemoveAtFacts ==
  ASSUME NEW T, NEW s \in Seq(T), NEW m \in 1 .. Len(s)
  PROVE  RemoveAt(s, m) \in Seq(T) /\ Removed(RemoveAt(s, m), s, m)
<1> DEFINE A == SubSeq(s, 1, m - 1)
           B == SubSeq(s, m + 1, Len(s))
           r == A \o B
<1>0. Len(s) \in Nat /\ m \in Nat /\ 1 <= m /\ m <= Len(s)
  OBVIOUS
<1>1. A \in Seq(T) /\ Len(A) = m - 1 /\ \A i \in 1 .. m - 1 : A[i] = s[i]
  <2>1. 1 \in 1 .. Len(s) + 1 /\ m - 1 \in 1 - 1 .. Len(s) /\
       m - 1 - 1 + 1 = m - 1
    BY <1>0
  <2>2. /\ A \in Seq(T) /\ Len(A) = m - 1 - 1 + 1
        /\ \A i \in 1 .. m - 1 - 1 + 1 : A[i] = s[1 + i - 1]
    BY <2>1, PartFacts
  <2>3. \A i \in 1 .. m - 1 : 1 + i - 1 = i
    OBVIOUS
  <2> HIDE DEF A
  <2>4. QED
    BY <2>1, <2>2, <2>3
<1>2. /\ B \in Seq(T) /\ Len(B) = Len(s) - m
      /\ \A i \in 1 .. Len(s) - m : B[i] = s[m + i]
  <2>1. /\ m + 1 \in 1 .. Len(s) + 1 /\ Len(s) \in (m + 1) - 1 .. Len(s)
        /\ Len(s) - (m + 1) + 1 = Len(s) - m
    BY <1>0
  <2>2. /\ B \in Seq(T) /\ Len(B) = Len(s) - (m + 1) + 1
        /\ \A i \in 1 .. Len(s) - (m + 1) + 1 : B[i] = s[(m + 1) + i - 1]
    BY <2>1, PartFacts
  <2>3. \A i \in 1 .. Len(s) - m : (m + 1) + i - 1 = m + i
    BY <1>0
  <2> HIDE DEF B
  <2>4. QED
    BY <2>1, <2>2, <2>3
<1>3. RemoveAt(s, m) = r
  BY DEF RemoveAt
<1> HIDE DEF A, B
<1>4. /\ r \in Seq(T) /\ Len(r) = Len(A) + Len(B)
      /\ \A i \in 1 .. Len(A) + Len(B) :
           r[i] = IF i <= Len(A) THEN A[i] ELSE B[i - Len(A)]
  BY <1>1, <1>2, ConcatProperties
<1> HIDE DEF r
<1>5. Len(r) = Len(s) - 1 /\ Len(A) + Len(B) = Len(s) - 1
  BY <1>0, <1>1, <1>2, <1>4
<1>6. ASSUME NEW i \in 1 .. m - 1 PROVE r[i] = s[i]
  <2>1. i \in 1 .. Len(s) - 1 /\ i <= m - 1
    BY <1>0
  <2>2. QED
    BY <2>1, <1>1, <1>4, <1>5
<1>7. ASSUME NEW i \in m .. Len(s) - 1 PROVE r[i] = s[i + 1]
  <2>1. /\ i - (m - 1) \in 1 .. Len(s) - m /\ m + (i - (m - 1)) = i + 1
        /\ i \in 1 .. Len(s) - 1 /\ ~(i <= m - 1)
    BY <1>0
  <2>2. r[i] = B[i - (m - 1)]
    BY <2>1, <1>1, <1>4, <1>5
  <2>3. QED
    BY <2>1, <2>2, <1>2
<1>8. Removed(r, s, m)
  BY <1>5, <1>6, <1>7 DEF Removed
<1>9. QED
  BY <1>3, <1>4, <1>8

-----------------------------------------------------------------------------
(* The list of timeouts.                                                   *)

\* A timeout of handler h for station b is pending.
Has(ts, h, b) == \E i \in DOMAIN ts : ts[i].handler = h /\ ts[i].sta = b

Sorted(ts) == \A i, j \in DOMAIN ts : i < j => ts[i].due <= ts[j].due

\* No two timeouts are for the same handler and station.
Distinct(ts) ==
  \A i, j \in DOMAIN ts :
    ts[i].handler = ts[j].handler /\ ts[i].sta = ts[j].sta => i = j

TimerList(ts) == ts \in Seq(Timeout) /\ Sorted(ts) /\ Distinct(ts)

\* What is kept of a list of timeouts is sorted and distinct, and pending are
\* the timeouts that were kept.
LEMMA KeepTimers ==
  ASSUME NEW ts, TimerList(ts), NEW S, S \subseteq DOMAIN ts
  PROVE  /\ TimerList(Keep(ts, S))
         /\ \A h, b : Has(Keep(ts, S), h, b)
              <=> \E i \in S : ts[i].handler = h /\ ts[i].sta = b
<1> DEFINE r == Keep(ts, S)
<1>1. ts \in Seq(Timeout) /\ DOMAIN ts = 1 .. Len(ts) /\ Len(ts) \in Nat
  BY DEF TimerList
<1>2. r \in Seq(Timeout)
  BY <1>1, KeepFacts
<1>a. PICK p : Selects(p, ts, S, r)
  BY <1>1, KeepFacts
<1> HIDE DEF r
<1>3. /\ p \in [DOMAIN r -> S]
      /\ \A k \in DOMAIN r : r[k] = ts[p[k]]
      /\ \A k, l \in DOMAIN r : k < l => p[k] < p[l]
      /\ \A i \in S : \E k \in DOMAIN r : p[k] = i
  BY <1>a DEF Selects
<1>4. \A k \in DOMAIN r : p[k] \in S /\ p[k] \in DOMAIN ts /\ p[k] \in Nat
  BY <1>1, <1>3
<1>5. DOMAIN r \subseteq Nat
  BY <1>2
<1>6. Sorted(r)
  BY <1>3, <1>4 DEF Sorted, TimerList
<1>7. Distinct(r)
  <2> SUFFICES ASSUME NEW k \in DOMAIN r, NEW l \in DOMAIN r,
                      r[k].handler = r[l].handler, r[k].sta = r[l].sta
               PROVE  k = l
    BY DEF Distinct
  <2>1. p[k] = p[l]
    BY <1>3, <1>4 DEF Distinct, TimerList
  <2>2. k \in Nat /\ l \in Nat /\ ~(k < l) /\ ~(l < k)
    BY <2>1, <1>3, <1>4, <1>5
  <2>3. QED
    BY <2>2
<1>8. \A h, b : Has(r, h, b) <=> \E i \in S : ts[i].handler = h /\ ts[i].sta = b
  <2> TAKE h, b
  <2>1. ASSUME Has(r, h, b)
        PROVE  \E i \in S : ts[i].handler = h /\ ts[i].sta = b
    <3>1. PICK k \in DOMAIN r : r[k].handler = h /\ r[k].sta = b
      BY <2>1 DEF Has
    <3>2. p[k] \in S /\ r[k] = ts[p[k]]
      BY <1>3, <1>4
    <3>3. QED
      BY <3>1, <3>2
  <2>2. ASSUME NEW i \in S, ts[i].handler = h, ts[i].sta = b
        PROVE  Has(r, h, b)
    <3>1. PICK k \in DOMAIN r : p[k] = i
      BY <1>3
    <3>2. r[k] = ts[i]
      BY <3>1, <1>3
    <3>3. QED
      BY <2>2, <3>2 DEF Has
  <2>3. QED
    BY <2>1, <2>2
<1>9. QED
  BY <1>2, <1>6, <1>7, <1>8 DEF TimerList, r

\* eloop_cancel_timeout takes the timeout of h and b away and no other.
LEMMA CancelFacts ==
  ASSUME NEW ts, TimerList(ts), NEW h, NEW b
  PROVE  /\ TimerList(eloop_cancel_timeout(ts, h, b))
         /\ \A g, c : Has(eloop_cancel_timeout(ts, h, b), g, c)
              <=> Has(ts, g, c) /\ ~(g = h /\ c = b)
<1> DEFINE S == {i \in DOMAIN ts : ~ (ts[i].handler = h /\ ts[i].sta = b)}
<1>1. S \subseteq DOMAIN ts
  OBVIOUS
<1>2. eloop_cancel_timeout(ts, h, b) = Keep(ts, S)
  BY DEF eloop_cancel_timeout
<1>3. \A g, c : (\E i \in S : ts[i].handler = g /\ ts[i].sta = c)
                  <=> Has(ts, g, c) /\ ~(g = h /\ c = b)
  BY Zenon DEF Has
<1> HIDE DEF S
<1>4. QED
  BY <1>1, <1>2, <1>3, KeepTimers

\* eloop_register_timeout keeps the list sorted and adds the one timeout.
LEMMA RegisterFacts ==
  ASSUME NEW ts, TimerList(ts), NEW h \in {"tick", "session"},
         NEW b \in BLOCKS, NEW secs \in 0 .. MAX_TIMEOUT, ~ Has(ts, h, b)
  PROVE  /\ TimerList(eloop_register_timeout(ts, h, b, secs))
         /\ \A g, c : Has(eloop_register_timeout(ts, h, b, secs), g, c)
              <=> Has(ts, g, c) \/ (g = h /\ c = b)
<1> DEFINE e == [handler |-> h, sta |-> b, due |-> secs]
           S == {i \in DOMAIN ts : ts[i].due <= secs}
           k == Cardinality(S)
           r == InsertAt(ts, k + 1, e)
<1>1. ts \in Seq(Timeout) /\ DOMAIN ts = 1 .. Len(ts) /\ Len(ts) \in Nat
  BY DEF TimerList
<1>2. \A i \in DOMAIN ts : ts[i].due \in Nat
  <2> SUFFICES ASSUME NEW i \in DOMAIN ts PROVE ts[i].due \in Nat
    OBVIOUS
  <2>1. ts[i] \in Timeout
    BY <1>1
  <2>2. QED
    BY <2>1, TimeoutAssumption DEF Timeout
<1>3. secs \in Nat /\ e \in Timeout
  BY TimeoutAssumption DEF Timeout
<1>4. k \in 0 .. Len(ts) /\ S = 1 .. k
  <2>1. S \subseteq 1 .. Len(ts)
    BY <1>1
  <2>2. ASSUME NEW i \in S, NEW j \in 1 .. i PROVE j \in S
    <3>1. i \in DOMAIN ts /\ ts[i].due <= secs /\ j \in DOMAIN ts /\ j \in Nat
      BY <1>1
    <3>2. i = j \/ j < i
      BY <3>1, <1>1
    <3>3. ts[j].due <= ts[i].due
      BY <3>1, <3>2, <1>2 DEF TimerList, Sorted
    <3>4. ts[j].due <= secs
      BY <3>1, <3>3, <1>2, <1>3
    <3>5. QED
      BY <3>1, <3>4
  <2> HIDE DEF S
  <2>3. QED
    BY <2>1, <2>2, <1>1, InitialSegment
<1>5. eloop_register_timeout(ts, h, b, secs) = r
  BY DEF eloop_register_timeout
<1>6. \A i \in DOMAIN ts : ts[i].due <= secs <=> i <= k
  BY <1>4, <1>1
<1> HIDE DEF S, k
<1> HIDE DEF e
<1>7. /\ r \in Seq(Timeout)
      /\ Len(r) = Len(ts) + 1
      /\ r[k + 1] = e
      /\ \A i \in 1 .. k : r[i] = ts[i]
      /\ \A i \in k + 2 .. Len(ts) + 1 : r[i] = ts[i - 1]
  <2>1. k \in 0 .. Len(ts) /\ ts \in Seq(Timeout) /\ e \in Timeout
    BY <1>1, <1>3, <1>4
  <2>2. r \in Seq(Timeout) /\ Inserted(r, ts, k, e)
    BY <2>1, InsertFacts
  <2> HIDE DEF r
  <2>3. QED
    BY <2>2 DEF Inserted
<1> DEFINE q(i) == IF i <= k THEN i ELSE i - 1
<1>8. ASSUME NEW i \in DOMAIN r, i # k + 1
      PROVE  q(i) \in DOMAIN ts /\ r[i] = ts[q(i)]
  BY <1>1, <1>4, <1>7, <1>8
<1> HIDE DEF r
<1>9. DOMAIN r = 1 .. Len(ts) + 1 /\ k \in Nat
  BY <1>1, <1>4, <1>7
<1>10. e.handler = h /\ e.sta = b /\ e.due = secs
  BY DEF e
<1>11. Sorted(r)
  <2> SUFFICES ASSUME NEW i \in DOMAIN r, NEW j \in DOMAIN r, i < j
               PROVE  r[i].due <= r[j].due
    BY DEF Sorted
  <2>0. i \in Nat /\ j \in Nat
    BY <1>9
  <2>1. CASE i = k + 1
    <3>1. q(j) \in DOMAIN ts /\ r[j] = ts[q(j)] /\ ~(q(j) <= k)
      BY <1>8, <1>9, <2>0, <2>1
    <3>2. ~(ts[q(j)].due <= secs)
      BY <3>1, <1>6
    <3>3. QED
      BY <3>1, <3>2, <2>1, <1>2, <1>3, <1>7, <1>10
  <2>2. CASE j = k + 1
    <3>1. q(i) \in DOMAIN ts /\ r[i] = ts[q(i)] /\ q(i) <= k
      BY <1>8, <1>9, <2>0, <2>2
    <3>2. ts[q(i)].due <= secs
      BY <3>1, <1>6
    <3>3. QED
      BY <3>1, <3>2, <2>2, <1>7, <1>10
  <2>3. CASE i # k + 1 /\ j # k + 1
    <3>1. q(i) < q(j)
      BY <1>9, <2>0, <2>3
    <3>2. q(i) \in DOMAIN ts /\ r[i] = ts[q(i)]
      BY <1>8, <2>3
    <3>3. q(j) \in DOMAIN ts /\ r[j] = ts[q(j)]
      BY <1>8, <2>3
    <3> HIDE DEF q
    <3>4. QED
      BY <3>1, <3>2, <3>3 DEF TimerList, Sorted
  <2>4. QED
    BY <2>1, <2>2, <2>3
<1>12. \A i \in DOMAIN ts : ~(ts[i].handler = h /\ ts[i].sta = b)
  BY DEF Has
<1>13. Distinct(r)
  <2> SUFFICES ASSUME NEW i \in DOMAIN r, NEW j \in DOMAIN r,
                      r[i].handler = r[j].handler, r[i].sta = r[j].sta
               PROVE  i = j
    BY DEF Distinct
  <2>1. CASE i # k + 1 /\ j # k + 1
    <3>1. q(i) = q(j)
      BY <1>8, <2>1 DEF TimerList, Distinct
    <3>2. QED
      BY <3>1, <2>1, <1>9
  <2>2. CASE i = k + 1 /\ j # k + 1
    BY <2>2, <1>7, <1>8, <1>10, <1>12
  <2>3. CASE i # k + 1 /\ j = k + 1
    BY <2>3, <1>7, <1>8, <1>10, <1>12
  <2>4. QED
    BY <2>1, <2>2, <2>3
<1>14. ASSUME NEW i \in DOMAIN ts
       PROVE  \E j \in DOMAIN r : r[j] = ts[i]
  <2>1. CASE i <= k
    <3>1. i \in DOMAIN r /\ r[i] = ts[i]
      BY <2>1, <1>1, <1>7, <1>9
    <3>2. QED
      BY <3>1
  <2>2. CASE ~(i <= k)
    <3>1. i + 1 \in DOMAIN r /\ i + 1 \in k + 2 .. Len(ts) + 1
      BY <2>2, <1>1, <1>9
    <3>2. r[i + 1] = ts[i + 1 - 1] /\ i + 1 - 1 = i
      BY <3>1, <1>1, <1>7
    <3>3. QED
      BY <3>1, <3>2
  <2>3. QED
    BY <2>1, <2>2
<1>15. k + 1 \in DOMAIN r
  BY <1>1, <1>4, <1>9
<1>16. ASSUME NEW g, NEW c
       PROVE  Has(r, g, c) <=> Has(ts, g, c) \/ (g = h /\ c = b)
  <2>1. ASSUME Has(r, g, c) PROVE Has(ts, g, c) \/ (g = h /\ c = b)
    BY <2>1, <1>7, <1>8, <1>10 DEF Has
  <2>2. ASSUME Has(ts, g, c) PROVE Has(r, g, c)
    BY <2>2, <1>14 DEF Has
  <2>3. ASSUME g = h, c = b PROVE Has(r, g, c)
    BY <2>3, <1>7, <1>10, <1>15 DEF Has
  <2>4. QED
    BY <2>1, <2>2, <2>3
<1>17. QED
  BY <1>5, <1>7, <1>11, <1>13, <1>16 DEF TimerList

\* The head of the list goes and nothing else does.
LEMMA TailFacts ==
  ASSUME NEW ts, TimerList(ts), ts # <<>>
  PROVE  /\ Head(ts) \in Timeout
         /\ TimerList(Tail(ts))
         /\ \A g, c : Has(Tail(ts), g, c)
              <=> Has(ts, g, c) /\ ~(g = Head(ts).handler /\ c = Head(ts).sta)
<1> DEFINE r == Tail(ts)
           e == Head(ts)
<1>1. ts \in Seq(Timeout) /\ DOMAIN ts = 1 .. Len(ts) /\ Len(ts) \in Nat \ {0}
  BY DEF TimerList
<1>2. /\ e \in Timeout /\ e = ts[1] /\ r \in Seq(Timeout)
      /\ DOMAIN r = 1 .. Len(ts) - 1
      /\ \A i \in 1 .. Len(ts) - 1 : r[i] = ts[i + 1]
  BY <1>1, HeadTailProperties
<1> HIDE DEF r, e
<1>3. \A i \in DOMAIN r : i \in Nat /\ i + 1 \in DOMAIN ts /\ r[i] = ts[i + 1]
  BY <1>1, <1>2
<1>4. \A i, j \in DOMAIN r :
     (i < j => i + 1 < j + 1) /\ (i + 1 = j + 1 => i = j)
  BY <1>3
<1>5. Sorted(r)
  BY <1>3, <1>4 DEF Sorted, TimerList
<1>6. Distinct(r)
  BY <1>3, <1>4 DEF Distinct, TimerList
<1>7. ASSUME NEW g, NEW c
      PROVE  Has(r, g, c) <=> Has(ts, g, c) /\ ~(g = e.handler /\ c = e.sta)
  <2>1. ASSUME Has(r, g, c) PROVE Has(ts, g, c) /\ ~(g = e.handler /\ c = e.sta)
    <3>1. PICK i \in DOMAIN r : r[i].handler = g /\ r[i].sta = c
      BY <2>1 DEF Has
    <3>2. i + 1 \in DOMAIN ts /\ r[i] = ts[i + 1] /\ i + 1 # 1 /\
         1 \in DOMAIN ts
      BY <1>1, <1>2, <1>3
    <3>3. ~(ts[i + 1].handler = ts[1].handler /\ ts[i + 1].sta = ts[1].sta)
      BY <3>2 DEF TimerList, Distinct
    <3>4. QED
      BY <3>1, <3>2, <3>3, <1>2 DEF Has
  <2>2. ASSUME Has(ts, g, c), ~(g = e.handler /\ c = e.sta) PROVE Has(r, g, c)
    <3>1. PICK i \in DOMAIN ts : ts[i].handler = g /\ ts[i].sta = c
      BY <2>2 DEF Has
    <3>2. i # 1
      BY <3>1, <2>2, <1>2
    <3>3. i - 1 \in 1 .. Len(ts) - 1 /\ (i - 1) + 1 = i
      BY <3>2, <1>1
    <3>4. i - 1 \in DOMAIN r /\ r[i - 1] = ts[i]
      BY <3>3, <1>2
    <3>5. QED
      BY <3>1, <3>4 DEF Has
  <2>3. QED
    BY <2>1, <2>2
<1>8. QED
  BY <1>2, <1>5, <1>6, <1>7 DEF TimerList, r, e

\* The clock takes a second of every timeout.
Aged(ts) ==
  [i \in DOMAIN ts |-> [ts[i] EXCEPT !.due = IF @ > 0 THEN @ - 1 ELSE 0]]

\* A second that passes changes neither the order nor the timeouts pending.
LEMMA AgedFacts ==
  ASSUME NEW ts, TimerList(ts)
  PROVE  /\ TimerList(Aged(ts))
         /\ \A g, c : Has(Aged(ts), g, c) <=> Has(ts, g, c)
<1> DEFINE r == Aged(ts)
           sub(n) == IF n > 0 THEN n - 1 ELSE 0
<1>1. ts \in Seq(Timeout) /\ DOMAIN ts = 1 .. Len(ts) /\ Len(ts) \in Nat
  BY DEF TimerList
<1>2. \A i \in DOMAIN ts : ts[i] \in Timeout
  BY <1>1
<1>3. \A x \in Timeout : x.due \in 0 .. MAX_TIMEOUT /\ x.due \in Nat
  BY TimeoutAssumption DEF Timeout
<1>4. DOMAIN r = DOMAIN ts
  BY DEF Aged
<1>5. ASSUME NEW i \in DOMAIN ts
      PROVE  /\ r[i] \in Timeout
             /\ r[i].handler = ts[i].handler
             /\ r[i].sta = ts[i].sta
             /\ r[i].due = sub(ts[i].due)
  <2>1. r[i] = [ts[i] EXCEPT !.due = sub(ts[i].due)]
    BY DEF Aged
  <2>2. ts[i] \in Timeout /\ ts[i].due \in 0 .. MAX_TIMEOUT
    BY <1>2, <1>3
  <2>3. sub(ts[i].due) \in 0 .. MAX_TIMEOUT
    BY <2>2, TimeoutAssumption
  <2> HIDE DEF sub, r
  <2>4. QED
    BY <2>1, <2>2, <2>3 DEF Timeout
<1>6. r \in Seq(Timeout)
  <2>1. r = [i \in 1 .. Len(ts) |-> r[i]]
    BY <1>1 DEF Aged
  <2>2. \A i \in 1 .. Len(ts) : r[i] \in Timeout
    BY <1>1, <1>5
  <2> HIDE DEF r
  <2>3. QED
    BY <1>1, <2>1, <2>2
<1>7. ASSUME NEW i \in DOMAIN ts, NEW j \in DOMAIN ts, i < j
      PROVE  sub(ts[i].due) <= sub(ts[j].due)
  <2>1. ts[i].due <= ts[j].due
    BY <1>7 DEF TimerList, Sorted
  <2>2. ts[i].due \in Nat /\ ts[j].due \in Nat
    BY <1>2, <1>3
  <2>3. QED
    BY <2>1, <2>2
<1> HIDE DEF r, sub
<1>8. Sorted(r)
  BY <1>4, <1>5, <1>7 DEF Sorted
<1>9. Distinct(r)
  BY <1>4, <1>5 DEF Distinct, TimerList
<1>10. \A g, c : Has(r, g, c) <=> Has(ts, g, c)
  BY <1>4, <1>5 DEF Has
<1>11. QED
  BY <1>6, <1>8, <1>9, <1>10 DEF TimerList, r

-----------------------------------------------------------------------------
(* The list and the chains.                                                *)

\* r holds what the duplicate-free s holds, without b.
Without(r, s, b) ==
  /\ Len(r) = Len(s) - 1
  /\ IsInjective(r)
  /\ \A c : c \in Range(r) <=> c \in Range(s) /\ c # b

\* Removing one position of a duplicate-free sequence removes its element.
LEMMA RemovedRange ==
  ASSUME NEW T, NEW s \in Seq(T), IsInjective(s), NEW m \in 1 .. Len(s)
  PROVE  RemoveAt(s, m) \in Seq(T) /\ Without(RemoveAt(s, m), s, s[m])
<1> DEFINE r == RemoveAt(s, m)
           q(i) == IF i < m THEN i ELSE i + 1
<1>1. r \in Seq(T) /\ Removed(r, s, m)
  BY RemoveAtFacts
<1> HIDE DEF r
<1>2. /\ Len(s) \in Nat /\ DOMAIN s = 1 .. Len(s) /\ m \in Nat
      /\ 1 <= m /\ m <= Len(s)
  OBVIOUS
<1>3. /\ Len(r) = Len(s) - 1
      /\ \A i \in 1 .. m - 1 : r[i] = s[i]
      /\ \A i \in m .. Len(s) - 1 : r[i] = s[i + 1]
  BY <1>1 DEF Removed
<1>4. DOMAIN r = 1 .. Len(s) - 1
  BY <1>1, <1>2, <1>3
<1>5. ASSUME NEW i \in DOMAIN r
      PROVE  i \in Nat /\ q(i) \in DOMAIN s /\ q(i) # m /\ r[i] = s[q(i)]
  BY <1>2, <1>3, <1>4
<1>6. \A i, j \in DOMAIN r : q(i) = q(j) => i = j
  BY <1>2, <1>5
<1>7. ASSUME NEW i \in DOMAIN s, i # m PROVE \E j \in DOMAIN r : r[j] = s[i]
  <2>1. CASE i < m
    <3>1. i \in 1 .. m - 1 /\ i \in DOMAIN r
      BY <2>1, <1>2, <1>4
    <3>2. QED
      BY <3>1, <1>3
  <2>2. CASE ~(i < m)
    <3>1. /\ i - 1 \in m .. Len(s) - 1 /\ i - 1 \in DOMAIN r
          /\ (i - 1) + 1 = i
      BY <2>2, <1>2, <1>4, <1>7
    <3>2. r[i - 1] = s[i]
      BY <3>1, <1>3
    <3>3. QED
      BY <3>1, <3>2
  <2>3. QED
    BY <2>1, <2>2
<1> HIDE DEF q
<1>8. IsInjective(r)
  <2> SUFFICES ASSUME NEW i \in DOMAIN r, NEW j \in DOMAIN r, r[i] = r[j]
               PROVE  i = j
    BY DEF IsInjective
  <2>1. q(i) = q(j)
    BY <1>5 DEF IsInjective
  <2>2. QED
    BY <2>1, <1>6
<1>9. ASSUME NEW c PROVE c \in Range(r) <=> c \in Range(s) /\ c # s[m]
  <2>1. ASSUME c \in Range(r) PROVE c \in Range(s) /\ c # s[m]
    <3>1. PICK i \in DOMAIN r : c = r[i]
      BY <2>1 DEF Range
    <3>2. c = s[q(i)] /\ q(i) \in DOMAIN s /\ q(i) # m /\ m \in DOMAIN s
      BY <3>1, <1>2, <1>5
    <3>3. QED
      BY <3>2 DEF Range, IsInjective
  <2>2. ASSUME c \in Range(s), c # s[m] PROVE c \in Range(r)
    <3>1. PICK i \in DOMAIN s : c = s[i]
      BY <2>2 DEF Range
    <3>2. i # m
      BY <3>1, <2>2
    <3>3. QED
      BY <3>1, <3>2, <1>7 DEF Range
  <2>3. QED
    BY <2>1, <2>2
<1>10. QED
  BY <1>1, <1>3, <1>8, <1>9 DEF Without, r

\* Ap_sta_list_del takes the block, and no other, off the list.
LEMMA ListDelFacts ==
  ASSUME NEW T, NEW s \in Seq(T), IsInjective(s), NEW b \in Range(s)
  PROVE  Ap_sta_list_del(s, b) \in Seq(T) /\
         Without(Ap_sta_list_del(s, b), s, b)
<1> DEFINE I == {i \in 1 .. Len(s) : s[i] = b}
<1>1. PICK i \in 1 .. Len(s) : s[i] = b
  BY DEF Range
<1>2. I \subseteq Nat /\ I # {}
  BY <1>1
<1>3. Ap_sta_list_del(s, b) = RemoveAt(s, Min(I))
  BY <1>1, <1>2 DEF Ap_sta_list_del, RemoveFirst, SelectInSeq
<1> HIDE DEF I
<1>4. Min(I) \in I
  BY <1>2, MinExists
<1>5. Min(I) \in 1 .. Len(s) /\ s[Min(I)] = b
  BY <1>4 DEF I
<1>6. QED
  BY <1>3, <1>5, RemovedRange

\* Ap_sta_hash_del takes the station of the address, and no other, off its
\* chain.
LEMMA HashDelFacts ==
  ASSUME NEW T, NEW s \in Seq(T), IsInjective(s), NEW b \in Range(s),
         \A c \in Range(s) : mem[c] = mem[b] => c = b
  PROVE  /\ Ap_sta_hash_del(s, mem[b]) \in Seq(T)
         /\ Without(Ap_sta_hash_del(s, mem[b]), s, b)
<1> DEFINE I == {i \in 1 .. Len(s) : mem[s[i]] = mem[b]}
<1>1. PICK i \in 1 .. Len(s) : s[i] = b
  BY DEF Range
<1>2. I \subseteq Nat /\ I # {}
  BY <1>1
<1>3. Ap_sta_hash_del(s, mem[b]) = RemoveAt(s, Min(I))
  BY <1>1, <1>2 DEF Ap_sta_hash_del, RemoveFirstMatch, SelectInSeq
<1> HIDE DEF I
<1>4. Min(I) \in I
  BY <1>2, MinExists
<1>5. Min(I) \in 1 .. Len(s) /\ mem[s[Min(I)]] = mem[b]
  BY <1>4 DEF I
<1>6. s[Min(I)] \in Range(s)
  BY <1>5 DEF Range
<1>7. s[Min(I)] = b
  BY <1>5, <1>6
<1>8. QED
  BY <1>3, <1>5, <1>7, RemovedRange

\* The walk of a chain finds a station of the address if there is one.
LEMMA LookupFacts ==
  ASSUME NEW T, NEW a, sta_hash[HASH[a]] \in Seq(T)
  PROVE  /\ Found(a) => /\ sta_hash[HASH[a]][Lookup(a)] \in
                             Range(sta_hash[HASH[a]])
                        /\ mem[sta_hash[HASH[a]][Lookup(a)]] = a
         /\ ~ Found(a) => \A c \in Range(sta_hash[HASH[a]]) : mem[c] # a
<1> DEFINE s == sta_hash[HASH[a]]
           I == {i \in 1 .. Len(s) : mem[s[i]] = a}
<1>1. Lookup(a) = IF I # {} THEN Min(I) ELSE 0
  BY DEF Lookup, SelectInSeq
<1>2. I \subseteq Nat /\ I \subseteq DOMAIN s /\ 0 \notin I
  OBVIOUS
<1>3. ASSUME I # {}
      PROVE  Found(a) /\ s[Lookup(a)] \in Range(s) /\ mem[s[Lookup(a)]] = a
  <2> HIDE DEF I
  <2>1. Min(I) \in I
    BY <1>2, <1>3, MinExists
  <2>2. Lookup(a) \in I
    BY <2>1, <1>1, <1>3
  <2>3. QED
    BY <2>2, <1>2 DEF Found, I, Range
<1>4. ASSUME I = {}
      PROVE  ~ Found(a) /\ \A c \in Range(s) : mem[c] # a
  <2>1. Lookup(a) = 0
    BY <1>1, <1>4
  <2>2. \A i \in DOMAIN s : mem[s[i]] # a
    BY <1>4
  <2>3. QED
    BY <2>1, <2>2 DEF Found, Range
<1>5. QED
  BY <1>3, <1>4

\* Putting a new element at the head keeps a sequence duplicate-free.
LEMMA PrependFacts ==
  ASSUME NEW T, NEW s \in Seq(T), IsInjective(s), NEW b \in T, b \notin Range(s)
  PROVE  /\ <<b>> \o s \in Seq(T) /\ Len(<<b>> \o s) = Len(s) + 1
         /\ IsInjective(<<b>> \o s)
         /\ \A c : c \in Range(<<b>> \o s) <=> c = b \/ c \in Range(s)
<1> DEFINE r == <<b>> \o s
<1>1. Len(s) \in Nat /\ DOMAIN s = 1 .. Len(s)
  OBVIOUS
<1>2. /\ r \in Seq(T) /\ Len(r) = Len(s) + 1 /\ r[1] = b
      /\ \A i \in 2 .. Len(s) + 1 : r[i] = s[i - 1]
  OBVIOUS
<1> HIDE DEF r
<1>3. DOMAIN r = 1 .. Len(s) + 1 /\ 1 \in DOMAIN r
  BY <1>1, <1>2
<1>4. ASSUME NEW i \in DOMAIN r, i # 1
      PROVE  i \in Nat /\ i - 1 \in DOMAIN s /\ r[i] = s[i - 1]
  BY <1>1, <1>2, <1>3, <1>4
<1>5. ASSUME NEW i \in DOMAIN s
      PROVE  i + 1 \in DOMAIN r /\ r[i + 1] = s[i]
  <2>1. i + 1 \in 2 .. Len(s) + 1 /\ (i + 1) - 1 = i
    BY <1>1
  <2>2. QED
    BY <2>1, <1>2, <1>3
<1>6. \A i \in DOMAIN s : s[i] # b
  BY DEF Range
<1>7. IsInjective(r)
  <2> SUFFICES ASSUME NEW i \in DOMAIN r, NEW j \in DOMAIN r, r[i] = r[j]
               PROVE  i = j
    BY DEF IsInjective
  <2>1. CASE i # 1 /\ j # 1
    <3>1. i - 1 = j - 1
      BY <2>1, <1>4 DEF IsInjective
    <3>2. QED
      BY <3>1, <2>1, <1>4
  <2>2. CASE i = 1 \/ j = 1
    BY <2>2, <1>2, <1>4, <1>6
  <2>3. QED
    BY <2>1, <2>2
<1>8. ASSUME NEW c PROVE c \in Range(r) <=> c = b \/ c \in Range(s)
  <2>1. ASSUME c \in Range(r) PROVE c = b \/ c \in Range(s)
    BY <2>1, <1>2, <1>4 DEF Range
  <2>2. ASSUME c = b \/ c \in Range(s) PROVE c \in Range(r)
    BY <2>2, <1>2, <1>3, <1>5 DEF Range
  <2>3. QED
    BY <2>1, <2>2
<1>9. QED
  BY <1>2, <1>7, <1>8 DEF r

\* Memory m, list l, chains hs and counter n agree: the blocks allocated are
\* those of the list and of F, no two of them for the same address, and the
\* chain of a bucket holds the stations of the list whose address it is for.
Agree(m, l, hs, n, F) ==
  /\ m \in [BLOCKS -> STAS \cup {FREE}]
  /\ l \in Seq(BLOCKS)
  /\ hs \in [Buckets -> Seq(BLOCKS)]
  /\ n = Len(l)
  /\ IsInjective(l)
  /\ \A b \in F : b \in BLOCKS /\ b \notin Range(l)
  /\ \A b \in BLOCKS : m[b] # FREE <=> b \in Range(l) \/ b \in F
  /\ \A b, c \in BLOCKS : m[b] = m[c] /\ m[b] # FREE => b = c
  /\ \A h \in Buckets :
       /\ IsInjective(hs[h])
       /\ \A b \in BLOCKS :
            b \in Range(hs[h]) <=> b \in Range(l) /\ HASH[m[b]] = h

\* The elements of a sequence of blocks are blocks.
LEMMA RangeBlocks ==
  ASSUME NEW s \in Seq(BLOCKS)
  PROVE  \A b \in Range(s) : b \in BLOCKS
  BY DEF Range

\* The address of an allocated block has a bucket.
LEMMA BucketOf ==
  ASSUME NEW m \in [BLOCKS -> STAS \cup {FREE}], NEW b \in BLOCKS, m[b] # FREE
  PROVE  m[b] \in STAS /\ HASH[m[b]] \in Buckets
  BY DEF Buckets

\* Ap_get_sta allocates a block for an address that has none.
LEMMA AgreeAlloc ==
  ASSUME NEW m, NEW l, NEW hs, NEW n, Agree(m, l, hs, n, {}),
         NEW a \in STAS, \A c \in BLOCKS : m[c] # a,
         NEW b \in BLOCKS, m[b] = FREE
  PROVE  Agree([m EXCEPT ![b] = a], l, hs, n, {b})
<1> DEFINE k == [m EXCEPT ![b] = a]
<1>1. m \in [BLOCKS -> STAS \cup {FREE}] /\ a # FREE
  BY HashAssumption DEF Agree, FREE
<1>2. /\ k \in [BLOCKS -> STAS \cup {FREE}]
      /\ k[b] = a
      /\ \A c \in BLOCKS : c # b => k[c] = m[c]
  BY <1>1
<1> HIDE DEF k
<1>3. b \notin Range(l)
  BY DEF Agree
<1>4. \A c \in BLOCKS : k[c] # FREE <=> c \in Range(l) \/ c \in {b}
  BY <1>1, <1>2 DEF Agree
<1>5. \A c, d \in BLOCKS : k[c] = k[d] /\ k[c] # FREE => c = d
  BY <1>1, <1>2 DEF Agree
<1>6. \A h \in Buckets : \A c \in BLOCKS :
        c \in Range(hs[h]) <=> c \in Range(l) /\ HASH[k[c]] = h
  BY <1>2, <1>3 DEF Agree
<1>7. QED
  BY <1>2, <1>3, <1>4, <1>5, <1>6 DEF Agree, k

\* The rest of Ap_get_sta puts the block on the list and on its chain.
LEMMA AgreeLink ==
  ASSUME NEW m, NEW l, NEW hs, NEW n, NEW b, Agree(m, l, hs, n, {b})
  PROVE  Agree(m, <<b>> \o l,
               [hs EXCEPT ![HASH[m[b]]] = <<b>> \o @], n + 1, {})
<1> DEFINE g == HASH[m[b]]
           ks == [hs EXCEPT ![g] = <<b>> \o hs[g]]
           k == <<b>> \o l
<1>1. /\ m \in [BLOCKS -> STAS \cup {FREE}] /\ l \in Seq(BLOCKS)
      /\ hs \in [Buckets -> Seq(BLOCKS)] /\ n = Len(l) /\ IsInjective(l)
      /\ b \in BLOCKS /\ b \notin Range(l) /\ m[b] # FREE
  BY DEF Agree
<1>2. g \in Buckets
  BY <1>1, BucketOf
<1> HIDE DEF g
<1>3. /\ hs[g] \in Seq(BLOCKS) /\ IsInjective(hs[g]) /\ b \notin Range(hs[g])
  BY <1>1, <1>2 DEF Agree
<1>4. /\ k \in Seq(BLOCKS) /\ Len(k) = Len(l) + 1 /\ IsInjective(k)
      /\ \A c : c \in Range(k) <=> c = b \/ c \in Range(l)
  BY <1>1, PrependFacts
<1>5. /\ <<b>> \o hs[g] \in Seq(BLOCKS) /\ IsInjective(<<b>> \o hs[g])
      /\ \A c : c \in Range(<<b>> \o hs[g]) <=> c = b \/ c \in Range(hs[g])
  BY <1>1, <1>3, PrependFacts
<1>6. /\ ks \in [Buckets -> Seq(BLOCKS)]
      /\ ks[g] = <<b>> \o hs[g]
      /\ \A h \in Buckets : h # g => ks[h] = hs[h]
  BY <1>1, <1>2, <1>5
<1> HIDE DEF ks, k
<1>7. \A c \in BLOCKS : m[c] # FREE <=> c \in Range(k)
  BY <1>4 DEF Agree
<1>8. ASSUME NEW h \in Buckets
      PROVE  /\ IsInjective(ks[h])
             /\ \A c \in BLOCKS :
                  c \in Range(ks[h]) <=> c \in Range(k) /\ HASH[m[c]] = h
  <2>1. CASE h = g
    <3>1. IsInjective(ks[h])
      BY <2>1, <1>5, <1>6
    <3>2. ASSUME NEW c \in BLOCKS
          PROVE  c \in Range(ks[h]) <=> c \in Range(k) /\ HASH[m[c]] = h
      <4>1. c \in Range(ks[h]) <=> c = b \/ c \in Range(hs[g])
        BY <2>1, <1>5, <1>6
      <4>2. c \in Range(hs[g]) <=> c \in Range(l) /\ HASH[m[c]] = g
        BY <1>2 DEF Agree
      <4>3. HASH[m[b]] = g
        BY DEF g
      <4>4. QED
        BY <2>1, <4>1, <4>2, <4>3, <1>4
    <3>3. QED
      BY <3>1, <3>2
  <2>2. CASE h # g
    <3>1. ks[h] = hs[h] /\ IsInjective(hs[h])
      BY <2>2, <1>6 DEF Agree
    <3>2. ASSUME NEW c \in BLOCKS
          PROVE  c \in Range(hs[h]) <=> c \in Range(k) /\ HASH[m[c]] = h
      <4>1. c \in Range(hs[h]) <=> c \in Range(l) /\ HASH[m[c]] = h
        BY DEF Agree
      <4>2. HASH[m[b]] # h
        BY <2>2 DEF g
      <4>3. QED
        BY <4>1, <4>2, <1>4
    <3>3. QED
      BY <3>1, <3>2
  <2>3. QED
    BY <2>1, <2>2
<1>9. n + 1 = Len(k)
  BY <1>1, <1>4
<1>10. Agree(m, k, ks, n + 1, {})
  BY <1>1, <1>4, <1>6, <1>7, <1>8, <1>9 DEF Agree
<1>11. ks = [hs EXCEPT ![HASH[m[b]]] = <<b>> \o @]
  BY DEF ks, g
<1>12. QED
  BY <1>10, <1>11 DEF k

\* Ap_free_sta takes a station of the list out of list, chain and memory.
LEMMA AgreeFree ==
  ASSUME Agree(mem, sta_list, sta_hash, num_sta, {}), NEW b \in Range(sta_list)
  PROVE  Agree([mem EXCEPT ![b] = FREE], Ap_sta_list_del(sta_list, b),
               [sta_hash EXCEPT ![HASH[mem[b]]] = Ap_sta_hash_del(@, mem[b])],
               num_sta - 1, {})
<1> DEFINE g == HASH[mem[b]]
           x == Ap_sta_hash_del(sta_hash[g], mem[b])
           ks == [sta_hash EXCEPT ![g] = x]
           k == Ap_sta_list_del(sta_list, b)
           m == [mem EXCEPT ![b] = FREE]
<1>1. /\ mem \in [BLOCKS -> STAS \cup {FREE}] /\ sta_list \in Seq(BLOCKS)
      /\ sta_hash \in [Buckets -> Seq(BLOCKS)] /\ num_sta = Len(sta_list)
      /\ IsInjective(sta_list)
  BY DEF Agree
<1>2. b \in BLOCKS /\ mem[b] # FREE
  BY <1>1, RangeBlocks DEF Agree
<1>3. g \in Buckets
  BY <1>1, <1>2, BucketOf
<1>4. /\ sta_hash[g] \in Seq(BLOCKS) /\ IsInjective(sta_hash[g])
      /\ b \in Range(sta_hash[g])
  BY <1>1, <1>2, <1>3 DEF Agree
<1>5. \A c \in Range(sta_hash[g]) : mem[c] = mem[b] => c = b
  BY <1>2, <1>4, RangeBlocks DEF Agree
<1>6. k \in Seq(BLOCKS) /\ Without(k, sta_list, b)
  BY <1>1, ListDelFacts
<1>7. x \in Seq(BLOCKS) /\ Without(x, sta_hash[g], b)
  BY <1>4, <1>5, HashDelFacts
<1>8. /\ m \in [BLOCKS -> STAS \cup {FREE}] /\ m[b] = FREE
      /\ \A c \in BLOCKS : c # b => m[c] = mem[c]
  BY <1>1, <1>2
<1> HIDE DEF g, x
<1>9. /\ ks \in [Buckets -> Seq(BLOCKS)] /\ ks[g] = x
      /\ \A h \in Buckets : h # g => ks[h] = sta_hash[h]
  BY <1>1, <1>3, <1>7
<1> HIDE DEF ks, k, m
<1>10. /\ IsInjective(k) /\ Len(k) = Len(sta_list) - 1
       /\ \A c : c \in Range(k) <=> c \in Range(sta_list) /\ c # b
  BY <1>6 DEF Without
<1>11. /\ IsInjective(x)
       /\ \A c : c \in Range(x) <=> c \in Range(sta_hash[g]) /\ c # b
  BY <1>7 DEF Without
<1>12. \A c \in BLOCKS : m[c] # FREE <=> c \in Range(k)
  BY <1>8, <1>10 DEF Agree
<1>13. \A c, d \in BLOCKS : m[c] = m[d] /\ m[c] # FREE => c = d
  BY <1>8 DEF Agree
<1>14. ASSUME NEW h \in Buckets
       PROVE  /\ IsInjective(ks[h])
              /\ \A c \in BLOCKS :
                   c \in Range(ks[h]) <=> c \in Range(k) /\ HASH[m[c]] = h
  <2>1. IsInjective(ks[h])
    BY <1>9, <1>11 DEF Agree
  <2>2. ASSUME NEW c \in BLOCKS
        PROVE  c \in Range(ks[h]) <=> c \in Range(k) /\ HASH[m[c]] = h
    <3>1. c \in Range(sta_hash[h]) <=> c \in Range(sta_list) /\ HASH[mem[c]] = h
      BY DEF Agree
    <3>2. c \in Range(ks[h]) <=> c \in Range(sta_hash[h]) /\ c # b
      <4>1. CASE h = g
        BY <4>1, <1>9, <1>11
      <4>2. CASE h # g
        BY <4>2, <3>1, <1>9 DEF g
      <4>3. QED
        BY <4>1, <4>2
    <3>3. QED
      BY <3>1, <3>2, <1>8, <1>10
  <2>3. QED
    BY <2>1, <2>2
<1>15. num_sta - 1 = Len(k)
  BY <1>1, <1>10
<1>16. Agree(m, k, ks, num_sta - 1, {})
  BY <1>6, <1>8, <1>9, <1>10, <1>12, <1>13, <1>14, <1>15 DEF Agree
<1>17. QED
  BY <1>16 DEF m, k, ks, x, g

\* Keeping no position of a sequence leaves the empty sequence.
LEMMA KeepNone ==
  ASSUME NEW T, NEW s \in Seq(T)
  PROVE  Keep(s, {}) = <<>>
<1>1. Keep(s, {}) \in Seq(T) /\ Len(Keep(s, {})) = Cardinality({})
  BY KeepFacts
<1>2. Cardinality({}) = 0
  BY FS_EmptySet
<1>3. QED
  BY <1>1, <1>2

\* Apd_free_stas empties list, chains and memory.
LEMMA AgreeClear ==
  ASSUME Agree(mem, sta_list, sta_hash, num_sta, {})
  PROVE  Agree([b \in BLOCKS |-> IF b \in Range(sta_list) THEN
         FREE ELSE mem[b]],
               <<>>,
               [h \in Buckets |->
                  Keep(sta_hash[h], {i \in DOMAIN sta_hash[h] :
                         sta_hash[h][i] \notin Range(sta_list)})],
               num_sta - Len(sta_list), {})
<1> DEFINE S(h) == {i \in DOMAIN sta_hash[h] :
                      sta_hash[h][i] \notin Range(sta_list)}
           ks == [h \in Buckets |-> Keep(sta_hash[h], S(h))]
           m == [b \in BLOCKS |-> IF b \in Range(sta_list) THEN
                FREE ELSE mem[b]]
<1>1. /\ mem \in [BLOCKS -> STAS \cup {FREE}] /\ sta_list \in Seq(BLOCKS)
      /\ sta_hash \in [Buckets -> Seq(BLOCKS)] /\ num_sta = Len(sta_list)
  BY DEF Agree
<1>2. ASSUME NEW h \in Buckets PROVE ks[h] = <<>>
  <2>1. sta_hash[h] \in Seq(BLOCKS)
    BY <1>1
  <2>2. S(h) = {}
    <3>1. ASSUME NEW i \in DOMAIN sta_hash[h]
          PROVE  sta_hash[h][i] \in Range(sta_list)
      <4>1. sta_hash[h][i] \in Range(sta_hash[h]) /\ sta_hash[h][i] \in BLOCKS
        BY <2>1 DEF Range
      <4>2. QED
        BY <4>1 DEF Agree
    <3>2. QED
      BY <3>1
  <2>3. ks[h] = Keep(sta_hash[h], S(h))
    OBVIOUS
  <2> HIDE DEF S, ks
  <2>4. QED
    BY <2>1, <2>2, <2>3, KeepNone
<1>3. ks = [h \in Buckets |-> <<>>]
  BY <1>2
<1>4. \A b \in BLOCKS : m[b] = FREE
  BY DEF Agree
<1>5. m \in [BLOCKS -> STAS \cup {FREE}]
  BY <1>1
<1>6. Range(<<>>) = {} /\ IsInjective(<<>>) /\ <<>> \in Seq(BLOCKS)
  BY DEF Range, IsInjective
<1>7. num_sta - Len(sta_list) = Len(<<>>)
  BY <1>1
<1> HIDE DEF m, ks
<1>8. ks \in [Buckets -> Seq(BLOCKS)] /\ \A h \in Buckets : ks[h] = <<>>
  BY <1>3, <1>6
<1>9. Agree(m, <<>>, ks, num_sta - Len(sta_list), {})
  BY <1>4, <1>5, <1>6, <1>7, <1>8 DEF Agree
<1>10. QED
  BY <1>9 DEF m, ks

-----------------------------------------------------------------------------
(* The timeouts, with signals at any time.                                 *)

TimerInv ==
  /\ TimerList(timeout)
  /\ link # <<>> => link[1].sta \in BLOCKS

\* A session is given a number of seconds the configuration and the servers
\* can ask for, or none.
LEMMA SessionOfType ==
  ASSUME NEW t \in GRANTS
  PROVE  SessionOf(t) \in {NoTimeout} \cup 0 .. MAX_TIMEOUT
<1>1. t = NoTimeout \/ t \in 0 .. MAX_TIMEOUT
  BY TimeoutAssumption
<1>2. MAX_TIMEOUT \in Nat /\ INTERVAL \in 0 .. MAX_TIMEOUT
  BY TimeoutAssumption
<1>3. INTERVAL = 0 \/ INTERVAL > 0
  BY <1>2
<1>4. QED
  BY <1>1, <1>2, <1>3 DEF SessionOf, NoTimeout

\* The first tick of a station replaces one that is pending.
LEMMA StartTickFacts ==
  ASSUME NEW ts, TimerList(ts), NEW b \in BLOCKS
  PROVE  /\ TimerList(StartTick(ts, b))
         /\ \A c : Has(StartTick(ts, b), "tick", c)
              <=> Has(ts, "tick", c) \/ c = b
<1> DEFINE x == eloop_cancel_timeout(ts, "tick", b)
<1>1. TimerList(x) /\ \A g, c : Has(x, g, c)
                        <=> Has(ts, g, c) /\ ~(g = "tick" /\ c = b)
  BY CancelFacts
<1> HIDE DEF x
<1>2. ~ Has(x, "tick", b) /\ 1 \in 0 .. MAX_TIMEOUT
  BY <1>1, TimeoutAssumption
<1>3. /\ TimerList(eloop_register_timeout(x, "tick", b, 1))
      /\ \A g, c : Has(eloop_register_timeout(x, "tick", b, 1), g, c)
           <=> Has(x, g, c) \/ (g = "tick" /\ c = b)
  BY <1>1, <1>2, RegisterFacts
<1>4. StartTick(ts, b) = eloop_register_timeout(x, "tick", b, 1)
  BY DEF StartTick, x
<1>5. QED
  BY <1>1, <1>3, <1>4

\* A session timer replaces one that is pending and leaves the ticks alone.
LEMMA SessionTimerFacts ==
  ASSUME NEW ts, TimerList(ts), NEW b \in BLOCKS, NEW secs \in 0 .. MAX_TIMEOUT
  PROVE  /\ TimerList(Ap_sta_session_timeout(ts, b, secs))
         /\ \A c : Has(Ap_sta_session_timeout(ts, b, secs), "tick", c)
              <=> Has(ts, "tick", c)
<1> DEFINE x == eloop_cancel_timeout(ts, "session", b)
<1>1. TimerList(x) /\ \A g, c : Has(x, g, c)
                        <=> Has(ts, g, c) /\ ~(g = "session" /\ c = b)
  BY CancelFacts
<1> HIDE DEF x
<1>2. ~ Has(x, "session", b)
  BY <1>1
<1>3. /\ TimerList(eloop_register_timeout(x, "session", b, secs))
      /\ \A g, c : Has(eloop_register_timeout(x, "session", b, secs), g, c)
           <=> Has(x, g, c) \/ (g = "session" /\ c = b)
  BY <1>1, <1>2, RegisterFacts
<1>4. Ap_sta_session_timeout(ts, b, secs)
        = eloop_register_timeout(x, "session", b, secs)
  BY DEF Ap_sta_session_timeout, x
<1>5. QED
  BY <1>1, <1>3, <1>4

\* What a station that is freed leaves of the timeouts.
LEMMA FreeTimeoutsFacts ==
  ASSUME NEW ts, TimerList(ts), NEW b
  PROVE  /\ TimerList(FreeTimeouts(ts, b))
         /\ \A c : Has(FreeTimeouts(ts, b), "tick", c)
              <=> Has(ts, "tick", c) /\ c # b
  BY CancelFacts DEF FreeTimeouts

\* What a reload leaves of the timeouts.
LEMMA FreeAllFacts ==
  ASSUME NEW ts, TimerList(ts)
  PROVE  /\ TimerList(FreeAll(ts))
         /\ \A c : Has(FreeAll(ts), "tick", c)
              <=> Has(ts, "tick", c) /\ c \notin Range(sta_list)
<1> DEFINE S == {i \in DOMAIN ts :
                   ~ (ts[i].handler = "tick" /\ ts[i].sta \in Range(sta_list))}
<1>1. S \subseteq DOMAIN ts /\ FreeAll(ts) = Keep(ts, S)
  BY DEF FreeAll
<1>2. \A c : (\E i \in S : ts[i].handler = "tick" /\ ts[i].sta = c)
               <=> Has(ts, "tick", c) /\ c \notin Range(sta_list)
  BY Zenon DEF Has
<1> HIDE DEF S
<1>3. QED
  BY <1>1, <1>2, KeepTimers

\* What a round of eloop_run leaves of the timeouts: a tick that ran is back.
LEMMA RunFacts ==
  ASSUME NEW ts, TimerList(ts), ts # <<>>
  PROVE  LET t == Head(ts)
             r == IF t.handler = "tick"
                  THEN eapol_port_timers_tick(Tail(ts), t.sta)
                  ELSE Tail(ts)
         IN  /\ TimerList(r)
             /\ \A c : Has(r, "tick", c) <=> Has(ts, "tick", c)
<1> DEFINE t == Head(ts)
           x == Tail(ts)
<1>1. /\ t \in Timeout /\ TimerList(x)
      /\ \A g, c : Has(x, g, c)
           <=> Has(ts, g, c) /\ ~(g = t.handler /\ c = t.sta)
  BY TailFacts
<1>2. Has(ts, t.handler, t.sta)
  <2>1. ts \in Seq(Timeout)
    BY DEF TimerList
  <2>2. 1 \in DOMAIN ts /\ ts[1] = t
    BY <2>1
  <2>3. QED
    BY <2>2 DEF Has
<1> HIDE DEF t, x
<1>3. t.sta \in BLOCKS /\ 1 \in 0 .. MAX_TIMEOUT
  BY <1>1, TimeoutAssumption DEF Timeout
<1>4. CASE t.handler = "tick"
  <2>1. ~ Has(x, "tick", t.sta)
    BY <1>1, <1>4
  <2>2. /\ TimerList(eapol_port_timers_tick(x, t.sta))
        /\ \A g, c : Has(eapol_port_timers_tick(x, t.sta), g, c)
             <=> Has(x, g, c) \/ (g = "tick" /\ c = t.sta)
    BY <1>1, <1>3, <2>1, RegisterFacts DEF eapol_port_timers_tick
  <2>3. \A c : Has(eapol_port_timers_tick(x, t.sta), "tick", c)
                 <=> Has(ts, "tick", c)
    BY <2>2, <1>1, <1>2, <1>4
  <2>4. QED
    BY <2>2, <2>3, <1>4 DEF t, x
<1>5. CASE t.handler # "tick"
  <2>1. \A c : Has(x, "tick", c) <=> Has(ts, "tick", c)
    BY <1>1, <1>5
  <2>2. QED
    BY <2>1, <1>1, <1>5 DEF t, x
<1>6. QED
  BY <1>4, <1>5

\* Every callback and every signal keeps the list of timeouts in order.
LEMMA TimerStep ==
  TimerInv /\ [Next]_vars => TimerInv'
<1> SUFFICES ASSUME TimerInv, [Next]_vars PROVE TimerInv'
  OBVIOUS
<1>0. TimerList(timeout) /\ (link # <<>> => link[1].sta \in BLOCKS)
  BY DEF TimerInv
<1>1. ASSUME NEW a \in STAS, Ap_get_sta(a) PROVE TimerInv'
  <2>1. PICK b \in BLOCKS : link' = <<[sta |-> b, next |-> sta_list]>>
    BY <1>1 DEF Ap_get_sta
  <2>2. link'[1].sta \in BLOCKS
    BY <2>1
  <2>3. QED
    BY <1>0, <1>1, <2>2 DEF TimerInv, Ap_get_sta
<1>2. CASE LinkStation
  <2>1. timeout' = StartTick(timeout, link[1].sta) /\ link' = <<>> /\
       link # <<>>
    BY <1>2 DEF LinkStation
  <2>2. QED
    BY <1>0, <2>1, StartTickFacts DEF TimerInv
<1>3. ASSUME NEW a \in STAS, Disconnect(a) PROVE TimerInv'
  <2>1. PICK b : timeout' = FreeTimeouts(timeout, b) /\ link' = link
    BY <1>3 DEF Disconnect, Ap_free_sta
  <2>2. QED
    BY <1>0, <2>1, FreeTimeoutsFacts DEF TimerInv
<1>4. ASSUME NEW b \in BLOCKS, NEW t \in GRANTS, Accept(b, t) PROVE TimerInv'
  <2>1. CASE SessionOf(t) = NoTimeout
    <3>1. timeout' = FreeTimeouts(timeout, b) /\ link' = link
      BY <1>4, <2>1 DEF Accept, Ap_free_sta
    <3>2. QED
      BY <1>0, <3>1, FreeTimeoutsFacts DEF TimerInv
  <2>2. CASE SessionOf(t) # NoTimeout
    <3>1. /\ timeout' = Ap_sta_session_timeout(timeout, b, SessionOf(t))
          /\ link' = link
      BY <1>4, <2>2 DEF Accept
    <3>2. SessionOf(t) \in 0 .. MAX_TIMEOUT
      BY <2>2, SessionOfType
    <3>3. QED
      BY <1>0, <3>1, <3>2, SessionTimerFacts DEF TimerInv
  <2>3. QED
    BY <2>1, <2>2
<1>5. ASSUME NEW b \in BLOCKS, NEW t \in GRANTS, AcceptReauth(b, t)
      PROVE  TimerInv'
  BY <1>0, <1>5 DEF AcceptReauth, TimerInv
<1>6. CASE RunTimeout
  <2>1. timeout # <<>> /\ link' = link
    BY <1>6 DEF RunTimeout, Expired
  <2>2. timeout' = IF Head(timeout).handler = "tick"
                   THEN eapol_port_timers_tick(Tail(timeout), Head(timeout).sta)
                   ELSE Tail(timeout)
    BY <1>6 DEF RunTimeout
  <2>3. TimerList(timeout')
    BY <1>0, <2>1, <2>2, RunFacts
  <2>4. QED
    BY <1>0, <2>1, <2>3 DEF TimerInv
<1>7. CASE Tick
  <2>1. timeout' = Aged(timeout) /\ link' = link
    BY <1>7 DEF Tick, Aged
  <2>2. QED
    BY <1>0, <2>1, AgedFacts DEF TimerInv
<1>8. CASE Handle_reload_config \/ Handle_usr1
  <2>1. timeout' = FreeAll(timeout) /\ link' = link
    BY <1>8 DEF Handle_reload_config, Handle_usr1, Apd_free_stas
  <2>2. QED
    BY <1>0, <2>1, FreeAllFacts DEF TimerInv
<1>9. CASE UNCHANGED vars
  BY <1>0, <1>9 DEF vars, TimerInv
<1>10. QED
  BY <1>1, <1>2, <1>3, <1>4, <1>5, <1>6, <1>7, <1>8, <1>9 DEF Next

\* With signals at any time, the list of the event loop is sorted and holds no
\* two timeouts of one handler for one block (eloop.c, sta_info.c:232-237).
THEOREM TimerInvariant == Spec => []TimerInv
<1>1. Init => TimerInv
  BY DEF Init, TimerInv, TimerList, Sorted, Distinct
<1>2. QED
  BY <1>1, TimerStep, PTL DEF Spec

\* The head of the list of timeouts is always the next one due, which is all
\* eloop_run looks at (eloop.c:116-135, 213, 236).
THEOREM SortedCorrect == Spec => []TimeoutsSorted
<1>1. TimerInv => TimeoutsSorted
  BY DEF TimerInv, TimerList, Sorted, TimeoutsSorted
<1>2. QED
  BY <1>1, TimerInvariant, PTL

\* A block never has two session timers, however often its station is accepted
\* and its memory is freed and used again (sta_info.c:232-237).
THEOREM OneSessionCorrect == Spec => []OneSessionTimer
<1>1. TimerInv => OneSessionTimer
  BY DEF TimerInv, TimerList, Distinct, OneSessionTimer
<1>2. QED
  BY <1>1, TimerInvariant, PTL

-----------------------------------------------------------------------------
(* The table, if signals come while the loop waits.                        *)

\* The block Ap_get_sta has allocated and not yet linked.
Fresh == IF link = <<>> THEN {} ELSE {link[1].sta}

\* Half way through Ap_get_sta: the list is still the one that was read, and
\* there is room for the station.
Linking ==
  \/ link = <<>>
  \/ /\ \E b \in BLOCKS : link = <<[sta |-> b, next |-> sta_list]>>
     /\ Room

TicksMatch == \A b \in BLOCKS : Has(timeout, "tick", b) <=>
     b \in Range(sta_list)

OtherTypes ==
  /\ num_sta \in 0 .. MAX_STA_COUNT
  /\ left \in [BLOCKS -> NoTimeout .. MAX_TIMEOUT]
  /\ open \in Nat
  /\ ready \in SUBSET BSS
  /\ accepts \in 0 .. ACCEPTS

TableInv ==
  /\ Agree(mem, sta_list, sta_hash, num_sta, Fresh)
  /\ Linking
  /\ TicksMatch
  /\ OtherTypes

\* Freeing a station of the table keeps the invariant.
LEMMA FreeStep ==
  ASSUME TimerInv, TableInv, link = <<>>, link' = <<>>,
         NEW b \in Range(sta_list), Ap_free_sta(b),
         open' = open, ready' = ready, accepts' \in 0 .. ACCEPTS
  PROVE  TableInv'
<1>1. Agree(mem, sta_list, sta_hash, num_sta, {})
  BY DEF TableInv, Fresh
<1>2. /\ mem' = [mem EXCEPT ![b] = FREE]
      /\ sta_list' = Ap_sta_list_del(sta_list, b)
      /\ sta_hash' = [sta_hash EXCEPT ![HASH[mem[b]]] =
                        Ap_sta_hash_del(@, mem[b])]
      /\ num_sta' = num_sta - 1
      /\ timeout' = FreeTimeouts(timeout, b)
      /\ left' = [left EXCEPT ![b] = NoTimeout]
  BY DEF Ap_free_sta
<1>3. Agree(mem', sta_list', sta_hash', num_sta', {})
  BY <1>1, <1>2, AgreeFree
<1>4. Fresh' = {}
  BY DEF Fresh
<1>5. Linking'
  BY DEF Linking
<1>6. \A c : c \in Range(sta_list') <=> c \in Range(sta_list) /\ c # b
  <2>1. sta_list \in Seq(BLOCKS) /\ IsInjective(sta_list)
    BY <1>1 DEF Agree
  <2>2. Without(sta_list', sta_list, b)
    BY <2>1, <1>2, ListDelFacts
  <2>3. QED
    BY <2>2 DEF Without
<1>7. TicksMatch'
  <2>1. TimerList(timeout)
    BY DEF TimerInv
  <2>2. \A c : Has(timeout', "tick", c) <=> Has(timeout, "tick", c) /\ c # b
    BY <2>1, <1>2, FreeTimeoutsFacts
  <2>3. \A c \in BLOCKS : Has(timeout, "tick", c) <=> c \in Range(sta_list)
    BY DEF TableInv, TicksMatch
  <2>4. \A c \in BLOCKS : Has(timeout', "tick", c) <=> c \in Range(sta_list')
    BY <2>2, <2>3, <1>6
  <2>5. QED
    BY <2>4 DEF TicksMatch
<1>8. OtherTypes'
  <2>1. num_sta' \in 0 .. MAX_STA_COUNT
    <3>1. num_sta' = Len(sta_list') /\ sta_list' \in Seq(BLOCKS)
      BY <1>3 DEF Agree
    <3>2. num_sta' \in Nat
      BY <3>1
    <3>3. num_sta \in 0 .. MAX_STA_COUNT /\ MAX_STA_COUNT \in Nat
      BY TableAssumption DEF TableInv, OtherTypes
    <3>4. QED
      BY <3>2, <3>3, <1>2
  <2>2. left' \in [BLOCKS -> NoTimeout .. MAX_TIMEOUT]
    <3>1. left \in [BLOCKS -> NoTimeout .. MAX_TIMEOUT]
      BY DEF TableInv, OtherTypes
    <3>2. NoTimeout \in NoTimeout .. MAX_TIMEOUT
      BY TimeoutAssumption DEF NoTimeout
    <3>3. QED
      BY <3>1, <3>2, <1>2
  <2>3. open' \in Nat /\ ready' \in SUBSET BSS
    BY DEF TableInv, OtherTypes
  <2>4. QED
    BY <2>1, <2>2, <2>3 DEF OtherTypes
<1>9. QED
  BY <1>3, <1>4, <1>5, <1>7, <1>8 DEF TableInv

\* Steps that leave memory, list, chains, counter and Ap_get_sta alone keep
\* the invariant if they keep the ticks.
LEMMA QuietStep ==
  ASSUME TableInv, UNCHANGED <<mem, sta_list, sta_hash, num_sta, link>>,
         \A c : Has(timeout', "tick", c) <=> Has(timeout, "tick", c),
         left' \in [BLOCKS -> NoTimeout .. MAX_TIMEOUT],
         open' = open, ready' = ready, accepts' \in 0 .. ACCEPTS
  PROVE  TableInv'
<1>1. /\ mem' = mem /\ sta_list' = sta_list /\ sta_hash' = sta_hash
      /\ num_sta' = num_sta /\ link' = link
  OBVIOUS
<1>2. Fresh' = Fresh /\ (Linking' <=> Linking)
  BY <1>1 DEF Fresh, Linking, Room
<1>3. Agree(mem', sta_list', sta_hash', num_sta', Fresh')
  BY <1>1, <1>2 DEF TableInv
<1>4. TicksMatch'
  BY <1>1 DEF TableInv, TicksMatch
<1>5. OtherTypes'
  BY <1>1 DEF TableInv, OtherTypes
<1>6. QED
  BY <1>2, <1>3, <1>4, <1>5 DEF TableInv

\* Every callback keeps the table, and so does a signal that comes while the
\* loop waits.
LEMMA TableStep ==
  ASSUME SIGNALS = "select"
  PROVE  TimerInv /\ TableInv /\ [Next]_vars => TableInv'
<1> SUFFICES ASSUME TimerInv, TableInv, [Next]_vars PROVE TableInv'
  OBVIOUS
<1>0. /\ TimerList(timeout)
      /\ Agree(mem, sta_list, sta_hash, num_sta, Fresh)
      /\ Linking /\ TicksMatch /\ OtherTypes
  BY DEF TimerInv, TableInv
<1>a. /\ mem \in [BLOCKS -> STAS \cup {FREE}] /\ sta_list \in Seq(BLOCKS)
      /\ sta_hash \in [Buckets -> Seq(BLOCKS)]
      /\ num_sta = Len(sta_list) /\ num_sta \in Nat
      /\ left \in [BLOCKS -> NoTimeout .. MAX_TIMEOUT]
      /\ accepts \in 0 .. ACCEPTS /\ ACCEPTS \in Nat
      /\ MAX_STA_COUNT \in Nat /\ MAX_TIMEOUT \in Nat
  BY <1>0, TableAssumption, TimeoutAssumption DEF Agree, OtherTypes
<1>b. NoTimeout \in NoTimeout .. MAX_TIMEOUT
  BY <1>a DEF NoTimeout
<1>c. 0 .. MAX_TIMEOUT \subseteq NoTimeout .. MAX_TIMEOUT
  BY <1>a DEF NoTimeout
<1>d. link = <<>> => Agree(mem, sta_list, sta_hash, num_sta, {})
  BY <1>0 DEF Fresh
<1>1. ASSUME NEW a \in STAS, Ap_get_sta(a) PROVE TableInv'
  <2>1. PICK b \in BLOCKS :
          /\ mem[b] = FREE
          /\ mem' = [mem EXCEPT ![b] = a]
          /\ link' = <<[sta |-> b, next |-> sta_list]>>
    BY <1>1 DEF Ap_get_sta
  <2>2. /\ link = <<>> /\ ~ Found(a) /\ Room
        /\ sta_list' = sta_list /\ sta_hash' = sta_hash /\ num_sta' = num_sta
        /\ timeout' = timeout /\ left' = left /\ open' = open
        /\ ready' = ready /\ accepts' = accepts
    BY <1>1 DEF Ap_get_sta
  <2>3. HASH[a] \in Buckets
    BY DEF Buckets
  <2>4. \A c \in Range(sta_hash[HASH[a]]) : mem[c] # a
    BY <2>2, <2>3, <1>a, LookupFacts
  <2>5. a # FREE
    BY HashAssumption DEF FREE
  <2>6. ASSUME NEW c \in BLOCKS, mem[c] = a PROVE FALSE
    <3>1. c \in Range(sta_list)
      BY <1>d, <2>2, <2>5, <2>6 DEF Agree
    <3>2. c \in Range(sta_hash[HASH[a]])
      BY <1>d, <2>2, <2>3, <2>6, <3>1 DEF Agree
    <3>3. QED
      BY <2>4, <2>6, <3>2
  <2>7. Agree(mem', sta_list', sta_hash', num_sta', {b})
    BY <1>d, <2>1, <2>2, <2>6, AgreeAlloc
  <2>8. Fresh' = {b}
    BY <2>1 DEF Fresh
  <2>9. Linking'
    BY <2>1, <2>2 DEF Linking, Room
  <2>10. TicksMatch' /\ OtherTypes'
    BY <1>0, <2>2 DEF TicksMatch, OtherTypes
  <2>11. QED
    BY <2>7, <2>8, <2>9, <2>10 DEF TableInv
<1>2. CASE LinkStation
  <2>1. PICK b \in BLOCKS : link = <<[sta |-> b, next |-> sta_list]>>
    BY <1>0, <1>2 DEF LinkStation, Linking
  <2>2. link[1].sta = b /\ link[1].next = sta_list /\ Room /\ link # <<>>
    BY <1>0, <2>1 DEF Linking
  <2>3. /\ sta_list' = <<b>> \o sta_list
        /\ num_sta' = num_sta + 1
        /\ sta_hash' = [sta_hash EXCEPT ![HASH[mem[b]]] = <<b>> \o @]
        /\ timeout' = StartTick(timeout, b)
        /\ left' = [left EXCEPT ![b] = NoTimeout]
        /\ link' = <<>> /\ mem' = mem /\ open' = open /\ ready' = ready
        /\ accepts' = accepts
    BY <1>2, <2>2 DEF LinkStation
  <2>4. Fresh = {b} /\ Fresh' = {}
    BY <2>2, <2>3 DEF Fresh
  <2>5. Agree(mem', sta_list', sta_hash', num_sta', {})
    BY <1>0, <2>3, <2>4, AgreeLink
  <2>6. Linking'
    BY <2>3 DEF Linking
  <2>7. \A c : c \in Range(sta_list') <=> c = b \/ c \in Range(sta_list)
    <3>1. b \notin Range(sta_list) /\ IsInjective(sta_list)
      BY <1>0, <2>4 DEF Agree
    <3>2. QED
      BY <3>1, <1>a, <2>3, PrependFacts
  <2>8. \A c : Has(timeout', "tick", c) <=> Has(timeout, "tick", c) \/ c = b
    BY <1>0, <2>3, StartTickFacts
  <2>9. TicksMatch'
    BY <1>0, <2>7, <2>8 DEF TicksMatch
  <2>10. num_sta' \in 0 .. MAX_STA_COUNT
    BY <1>a, <2>2, <2>3 DEF Room
  <2>11. left' \in [BLOCKS -> NoTimeout .. MAX_TIMEOUT]
    BY <1>a, <1>b, <2>3
  <2>12. OtherTypes'
    BY <1>0, <2>3, <2>10, <2>11 DEF OtherTypes
  <2>13. QED
    BY <2>4, <2>5, <2>6, <2>9, <2>12 DEF TableInv
<1>3. ASSUME NEW a \in STAS, Disconnect(a) PROVE TableInv'
  <2> DEFINE b == sta_hash[HASH[a]][Lookup(a)]
  <2>1. /\ link = <<>> /\ link' = <<>> /\ Found(a) /\ Ap_free_sta(b)
        /\ open' = open /\ ready' = ready /\ accepts' = accepts
    BY <1>3 DEF Disconnect
  <2>2. HASH[a] \in Buckets
    BY DEF Buckets
  <2>3. b \in Range(sta_hash[HASH[a]])
    BY <1>a, <2>1, <2>2, LookupFacts
  <2>4. b \in BLOCKS
    BY <1>a, <2>2, <2>3, RangeBlocks
  <2> HIDE DEF b
  <2>5. b \in Range(sta_list)
    BY <1>d, <2>1, <2>2, <2>3, <2>4 DEF Agree
  <2>6. QED
    BY <1>a, <2>1, <2>5, FreeStep
<1>4. ASSUME NEW b \in BLOCKS, NEW t \in GRANTS, Accept(b, t) PROVE TableInv'
  <2>1. /\ link = <<>> /\ link' = <<>> /\ b \in Range(sta_list)
        /\ accepts < ACCEPTS /\ accepts' = accepts + 1
        /\ open' = open /\ ready' = ready
    BY <1>4 DEF Accept
  <2>2. accepts' \in 0 .. ACCEPTS
    BY <1>a, <2>1
  <2>3. CASE SessionOf(t) = NoTimeout
    <3>1. Ap_free_sta(b)
      BY <1>4, <2>3 DEF Accept
    <3>2. QED
      BY <2>1, <2>2, <3>1, FreeStep
  <2>4. CASE SessionOf(t) # NoTimeout
    <3>1. /\ timeout' = Ap_sta_session_timeout(timeout, b, SessionOf(t))
          /\ left' = [left EXCEPT ![b] = SessionOf(t)]
          /\ mem' = mem /\ sta_list' = sta_list /\ sta_hash' = sta_hash
          /\ num_sta' = num_sta
      BY <1>4, <2>4 DEF Accept, tableVars
    <3>2. SessionOf(t) \in 0 .. MAX_TIMEOUT
      BY <2>4, SessionOfType
    <3>3. \A c : Has(timeout', "tick", c) <=> Has(timeout, "tick", c)
      BY <1>0, <3>1, <3>2, SessionTimerFacts
    <3>4. left' \in [BLOCKS -> NoTimeout .. MAX_TIMEOUT]
      BY <1>a, <1>c, <3>1, <3>2
    <3>5. QED
      BY <2>1, <2>2, <3>1, <3>3, <3>4, QuietStep
  <2>5. QED
    BY <2>3, <2>4
<1>5. ASSUME NEW b \in BLOCKS, NEW t \in GRANTS, AcceptReauth(b, t)
      PROVE  TableInv'
  <2>1. /\ mem' = mem /\ sta_list' = sta_list /\ sta_hash' = sta_hash
        /\ num_sta' = num_sta /\ link' = link /\ timeout' = timeout
        /\ open' = open /\ ready' = ready
        /\ accepts < ACCEPTS /\ accepts' = accepts + 1
        /\ left' = [left EXCEPT ![b] = NoTimeout]
    BY <1>5 DEF AcceptReauth
  <2>2. accepts' \in 0 .. ACCEPTS
    BY <1>a, <2>1
  <2>3. left' \in [BLOCKS -> NoTimeout .. MAX_TIMEOUT]
    BY <1>a, <1>b, <2>1
  <2>4. QED
    BY <2>1, <2>2, <2>3, QuietStep
<1>6. CASE RunTimeout
  <2>1. /\ timeout # <<>>
        /\ mem' = mem /\ sta_list' = sta_list /\ sta_hash' = sta_hash
        /\ num_sta' = num_sta /\ link' = link
        /\ open' = open /\ ready' = ready /\ accepts' = accepts
    BY <1>6 DEF RunTimeout, Expired, tableVars
  <2>2. timeout' = IF Head(timeout).handler = "tick"
                   THEN eapol_port_timers_tick(Tail(timeout), Head(timeout).sta)
                   ELSE Tail(timeout)
    BY <1>6 DEF RunTimeout
  <2>3. \A c : Has(timeout', "tick", c) <=> Has(timeout, "tick", c)
    BY <1>0, <2>1, <2>2, RunFacts
  <2>4. \/ left' = left
        \/ left' = [left EXCEPT ![Head(timeout).sta] = NoTimeout]
    BY <1>6 DEF RunTimeout
  <2>5. left' \in [BLOCKS -> NoTimeout .. MAX_TIMEOUT]
    BY <1>a, <1>b, <2>4
  <2>6. QED
    BY <1>a, <2>1, <2>3, <2>5, QuietStep
<1>7. CASE Tick
  <2>1. /\ timeout' = Aged(timeout)
        /\ left' =
             [b \in BLOCKS |-> IF left[b] > 0 THEN left[b] - 1 ELSE left[b]]
        /\ mem' = mem /\ sta_list' = sta_list /\ sta_hash' = sta_hash
        /\ num_sta' = num_sta /\ link' = link
        /\ open' = open /\ ready' = ready /\ accepts' = accepts
    BY <1>7 DEF Tick, Aged, tableVars
  <2>2. \A c : Has(timeout', "tick", c) <=> Has(timeout, "tick", c)
    BY <1>0, <2>1, AgedFacts
  <2>3. ASSUME NEW b \in BLOCKS
        PROVE  (IF left[b] > 0 THEN left[b] - 1 ELSE left[b])
                 \in NoTimeout .. MAX_TIMEOUT
    <3>1. left[b] \in NoTimeout .. MAX_TIMEOUT
      BY <1>a
    <3>2. QED
      BY <3>1, <1>a DEF NoTimeout
  <2>4. left' \in [BLOCKS -> NoTimeout .. MAX_TIMEOUT]
    BY <2>1, <2>3
  <2>5. QED
    BY <1>a, <2>1, <2>2, <2>4, QuietStep
<1>8. CASE Handle_reload_config \/ Handle_usr1
  <2>1. link = <<>> /\ link' = link /\ accepts' = accepts
    BY <1>8 DEF Handle_reload_config, Handle_usr1
  <2>2. Apd_free_stas /\ ReopenSockets
    BY <1>8 DEF Handle_reload_config, Handle_usr1
  <2>3. Agree(mem', sta_list', sta_hash', num_sta', {})
    BY <1>d, <2>1, <2>2, AgreeClear DEF Apd_free_stas
  <2>4. Fresh' = {} /\ Linking'
    BY <2>1 DEF Fresh, Linking
  <2>5. timeout' = FreeAll(timeout) /\ sta_list' = <<>>
    BY <2>2 DEF Apd_free_stas
  <2>6. \A c : Has(timeout', "tick", c)
                 <=> Has(timeout, "tick", c) /\ c \notin Range(sta_list)
    BY <1>0, <2>5, FreeAllFacts
  <2>7. Range(sta_list') = {}
    BY <2>5 DEF Range
  <2>8. TicksMatch'
    BY <1>0, <2>6, <2>7 DEF TicksMatch
  <2>9. num_sta' \in 0 .. MAX_STA_COUNT
    BY <1>a, <2>2 DEF Apd_free_stas
  <2>10. left' \in [BLOCKS -> NoTimeout .. MAX_TIMEOUT]
    BY <1>a, <1>b, <2>2 DEF Apd_free_stas
  <2>11. open' \in Nat /\ ready' \in SUBSET BSS
    <3>1. PICK opened \in SUBSET BSS :
            ready' = opened /\ open' = open + Cardinality(opened)
      BY <2>2 DEF ReopenSockets
    <3>2. Cardinality(opened) \in Nat
      BY TableAssumption, FS_Subset, FS_CardinalityType
    <3>3. QED
      BY <3>1, <3>2, <1>0 DEF OtherTypes
  <2>12. OtherTypes'
    BY <1>a, <2>1, <2>9, <2>10, <2>11 DEF OtherTypes
  <2>13. QED
    BY <2>3, <2>4, <2>8, <2>12 DEF TableInv
<1>9. CASE UNCHANGED vars
  <2>1. /\ mem' = mem /\ sta_list' = sta_list /\ sta_hash' = sta_hash
        /\ num_sta' = num_sta /\ link' = link /\ timeout' = timeout
        /\ open' = open /\ ready' = ready /\ accepts' = accepts /\ left' = left
    BY <1>9 DEF vars
  <2>2. QED
    BY <1>a, <2>1, QuietStep
<1>10. QED
  BY <1>1, <1>2, <1>3, <1>4, <1>5, <1>6, <1>7, <1>8, <1>9 DEF Next

\* If signals come only while the loop waits, list, chains, counter, memory
\* and ticks agree whenever the loop waits, and Ap_get_sta links the station it
\* has allocated to the list it has read (sta_info.c).
THEOREM TableInvariant ==
  ASSUME SIGNALS = "select"
  PROVE  Spec => []TableInv
<1>1. Init => TableInv
  <2> SUFFICES ASSUME Init PROVE TableInv
    OBVIOUS
  <2>1. /\ mem = [b \in BLOCKS |-> FREE] /\ sta_list = <<>>
        /\ sta_hash = [h \in Buckets |-> <<>>] /\ num_sta = 0
        /\ link = <<>> /\ timeout = <<>>
        /\ left = [b \in BLOCKS |-> NoTimeout]
        /\ open = Cardinality(BSS) /\ ready = BSS /\ accepts = 0
    BY DEF Init
  <2>2. Range(<<>>) = {} /\ IsInjective(<<>>) /\ <<>> \in Seq(BLOCKS)
    BY DEF Range, IsInjective
  <2>3. Agree(mem, sta_list, sta_hash, num_sta, Fresh)
    BY <2>1, <2>2 DEF Agree, Fresh
  <2>4. Linking /\ TicksMatch
    BY <2>1, <2>2 DEF Linking, TicksMatch, Has
  <2>5. OtherTypes
    <3>1. Cardinality(BSS) \in Nat
      BY TableAssumption, FS_CardinalityType
    <3>2. NoTimeout \in NoTimeout .. MAX_TIMEOUT
      BY TimeoutAssumption DEF NoTimeout
    <3>3. QED
      BY <2>1, <3>1, <3>2, TableAssumption DEF OtherTypes
  <2>6. QED
    BY <2>3, <2>4, <2>5 DEF TableInv
<1>2. TimerInv /\ TableInv /\ [Next]_vars => TableInv'
  BY TableStep
<1>3. QED
  BY <1>1, <1>2, TimerInvariant, PTL DEF Spec

\* Every variable keeps its type, num_sta its range included: the limit that
\* Ap_get_sta tests before it allocates holds after it has linked
\* (sta_info.c).
THEOREM TypeCorrect ==
  ASSUME SIGNALS = "select"
  PROVE  Spec => []TypeOK
<1>1. TimerInv /\ TableInv => TypeOK
  <2> SUFFICES ASSUME TimerInv, TableInv PROVE TypeOK
    OBVIOUS
  <2>1. timeout \in Seq(Timeout)
    BY DEF TimerInv, TimerList
  <2>2. /\ mem \in [BLOCKS -> STAS \cup {FREE}] /\ sta_list \in Seq(BLOCKS)
        /\ sta_hash \in [Buckets -> Seq(BLOCKS)]
    BY DEF TableInv, Agree
  <2>3. /\ link \in Seq([sta : BLOCKS, next : Seq(BLOCKS)]) /\ Len(link) <= 1
    <3> DEFINE E == [sta : BLOCKS, next : Seq(BLOCKS)]
    <3>1. CASE link = <<>>
      BY <3>1
    <3>2. CASE link # <<>>
      <4>1. PICK b \in BLOCKS : link = <<[sta |-> b, next |-> sta_list]>>
        BY <3>2 DEF TableInv, Linking
      <4> DEFINE e == [sta |-> b, next |-> sta_list]
      <4>2. e \in E
        BY <2>2
      <4> HIDE DEF e, E
      <4>3. <<e>> \in Seq(E) /\ Len(<<e>>) <= 1
        BY <4>2
      <4>4. QED
        BY <4>1, <4>3 DEF e, E
    <3>3. QED
      BY <3>1, <3>2
  <2>4. QED
    BY <2>1, <2>2, <2>3 DEF TypeOK, TableInv, OtherTypes
<1>2. QED
  BY <1>1, TimerInvariant, TableInvariant, PTL

\* Between two callbacks the list and the chains hold the same stations, each
\* once and on its chain, num_sta counts them and no memory is lost, if signals
\* come only while the loop waits (Ap_get_sta, Ap_free_sta, Apd_free_stas).
THEOREM TableCorrect ==
  ASSUME SIGNALS = "select"
  PROVE  Spec => []TableConsistent
<1>1. TableInv => TableConsistent
  <2> SUFFICES ASSUME TableInv, link = <<>>
               PROVE  /\ num_sta = Len(sta_list)
                      /\ IsInjective(sta_list)
                      /\ Range(sta_list) = {b \in BLOCKS : mem[b] # FREE}
                      /\ Range(sta_list) = Hashed
                      /\ \A h \in Buckets :
                           /\ IsInjective(sta_hash[h])
                           /\ \A b \in Range(sta_hash[h]) : HASH[mem[b]] = h
                      /\ \A b, c \in Range(sta_list) : mem[b] = mem[c] => b = c
    BY DEF TableConsistent
  <2>1. Agree(mem, sta_list, sta_hash, num_sta, {})
    BY DEF TableInv, Fresh
  <2>2. /\ mem \in [BLOCKS -> STAS \cup {FREE}] /\ sta_list \in Seq(BLOCKS)
        /\ sta_hash \in [Buckets -> Seq(BLOCKS)]
        /\ num_sta = Len(sta_list) /\ IsInjective(sta_list)
    BY <2>1 DEF Agree
  <2>3. \A b \in Range(sta_list) : b \in BLOCKS
    BY <2>2, RangeBlocks
  <2>4. \A h \in Buckets : \A b \in Range(sta_hash[h]) : b \in BLOCKS
    BY <2>2, RangeBlocks
  <2>5. Range(sta_list) = {b \in BLOCKS : mem[b] # FREE}
    BY <2>1, <2>3 DEF Agree
  <2>6. \A h \in Buckets :
          /\ IsInjective(sta_hash[h])
          /\ \A b \in Range(sta_hash[h]) :
               HASH[mem[b]] = h /\ b \in Range(sta_list)
    BY <2>1, <2>4 DEF Agree
  <2>7. ASSUME NEW b \in Range(sta_list) PROVE b \in Hashed
    <3>1. HASH[mem[b]] \in Buckets
      BY <2>2, <2>3, <2>5, BucketOf
    <3>2. b \in Range(sta_hash[HASH[mem[b]]])
      BY <3>1, <2>1, <2>3 DEF Agree
    <3>3. QED
      BY <3>1, <3>2 DEF Hashed
  <2>8. ASSUME NEW b \in Hashed PROVE b \in Range(sta_list)
    <3>1. PICK h \in Buckets : b \in Range(sta_hash[h])
      BY DEF Hashed
    <3>2. QED
      BY <3>1, <2>6
  <2>9. Range(sta_list) = Hashed
    BY <2>7, <2>8
  <2>10. \A b, c \in Range(sta_list) : mem[b] = mem[c] => b = c
    BY <2>1, <2>3 DEF Agree
  <2>11. QED
    BY <2>2, <2>5, <2>6, <2>9, <2>10
<1>2. QED
  BY <1>1, TableInvariant, PTL

\* Between two callbacks every station of the list has one pending tick and no
\* other block has one: no tick runs on freed memory (eapol_sm.c:61-77).
THEOREM TickCorrect ==
  ASSUME SIGNALS = "select"
  PROVE  Spec => []OneTickEach
<1>1. TimerInv /\ TableInv => OneTickEach
  <2> SUFFICES ASSUME TimerInv, TableInv, NEW b \in BLOCKS
               PROVE  Cardinality({i \in DOMAIN timeout :
                        timeout[i].handler = "tick" /\ timeout[i].sta = b})
                          = IF b \in Range(sta_list) THEN 1 ELSE 0
    BY DEF OneTickEach
  <2> DEFINE I == {i \in DOMAIN timeout :
                     timeout[i].handler = "tick" /\ timeout[i].sta = b}
  <2>1. Distinct(timeout) /\ (Has(timeout, "tick", b) <=> b \in Range(sta_list))
    BY DEF TimerInv, TimerList, TableInv, TicksMatch
  <2>2. CASE Has(timeout, "tick", b)
    <3>1. PICK i \in DOMAIN timeout :
            timeout[i].handler = "tick" /\ timeout[i].sta = b
      BY <2>2 DEF Has
    <3>2. I = {i}
      BY <2>1, <3>1 DEF Distinct
    <3>3. Cardinality({i}) = 1
      BY FS_Singleton
    <3>4. QED
      BY <3>2, <3>3, <2>1, <2>2
  <2>3. CASE ~ Has(timeout, "tick", b)
    <3>1. I = {}
      BY <2>3 DEF Has
    <3>2. Cardinality({}) = 0
      BY FS_EmptySet
    <3>3. QED
      BY <3>1, <3>2, <2>1, <2>3
  <2>4. QED
    BY <2>2, <2>3
<1>2. QED
  BY <1>1, TimerInvariant, TableInvariant, PTL
=============================================================================
