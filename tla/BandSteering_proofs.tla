------------------------- MODULE BandSteering_proofs -------------------------
(***************************************************************************)
(* The client table of the band steering daemon, for any number of clients *)
(* and entries, any hash and any length of the socket buffer.              *)
(*                                                                         *)
(* Types and the size need no more than the invariant Sound.  That the     *)
(* chains index the table does: Path says what a chain is, an enumeration  *)
(* of slots from Hash to NULL, and the inductive invariant says that each  *)
(* chain enumerates the valid entries of its bucket, without repetition.   *)
(* It holds until an answer to an aging request removes an entry of another *)
(* client than the one it was asked about (stale); nothing else, no order  *)
(* in which frames, answers, commands and the timer meet and no loss of    *)
(* messages, breaks a chain.                                               *)
(***************************************************************************)
EXTENDS BandSteering, FiniteSetTheorems, SequenceTheorems,
        WellFoundedInduction, TLAPS

\* The links of a chain, the counters and ages of an entry, the entries and
\* the table.
Links == Slots \cup {NULL}
Counts == 0 .. 2 * AUTH_WRAP - 1
Ages == 0 .. PARAMS.AgeTime

EntryType ==
  [bValid : BOOLEAN, Addr : ADDRS \cup {NoAddr},
   AgingConfirmed : SUBSET Bands, Control_Flags : SUBSET Flags,
   elapsed : Ages, Rssi : [Bands -> Int], AuthReqCount : [Bands -> Counts]]

TableType == [Entry : [Slots -> EntryType], pNext : [Slots -> Links],
              Hash : [Buckets -> Links], Size : Int, hung : BOOLEAN, stale : BOOLEAN]

\* Size is the number of valid entries, and these belong to clients
Sound(t) ==
  /\ t \in TableType
  /\ t.Size = Cardinality(Valid(t))
  /\ \A i \in Valid(t) : t.Entry[i].Addr \in ADDRS

-----------------------------------------------------------------------------
(* Least elements, induction and recursion.                                *)

\* The least of a set of natural numbers exists.
LEMMA MinExists ==
  ASSUME NEW S, S \subseteq Nat, S # {}
  PROVE  Min(S) \in S /\ \A n \in S : Min(S) <= n
<1> DEFINE R == OpToRel(<, Nat)
<1>1. IsWellFoundedOn(R, Nat)
  BY NatLessThanWellFounded
<1>2. R = {ss \in Nat \X Nat : ss[1] < ss[2]}
  BY Zenon DEF OpToRel
<1>3. \A x, y \in Nat : x < y => <<x, y>> \in R
  BY <1>2
<1> HIDE DEF R
<1>4. PICK m \in S : \A y \in S : ~(<<y, m>> \in R)
  BY <1>1, WFMin
<1>5. ASSUME NEW y \in S PROVE m <= y
  <2>1. y \in Nat /\ m \in Nat
    OBVIOUS
  <2>2. ~(y < m)
    BY <2>1, <1>3, <1>4
  <2>3. QED
    BY <2>1, <2>2
<1>6. QED
  BY <1>5 DEF Min

\* Induction up to M, for a set in place of a predicate.
LEMMA UpTo ==
  ASSUME NEW M \in Nat, NEW S, 0 \in S,
         \A n \in 0 .. M - 1 : n \in S => n + 1 \in S
  PROVE  0 .. M \subseteq S
<1> DEFINE B == (0 .. M) \ S
<1> SUFFICES ASSUME B # {} PROVE FALSE
  OBVIOUS
<1>1. Min(B) \in B /\ \A m \in B : Min(B) <= m
  BY MinExists
<1>2. PICK n \in B : \A m \in B : n <= m
  BY <1>1
<1>3. n - 1 \in 0 .. M - 1 /\ n - 1 \in S
  BY <1>2
<1>4. QED
  BY <1>2, <1>3

\* g starts with x, and F[k] takes its value at k - 1 to its value at k.
Recurs(g, M, x, F) == g[0] = x /\ \A k \in 1 .. M : g[k] = F[k][g[k - 1]]

\* A function defined by recursion on the numbers up to M exists.
LEMMA RecursionExists ==
  ASSUME NEW M \in Nat, NEW W, NEW x \in W, NEW F \in [1 .. M -> [W -> W]]
  PROVE  \E g \in [0 .. M -> W] : Recurs(g, M, x, F)
<1> DEFINE Good(f, n) == f[0] = x /\ \A k \in 1 .. n : f[k] = F[k][f[k - 1]]
           S == {n \in 0 .. M : \E f \in [0 .. M -> W] : Good(f, n)}
<1>1. 0 \in S
  <2> DEFINE g == [k \in 0 .. M |-> x]
  <2>1. g \in [0 .. M -> W] /\ Good(g, 0)
    OBVIOUS
  <2> HIDE DEF g
  <2>2. QED
    BY <2>1
<1>2. ASSUME NEW n \in 0 .. M - 1, n \in S
      PROVE  n + 1 \in S
  <2>1. PICK f \in [0 .. M -> W] : Good(f, n)
    BY <1>2
  <2>2. n \in 0 .. M /\ n + 1 \in 0 .. M /\ n + 1 \in 1 .. M /\ f[n] \in W
    OBVIOUS
  <2>3. F[n + 1][f[n]] \in W
    BY <2>2
  <2> DEFINE g == [f EXCEPT ![n + 1] = F[n + 1][f[n]]]
  <2>4. g \in [0 .. M -> W]
    BY <2>3
  <2>5. \A k \in 0 .. n : g[k] = f[k]
    OBVIOUS
  <2>6. g[n + 1] = F[n + 1][g[n]]
    BY <2>2
  <2> HIDE DEF g
  <2>7. \A k \in 1 .. n : g[k] = F[k][g[k - 1]]
    BY <2>1, <2>5
  <2>8. g[0] = x
    BY <2>1, <2>5
  <2>9. \A k \in 1 .. n + 1 : k \in 1 .. n \/ k = n + 1
    OBVIOUS
  <2>10. (n + 1) - 1 = n
    OBVIOUS
  <2>11. Good(g, n + 1)
    BY <2>6, <2>7, <2>8, <2>9, <2>10
  <2>12. QED
    BY <2>2, <2>4, <2>11
<1>3. 0 .. M \subseteq S
  <2> HIDE DEF S
  <2>1. QED
    BY <1>1, <1>2, UpTo
<1>4. QED
  BY <1>3 DEF Recurs

\* The slots are finitely many numbers, none of which is a link of its own kind.
LEMMA SlotFacts ==
  /\ Slots \subseteq Nat /\ IsFiniteSet(Slots) /\ MAX_TABLE_SIZE \in Nat \ {0}
  /\ Cardinality(Slots) = MAX_TABLE_SIZE
  /\ NULL \notin Slots /\ LOOP \notin Slots /\ LOOP # NULL /\ NULL \in Links
<1>1. 0 \in Int /\ MAX_TABLE_SIZE - 1 \in Int
  BY TableAssumption
<1>2. QED
  BY <1>1, TableAssumption, FS_Interval DEF Slots, NULL, LOOP, Links

-----------------------------------------------------------------------------
(* Walks.                                                                  *)

\* The link a walk follows from j.
Follow(t, j) == IF j = NULL THEN NULL ELSE t.pNext[j]

\* The walk of a chain starts at Hash and follows pNext.
LEMMA WalkSteps ==
  ASSUME NEW t \in TableType, NEW h \in Buckets
  PROVE  /\ Walk(t, h) \in [0 .. MAX_TABLE_SIZE -> Links]
         /\ Walk(t, h)[0] = t.Hash[h]
         /\ \A k \in 1 .. MAX_TABLE_SIZE :
              Walk(t, h)[k] = Follow(t, Walk(t, h)[k - 1])
<1> DEFINE M == MAX_TABLE_SIZE
<1>0. M \in Nat /\ t.Hash[h] \in Links
  BY TableAssumption DEF TableType
<1> HIDE DEF M
<1>1. \A j \in Links : Follow(t, j) \in Links
  BY DEF Follow, Links, TableType
<1> DEFINE F == [k \in 1 .. M |-> [j \in Links |-> Follow(t, j)]]
<1>2. F \in [1 .. M -> [Links -> Links]]
  BY <1>1
<1>3. \A k \in 1 .. M, j \in Links : F[k][j] = Follow(t, j)
  OBVIOUS
<1> HIDE DEF F
<1>4. PICK f \in [0 .. M -> Links] : f[0] = t.Hash[h] /\ \A k \in 1 .. M :
     f[k] = F[k][f[k - 1]]
  <2>1. \E g \in [0 .. M -> Links] : Recurs(g, M, t.Hash[h], F)
    BY <1>0, <1>2, RecursionExists
  <2>2. QED
    BY <2>1 DEF Recurs
<1>5. \A k \in 1 .. M : k - 1 \in 0 .. M /\ f[k - 1] \in Links
  BY <1>0
<1>6. \A k \in 1 .. M : f[k] = Follow(t, f[k - 1])
  BY <1>3, <1>4, <1>5
<1> DEFINE G(at) == [k \in 0 .. M |-> IF k = 0 THEN t.Hash[h]
                       ELSE IF at[k - 1] = NULL THEN
                            NULL ELSE t.pNext[at[k - 1]]]
<1>7. f = G(f)
  <2>1. ASSUME NEW k \in 0 .. M PROVE f[k] = G(f)[k]
    <3>1. CASE k = 0
      BY <3>1, <1>4
    <3>2. CASE k # 0
      <4>1. k \in 1 .. M
        BY <1>0, <3>2
      <4>2. QED
        BY <4>1, <1>6, <3>2 DEF Follow
    <3>3. QED
      BY <3>1, <3>2
  <2>2. DOMAIN f = DOMAIN G(f) /\ G(f) = [k \in DOMAIN G(f) |-> G(f)[k]]
    OBVIOUS
  <2>3. QED
    BY <2>1, <2>2
<1>8. Walk(t, h) = CHOOSE at : at = G(at)
  BY DEF Walk, M
<1>9. Walk(t, h) = G(Walk(t, h))
  <2> HIDE DEF G
  <2>1. QED
    BY <1>7, <1>8, Zenon
<1> DEFINE at == Walk(t, h)
<1> HIDE DEF at
<1>10. at = G(at)
  BY <1>9 DEF at
<1>17. DOMAIN at = 0 .. M /\ \A k \in 0 .. M : at[k] = G(at)[k]
  BY <1>10
<1>18. \A k \in 1 .. M : k \in 0 .. M /\ k # 0
  BY <1>0
<1>11. at[0] = t.Hash[h] /\ \A k \in 1 .. M : at[k] = Follow(t, at[k - 1])
  BY <1>0, <1>17, <1>18 DEF Follow
<1> DEFINE L == {k \in 0 .. M : at[k] \in Links}
<1>12. 0 \in L
  BY <1>0, <1>11
<1>13. ASSUME NEW n \in 0 .. M - 1, n \in L PROVE n + 1 \in L
  <2>1. n + 1 \in 1 .. M /\ (n + 1) - 1 = n /\ n + 1 \in 0 .. M
    BY <1>0
  <2>2. at[n + 1] = Follow(t, at[n])
    BY <2>1, <1>11
  <2>3. QED
    BY <1>1, <1>13, <2>1, <2>2
<1>14. 0 .. M \subseteq L
  <2> HIDE DEF L
  <2>1. QED
    BY <1>0, <1>12, <1>13, UpTo
<1>15. at \in [0 .. M -> Links]
  BY <1>10, <1>14, <1>17
<1>16. QED
  BY <1>11, <1>15 DEF at, M

-----------------------------------------------------------------------------
(* Paths.                                                                  *)

\* f enumerates the n slots of chain h, from Hash to NULL, each once.
Path(t, h, f, n) ==
  /\ n \in Nat /\ f \in [0 .. n -> Links]
  /\ f[0] = t.Hash[h] /\ f[n] = NULL
  /\ \A k \in 0 .. n - 1 : f[k] \in Slots /\ f[k + 1] = t.pNext[f[k]]
  /\ \A j, k \in 0 .. n - 1 : f[j] = f[k] => j = k

Members(f, n) == {f[k] : k \in 0 .. n - 1}

\* A path is no longer than the table.
LEMMA PathShort ==
  ASSUME NEW t, NEW h, NEW f, NEW n, Path(t, h, f, n)
  PROVE  n \in 0 .. MAX_TABLE_SIZE
<1> DEFINE F == [k \in 0 .. n - 1 |-> f[k]]
<1>1. n \in Nat /\ 0 \in Int /\ n - 1 \in Int
  BY DEF Path
<1>2. F \in [0 .. n - 1 -> Slots] /\ \A j, k \in 0 .. n - 1 : F[j] = F[k] =>
     j = k
  BY DEF Path
<1>3. F \in Injection(0 .. n - 1, Slots)
  BY <1>2 DEF Injection, IsInjective
<1> HIDE DEF F
<1>4. Cardinality(0 .. n - 1) <= Cardinality(Slots)
  BY <1>3, SlotFacts, FS_Injection
<1>5. Cardinality(0 .. n - 1) = n
  BY <1>1, FS_Interval
<1>6. QED
  BY <1>1, <1>4, <1>5, SlotFacts

\* The walk of a chain follows its path and then stays at NULL.
LEMMA PathWalked ==
  ASSUME NEW t \in TableType, NEW h \in Buckets, NEW f, NEW n, Path(t, h, f, n)
  PROVE  /\ \A k \in 0 .. n : Walk(t, h)[k] = f[k]
         /\ \A k \in n .. MAX_TABLE_SIZE : Walk(t, h)[k] = NULL
<1> DEFINE at == Walk(t, h)
           M == MAX_TABLE_SIZE
<1>0. n \in 0 .. M /\ M \in Nat /\ n \in Nat
  <2>1. n \in 0 .. M /\ M \in Nat
    BY PathShort, SlotFacts
  <2>2. QED
    BY <2>1
<1>1. at[0] = t.Hash[h] /\ \A k \in 1 .. M : at[k] = Follow(t, at[k - 1])
  BY WalkSteps
<1> HIDE DEF at, M
<1> DEFINE S == {k \in 0 .. n : at[k] = f[k]}
<1>2. 0 .. n \subseteq S
  <2>1. 0 \in S
    BY <1>0, <1>1 DEF Path
  <2>2. ASSUME NEW k \in 0 .. n - 1, k \in S PROVE k + 1 \in S
    <3>1. k + 1 \in 1 .. M /\ k + 1 \in 0 .. n /\ (k + 1) - 1 = k
      BY <1>0
    <3>2. at[k + 1] = Follow(t, f[k])
      BY <1>1, <2>2, <3>1
    <3>3. f[k] \in Slots /\ f[k + 1] = t.pNext[f[k]]
      BY DEF Path
    <3>4. f[k] # NULL
      BY <3>3, SlotFacts
    <3>5. QED
      BY <3>1, <3>2, <3>3, <3>4 DEF Follow
  <2> HIDE DEF S
  <2>3. QED
    BY <1>0, <2>1, <2>2, UpTo
<1> DEFINE E == {k \in 0 .. M - n : at[n + k] = NULL}
<1>3. 0 .. M - n \subseteq E
  <2>0. M - n \in Nat
    BY <1>0
  <2>1. 0 \in E
    <3>1. at[n] = f[n] /\ f[n] = NULL /\ n + 0 = n
      BY <1>0, <1>2 DEF Path
    <3>2. QED
      BY <2>0, <3>1
  <2>2. ASSUME NEW k \in 0 .. (M - n) - 1, k \in E PROVE k + 1 \in E
    <3>1. n + (k + 1) \in 1 .. M /\ (n + (k + 1)) - 1 = n + k /\
         k + 1 \in 0 .. M - n
      BY <1>0
    <3>2. at[n + (k + 1)] = Follow(t, at[n + k])
      BY <1>1, <3>1
    <3>3. QED
      BY <2>2, <3>1, <3>2 DEF Follow
  <2> HIDE DEF E
  <2>3. QED
    BY <2>0, <2>1, <2>2, UpTo
<1>4. ASSUME NEW k \in n .. M PROVE at[k] = NULL
  <2>1. k - n \in 0 .. M - n /\ n + (k - n) = k
    BY <1>0
  <2>2. QED
    BY <1>3, <2>1
<1>5. QED
  BY <1>2, <1>4 DEF at, M

\* What a walk meets, and where one stops that looks for the slots of stop.
LEMMA PathStops ==
  ASSUME NEW t \in TableType, NEW h \in Buckets, NEW f, NEW n, Path(t, h, f, n),
         NEW stop, NULL \notin stop
  PROVE  \/ StopAt(t, h, stop) = NULL /\ \A k \in 0 .. n - 1 : f[k] \notin stop
         \/ \E k \in 0 .. n - 1 : /\ StopAt(t, h, stop) = f[k] /\ f[k] \in stop
                                  /\ \A j \in 0 .. k - 1 : f[j] \notin stop
<1> DEFINE at == Walk(t, h)
           M == MAX_TABLE_SIZE
           hits == {k \in 0 .. M : at[k] = NULL \/ at[k] \in stop}
<1>0. n \in 0 .. M /\ M \in Nat /\ n \in Nat
  <2>1. n \in 0 .. M /\ M \in Nat
    BY PathShort, SlotFacts
  <2>2. QED
    BY <2>1
<1>1. \A k \in 0 .. n : at[k] = f[k]
  BY PathWalked
<1>2. DOMAIN at = 0 .. M
  BY WalkSteps
<1>3. StopAt(t, h, stop) = IF hits = {} THEN LOOP ELSE at[Min(hits)]
  BY <1>2 DEF StopAt
<1> HIDE DEF at, M
<1>4. f[n] = NULL /\ \A k \in 0 .. n - 1 : f[k] \in Slots /\ f[k] # NULL
  BY SlotFacts DEF Path
<1>5. n \in hits /\ hits \subseteq Nat
  BY <1>0, <1>1, <1>4
<1>6. PICK m : m = Min(hits)
  OBVIOUS
<1>7. m \in hits /\ \A k \in hits : m <= k
  BY <1>5, <1>6, MinExists
<1>8. m \in 0 .. n /\ StopAt(t, h, stop) = f[m]
  <2>1. m \in 0 .. n
    BY <1>0, <1>5, <1>7
  <2>2. QED
    BY <1>1, <1>3, <1>5, <1>6, <2>1
<1>9. \A j \in 0 .. m - 1 : f[j] \notin stop
  <2> SUFFICES ASSUME NEW j \in 0 .. m - 1, f[j] \in stop PROVE FALSE
    OBVIOUS
  <2>1. j \in 0 .. n /\ j \in 0 .. M /\ ~(m <= j)
    BY <1>0, <1>8
  <2>2. j \in hits
    BY <1>1, <2>1
  <2>3. QED
    BY <1>7, <2>1, <2>2
<1>10. CASE m = n
  BY <1>4, <1>8, <1>9, <1>10
<1>11. CASE m # n
  <2>1. m \in 0 .. n - 1
    BY <1>0, <1>8, <1>11
  <2>2. at[m] = f[m] /\ f[m] # NULL
    BY <1>1, <1>4, <1>8, <2>1
  <2>3. f[m] \in stop
    BY <1>7, <2>2
  <2>4. QED
    BY <1>8, <1>9, <2>1, <2>3
<1>12. QED
  BY <1>10, <1>11

\* The slots on a chain are those of its path, and its walk ends.
LEMMA PathOnChain ==
  ASSUME NEW t \in TableType, NEW h \in Buckets, NEW f, NEW n, Path(t, h, f, n)
  PROVE  OnChain(t, h) = Members(f, n) /\ Walk(t, h)[MAX_TABLE_SIZE] = NULL
<1> DEFINE at == Walk(t, h)
           M == MAX_TABLE_SIZE
<1>0. n \in 0 .. M /\ M \in Nat /\ n \in Nat
  <2>1. n \in 0 .. M /\ M \in Nat
    BY PathShort, SlotFacts
  <2>2. QED
    BY <2>1
<1>1. /\ \A k \in 0 .. n : at[k] = f[k]
      /\ \A k \in n .. M : at[k] = NULL
  BY PathWalked
<1>2. DOMAIN at = 0 .. M
  BY WalkSteps
<1>3. OnChain(t, h) = {at[k] : k \in 0 .. M} \ {NULL}
  BY <1>2 DEF OnChain
<1> HIDE DEF at, M
<1>4. \A k \in 0 .. n - 1 : f[k] \in Slots /\ f[k] # NULL
  BY SlotFacts DEF Path
<1>5. ASSUME NEW k \in 0 .. M, at[k] # NULL PROVE k \in 0 .. n - 1 /\
             at[k] = f[k]
  BY <1>0, <1>1, <1>5
<1>6. ASSUME NEW k \in 0 .. n - 1 PROVE k \in 0 .. M /\ at[k] = f[k]
  BY <1>0, <1>1
<1>7. OnChain(t, h) \subseteq Members(f, n)
  BY <1>3, <1>5 DEF Members
<1>8. Members(f, n) \subseteq OnChain(t, h)
  BY <1>3, <1>4, <1>6 DEF Members
<1>9. at[M] = NULL
  BY <1>0, <1>1
<1>10. QED
  BY <1>7, <1>8, <1>9 DEF at, M

\* A path stays one while its links do.
LEMMA PathKept ==
  ASSUME NEW t, NEW u, NEW h, NEW f, NEW n, Path(t, h, f, n),
         u.Hash[h] = t.Hash[h], \A i \in Members(f, n) : u.pNext[i] = t.pNext[i]
  PROVE  Path(u, h, f, n)
<1>1. \A k \in 0 .. n - 1 : f[k] \in Members(f, n)
  BY DEF Members
<1>2. \A k \in 0 .. n - 1 : u.pNext[f[k]] = t.pNext[f[k]]
  BY <1>1
<1>3. QED
  BY <1>2 DEF Path

\* What linking and unlinking leave alone.
SameBut(t, u, h) ==
  /\ u \in TableType /\ u.Entry = t.Entry /\ u.Size = t.Size /\ u.hung = t.hung
  /\ \A g \in Buckets \ {h} : u.Hash[g] = t.Hash[g]

\* Setting the first link of a bucket changes nothing else.
LEMMA SetHash ==
  ASSUME NEW t \in TableType, NEW h \in Buckets, NEW i \in Links,
         NEW u, u = [t EXCEPT !.Hash[h] = i]
  PROVE  SameBut(t, u, h) /\ u.Hash[h] = i /\ u.pNext = t.pNext
BY DEF SameBut, TableType

\* Setting the link of a slot changes nothing else.
LEMMA SetNext ==
  ASSUME NEW t \in TableType, NEW h \in Buckets, NEW j \in Slots,
         NEW i \in Links,
         NEW u, u = [t EXCEPT !.pNext[j] = i]
  PROVE  /\ SameBut(t, u, h) /\ u.Hash = t.Hash
         /\ u.pNext[j] = i /\ \A k \in Slots \ {j} : u.pNext[k] = t.pNext[k]
BY DEF SameBut, TableType

\* Appending a slot to a chain: the path grows by it at its end.
LEMMA PathGrows ==
  ASSUME NEW t \in TableType, NEW h \in Buckets, NEW f, NEW n, Path(t, h, f, n),
         NEW i \in Slots, i \notin Members(f, n), t.pNext[i] = NULL,
         NEW u, u = LinkLast(t, i, h)
  PROVE  /\ SameBut(t, u, h)
         /\ \A k \in Slots \ Members(f, n) : u.pNext[k] = t.pNext[k]
         /\ \E g :
              Path(u, h, g, n + 1) /\ Members(g, n + 1) = Members(f, n) \cup {i}
<1> DEFINE stop == {j \in Slots : t.pNext[j] = NULL}
           last == StopAt(t, h, stop)
           g == [k \in 0 .. n + 1 |-> IF k < n THEN f[k] ELSE IF k = n THEN
                i ELSE NULL]
<1>0. n \in Nat /\ f[0] = t.Hash[h] /\ f[n] = NULL
  BY DEF Path
<1>1. \A k \in 0 .. n - 1 : f[k] \in Slots /\ f[k + 1] = t.pNext[f[k]]
  BY DEF Path
<1>2. \A j, k \in 0 .. n - 1 : f[j] = f[k] => j = k
  BY DEF Path
<1>3. \A k \in 0 .. n - 1 : f[k] # i
  BY DEF Members
<1>4. NULL \notin stop /\ i \in Links /\ NULL \in Links
  BY SlotFacts DEF Links
<1>5. /\ g \in [0 .. n + 1 -> Links] /\ g[n] = i /\ g[n + 1] = NULL
      /\ \A k \in 0 .. n - 1 : g[k] = f[k]
  BY <1>0, <1>1, <1>4 DEF Links
<1>6. \A k \in 0 .. (n + 1) - 1 : k \in 0 .. n - 1 \/ k = n
  BY <1>0
<1> HIDE DEF g
<1>7. \A j, k \in 0 .. (n + 1) - 1 : g[j] = g[k] => j = k
  BY <1>2, <1>3, <1>5, <1>6
<1>8. Members(g, n + 1) = Members(f, n) \cup {i}
  <2>1. \A k \in 0 .. n - 1 : k \in 0 .. (n + 1) - 1
    BY <1>0
  <2>2. n \in 0 .. (n + 1) - 1
    BY <1>0
  <2>3. QED
    BY <1>5, <1>6, <2>1, <2>2 DEF Members
<1>9. CASE n = 0
  <2>1. last = NULL
    <3>1. ~ \E k \in 0 .. n - 1 : TRUE
      BY <1>9
    <3>2. QED
      BY <1>4, <3>1, PathStops
  <2>2. u = [t EXCEPT !.Hash[h] = i]
    BY <2>1, SlotFacts DEF LinkLast
  <2>3. SameBut(t, u, h) /\ u.Hash[h] = i /\ u.pNext = t.pNext
    BY <1>4, <2>2, SetHash
  <2>4. Path(u, h, g, n + 1)
    <3>1. n + 1 \in Nat /\ g[0] = i /\ g[1] = NULL /\ n + 1 = 1
      BY <1>5, <1>9
    <3>2. \A k \in 0 .. (n + 1) - 1 : k = 0 /\ k + 1 = 1
      BY <1>9
    <3>3. \A k \in 0 .. (n + 1) - 1 : g[k] \in Slots /\ g[k + 1] = u.pNext[g[k]]
      BY <2>3, <3>1, <3>2
    <3>4. QED
      BY <1>5, <1>7, <2>3, <3>1, <3>3 DEF Path
  <2>5. QED
    BY <1>8, <2>3, <2>4
<1>10. CASE n # 0
  <2> DEFINE l == f[n - 1]
  <2>0. n - 1 \in 0 .. n - 1 /\ (n - 1) + 1 = n
    BY <1>0, <1>10
  <2>1. l \in Slots /\ t.pNext[l] = NULL
    BY <1>0, <1>1, <2>0
  <2>2. \A k \in 0 .. (n - 1) - 1 : f[k] \notin stop
    <3> SUFFICES ASSUME NEW k \in 0 .. (n - 1) - 1 PROVE t.pNext[f[k]] # NULL
      OBVIOUS
    <3>1. k \in 0 .. n - 1 /\ k + 1 \in 0 .. n - 1
      BY <1>0
    <3>2. QED
      BY <1>1, <3>1, SlotFacts
  <2>3. last = l
    <3>1. PICK k \in 0 .. n - 1 : last = f[k] /\ f[k] \in stop
      BY <1>4, <2>0, <2>1, PathStops
    <3>2. k \in 0 .. (n - 1) - 1 \/ k = n - 1
      BY <1>0
    <3>3. QED
      BY <2>2, <3>1, <3>2
  <2>4. u = [t EXCEPT !.pNext[l] = i]
    BY <2>1, <2>3, SlotFacts DEF LinkLast
  <2>5. /\ SameBut(t, u, h) /\ u.Hash = t.Hash
        /\ u.pNext[l] = i /\ \A k \in Slots \ {l} : u.pNext[k] = t.pNext[k]
    BY <1>4, <2>1, <2>4, SetNext
  <2>6. l \in Members(f, n)
    BY <2>0 DEF Members
  <2>7. Path(u, h, g, n + 1)
    <3>1. n + 1 \in Nat /\ g[0] = u.Hash[h]
      BY <1>0, <1>5, <1>10, <2>5
    <3>2. ASSUME NEW k \in 0 .. (n + 1) - 1
          PROVE  g[k] \in Slots /\ g[k + 1] = u.pNext[g[k]]
      <4>1. CASE k = n
        <5>1. i # l
          BY <1>3, <2>0
        <5>2. u.pNext[i] = NULL
          BY <2>5, <5>1
        <5>3. QED
          BY <1>5, <4>1, <5>2
      <4>2. CASE k = n - 1
        BY <1>5, <2>0, <2>1, <2>5, <4>2
      <4>3. CASE k \in 0 .. (n - 1) - 1
        <5>1. k \in 0 .. n - 1 /\ k + 1 \in 0 .. n - 1 /\ k # n - 1
          BY <1>0, <4>3
        <5>2. f[k] # l
          BY <1>2, <2>0, <5>1
        <5>3. g[k] = f[k] /\ g[k + 1] = f[k + 1] /\ f[k] \in Slots
          BY <1>1, <1>5, <5>1
        <5>4. QED
          BY <1>1, <2>5, <5>1, <5>2, <5>3
      <4>4. QED
        BY <1>0, <4>1, <4>2, <4>3
    <3>3. QED
      BY <1>5, <1>7, <3>1, <3>2 DEF Path
  <2>8. QED
    BY <1>8, <2>5, <2>6, <2>7
<1>11. QED
  BY <1>9, <1>10

\* The slot Unlink takes out, and its place on the path.
LEMMA UnlinkPlace ==
  ASSUME NEW t \in TableType, NEW h \in Buckets, NEW f, NEW n, Path(t, h, f, n),
         NEW p \in 0 .. n - 1, NEW e, e = f[p], NEW u, u = Unlink(t, h, e)
  PROVE  u = IF p = 0 THEN [t EXCEPT !.Hash[h] = t.pNext[e]]
             ELSE [t EXCEPT !.pNext[f[p - 1]] = t.pNext[e]]
<1> DEFINE at == Walk(t, h)
           M == MAX_TABLE_SIZE
           hits == {k \in 0 .. M : at[k] = e}
<1>0. n \in 0 .. M /\ M \in Nat
  BY PathShort, SlotFacts
<1>1. /\ \A k \in 0 .. n : at[k] = f[k]
      /\ \A k \in n .. M : at[k] = NULL
  BY PathWalked
<1>2. DOMAIN at = 0 .. M
  BY WalkSteps
<1>3. f[p] \in Slots /\ \A j, k \in 0 .. n - 1 : f[j] = f[k] => j = k
  BY DEF Path
<1>4. e \in Slots /\ e # NULL /\ e # LOOP
  BY <1>3, SlotFacts
<1>5. StopAt(t, h, {e}) = e
  <2>1. NULL \notin {e}
    BY <1>4
  <2>2. QED
    BY <2>1, PathStops
<1>6. Unlink(t, h, e) = IF Min(hits) = 0 THEN [t EXCEPT !.Hash[h] = t.pNext[e]]
                        ELSE [t EXCEPT !.pNext[at[Min(hits) - 1]] = t.pNext[e]]
  BY <1>2, <1>4, <1>5 DEF Unlink
<1> HIDE DEF at, M
<1>7. hits = {p}
  <2>1. p \in 0 .. M /\ p \in 0 .. n
    BY <1>0
  <2>2. ASSUME NEW k \in 0 .. M, at[k] = e PROVE k = p
    <3>1. CASE k \in 0 .. n - 1
      <4>1. k \in 0 .. n
        BY <1>0, <3>1
      <4>2. f[k] = f[p]
        BY <1>1, <2>2, <4>1
      <4>3. QED
        BY <1>3, <3>1, <4>2
    <3>2. CASE k \in n .. M
      BY <1>1, <1>4, <2>2, <3>2
    <3>3. QED
      BY <1>0, <3>1, <3>2
  <2>3. QED
    BY <1>1, <2>1, <2>2
<1>8. Min(hits) = p
  BY <1>0, <1>7, MinExists
<1>9. CASE p = 0
  BY <1>6, <1>8, <1>9
<1>10. CASE p # 0
  <2>1. p - 1 \in 0 .. n
    BY <1>0, <1>10
  <2>2. at[Min(hits) - 1] = f[p - 1]
    BY <1>1, <1>8, <2>1
  <2>3. QED
    BY <1>6, <1>8, <1>10, <2>2
<1>11. QED
  BY <1>9, <1>10

\* Taking a slot out of a chain: the path goes round it.
LEMMA PathShrinks ==
  ASSUME NEW t \in TableType, NEW h \in Buckets, NEW f, NEW n, Path(t, h, f, n),
         NEW e \in Members(f, n), NEW u, u = Unlink(t, h, e)
  PROVE  /\ SameBut(t, u, h)
         /\ \A k \in Slots \ Members(f, n) : u.pNext[k] = t.pNext[k]
         /\ \E g :
              Path(u, h, g, n - 1) /\ Members(g, n - 1) = Members(f, n) \ {e}
<1>0. PICK p \in 0 .. n - 1 : e = f[p]
  BY DEF Members
<1> DEFINE g == [k \in 0 .. n - 1 |-> IF k < p THEN f[k] ELSE f[k + 1]]
<1>1. n \in Nat /\ f[0] = t.Hash[h] /\ f[n] = NULL /\ f \in [0 .. n -> Links]
  BY DEF Path
<1>2. \A k \in 0 .. n - 1 : f[k] \in Slots /\ f[k + 1] = t.pNext[f[k]]
  BY DEF Path
<1>3. \A j, k \in 0 .. n - 1 : f[j] = f[k] => j = k
  BY DEF Path
<1>4. n - 1 \in Nat /\ p + 1 \in 0 .. n /\ t.pNext[e] = f[p + 1] /\
     f[p + 1] \in Links
  BY <1>0, <1>1, <1>2
<1>5. /\ g \in [0 .. n - 1 -> Links]
      /\ \A k \in 0 .. p - 1 : g[k] = f[k]
      /\ \A k \in p .. n - 1 : g[k] = f[k + 1]
  BY <1>0, <1>1
<1> HIDE DEF g
<1>6. ASSUME NEW k \in 0 .. (n - 1) - 1
      PROVE  \/ (k \in 0 .. p - 1 /\ g[k] = f[k] /\ k \in 0 .. n - 1 /\ k # p)
             \/ (k \in p .. n - 1 /\ g[k] = f[k + 1] /\ k + 1 \in 0 .. n - 1 /\
                  k + 1 # p)
  <2>1. CASE k < p
    <3>1. k \in 0 .. p - 1 /\ k \in 0 .. n - 1 /\ k # p
      BY <1>0, <1>1, <2>1
    <3>2. QED
      BY <1>5, <3>1
  <2>2. CASE ~(k < p)
    <3>1. k \in p .. n - 1 /\ k + 1 \in 0 .. n - 1 /\ k + 1 # p
      BY <1>0, <1>1, <2>2
    <3>2. QED
      BY <1>5, <3>1
  <2>3. QED
    BY <2>1, <2>2
<1>7. \A j, k \in 0 .. (n - 1) - 1 : g[j] = g[k] => j = k
  <2> SUFFICES ASSUME NEW j \in 0 .. (n - 1) - 1, NEW k \in 0 .. (n - 1) - 1,
                      g[j] = g[k]
               PROVE  j = k
    OBVIOUS
  <2>1. j \in Int /\ k \in Int /\ p \in Int
    BY <1>0, <1>1
  <2>2. CASE j \in 0 .. p - 1 /\ k \in 0 .. p - 1
    BY <1>3, <1>5, <1>6, <2>2
  <2>3. CASE j \in p .. n - 1 /\ k \in p .. n - 1
    <3>1. j + 1 \in 0 .. n - 1 /\ k + 1 \in 0 .. n - 1 /\ f[j + 1] = f[k + 1]
      BY <1>1, <1>5, <2>3
    <3>2. j + 1 = k + 1
      BY <1>3, <3>1
    <3>3. QED
      BY <2>1, <3>2
  <2>4. CASE j \in 0 .. p - 1 /\ k \in p .. n - 1
    <3>1. j \in 0 .. n - 1 /\ k + 1 \in 0 .. n - 1 /\ f[j] = f[k + 1]
      BY <1>0, <1>1, <1>5, <2>4
    <3>2. j = k + 1
      BY <1>3, <3>1
    <3>3. QED
      BY <2>1, <2>4, <3>2
  <2>5. CASE j \in p .. n - 1 /\ k \in 0 .. p - 1
    <3>1. k \in 0 .. n - 1 /\ j + 1 \in 0 .. n - 1 /\ f[k] = f[j + 1]
      BY <1>0, <1>1, <1>5, <2>5
    <3>2. k = j + 1
      BY <1>3, <3>1
    <3>3. QED
      BY <2>1, <2>5, <3>2
  <2>6. QED
    BY <1>6, <2>2, <2>3, <2>4, <2>5
<1>8. Members(g, n - 1) = Members(f, n) \ {e}
  <2>1. ASSUME NEW k \in 0 .. (n - 1) - 1 PROVE g[k] \in Members(f, n) \ {e}
    <3>1. CASE g[k] = f[k] /\ k \in 0 .. n - 1 /\ k # p
      BY <1>0, <1>3, <3>1 DEF Members
    <3>2. CASE g[k] = f[k + 1] /\ k + 1 \in 0 .. n - 1 /\ k + 1 # p
      BY <1>0, <1>3, <3>2 DEF Members
    <3>3. QED
      BY <1>6, <3>1, <3>2
  <2>2. ASSUME NEW k \in 0 .. n - 1, f[k] # e PROVE f[k] \in Members(g, n - 1)
    <3>1. CASE k < p
      <4>1. k \in 0 .. (n - 1) - 1 /\ k \in 0 .. p - 1
        BY <1>0, <1>1, <3>1
      <4>2. QED
        BY <1>5, <4>1 DEF Members
    <3>2. CASE k > p
      <4> DEFINE m == k - 1
      <4>1. m \in 0 .. (n - 1) - 1 /\ m \in p .. n - 1 /\ m + 1 = k
        BY <1>0, <1>1, <3>2
      <4> HIDE DEF m
      <4>2. g[m] = f[k]
        BY <1>5, <4>1
      <4>3. QED
        BY <4>1, <4>2 DEF Members
    <3>3. k # p
      BY <1>0, <2>2
    <3>4. QED
      BY <1>0, <1>1, <3>1, <3>2, <3>3
  <2>3. QED
    BY <2>1, <2>2 DEF Members
<1>9. u = IF p = 0 THEN [t EXCEPT !.Hash[h] = t.pNext[e]]
          ELSE [t EXCEPT !.pNext[f[p - 1]] = t.pNext[e]]
  BY <1>0, UnlinkPlace
<1>10. CASE p = 0
  <2>0. PICK j \in Links : j = t.pNext[e] /\ j = f[1]
    <3>1. p + 1 = 1
      BY <1>10
    <3>2. QED
      BY <1>4, <3>1
  <2>1. SameBut(t, u, h) /\ u.Hash[h] = f[1] /\ u.pNext = t.pNext
    <3>1. u = [t EXCEPT !.Hash[h] = j]
      BY <1>9, <1>10, <2>0
    <3>2. QED
      BY <2>0, <3>1 DEF SameBut, TableType
  <2>2. Path(u, h, g, n - 1)
    <3>1. g[0] = f[1] /\ g[n - 1] = f[n]
      BY <1>1, <1>4, <1>5, <1>10
    <3>2. ASSUME NEW k \in 0 .. (n - 1) - 1
          PROVE  g[k] \in Slots /\ g[k + 1] = u.pNext[g[k]]
      <4>1. /\ k \in p .. n - 1 /\ k + 1 \in p .. n - 1 /\ k + 1 \in 0 .. n - 1
            /\ g[k] = f[k + 1] /\ g[k + 1] = f[(k + 1) + 1]
        BY <1>1, <1>5, <1>10
      <4>2. QED
        BY <1>2, <2>1, <4>1
    <3>3. QED
      BY <1>1, <1>4, <1>5, <1>7, <2>1, <3>1, <3>2 DEF Path
  <2>3. QED
    BY <1>8, <2>1, <2>2
<1>11. CASE p # 0
  <2> DEFINE l == f[p - 1]
  <2>0. p - 1 \in 0 .. n - 1 /\ (p - 1) + 1 = p /\ p - 1 \in 0 .. p - 1
    BY <1>0, <1>1, <1>11
  <2>1. l \in Slots /\ l \in Members(f, n)
    BY <1>2, <2>0 DEF Members
  <2>2. /\ SameBut(t, u, h) /\ u.Hash = t.Hash
        /\ u.pNext[l] = f[p + 1] /\ \A k \in Slots \ {l} :
             u.pNext[k] = t.pNext[k]
    <3>1. PICK j \in Links : j = t.pNext[e] /\ j = f[p + 1]
      BY <1>4
    <3>2. PICK m \in Slots : m = l
      BY <2>1
    <3>3. u = [t EXCEPT !.pNext[m] = j]
      BY <1>9, <1>11, <3>1, <3>2
    <3>4. /\ SameBut(t, u, h) /\ u.Hash = t.Hash
          /\ u.pNext[m] = j /\ \A k \in Slots \ {m} : u.pNext[k] = t.pNext[k]
      BY <3>3 DEF SameBut, TableType
    <3>5. QED
      BY <3>1, <3>2, <3>4
  <2> HIDE DEF l
  <2>3. Path(u, h, g, n - 1)
    <3>1. g[0] = u.Hash[h] /\ g[n - 1] = NULL
      <4>1. 0 \in 0 .. p - 1 /\ n - 1 \in p .. n - 1 /\ (n - 1) + 1 = n
        BY <1>0, <1>1, <1>11
      <4>2. QED
        BY <1>1, <1>5, <2>2, <4>1
    <3>2. ASSUME NEW k \in 0 .. (n - 1) - 1
          PROVE  g[k] \in Slots /\ g[k + 1] = u.pNext[g[k]]
      <4>1. CASE k = p - 1
        <5>1. k + 1 = p /\ p \in p .. n - 1 /\ k \in 0 .. p - 1
          BY <1>0, <1>1, <2>0, <4>1
        <5>2. g[k] = l /\ g[k + 1] = f[p + 1]
          BY <1>5, <4>1, <5>1 DEF l
        <5>3. QED
          BY <2>1, <2>2, <5>2
      <4>2. CASE k \in 0 .. (p - 1) - 1
        <5>1. /\ k \in 0 .. p - 1 /\ k + 1 \in 0 .. p - 1 /\ k \in 0 .. n - 1 /\
                   k # p - 1
          BY <1>0, <1>1, <4>2
        <5>2. g[k] = f[k] /\ g[k + 1] = f[k + 1] /\ f[k] \in Slots /\ f[k] # l
          BY <1>2, <1>3, <1>5, <2>0, <5>1 DEF l
        <5>3. QED
          BY <1>2, <2>2, <5>1, <5>2
      <4>3. CASE k \in p .. (n - 1) - 1
        <5>1. /\ k \in p .. n - 1 /\ k + 1 \in p .. n - 1 /\
                   k + 1 \in 0 .. n - 1
              /\ k + 1 # p - 1
          BY <1>0, <1>1, <4>3
        <5>2. /\ g[k] = f[k + 1] /\ g[k + 1] = f[(k + 1) + 1]
              /\ f[k + 1] \in Slots /\ f[k + 1] # l
          BY <1>2, <1>3, <1>5, <2>0, <5>1 DEF l
        <5>3. QED
          BY <1>2, <2>2, <5>1, <5>2
      <4>4. QED
        BY <1>0, <1>1, <4>1, <4>2, <4>3
    <3>3. QED
      BY <1>4, <1>5, <1>7, <3>1, <3>2 DEF Path
  <2>4. QED
    BY <1>8, <2>1, <2>2, <2>3
<1>12. QED
  BY <1>10, <1>11

-----------------------------------------------------------------------------
(* Entries.                                                                *)

\* The frames a client sends.
FrameType == [Band : Bands, Type : {"PROBE", "AUTH"}, Rssi : [1 .. 3 -> Int],
              Ht : BOOLEAN]

\* The constants, and the flags and numbers an entry may hold.
LEMMA ConstantFacts ==
  /\ AUTH_WRAP \in Nat \ {0} /\ NL_MAX \in Nat \ {0} /\ PARAMS.AgeTime \in Nat
  /\ 0 \in Counts /\ 0 \in Ages /\ PARAMS.AgeTime \in Ages
  /\ \A a \in ADDRS : FRAMES[a] \subseteq FrameType /\ HASH[a] \in Buckets
  /\ Is2GOnly \in Flags
  /\ \A b \in Bands :
       {Support(b), Allow(b), NotSupportHt(b), LowRssi(b)} \subseteq Flags
<1>1. AUTH_WRAP \in Nat \ {0} /\ NL_MAX \in Nat \ {0} /\ PARAMS.AgeTime \in Nat
  BY SteeringAssumption
<1>2. 0 \in Counts /\ 0 \in Ages /\ PARAMS.AgeTime \in Ages
  BY <1>1 DEF Counts, Ages
<1>3. \A a \in ADDRS : FRAMES[a] \subseteq FrameType /\ HASH[a] \in Buckets
  BY SteeringAssumption DEF Buckets, FrameType
<1>4. /\ Is2GOnly \in Flags
      /\ \A b \in Bands :
           {Support(b), Allow(b), NotSupportHt(b), LowRssi(b)} \subseteq Flags
  BY DEF Flags
<1>5. QED
  BY <1>1, <1>2, <1>3, <1>4

\* An entry just filled, and a cleared one.
LEMMA NewEntryType ==
  ASSUME NEW a \in ADDRS \cup {NoAddr}
  PROVE  /\ NewEntry(a) \in EntryType /\ NewEntry(a).bValid = TRUE
         /\ NewEntry(a).Addr = a
BY ConstantFacts DEF NewEntry, EntryType

\* The strongest of the three antennas has a signal strength.
LEMMA MaxRssiType ==
  ASSUME NEW r \in [1 .. 3 -> Int]
  PROVE  MaxRssi(r) \in Int
<1> DEFINE S == {r[1]} \cup ({r[2], r[3]} \ {0})
<1>1. r[1] \in Int /\ r[2] \in Int /\ r[3] \in Int
  OBVIOUS
<1>2. \E x \in S : \A y \in S : x >= y
  BY <1>1
<1>3. S \subseteq Int
  BY <1>1
<1> HIDE DEF S
<1>4. Max(S) \in S
  BY <1>2 DEF Max
<1>5. MaxRssi(r) = Max(S)
  BY DEF MaxRssi, S
<1>6. QED
  BY <1>3, <1>4, <1>5

\* Both are entries, of one client, and both valid or both not.
SameOwner(e, d) == d \in EntryType /\ d.bValid = e.bValid /\ d.Addr = e.Addr

\* The flags of an entry may be changed at will.
LEMMA SetFlags ==
  ASSUME NEW e \in EntryType, NEW F \in SUBSET Flags, NEW d, d =
         [e EXCEPT !.Control_Flags = F]
  PROVE  SameOwner(e, d)
BY DEF SameOwner, EntryType

\* A frame of a client leaves its entry to it.
LEMMA UpdateKeeps ==
  ASSUME NEW e \in EntryType, NEW f \in FrameType
  PROVE  SameOwner(e, UpdateEntry(e, f))
<1> DEFINE b == f.Band
           r == MaxRssi(f.Rssi)
           c == IF f.Type = "AUTH" THEN CountUp(e.AuthReqCount[b])
                ELSE e.AuthReqCount[b]
           low == CASE r = 0 -> e.Control_Flags \cap {LowRssi(b)}
                    [] r # 0 -> IF r < par.RssiLow THEN {LowRssi(b)} ELSE {}
           noHt == IF f.Type = "PROBE" /\ ~f.Ht THEN {NotSupportHt(b)} ELSE {}
           F == (e.Control_Flags \ {LowRssi(b)}) \cup low \cup noHt
                \cup {Support(b)}
<1>1. b \in Bands /\ f.Rssi \in [1 .. 3 -> Int]
  BY DEF FrameType
<1>2. r \in Int
  BY <1>1, MaxRssiType
<1>3. e.AuthReqCount \in [Bands -> Counts] /\ e.Rssi \in [Bands -> Int] /\
     e.Control_Flags \subseteq Flags
  BY DEF EntryType
<1>4. c \in Counts
  <2>1. e.AuthReqCount[b] \in Counts
    BY <1>1, <1>3
  <2>2. CountUp(e.AuthReqCount[b]) \in Counts
    BY <2>1, ConstantFacts DEF Counts, CountUp
  <2>3. QED
    BY <2>1, <2>2
<1>5. F \subseteq Flags
  <2>1. {Support(b), NotSupportHt(b), LowRssi(b)} \subseteq Flags
    BY <1>1, ConstantFacts
  <2>2. low \subseteq Flags /\ noHt \subseteq Flags
    BY <1>3, <2>1
  <2> HIDE DEF low, noHt
  <2>3. QED
    BY <1>3, <2>1, <2>2
<1>6. UpdateEntry(e, f) =
     [e EXCEPT !.Rssi[b] = r, !.AuthReqCount[b] = c, !.Control_Flags = F]
  BY <1>1, <1>3 DEF UpdateEntry, EntryType
<1> HIDE DEF b, r, c, F
<1>7. PICK R \in [Bands -> Int] : R = [e.Rssi EXCEPT ![b] = r]
  BY <1>2, <1>3
<1>8. PICK C \in [Bands -> Counts] : C = [e.AuthReqCount EXCEPT ![b] = c]
  BY <1>3, <1>4
<1>9. UpdateEntry(e, f) =
     [e EXCEPT !.Rssi = R, !.AuthReqCount = C, !.Control_Flags = F]
  BY <1>6, <1>7, <1>8 DEF EntryType
<1>10. QED
  BY <1>5, <1>9 DEF SameOwner, EntryType

\* So does the decision of the steering strategy.
LEMMA DecideKeeps ==
  ASSUME NEW e \in EntryType
  PROVE  SameOwner(e, Decide(e))
<1>0. \A d \in EntryType : d.Control_Flags \subseteq Flags
  BY DEF EntryType
<1>1. PICK d : d = Mark2GOnly(e)
  OBVIOUS
<1>2. SameOwner(e, d)
  <2>1. e.Control_Flags \cup {Is2GOnly} \in SUBSET Flags
    BY <1>0, ConstantFacts
  <2>2. SameOwner(e, e)
    BY DEF SameOwner
  <2>3. QED
    BY <1>1, <2>1, <2>2, SetFlags DEF Mark2GOnly
<1>3. PICK c : c = Decide2G(d)
  OBVIOUS
<1>4. SameOwner(d, c)
  <2>0. d \in EntryType
    BY <1>2 DEF SameOwner
  <2>1. d.Control_Flags \cup {Allow("2G")} \in SUBSET Flags
    BY <2>0, <1>0, ConstantFacts DEF Bands
  <2>2. SameOwner(d, d)
    BY <2>0 DEF SameOwner
  <2>3. QED
    BY <1>3, <2>0, <2>1, <2>2, SetFlags DEF Decide2G
<1>5. SameOwner(c, Decide5G(c))
  <2>0. c \in EntryType
    BY <1>4 DEF SameOwner
  <2>1. SameOwner(c, c)
    BY <2>0 DEF SameOwner
  <2> DEFINE A == IF _bndstrg_allow_sta_conn_5g(c) THEN {Allow("5G")} ELSE {}
             F == ((c.Control_Flags \ {Allow("5G")}) \ Revoked(c)) \cup A
  <2>2. F \in SUBSET Flags
    BY <2>0, <1>0, ConstantFacts DEF Bands
  <2>3. Decide5G(c) = IF Is2GOnly \in c.Control_Flags THEN
       c ELSE [c EXCEPT !.Control_Flags = F]
    BY DEF Decide5G
  <2> HIDE DEF F
  <2>4. QED
    BY <2>0, <2>1, <2>2, <2>3, SetFlags
<1>6. QED
  BY <1>1, <1>2, <1>3, <1>4, <1>5 DEF Decide, SameOwner

\* An entry grows older, up to AgeTime.
LEMMA OlderKeeps ==
  ASSUME NEW e \in EntryType
  PROVE  SameOwner(e, Older(e))
<1> DEFINE A == PARAMS.AgeTime
           S == {e.elapsed + 1, A}
<1>1. A \in Nat /\ e.elapsed \in 0 .. A
  BY ConstantFacts DEF EntryType, Ages
<1>2. S \subseteq Nat /\ S # {}
  BY <1>1
<1>3. Min(S) \in S /\ Min(S) <= A
  <2>1. Min(S) \in S /\ \A n \in S : Min(S) <= n
    <3> HIDE DEF S
    <3>1. QED
      BY <1>2, MinExists
  <2>2. QED
    BY <2>1
<1>4. Min(S) \in Ages
  BY <1>1, <1>3 DEF Ages
<1>5. Older(e) = [e EXCEPT !.elapsed = Min(S)]
  BY DEF Older, EntryType
<1> HIDE DEF S
<1>6. QED
  BY <1>4, <1>5 DEF SameOwner, EntryType

-----------------------------------------------------------------------------
(* Tables.                                                                 *)

\* The valid entries of bucket h.
Bucket(t, h) == {i \in Valid(t) : HASH[t.Entry[i].Addr] = h}

\* Chain h enumerates the entries of its bucket.
ChainHolds(t, h) == \E f, n : Path(t, h, f, n) /\ Members(f, n) = Bucket(t, h)

\* The chains index the entries, and no client has two.
Indexed(t) ==
  /\ \A h \in Buckets : ChainHolds(t, h)
  /\ \A i, j \in Valid(t) : t.Entry[i].Addr = t.Entry[j].Addr => i = j
  /\ ~t.hung

\* Both tables have the same entries on the same chains.
Alike(t, u) ==
  /\ u \in TableType /\ u.Hash = t.Hash /\ u.pNext = t.pNext
  /\ u.Size = t.Size /\ u.hung = t.hung /\ u.stale = t.stale
  /\ \A i \in Slots : SameOwner(t.Entry[i], u.Entry[i])

\* The valid entries are at most as many as there are slots.
LEMMA ValidFacts ==
  ASSUME NEW t \in TableType
  PROVE  /\ Valid(t) \subseteq Slots /\ IsFiniteSet(Valid(t))
         /\ Cardinality(Valid(t)) \in 0 .. MAX_TABLE_SIZE
         /\ Cardinality(Valid(t)) = MAX_TABLE_SIZE => Valid(t) = Slots
<1>1. Valid(t) \subseteq Slots
  BY DEF Valid
<1>2. IsFiniteSet(Valid(t)) /\ Cardinality(Valid(t)) <= Cardinality(Slots)
  BY <1>1, SlotFacts, FS_Subset
<1>3. Cardinality(Valid(t)) = Cardinality(Slots) => Valid(t) = Slots
  BY <1>1, SlotFacts, FS_Subset
<1>4. Cardinality(Valid(t)) \in Nat
  BY <1>2, FS_CardinalityType
<1>5. QED
  BY <1>1, <1>2, <1>3, <1>4, SlotFacts

\* What Alike leaves of a table.
LEMMA AlikeKeeps ==
  ASSUME NEW t \in TableType, NEW u, Alike(t, u)
  PROVE  /\ Valid(u) = Valid(t)
         /\ Sound(t) => Sound(u)
         /\ \A i \in Slots : u.Entry[i].Addr = t.Entry[i].Addr
         /\ Indexed(t) => Indexed(u)
         /\ u.stale = t.stale
<1>1. Valid(u) = Valid(t) /\ \A i \in Slots : u.Entry[i].Addr = t.Entry[i].Addr
  BY DEF Alike, SameOwner, Valid
<1>2. Valid(t) \subseteq Slots
  BY DEF Valid
<1>3. ASSUME Sound(t) PROVE Sound(u)
  BY <1>1, <1>2, <1>3 DEF Sound, Alike
<1>4. ASSUME Indexed(t) PROVE Indexed(u)
  <2>1. ASSUME NEW h \in Buckets PROVE ChainHolds(u, h)
    <3>1. PICK f, n : Path(t, h, f, n) /\ Members(f, n) = Bucket(t, h)
      BY <1>4 DEF Indexed, ChainHolds
    <3>2. u.Hash[h] = t.Hash[h] /\ \A i \in Members(f, n) :
         u.pNext[i] = t.pNext[i]
      BY DEF Alike
    <3>3. Path(u, h, f, n)
      BY <3>1, <3>2, PathKept
    <3>4. Bucket(u, h) = Bucket(t, h)
      BY <1>1, <1>2 DEF Bucket
    <3>5. QED
      BY <3>1, <3>3, <3>4 DEF ChainHolds
  <2>2. ~u.hung /\ \A i, j \in Valid(u) : u.Entry[i].Addr = u.Entry[j].Addr =>
       i = j
    BY <1>1, <1>2, <1>4 DEF Indexed, Alike
  <2>3. QED
    BY <2>1, <2>2 DEF Indexed
<1>5. QED
  BY <1>1, <1>3, <1>4 DEF Alike

\* Entries may be rewritten for the same owner, one or all.
LEMMA RewriteAll ==
  ASSUME NEW t \in TableType, NEW E, \A i \in Slots :
         SameOwner(t.Entry[i], E[i]),
         DOMAIN E = Slots, E = [i \in Slots |-> E[i]], NEW u, u =
              [t EXCEPT !.Entry = E]
  PROVE  Alike(t, u)
<1>1. E \in [Slots -> EntryType]
  BY DEF SameOwner
<1>2. u \in TableType /\ u.Entry = E
  BY <1>1 DEF TableType
<1>3. /\ u.Hash = t.Hash /\ u.pNext = t.pNext /\ u.Size = t.Size
      /\ u.hung = t.hung /\ u.stale = t.stale
  BY DEF TableType
<1>4. QED
  BY <1>2, <1>3 DEF Alike

\* Rewriting an entry of the same client leaves the table alike.
LEMMA RewriteOne ==
  ASSUME NEW t \in TableType, NEW i \in Slots, NEW d, SameOwner(t.Entry[i], d),
         NEW u, u = [t EXCEPT !.Entry[i] = d]
  PROVE  Alike(t, u)
<1>1. d \in EntryType
  BY DEF SameOwner
<1>2. u \in TableType /\ u.Entry[i] = d /\ \A j \in Slots \ {i} :
     u.Entry[j] = t.Entry[j]
  BY <1>1 DEF TableType
<1>3. /\ u.Hash = t.Hash /\ u.pNext = t.pNext /\ u.Size = t.Size
      /\ u.hung = t.hung /\ u.stale = t.stale
  BY DEF TableType
<1>4. ASSUME NEW j \in Slots PROVE SameOwner(t.Entry[j], u.Entry[j])
  <2>1. SameOwner(t.Entry[j], t.Entry[j])
    BY DEF SameOwner, TableType
  <2>2. QED
    BY <1>2, <2>1
<1>5. QED
  BY <1>2, <1>3, <1>4 DEF Alike

\* A table that hangs is sound all the same.
LEMMA HangSound ==
  ASSUME NEW t, Sound(t), NEW u, u = [t EXCEPT !.hung = TRUE]
  PROVE  Sound(u) /\ Valid(u) = Valid(t) /\ u.stale = t.stale
<1>1. /\ u \in TableType /\ u.Entry = t.Entry /\ u.Size = t.Size
      /\ u.stale = t.stale
  BY DEF Sound, TableType
<1>2. QED
  BY <1>1 DEF Sound, Valid

\* A link may be set wherever it is.
LEMMA SetLink ==
  ASSUME NEW t \in TableType, NEW i \in Links, NEW x, NEW u,
         u = [t EXCEPT !.Hash[x] = i] \/ u = [t EXCEPT !.pNext[x] = i]
  PROVE  /\ u \in TableType /\ u.Entry = t.Entry /\ u.Size = t.Size
         /\ u.stale = t.stale
<1>1. PICK H \in [Buckets -> Links] : H = [t.Hash EXCEPT ![x] = i]
  BY DEF TableType
<1>2. PICK N \in [Slots -> Links] : N = [t.pNext EXCEPT ![x] = i]
  BY DEF TableType
<1>3. u = [t EXCEPT !.Hash = H] \/ u = [t EXCEPT !.pNext = N]
  BY <1>1, <1>2 DEF TableType
<1>4. QED
  BY <1>3 DEF TableType

\* Linking and unlinking, on any chains, change neither entries nor size nor what
\* stale answers did.
LEMMA LinkSound ==
  ASSUME NEW t \in TableType, NEW i \in Slots, NEW h, NEW u, u =
         LinkLast(t, i, h)
  PROVE  /\ u \in TableType /\ u.Entry = t.Entry /\ u.Size = t.Size
         /\ u.stale = t.stale
<1> DEFINE last == StopAt(t, h, {j \in Slots : t.pNext[j] = NULL})
<1>1. \/ u = [t EXCEPT !.Hash[h] = i]
      \/ u = [t EXCEPT !.hung = TRUE]
      \/ u = [t EXCEPT !.pNext[last] = i]
  BY SlotFacts DEF LinkLast
<1> HIDE DEF last
<1>2. i \in Links
  BY DEF Links
<1>3. CASE u = [t EXCEPT !.Hash[h] = i]
  BY <1>2, <1>3, SetLink
<1>4. CASE u = [t EXCEPT !.hung = TRUE]
  BY <1>4 DEF TableType
<1>5. CASE u = [t EXCEPT !.pNext[last] = i]
  BY <1>2, <1>5, SetLink, SMTT(30)
<1>6. QED
  BY <1>1, <1>3, <1>4, <1>5

\* Taking an entry off its chain touches neither the entries nor the size.
LEMMA UnlinkSound ==
  ASSUME NEW t \in TableType, NEW e \in Slots, NEW h, NEW u, u = Unlink(t, h, e)
  PROVE  /\ u \in TableType /\ u.Entry = t.Entry /\ u.Size = t.Size
         /\ u.stale = t.stale
<1> DEFINE at == Walk(t, h)
           k == Min({n \in DOMAIN at : at[n] = e})
           j == at[k - 1]
<1>1. \/ u = [t EXCEPT !.hung = TRUE]
      \/ u = t
      \/ u = [t EXCEPT !.Hash[h] = t.pNext[e]]
      \/ u = [t EXCEPT !.pNext[j] = t.pNext[e]]
  BY SlotFacts DEF Unlink
<1> HIDE DEF j
<1>2. PICK i \in Links : i = t.pNext[e]
  BY DEF TableType
<1>3. CASE u = [t EXCEPT !.hung = TRUE]
  BY <1>3 DEF TableType
<1>4. CASE u = t
  BY <1>4
<1>5. CASE u = [t EXCEPT !.Hash[h] = i]
  BY <1>5, SetLink
<1>6. CASE u = [t EXCEPT !.pNext[j] = i]
  BY <1>6, SetLink
<1>7. QED
  BY <1>1, <1>2, <1>3, <1>4, <1>5, <1>6

\* bndstrg_insert_entry takes a slot that is free.
LEMMA VacancyFree ==
  ASSUME NEW t, Sound(t), t.Size < MAX_TABLE_SIZE
  PROVE  Vacancy(t) \in Slots \ Valid(t)
<1>1. t \in TableType /\ t.Size = Cardinality(Valid(t))
  BY DEF Sound
<1>2. Valid(t) # Slots
  BY <1>1, SlotFacts
<1>3. Valid(t) \subseteq Slots /\ Slots \subseteq Nat
  BY <1>1, ValidFacts, SlotFacts
<1>4. Slots \ Valid(t) # {} /\ Slots \ Valid(t) \subseteq Nat
  BY <1>2, <1>3
<1>5. Min(Slots \ Valid(t)) \in Slots \ Valid(t)
  BY <1>4, MinExists
<1>6. QED
  BY <1>2, <1>5 DEF Vacancy

\* The table once the free slot i is filled for client a.
Filled(t, w, i, a) ==
  /\ w \in TableType /\ w.Hash = t.Hash /\ w.Size = t.Size /\ w.hung = t.hung
  /\ w.stale = t.stale
  /\ w.Entry[i] = NewEntry(a) /\ \A j \in Slots \ {i} : w.Entry[j] = t.Entry[j]
  /\ w.pNext[i] = NULL /\ \A j \in Slots \ {i} : w.pNext[j] = t.pNext[j]

\* bndstrg_insert_entry fills the free slot and counts it,
LEMMA FillFacts ==
  ASSUME NEW t \in TableType, NEW i \in Slots \ Valid(t), NEW a \in ADDRS
  PROVE  Filled(t, Fill(t, i, a), i, a)
<1>1. PICK E \in [Slots -> EntryType] : E = [t.Entry EXCEPT ![i] = NewEntry(a)]
  BY NewEntryType DEF TableType
<1>2. PICK N \in [Slots -> Links] : N = [t.pNext EXCEPT ![i] = NULL]
  BY SlotFacts DEF TableType
<1>3. PICK w : w = [t EXCEPT !.Entry = E, !.pNext = N]
  OBVIOUS
<1>4. Fill(t, i, a) = w
  BY <1>1, <1>2, <1>3 DEF Fill, TableType
<1>5. /\ w \in TableType /\ w.Hash = t.Hash /\ w.Size = t.Size
      /\ w.hung = t.hung /\ w.stale = t.stale
      /\ w.Entry = E /\ w.pNext = N
  BY <1>3 DEF TableType
<1>6. QED
  BY <1>1, <1>2, <1>4, <1>5 DEF Filled, TableType

\* so that one more entry is valid, and the others are what they were.
LEMMA FilledValid ==
  ASSUME NEW t, Sound(t), NEW i \in Slots \ Valid(t), NEW a \in ADDRS,
         NEW w, Filled(t, w, i, a)
  PROVE  /\ Valid(w) = Valid(t) \cup {i}
         /\ w.Entry[i].Addr = a /\ \A j \in Valid(t) :
              w.Entry[j].Addr = t.Entry[j].Addr
         /\ Cardinality(Valid(w)) = t.Size + 1
<1>1. t \in TableType /\ t.Size = Cardinality(Valid(t))
  BY DEF Sound
<1>2. NewEntry(a).bValid = TRUE /\ NewEntry(a).Addr = a
  BY NewEntryType
<1>3. Valid(w) = Valid(t) \cup {i}
  BY <1>2 DEF Filled, Valid
<1>4. \A j \in Valid(t) : j \in Slots \ {i}
  BY DEF Valid
<1>5. Cardinality(Valid(t) \cup {i}) = Cardinality(Valid(t)) + 1
  BY <1>1, ValidFacts, FS_AddElement
<1>6. QED
  BY <1>1, <1>2, <1>3, <1>4, <1>5 DEF Filled

\* bndstrg_insert_entry keeps the table sound, whatever its chains are.
LEMMA InsertSound ==
  ASSUME NEW t, Sound(t), NEW a \in ADDRS, NEW u, u = bndstrg_insert_entry(t, a)
  PROVE  /\ Sound(u) /\ Valid(t) \subseteq Valid(u) /\ u.stale = t.stale
         /\ \A j \in Valid(t) : u.Entry[j].Addr = t.Entry[j].Addr
         /\ t.Size < MAX_TABLE_SIZE => Vacancy(t) \in Slots
<1>0. t \in TableType
  BY DEF Sound
<1>1. CASE t.Size >= MAX_TABLE_SIZE
  <2>1. u = t
    BY <1>1 DEF bndstrg_insert_entry
  <2>2. ~(t.Size < MAX_TABLE_SIZE)
    <3>1. t.Size \in Int /\ MAX_TABLE_SIZE \in Int
      BY <1>0, SlotFacts DEF TableType
    <3>2. QED
      BY <1>1, <3>1
  <2>3. QED
    BY <2>1, <2>2
<1>2. CASE ~(t.Size >= MAX_TABLE_SIZE)
  <2>0. t.Size < MAX_TABLE_SIZE /\ t.Size \in Int
    BY <1>0, <1>2, SlotFacts DEF TableType
  <2>1. PICK i \in Slots \ Valid(t) : i = Vacancy(t)
    BY <2>0, VacancyFree
  <2>2. PICK w : w = Fill(t, i, a)
    OBVIOUS
  <2>3. Filled(t, w, i, a)
    BY <1>0, <2>2, FillFacts
  <2>4. PICK v : v = LinkLast(w, i, HASH[a])
    OBVIOUS
  <2>5. /\ v \in TableType /\ v.Entry = w.Entry /\ v.Size = t.Size
        /\ v.stale = t.stale
    <3>1. w \in TableType /\ w.Size = t.Size /\ w.stale = t.stale
      BY <2>3 DEF Filled
    <3>2. QED
      BY <2>4, <3>1, LinkSound
  <2>6. u = [v EXCEPT !.Size = t.Size + 1]
    BY <1>2, <2>1, <2>2, <2>4, <2>5 DEF bndstrg_insert_entry
  <2>7. /\ u \in TableType /\ u.Entry = w.Entry /\ u.Size = t.Size + 1
        /\ u.stale = t.stale
    BY <2>0, <2>5, <2>6 DEF TableType
  <2>8. Valid(u) = Valid(w)
    BY <2>7 DEF Valid
  <2>9. /\ Valid(w) = Valid(t) \cup {i}
        /\ w.Entry[i].Addr = a /\ \A j \in Valid(t) :
             w.Entry[j].Addr = t.Entry[j].Addr
        /\ Cardinality(Valid(w)) = t.Size + 1
    BY <2>3, FilledValid
  <2>10. \A j \in Valid(t) : t.Entry[j].Addr \in ADDRS
    BY DEF Sound
  <2>11. Sound(u)
    BY <2>7, <2>8, <2>9, <2>10 DEF Sound
  <2>12. QED
    BY <2>1, <2>7, <2>8, <2>9, <2>11
<1>3. QED
  BY <1>1, <1>2

\* The insertion of a client that has no entry leaves the table indexed.
LEMMA InsertIndexed ==
  ASSUME NEW t, Sound(t), Indexed(t), NEW a \in ADDRS,
         \A j \in Valid(t) : t.Entry[j].Addr # a,
         NEW u, u = bndstrg_insert_entry(t, a)
  PROVE  Indexed(u)
<1>0. t \in TableType
  BY DEF Sound
<1>1. CASE t.Size >= MAX_TABLE_SIZE
  BY <1>1 DEF bndstrg_insert_entry
<1>2. CASE ~(t.Size >= MAX_TABLE_SIZE)
  <2>0. t.Size < MAX_TABLE_SIZE /\ t.Size \in Int
    BY <1>0, <1>2, SlotFacts DEF TableType
  <2>1. PICK i \in Slots \ Valid(t) : i = Vacancy(t)
    BY <2>0, VacancyFree
  <2>2. PICK w : w = Fill(t, i, a)
    OBVIOUS
  <2>3. Filled(t, w, i, a)
    BY <1>0, <2>2, FillFacts
  <2>4. /\ Valid(w) = Valid(t) \cup {i}
        /\ w.Entry[i].Addr = a /\ \A j \in Valid(t) :
             w.Entry[j].Addr = t.Entry[j].Addr
    BY <2>3, FilledValid
  <2>5. PICK h \in Buckets : h = HASH[a]
    BY ConstantFacts
  <2>6. PICK v : v = LinkLast(w, i, h)
    OBVIOUS
  <2>7. w \in TableType /\ w.pNext[i] = NULL /\ w.Hash = t.Hash /\ ~w.hung /\
       w.Size = t.Size
    BY <2>3 DEF Filled, Indexed
  <2>8. ASSUME NEW g \in Buckets, NEW f, NEW n, Path(t, g, f, n),
               Members(f, n) = Bucket(t, g)
        PROVE  Path(w, g, f, n) /\ i \notin Members(f, n)
    <3>1. Members(f, n) \subseteq Slots \ {i}
      BY <2>8 DEF Bucket, Valid
    <3>2. \A j \in Members(f, n) : w.pNext[j] = t.pNext[j]
      BY <2>3, <3>1 DEF Filled
    <3>3. QED
      BY <2>7, <2>8, <3>1, <3>2, PathKept
  <2>9. PICK f, n : Path(t, h, f, n) /\ Members(f, n) = Bucket(t, h)
    BY DEF Indexed, ChainHolds
  <2>10. Path(w, h, f, n) /\ i \notin Members(f, n)
    BY <2>8, <2>9
  <2>11. /\ SameBut(w, v, h)
         /\ \A k \in Slots \ Members(f, n) : v.pNext[k] = w.pNext[k]
         /\ \E g :
              Path(v, h, g, n + 1) /\ Members(g, n + 1) = Members(f, n) \cup {i}
    BY <2>6, <2>7, <2>10, PathGrows
  <2>12. PICK s : u = [v EXCEPT !.Size = s] /\ s \in Int
    <3>1. v.Size = t.Size
      BY <2>7, <2>11 DEF SameBut
    <3>2. u = [v EXCEPT !.Size = t.Size + 1]
      BY <1>2, <2>1, <2>2, <2>5, <2>6, <3>1 DEF bndstrg_insert_entry
    <3>3. QED
      BY <2>0, <3>2
  <2>13. u.Entry = w.Entry /\ u.hung = w.hung /\ u.Hash = v.Hash /\
       u.pNext = v.pNext
    BY <2>11, <2>12 DEF SameBut, TableType
  <2>14. Valid(u) = Valid(w)
    BY <2>13 DEF Valid
  <2>15. ASSUME NEW j \in Valid(u), NEW k \in Valid(u), u.Entry[j].Addr =
                u.Entry[k].Addr
         PROVE  j = k
    <3>1. \A x, y \in Valid(t) : t.Entry[x].Addr = t.Entry[y].Addr => x = y
      BY DEF Indexed
    <3>2. QED
      BY <2>4, <2>13, <2>14, <2>15, <3>1
  <2>16. \A g \in Buckets :
       Bucket(u, g) = IF g = h THEN Bucket(t, g) \cup {i} ELSE Bucket(t, g)
    BY <2>4, <2>5, <2>13, <2>14 DEF Bucket
  <2>17. ASSUME NEW g \in Buckets PROVE ChainHolds(u, g)
    <3>1. CASE g = h
      <4>1. PICK f2 :
           Path(v, h, f2, n + 1) /\ Members(f2, n + 1) = Members(f, n) \cup {i}
        BY <2>11
      <4>2. Path(u, h, f2, n + 1)
        BY <2>13, <4>1, PathKept
      <4>3. QED
        BY <2>9, <2>16, <3>1, <4>1, <4>2 DEF ChainHolds
    <3>2. CASE g # h
      <4>1. PICK f2, m : Path(t, g, f2, m) /\ Members(f2, m) = Bucket(t, g)
        BY DEF Indexed, ChainHolds
      <4>2. Path(w, g, f2, m)
        BY <2>8, <4>1
      <4>3. Members(f2, m) \subseteq Slots \ Members(f, n)
        BY <2>9, <3>2, <4>1 DEF Bucket, Valid
      <4>4. u.Hash[g] = w.Hash[g] /\ \A k \in Members(f2, m) :
           u.pNext[k] = w.pNext[k]
        BY <2>11, <2>13, <3>2, <4>3 DEF SameBut
      <4>5. Path(u, g, f2, m)
        BY <4>2, <4>4, PathKept
      <4>6. QED
        BY <2>16, <3>2, <4>1, <4>5 DEF ChainHolds
    <3>3. QED
      BY <3>1, <3>2
  <2>18. QED
    BY <2>7, <2>13, <2>15, <2>17 DEF Indexed
<1>3. QED
  BY <1>1, <1>2

\* A walk of an indexed table for the entries of client a, which may also stop
\* at invalid ones, ends at the entry of a, or at NULL if there is none.
LEMMA WalkFinds ==
  ASSUME NEW t \in TableType, Indexed(t), NEW a \in ADDRS,
         NEW S \in SUBSET Slots,
         \A i \in Valid(t) : i \in S <=> t.Entry[i].Addr = a
  PROVE  LET e == StopAt(t, HASH[a], S)
         IN \/ e = NULL /\ \A i \in Valid(t) : t.Entry[i].Addr # a
            \/ e \in Valid(t) /\ t.Entry[e].Addr = a
<1>1. PICK h \in Buckets : h = HASH[a]
  BY ConstantFacts
<1>2. PICK f, n : Path(t, h, f, n) /\ Members(f, n) = Bucket(t, h)
  BY DEF Indexed, ChainHolds
<1>3. NULL \notin S
  BY SlotFacts
<1>4. PICK e : e = StopAt(t, h, S)
  OBVIOUS
<1>5. \A k \in 0 .. n - 1 : f[k] \in Valid(t)
  BY <1>2 DEF Members, Bucket
<1>6. CASE e = NULL /\ \A k \in 0 .. n - 1 : f[k] \notin S
  <2>1. ASSUME NEW i \in Valid(t), t.Entry[i].Addr = a PROVE FALSE
    <3>1. i \in Members(f, n)
      BY <1>1, <1>2, <2>1 DEF Bucket
    <3>2. PICK k \in 0 .. n - 1 : i = f[k]
      BY <3>1 DEF Members
    <3>3. QED
      BY <1>6, <2>1, <3>2
  <2>2. QED
    BY <1>1, <1>4, <1>6, <2>1
<1>7. CASE \E k \in 0 .. n - 1 : e = f[k] /\ f[k] \in S
  BY <1>1, <1>4, <1>5, <1>7
<1>8. QED
  BY <1>2, <1>3, <1>4, <1>6, <1>7, PathStops

\* bndstrg_table_lookup finds the entry of a client, if there is one.
LEMMA LookupFinds ==
  ASSUME NEW t \in TableType, Indexed(t), NEW a \in ADDRS,
         NEW e, e = bndstrg_table_lookup(t, a)
  PROVE  \/ e = NULL /\ \A i \in Valid(t) : t.Entry[i].Addr # a
         \/ e \in Valid(t) /\ t.Entry[e].Addr = a
<1> DEFINE S == {i \in Slots : ~t.Entry[i].bValid \/ t.Entry[i].Addr = a}
<1>1. S \in SUBSET Slots /\ \A i \in Valid(t) : i \in S <=> t.Entry[i].Addr = a
  BY DEF Valid
<1>2. e = StopAt(t, HASH[a], S)
  BY DEF bndstrg_table_lookup
<1> HIDE DEF S
<1>3. QED
  BY <1>1, <1>2, WalkFinds

\* What bndstrg_table_lookup returns on any chains.
LEMMA LookupType ==
  ASSUME NEW t \in TableType, NEW a \in ADDRS, NEW e, e =
         bndstrg_table_lookup(t, a)
  PROVE  e \in Slots \cup {NULL, LOOP}
<1>1. PICK h \in Buckets : h = HASH[a]
  BY ConstantFacts
<1> DEFINE at == Walk(t, h)
           S == {i \in Slots : ~t.Entry[i].bValid \/ t.Entry[i].Addr = a}
           hits == {k \in 0 .. MAX_TABLE_SIZE : at[k] = NULL \/ at[k] \in S}
<1>2. DOMAIN at = 0 .. MAX_TABLE_SIZE /\ at \in [0 .. MAX_TABLE_SIZE -> Links]
  BY WalkSteps
<1>3. e = IF hits = {} THEN LOOP ELSE at[Min(hits)]
  BY <1>1, <1>2 DEF bndstrg_table_lookup, StopAt
<1>4. CASE hits # {}
  <2>1. hits \subseteq Nat
    BY SlotFacts
  <2>2. Min(hits) \in hits
    <3> HIDE DEF hits
    <3>1. QED
      BY <1>4, <2>1, MinExists
  <2>3. Min(hits) \in 0 .. MAX_TABLE_SIZE
    BY <2>2
  <2>4. at[Min(hits)] \in Links
    BY <1>2, <2>3
  <2>5. QED
    BY <1>3, <1>4, <2>4 DEF Links
<1>5. QED
  BY <1>3, <1>4

\* The table once entry e is taken out.
Cleared(t, u, e) ==
  /\ u \in TableType /\ u.Size = t.Size - 1
  /\ ~u.Entry[e].bValid /\ \A j \in Slots \ {e} : u.Entry[j] = t.Entry[j]

\* The assignments of bndstrg_delete_entry to the table once e is unlinked,
\* and whether e was an entry of another client.
Clear(v, e, other) ==
  [v EXCEPT !.Entry[e] =
       [@ EXCEPT !.Addr = NoAddr, !.elapsed = 0, !.bValid = FALSE],
            !.stale = @ \/ other, !.Size = @ - 1]

\* bndstrg_delete_entry empties the slot it found and counts down for it.
LEMMA ClearFacts ==
  ASSUME NEW t, Sound(t), NEW e \in Valid(t), NEW v \in TableType,
         v.Entry = t.Entry, v.Size = t.Size,
         NEW other \in BOOLEAN, NEW u, u = Clear(v, e, other)
  PROVE  /\ Cleared(t, u, e) /\ Valid(u) = Valid(t) \ {e} /\ Sound(u)
         /\ u.Hash = v.Hash /\ u.pNext = v.pNext /\ u.hung = v.hung
         /\ u.stale = (v.stale \/ other)
<1>0. t \in TableType /\ t.Size = Cardinality(Valid(t)) /\ e \in Slots /\
     t.Size \in Int
  BY DEF Sound, Valid, TableType
<1>1. PICK d \in EntryType :
     d = [v.Entry[e] EXCEPT !.Addr = NoAddr, !.elapsed = 0,
                                                   !.bValid = FALSE]
  <2>1. v.Entry[e] \in EntryType
    BY <1>0 DEF TableType
  <2>2. QED
    BY <2>1, ConstantFacts DEF EntryType
<1>2. ~d.bValid
  <2>1. v.Entry[e] \in EntryType
    BY <1>0 DEF TableType
  <2>2. QED
    BY <1>1, <2>1 DEF EntryType
<1>3. PICK E \in [Slots -> EntryType] : E = [v.Entry EXCEPT ![e] = d]
  BY DEF TableType
<1>4. PICK s \in Int : s = t.Size - 1
  BY <1>0
<1>4a. PICK o \in BOOLEAN : o = (v.stale \/ other)
  OBVIOUS
<1>5. u = [v EXCEPT !.Entry = E, !.stale = o, !.Size = s]
  BY <1>1, <1>3, <1>4, <1>4a DEF TableType, Clear
<1>6. /\ u \in TableType /\ u.Size = t.Size - 1 /\ u.Entry = E
      /\ u.Hash = v.Hash /\ u.pNext = v.pNext /\ u.hung = v.hung
      /\ u.stale = o
  BY <1>4, <1>5 DEF TableType
<1>7. Cleared(t, u, e)
  BY <1>0, <1>2, <1>3, <1>6 DEF Cleared, TableType
<1>8. Valid(u) = Valid(t) \ {e}
  BY <1>7 DEF Valid, Cleared
<1>9. Cardinality(Valid(t) \ {e}) = Cardinality(Valid(t)) - 1
  BY <1>0, ValidFacts, FS_RemoveElement
<1>10. \A i \in Valid(t) \ {e} : u.Entry[i].Addr \in ADDRS
  BY <1>7 DEF Cleared, Sound, Valid
<1>11. Sound(u)
  BY <1>0, <1>6, <1>8, <1>9, <1>10 DEF Sound
<1>12. QED
  BY <1>4a, <1>6, <1>7, <1>8, <1>11

\* bndstrg_delete_entry keeps the table sound, whatever its chains are, and
\* removes at most the entry it means; stale tells whose it was.
LEMMA DeleteSound ==
  ASSUME NEW t, Sound(t), NEW a, NEW x, NEW u, u = bndstrg_delete_entry(t, a, x)
  PROVE  /\ Sound(u) /\ Meant(t, a, x) \notin Valid(u)
         /\ Valid(t) \ {Meant(t, a, x)} \subseteq Valid(u)
         /\ \A j \in Valid(t) \ {Meant(t, a, x)} :
              u.Entry[j].Addr = t.Entry[j].Addr
         /\ ~u.stale => /\ ~t.stale
                        /\ Meant(t, a, x) \in Valid(t) =>
                             t.Entry[Meant(t, a, x)].Addr = a
<1>1. PICK e : e = Meant(t, a, x)
  OBVIOUS
<1>2. CASE e = LOOP
  <2>0. e \notin Valid(t)
    BY <1>2, SlotFacts DEF Valid
  <2>1. u = [t EXCEPT !.hung = TRUE]
    BY <1>1, <1>2, <2>0 DEF bndstrg_delete_entry
  <2>2. Sound(u) /\ Valid(u) = Valid(t) /\ u.stale = t.stale
    BY <2>1, HangSound
  <2>3. u.Entry = t.Entry
    BY <2>1 DEF Sound, TableType
  <2>4. QED
    BY <1>1, <2>0, <2>2, <2>3
<1>3. CASE e \notin Valid(t) /\ e # LOOP
  <2>1. u = t
    BY <1>1, <1>3 DEF bndstrg_delete_entry
  <2>2. QED
    BY <1>1, <1>3, <2>1
<1>4. CASE e \in Valid(t)
  <2>0. e # LOOP /\ e \in Slots /\ t \in TableType
    BY <1>4, SlotFacts DEF Valid, Sound
  <2>1. PICK v : v = Unlink(t, HASH[a], e)
    OBVIOUS
  <2>2. /\ v \in TableType /\ v.Entry = t.Entry /\ v.Size = t.Size
        /\ v.stale = t.stale
    BY <2>0, <2>1, UnlinkSound
  <2>2a. PICK other \in BOOLEAN : other = (t.Entry[e].Addr # a)
    OBVIOUS
  <2>3. u = Clear(v, e, other)
    BY <1>1, <1>4, <2>0, <2>1, <2>2a DEF bndstrg_delete_entry, Clear
  <2>4. /\ Cleared(t, u, e) /\ Valid(u) = Valid(t) \ {e} /\ Sound(u)
        /\ u.stale = (t.stale \/ other)
    BY <1>4, <2>2, <2>3, ClearFacts
  <2>5. \A j \in Valid(t) \ {e} : u.Entry[j].Addr = t.Entry[j].Addr
    BY <2>4 DEF Cleared, Valid
  <2>6. QED
    BY <1>1, <2>2a, <2>4, <2>5
<1>5. QED
  BY <1>2, <1>3, <1>4

\* The deletion of the entry of the client it names leaves the table indexed.
LEMMA DeleteIndexed ==
  ASSUME NEW t, Sound(t), Indexed(t), NEW a \in ADDRS, NEW x,
         Meant(t, a, x) # LOOP,
         Meant(t, a, x) \in Valid(t) => t.Entry[Meant(t, a, x)].Addr = a,
         NEW u, u = bndstrg_delete_entry(t, a, x)
  PROVE  Indexed(u)
<1>0. t \in TableType
  BY DEF Sound
<1>1. PICK e : e = Meant(t, a, x)
  OBVIOUS
<1>2. CASE e \notin Valid(t)
  BY <1>1, <1>2 DEF bndstrg_delete_entry
<1>3. CASE e \in Valid(t)
  <2>0. e # LOOP /\ e \in Slots /\ t.Entry[e].Addr = a
    BY <1>1, <1>3 DEF Valid
  <2>1. PICK h \in Buckets : h = HASH[a]
    BY ConstantFacts
  <2>2. PICK v : v = Unlink(t, h, e)
    OBVIOUS
  <2>3. PICK f, n : Path(t, h, f, n) /\ Members(f, n) = Bucket(t, h)
    BY DEF Indexed, ChainHolds
  <2>4. e \in Members(f, n)
    BY <1>3, <2>0, <2>1, <2>3 DEF Bucket
  <2>5. /\ SameBut(t, v, h)
        /\ \A k \in Slots \ Members(f, n) : v.pNext[k] = t.pNext[k]
        /\ \E g :
             Path(v, h, g, n - 1) /\ Members(g, n - 1) = Members(f, n) \ {e}
    BY <1>0, <2>2, <2>3, <2>4, PathShrinks
  <2>5a. PICK other \in BOOLEAN : other = (t.Entry[e].Addr # a)
    OBVIOUS
  <2>6. u = Clear(v, e, other)
    BY <1>1, <1>3, <2>0, <2>1, <2>2, <2>5a DEF bndstrg_delete_entry, Clear
  <2>7. v \in TableType /\ v.Entry = t.Entry /\ v.Size = t.Size /\
       v.hung = t.hung
    BY <2>5 DEF SameBut
  <2>8. /\ Cleared(t, u, e) /\ Valid(u) = Valid(t) \ {e}
        /\ u.Hash = v.Hash /\ u.pNext = v.pNext /\ u.hung = v.hung
    BY <1>3, <2>6, <2>7, ClearFacts
  <2>9. \A j \in Valid(u) : u.Entry[j].Addr = t.Entry[j].Addr
    BY <2>8 DEF Cleared, Valid
  <2>10. \A g \in Buckets :
       Bucket(u, g) = IF g = h THEN Bucket(t, g) \ {e} ELSE Bucket(t, g)
    BY <2>0, <2>1, <2>8, <2>9 DEF Bucket
  <2>11. ASSUME NEW g \in Buckets PROVE ChainHolds(u, g)
    <3>1. CASE g = h
      <4>1. PICK f2 :
           Path(v, h, f2, n - 1) /\ Members(f2, n - 1) = Members(f, n) \ {e}
        BY <2>5
      <4>2. Path(u, h, f2, n - 1)
        BY <2>8, <4>1, PathKept
      <4>3. QED
        BY <2>3, <2>10, <3>1, <4>1, <4>2 DEF ChainHolds
    <3>2. CASE g # h
      <4>1. PICK f2, m : Path(t, g, f2, m) /\ Members(f2, m) = Bucket(t, g)
        BY DEF Indexed, ChainHolds
      <4>2. Members(f2, m) \subseteq Slots \ Members(f, n)
        BY <2>3, <3>2, <4>1 DEF Bucket, Valid
      <4>3. u.Hash[g] = t.Hash[g] /\ \A k \in Members(f2, m) :
           u.pNext[k] = t.pNext[k]
        BY <2>5, <2>8, <3>2, <4>2 DEF SameBut
      <4>4. Path(u, g, f2, m)
        BY <4>1, <4>3, PathKept
      <4>5. QED
        BY <2>10, <3>2, <4>1, <4>4 DEF ChainHolds
    <3>3. QED
      BY <3>1, <3>2
  <2>12. \A j, k \in Valid(u) : u.Entry[j].Addr = u.Entry[k].Addr => j = k
    BY <2>8, <2>9 DEF Indexed
  <2>13. ~u.hung
    BY <2>7, <2>8 DEF Indexed
  <2>14. QED
    BY <2>11, <2>12, <2>13 DEF Indexed
<1>4. QED
  BY <1>2, <1>3

\* The deletion by address means the entry of that address, if there is one.
LEMMA MeantByAddress ==
  ASSUME NEW t \in TableType, Indexed(t), NEW a \in ADDRS,
         NEW e, e = Meant(t, a, MAX_TABLE_SIZE)
  PROVE  /\ e # LOOP
         /\ e \in Valid(t) => t.Entry[e].Addr = a
<1> DEFINE S == {i \in Slots : t.Entry[i].Addr = a}
<1>1. S \in SUBSET Slots /\ \A i \in Valid(t) : i \in S <=> t.Entry[i].Addr = a
  BY DEF Valid
<1>2. e = StopAt(t, HASH[a], S)
  BY SlotFacts DEF Meant
<1> HIDE DEF S
<1>3. \/ e = NULL /\ \A i \in Valid(t) : t.Entry[i].Addr # a
      \/ e \in Valid(t) /\ t.Entry[e].Addr = a
  BY <1>1, <1>2, WalkFinds
<1>4. QED
  BY <1>3, SlotFacts DEF Valid

-----------------------------------------------------------------------------
(* The socket.                                                             *)

\* The answers to aging requests, and the commands of a user.
AgingMessages ==
  [Action : {"CLI_AGING_RSP"}, Index : Slots, Addr : ADDRS, Band : Bands,
   On : Bands \cup {NONE}]
SetMessages ==
  {[Action |-> "SET", Param |-> c[1], Value |-> c[2]] : c \in PARAM_CHANGES}

\* The kind of a message tells what it carries.
LEMMA MessageKinds ==
  ASSUME NEW m \in Messages
  PROVE  /\ m.Action = "CONNECTION_REQ" =>
              m.Addr \in ADDRS /\ m.Frame \in FrameType
         /\ m.Action = "INF_STATUS_RSP" =>
              m.Band \in Bands /\ m.Ready \subseteq Bands
         /\ m.Action = "INF_STATUS_RSP_DBDC" => m.Ready \subseteq Bands
         /\ m.Action = "BNDSTRG_ONOFF" =>
              m.Band \in Bands /\ m.OnOff \in BOOLEAN
         /\ m.Action = "CLI_AGING_RSP" => m \in AgingMessages
         /\ m.Action = "CLI_DEL" => m.Addr \in ADDRS /\ m.Index = MAX_TABLE_SIZE
<1>1. CASE m \in [Action : {"CONNECTION_REQ"}, Addr : ADDRS,
                  Frame : UNION {FRAMES[a] : a \in ADDRS}]
  <2>1. m.Action = "CONNECTION_REQ" /\ m.Addr \in ADDRS
    BY <1>1
  <2>2. PICK a \in ADDRS : m.Frame \in FRAMES[a]
    BY <1>1
  <2>3. m.Frame \in FrameType
    BY <2>2, ConstantFacts
  <2>4. QED
    BY <2>1, <2>3
<1>2. CASE m \in [Action : {"INF_STATUS_RSP"}, Band : Bands, Ready :
     SUBSET Bands]
  BY <1>2
<1>3. CASE m \in [Action : {"INF_STATUS_RSP_DBDC"}, Ready : SUBSET Bands]
  BY <1>3
<1>4. CASE m \in [Action : {"BNDSTRG_ONOFF"}, Band : Bands, OnOff : BOOLEAN]
  BY <1>4
<1>5. CASE m \in AgingMessages
  <2>1. m.Action = "CLI_AGING_RSP"
    BY <1>5 DEF AgingMessages
  <2>2. QED
    BY <1>5, <2>1
<1>6. CASE m \in [Action : {"CLI_DEL"}, Addr : ADDRS, Index : {MAX_TABLE_SIZE}]
  BY <1>6
<1>7. CASE m \in SetMessages
  BY <1>7 DEF SetMessages
<1>8. QED
  BY <1>1, <1>2, <1>3, <1>4, <1>5, <1>6, <1>7
     DEF Messages, AgingMessages, SetMessages

\* What waits after messages have arrived.
LEMMA PushFacts ==
  ASSUME NEW S, NEW q \in Seq(S), NEW s \in Seq(S), NEW r, r = Push(q, s)
  PROVE  r \in Seq(S) /\ Len(r) <= NL_MAX
<1> DEFINE L == Len(q) + Len(s)
           m == Min({NL_MAX, L})
<1>1. q \o s \in Seq(S) /\ Len(q \o s) = L /\ L \in Nat
  OBVIOUS
<1>2. NL_MAX \in Nat
  BY ConstantFacts
<1>3. m \in {NL_MAX, L} /\ m <= NL_MAX /\ m <= L
  <2> DEFINE T == {NL_MAX, L}
  <2>1. T \subseteq Nat /\ T # {}
    BY <1>1, <1>2
  <2>2. Min(T) \in T /\ \A n \in T : Min(T) <= n
    <3> HIDE DEF T
    <3>1. QED
      BY <2>1, MinExists
  <2>3. QED
    BY <2>2
<1>4. m \in Nat /\ m \in 0 .. L
  BY <1>1, <1>2, <1>3
<1>5. r = SubSeq(q \o s, 1, m)
  BY DEF Push
<1> HIDE DEF m
<1>6. r \in Seq(S) /\ Len(r) = m
  <2> DEFINE z == q \o s
  <2>1. z \in Seq(S) /\ 1 \in 1 .. Len(z) + 1 /\ m \in 1 - 1 .. Len(z) /\
       r = SubSeq(z, 1, m)
    BY <1>1, <1>4, <1>5
  <2> HIDE DEF z
  <2>2. r \in Seq(S) /\ Len(r) = m - 1 + 1
    BY <2>1, SubSeqProperties
  <2>3. QED
    BY <1>4, <2>2
<1>7. QED
  BY <1>3, <1>6

\* The state of the driver.
DrvType == [up : SUBSET Bands, on : SUBSET Bands, acc : [Bands -> SUBSET ADDRS],
            conn : [ADDRS -> Bands \cup {NONE}]]

\* The timer asks both bands about an aged entry, by slot and address.
LEMMA SlotRepliesFacts ==
  ASSUME Sound(table), drv \in DrvType, NEW i \in Slots
  PROVE  SlotReplies(i) \in Seq(AgingMessages)
<1>1. CASE i \in AgedSlots
  <2>1. table.Entry[i].Addr \in ADDRS
    BY <1>1 DEF Sound, AgedSlots
  <2>2. drv.conn[table.Entry[i].Addr] \in Bands \cup {NONE}
    BY <2>1 DEF DrvType
  <2>3. \A b \in Bands : AgingReply(i, b) \in AgingMessages
    BY <2>1, <2>2 DEF AgingReply, AgingMessages
  <2>4. SlotReplies(i) = <<AgingReply(i, "2G"), AgingReply(i, "5G")>>
    BY <1>1 DEF SlotReplies
  <2>5. "2G" \in Bands /\ "5G" \in Bands
    BY DEF Bands
  <2>6. QED
    BY <2>3, <2>4, <2>5
<1>2. CASE i \notin AgedSlots
  BY <1>2 DEF SlotReplies
<1>3. QED
  BY <1>1, <1>2

\* The answers to the aging requests of one run of bndstrg_periodic_exec.
LEMMA AgingRun ==
  ASSUME Sound(table), drv \in DrvType
  PROVE  AgingReplies \in Seq(AgingMessages)
<1> DEFINE M == MAX_TABLE_SIZE
           W == Seq(AgingMessages)
<1>0. M \in Nat /\ \A k \in 1 .. M : k - 1 \in Slots
  BY SlotFacts DEF Slots
<1>1. \A k \in 1 .. M : SlotReplies(k - 1) \in W
  BY <1>0, SlotRepliesFacts
<1> HIDE DEF M
<1> DEFINE F == [k \in 1 .. M |-> [s \in W |-> s \o SlotReplies(k - 1)]]
<1>2. F \in [1 .. M -> [W -> W]]
  <2>1. ASSUME NEW k \in 1 .. M, NEW s \in W PROVE s \o SlotReplies(k - 1) \in W
    BY <1>1, ConcatProperties
  <2> HIDE DEF W
  <2>2. QED
    BY <2>1
<1>3. <<>> \in W
  OBVIOUS
<1> HIDE DEF W
<1>4. \A k \in 1 .. M, s \in W : F[k][s] = s \o SlotReplies(k - 1)
  OBVIOUS
<1> HIDE DEF F
<1>5. PICK f \in [0 .. M -> W] : Recurs(f, M, <<>>, F)
  BY <1>0, <1>2, <1>3, RecursionExists
<1>6. f[0] = <<>> /\ \A k \in 1 .. M : f[k] = F[k][f[k - 1]]
  BY <1>5 DEF Recurs
<1>7. \A k \in 1 .. M : f[k] = f[k - 1] \o SlotReplies(k - 1)
  <2> SUFFICES ASSUME NEW k \in 1 .. M PROVE
                      f[k] = f[k - 1] \o SlotReplies(k - 1)
    OBVIOUS
  <2>1. k - 1 \in 0 .. M
    BY <1>0
  <2>2. QED
    BY <1>4, <1>6, <2>1
<1> DEFINE G(at) ==
     [k \in 0 .. M |-> IF k = 0 THEN <<>> ELSE at[k - 1] \o SlotReplies(k - 1)]
<1>8. f = G(f)
  <2>1. ASSUME NEW k \in 0 .. M PROVE f[k] = G(f)[k]
    <3>1. CASE k = 0
      BY <3>1, <1>6
    <3>2. CASE k # 0
      <4>1. k \in 1 .. M
        BY <1>0, <3>2
      <4>2. QED
        BY <4>1, <1>7, <3>2
    <3>3. QED
      BY <3>1, <3>2
  <2>2. DOMAIN f = DOMAIN G(f) /\ G(f) = [k \in DOMAIN G(f) |-> G(f)[k]]
    OBVIOUS
  <2>3. QED
    BY <2>1, <2>2
<1>9. PICK at : at = (CHOOSE x : x = G(x))
  OBVIOUS
<1>10. AgingReplies = at[M]
  BY <1>9 DEF AgingReplies, M
<1>11. at = G(at)
  <2> HIDE DEF G
  <2>1. QED
    BY <1>8, <1>9, Zenon
<1>12. \A k \in 0 .. M :
     at[k] = IF k = 0 THEN <<>> ELSE at[k - 1] \o SlotReplies(k - 1)
  BY <1>11
<1> DEFINE S == {k \in 0 .. M : at[k] \in W}
<1>13. 0 \in S
  <2>1. at[0] = <<>> /\ 0 \in 0 .. M
    BY <1>0, <1>12
  <2>2. QED
    BY <1>3, <2>1
<1>14. ASSUME NEW n \in 0 .. M - 1, n \in S PROVE n + 1 \in S
  <2>1. n + 1 \in 0 .. M /\ n + 1 # 0 /\ (n + 1) - 1 = n /\ n + 1 \in 1 .. M
    BY <1>0
  <2>2. at[n + 1] = at[n] \o SlotReplies(n)
    BY <1>12, <2>1
  <2>3. SlotReplies(n) \in W
    BY <1>1, <2>1
  <2>4. at[n + 1] \in W
    BY <1>14, <2>2, <2>3, ConcatProperties DEF W
  <2>5. QED
    BY <2>1, <2>4
<1>15. 0 .. M \subseteq S
  <2> HIDE DEF S
  <2>1. QED
    BY <1>0, <1>13, <1>14, UpTo
<1>16. QED
  BY <1>0, <1>10, <1>15 DEF W

-----------------------------------------------------------------------------
(* The inductive invariant.                                                *)

\* The types of the variables.
CtlType == [bEnabled : BOOLEAN, Band : SUBSET Bands, InfReady : SUBSET Bands,
            status_queried : BOOLEAN, status_queried_cnt : 0 .. 3,
            table_enable_cnt : 0 .. 3, dbdc_mode : BOOLEAN]

NlType == nl \in Seq(Messages) /\ Len(nl) <= NL_MAX

TypeInv ==
  /\ Sound(table) /\ ctl \in CtlType /\ NlType /\ drv \in DrvType
  /\ pc \in {"running", "stopping", "exited"}

\* Until a stale answer removes an entry the chains index the table.
IndexInv == ~table.stale => Indexed(table)

IInv == TypeInv /\ IndexInv

\* A message that comes while there is room waits at the end.
LEMMA AppendFacts ==
  ASSUME NlType, Len(nl) < INPUT_MAX, NEW m \in Messages, nl' = Append(nl, m)
  PROVE  NlType'
<1>1. nl' \in Seq(Messages) /\ Len(nl') = Len(nl) + 1 /\ Len(nl) \in Nat
  BY DEF NlType
<1>2. INPUT_MAX <= NL_MAX /\ INPUT_MAX \in Nat /\ NL_MAX \in Nat
  BY SteeringAssumption
<1>3. QED
  BY <1>1, <1>2 DEF NlType

\* What a step that only adds to the socket has to keep.
LEMMA QuietKeeps ==
  ASSUME IInv, NlType', table' = table
  PROVE  NlType' /\ Sound(table') /\ IndexInv'
BY DEF IInv, TypeInv, IndexInv

\* What is read from the socket.
LEMMA ReceiveFacts ==
  ASSUME TypeInv, NEW action, Receive(action)
  PROVE  /\ Head(nl) \in Messages /\ Head(nl).Action = action /\
              Head(nl) = nl[1]
         /\ nl # <<>> /\ 1 \in 1 .. Len(nl) /\ nl \in Seq(Messages)
         /\ nl' = Tail(nl) /\ NlType' /\ drv' = drv /\ pc' = pc
<1>1. nl \in Seq(Messages) /\ nl # <<>> /\ nl' = Tail(nl) /\ Len(nl) <= NL_MAX
  BY DEF TypeInv, NlType, Receive
<1>2. Len(nl) \in Nat /\ Len(nl) >= 1 /\ Len(nl') = Len(nl) - 1 /\
     nl' \in Seq(Messages)
  BY <1>1
<1>3. NlType'
  <2>1. Len(nl') <= NL_MAX
    BY <1>1, <1>2, ConstantFacts
  <2>2. QED
    BY <1>2, <2>1 DEF NlType
<1>4. Head(nl) = nl[1] /\ 1 \in 1 .. Len(nl) /\ nl[1] \in Messages
  BY <1>1, <1>2
<1>5. QED
  BY <1>1, <1>3, <1>4 DEF Receive

\* No entry is taken out or given to another client.
Keeps(t, u) ==
  /\ Valid(t) \subseteq Valid(u)
  /\ \A j \in Valid(t) : u.Entry[j].Addr = t.Entry[j].Addr
  /\ u.stale = t.stale

\* A table with the same owners is as sound and as well indexed.
LEMMA AlikeTable ==
  ASSUME Sound(table), Alike(table, table')
  PROVE  /\ Sound(table') /\ Keeps(table, table')
         /\ Indexed(table) => Indexed(table')
         /\ table'.stale = table.stale
<1>1. table \in TableType
  BY DEF Sound
<1>2. /\ Valid(table') = Valid(table)
      /\ Sound(table) => Sound(table')
      /\ \A i \in Slots : table'.Entry[i].Addr = table.Entry[i].Addr
      /\ Indexed(table) => Indexed(table')
      /\ table'.stale = table.stale
  BY <1>1, AlikeKeeps
<1>3. Valid(table) \subseteq Slots
  BY DEF Valid
<1>4. QED
  BY <1>2, <1>3 DEF Keeps

-----------------------------------------------------------------------------
(* The driver's steps.                                                     *)

\* The initial state.
LEMMA InitKeeps ==
  ASSUME Init
  PROVE  IInv
<1>1. table = EmptyTable
  BY DEF Init
<1>2. table \in TableType /\ Valid(table) = {} /\ table.Size = 0 /\ ~table.hung
      /\ table.Hash = [h \in Buckets |-> NULL]
  <2>0. PICK d \in EntryType : d = NewEntry(NoAddr)
    BY NewEntryType
  <2>1. PICK e \in EntryType : e = [d EXCEPT !.bValid = FALSE]
    BY DEF EntryType
  <2>3. ~e.bValid
    BY <2>1 DEF EntryType
  <2>2. table =
       [Entry |-> [i \in Slots |-> e], pNext |-> [i \in Slots |-> NULL],
                 Hash |-> [h \in Buckets |-> NULL], Size |-> 0, hung |-> FALSE,
                 stale |-> FALSE]
    BY <1>1, <2>0, <2>1 DEF EmptyTable
  <2>4. QED
    BY <2>2, <2>3, SlotFacts DEF TableType, Valid
<1>3. Sound(table)
  BY <1>2, FS_EmptySet DEF Sound
<1>4. Indexed(table)
  <2>1. ASSUME NEW h \in Buckets PROVE ChainHolds(table, h)
    <3> DEFINE f == [k \in 0 .. 0 |-> NULL]
    <3>1. /\ f \in [0 .. 0 -> Links] /\ f[0] = NULL /\ table.Hash[h] = NULL
          /\ \A k \in 0 .. 0 - 1 : FALSE
      BY <1>2, SlotFacts
    <3> HIDE DEF f
    <3>2. Path(table, h, f, 0)
      BY <3>1 DEF Path
    <3>3. Members(f, 0) = {}
      BY <3>1 DEF Members
    <3>4. Bucket(table, h) = {}
      BY <1>2 DEF Bucket
    <3>5. QED
      BY <3>2, <3>3, <3>4 DEF ChainHolds
  <2>2. QED
    BY <1>2, <2>1 DEF Indexed
<1>5. NlType
  <2>1. nl = <<>> /\ nl \in Seq(Messages) /\ Len(nl) = 0
    BY DEF Init
  <2>2. QED
    BY <2>1, ConstantFacts DEF NlType
<1>6. ctl \in CtlType
  BY DEF Init, CtlType
<1>7. drv \in DrvType
  BY DEF Init, DrvType
<1>8. pc \in {"running", "stopping", "exited"}
  BY DEF Init
<1>9. QED
  BY <1>3, <1>4, <1>5, <1>6, <1>7, <1>8 DEF IInv, TypeInv, IndexInv

\* A client's probe or auth request reaches the socket.
LEMMA ClientFrameKeeps ==
  ASSUME IInv, NEW a \in ADDRS, NEW f \in FRAMES[a], ClientFrame(a, f)
  PROVE  IInv'
<1>1. PICK m : m = [Action |-> "CONNECTION_REQ", Addr |-> a, Frame |-> f]
  OBVIOUS
<1>2. m \in Messages
  <2>1. f \in UNION {FRAMES[x] : x \in ADDRS}
    OBVIOUS
  <2>2. QED
    BY <1>1, <2>1 DEF Messages
<1>3. NlType'
  BY <1>1, <1>2, AppendFacts DEF IInv, TypeInv, ClientFrame
<1>4. table' = table /\ ctl' = ctl /\ drv' = drv /\ pc' = pc
  BY DEF ClientFrame
<1>5. NlType' /\ Sound(table') /\ IndexInv'
  BY <1>3, <1>4, QuietKeeps
<1>6. QED
  BY <1>4, <1>5 DEF IInv, TypeInv

\* A step that changes only the driver's own state.
LEMMA DriverOnlyKeeps ==
  ASSUME IInv, drv' \in DrvType, UNCHANGED <<table, ctl, nl, pc>>
  PROVE  IInv'
BY DEF IInv, TypeInv, IndexInv, NlType

\* A client joins or leaves a band: only the driver changes.
LEMMA AssociateKeeps ==
  ASSUME IInv, NEW a \in JOINS, NEW b \in Bands, Associate(a, b) \/
         Disassociate(a)
  PROVE  IInv'
<1>1. drv' \in DrvType
  BY DEF IInv, TypeInv, DrvType, Associate, Disassociate
<1>2. UNCHANGED <<table, ctl, nl, pc>>
  BY DEF Associate, Disassociate
<1>3. QED
  BY <1>1, <1>2, DriverOnlyKeeps

\* An interface comes up.
LEMMA InterfaceUpKeeps ==
  ASSUME IInv, NEW b \in Bands, InterfaceUp(b)
  PROVE  IInv'
<1>1. drv' \in DrvType
  BY DEF IInv, TypeInv, DrvType, InterfaceUp
<1>2. UNCHANGED <<table, ctl, nl, pc>>
  BY DEF InterfaceUp
<1>3. QED
  BY <1>1, <1>2, DriverOnlyKeeps

\* The answer to a command or the confirmation of one.
LEMMA OneMessage ==
  ASSUME IInv, NEW m \in Messages, nl' = Push(nl, <<m>>)
  PROVE  NlType'
<1>1. nl \in Seq(Messages)
  BY DEF IInv, TypeInv, NlType
<1>2. PICK s : s = <<m>> /\ s \in Seq(Messages)
  <2>1. <<m>> \in Seq(Messages)
    OBVIOUS
  <2>2. QED
    BY <2>1
<1>3. QED
  BY <1>1, <1>2, PushFacts DEF NlType

\* The answer to an on/off request is a message.
LEMMA OnOffMessage ==
  ASSUME NEW b \in Bands, NEW on \in BOOLEAN
  PROVE  OnOffReply(b, on) \in Messages
BY DEF OnOffReply, Messages

\* An interface goes down, which the driver reports as an on/off event.
LEMMA InterfaceDownKeeps ==
  ASSUME IInv, NEW b \in Bands, InterfaceDown(b)
  PROVE  IInv'
<1>1. PICK m : m = OnOffReply(b, FALSE)
  OBVIOUS
<1>2. m \in Messages
  BY <1>1, OnOffMessage
<1>3. NlType'
  BY <1>1, <1>2, OneMessage DEF InterfaceDown
<1>4. table' = table /\ ctl' = ctl /\ pc' = pc
  BY DEF InterfaceDown
<1>5. NlType' /\ Sound(table') /\ IndexInv'
  BY <1>3, <1>4, QuietKeeps
<1>6. drv' \in DrvType
  BY DEF IInv, TypeInv, DrvType, InterfaceDown
<1>7. QED
  BY <1>4, <1>5, <1>6 DEF IInv, TypeInv

\* A command deletes a client by its address.
LEMMA CliDelKeeps ==
  ASSUME IInv, NEW a \in ADDRS, CliDel(a)
  PROVE  IInv'
<1>1. PICK m : m = [Action |-> "CLI_DEL", Addr |-> a, Index |-> MAX_TABLE_SIZE]
  OBVIOUS
<1>2. m \in Messages
  BY <1>1 DEF Messages
<1>3. NlType'
  BY <1>1, <1>2, AppendFacts DEF IInv, TypeInv, CliDel
<1>4. table' = table /\ ctl' = ctl /\ pc' = pc /\ drv' = drv
  BY DEF CliDel
<1>5. NlType' /\ Sound(table') /\ IndexInv'
  BY <1>3, <1>4, QuietKeeps
<1>6. QED
  BY <1>4, <1>5 DEF IInv, TypeInv

\* A user sets a parameter.
LEMMA SetParameterKeeps ==
  ASSUME IInv, NEW c \in PARAM_CHANGES, SetParameter(c[1], c[2])
  PROVE  IInv'
<1>1. PICK m : m = [Action |-> "SET", Param |-> c[1], Value |-> c[2]]
  OBVIOUS
<1>2. m \in Messages
  BY <1>1 DEF Messages
<1>3. NlType'
  BY <1>1, <1>2, AppendFacts DEF IInv, TypeInv, SetParameter
<1>4. table' = table /\ ctl' = ctl /\ pc' = pc /\ drv' = drv
  BY DEF SetParameter
<1>5. NlType' /\ Sound(table') /\ IndexInv'
  BY <1>3, <1>4, QuietKeeps
<1>6. QED
  BY <1>4, <1>5 DEF IInv, TypeInv

\* The driver and its clients, one event at a time.
LEMMA DriverKeeps ==
  ASSUME IInv, Driver
  PROVE  IInv'
<1>0. DOWNS \subseteq Bands /\ DELS \subseteq ADDRS
  BY SteeringAssumption
<1>1. CASE \E a \in ADDRS : \E f \in FRAMES[a] : ClientFrame(a, f)
  BY <1>1, ClientFrameKeeps
<1>2. CASE \E a \in JOINS, b \in Bands : Associate(a, b) \/ Disassociate(a)
  BY <1>2, AssociateKeeps
<1>3. CASE \E a \in DELS : CliDel(a)
  BY <1>0, <1>3, CliDelKeeps
<1>4. CASE \E b \in DOWNS : InterfaceDown(b) \/ InterfaceUp(b)
  BY <1>0, <1>4, InterfaceDownKeeps, InterfaceUpKeeps
<1>5. CASE \E c \in PARAM_CHANGES : SetParameter(c[1], c[2])
  BY <1>5, SetParameterKeeps
<1>6. "2G" \in Bands
  BY DEF Bands
<1>7. QED
  BY <1>1, <1>2, <1>3, <1>4, <1>5, <1>6 DEF Driver

-----------------------------------------------------------------------------
(* The daemon's handlers.                                                  *)

\* What a handler has to keep, once it is known what it does to the table.
LEMMA HandlerKeeps ==
  ASSUME IInv, NEW action, Receive(action), ctl' \in CtlType, Sound(table'),
         ~table'.stale => Indexed(table')
  PROVE  IInv'
<1>1. NlType' /\ drv' = drv /\ pc' = pc
  BY ReceiveFacts DEF IInv
<1>2. QED
  BY <1>1 DEF IInv, TypeInv, IndexInv

\* A handler that leaves the table alone.
LEMMA OtherKeeps ==
  ASSUME IInv, NEW action, Receive(action), ctl' \in CtlType, table' = table
  PROVE  IInv'
<1>1. Sound(table')
  BY DEF IInv, TypeInv
<1>2. ~table'.stale => Indexed(table')
  BY DEF IInv, IndexInv
<1>3. QED
  BY <1>1, <1>2, HandlerKeeps

\* The daemon learns the state of an interface.
LEMMA InfStatusKeeps ==
  ASSUME IInv, InfStatusRsp
  PROVE  IInv'
<1>0. ctl \in CtlType /\ table' = table
  BY DEF IInv, TypeInv, InfStatusRsp
<1>1. CASE /\ Receive("INF_STATUS_RSP")
           /\ ctl' = [ctl EXCEPT !.status_queried = TRUE, !.dbdc_mode = FALSE,
                     !.InfReady = (@ \ {Head(nl).Band}) \cup Head(nl).Ready]
  <2>1. Head(nl).Ready \subseteq Bands
    BY <1>1, ReceiveFacts, MessageKinds DEF IInv
  <2>2. ctl' \in CtlType
    BY <1>0, <1>1, <2>1 DEF CtlType
  <2>3. QED
    BY <1>0, <1>1, <2>2, OtherKeeps
<1>2. CASE /\ Receive("INF_STATUS_RSP_DBDC")
           /\ ctl' = [ctl EXCEPT !.status_queried = TRUE, !.dbdc_mode = TRUE,
                     !.InfReady = Head(nl).Ready]
  <2>1. Head(nl).Ready \subseteq Bands
    BY <1>2, ReceiveFacts, MessageKinds DEF IInv
  <2>2. ctl' \in CtlType
    BY <1>0, <1>2, <2>1 DEF CtlType
  <2>3. QED
    BY <1>0, <1>2, <2>2, OtherKeeps
<1>3. QED
  BY <1>1, <1>2 DEF InfStatusRsp

\* The driver confirms that a band was switched on or off.
LEMMA OnOffKeeps ==
  ASSUME IInv, bndstrg_event_on_off
  PROVE  IInv'
<1>0. ctl \in CtlType /\ table' = table /\ Receive("BNDSTRG_ONOFF")
  BY DEF IInv, TypeInv, bndstrg_event_on_off
<1>1. PICK b \in Bands : b = Head(nl).Band
  BY <1>0, ReceiveFacts, MessageKinds DEF IInv
<1>2. PICK band \in SUBSET Bands :
        band = IF Head(nl).OnOff THEN ctl.Band \cup {b} ELSE ctl.Band \ {b}
  BY <1>0 DEF CtlType
<1>3. PICK ready \in SUBSET Bands :
        ready = IF Head(nl).OnOff THEN ctl.InfReady ELSE ctl.InfReady \ {b}
  BY <1>0 DEF CtlType
<1>4. PICK on \in BOOLEAN : on = (ctl.bEnabled \/ band = Bands)
  BY <1>0 DEF CtlType
<1>5. ctl' = [ctl EXCEPT !.Band = band, !.InfReady = ready, !.bEnabled = on]
  BY <1>0, <1>1, <1>2, <1>3, <1>4 DEF bndstrg_event_on_off, CtlType
<1>6. ctl' \in CtlType
  BY <1>0, <1>5 DEF CtlType
<1>7. QED
  BY <1>0, <1>6, OtherKeeps

\* The daemon takes a parameter.
LEMMA SetCommandKeeps ==
  ASSUME IInv, SetCommand
  PROVE  IInv'
<1>1. ctl' \in CtlType /\ table' = table /\ Receive("SET")
  BY DEF IInv, TypeInv, SetCommand
<1>2. QED
  BY <1>1, OtherKeeps

\* A frame of client a: its entry is found or made, and updated.
LEMMA ConnReqKeeps ==
  ASSUME IInv, bndstrg_check_conn_req
  PROVE  IInv' /\ Keeps(table, table')
<1>0. ctl' \in CtlType /\ Receive("CONNECTION_REQ") /\ Sound(table) /\
     table \in TableType
  BY DEF IInv, TypeInv, bndstrg_check_conn_req, Sound
<1>1. PICK a \in ADDRS : a = Head(nl).Addr
  BY <1>0, ReceiveFacts, MessageKinds DEF IInv
<1>2. PICK f \in FrameType : f = Head(nl).Frame
  BY <1>0, ReceiveFacts, MessageKinds DEF IInv
<1>3. PICK found : found = bndstrg_table_lookup(table, a)
  OBVIOUS
<1>4. found \in Slots \cup {NULL, LOOP}
  BY <1>0, <1>3, LookupType
<1>5. PICK t :
     t = IF found = NULL THEN bndstrg_insert_entry(table, a) ELSE table
  OBVIOUS
<1>6. PICK entry : entry = IF found # NULL THEN found
                           ELSE IF table.Size < MAX_TABLE_SIZE THEN
                                Vacancy(table) ELSE NULL
  OBVIOUS
<1>7. table' = CASE ~ctl.bEnabled -> table
                 [] ctl.bEnabled /\ found = LOOP -> [table EXCEPT !.hung = TRUE]
                 [] ctl.bEnabled /\ found # LOOP /\ entry = NULL -> t
                 [] ctl.bEnabled /\ found # LOOP /\ entry # NULL ->
                      [t EXCEPT !.Entry[entry] = UpdateEntry(@, f)]
  BY <1>1, <1>2, <1>3, <1>5, <1>6 DEF bndstrg_check_conn_req
<1>8. /\ Sound(t) /\ Keeps(table, t) /\ t.stale = table.stale
      /\ ~t.stale => Indexed(t)
      /\ entry \in Slots \cup {NULL, LOOP} /\ (found # LOOP => entry # LOOP)
  <2>1. CASE found = NULL
    <3>1. PICK w : w = bndstrg_insert_entry(table, a)
      OBVIOUS
    <3>2. t = w
      BY <1>5, <2>1, <3>1
    <3>3. /\ Sound(w) /\ Valid(table) \subseteq Valid(w) /\ w.stale = table.stale
          /\ \A j \in Valid(table) : w.Entry[j].Addr = table.Entry[j].Addr
          /\ table.Size < MAX_TABLE_SIZE => Vacancy(table) \in Slots
      BY <1>0, <3>1, InsertSound
    <3>4. entry \in Slots \cup {NULL}
      BY <1>6, <2>1, <3>3
    <3>5. ASSUME ~w.stale PROVE Indexed(w)
      <4>1. Indexed(table)
        BY <3>3, <3>5 DEF IInv, IndexInv
      <4>2. found \notin Valid(table)
        BY <2>1, SlotFacts DEF Valid
      <4>3. \A i \in Valid(table) : table.Entry[i].Addr # a
        BY <1>0, <1>3, <4>1, <4>2, LookupFinds
      <4>4. QED
        BY <1>0, <3>1, <4>1, <4>3, InsertIndexed
    <3>6. entry # LOOP
      BY <3>4, SlotFacts
    <3>7. QED
      BY <3>2, <3>3, <3>4, <3>5, <3>6 DEF Keeps
  <2>2. CASE found # NULL
    BY <1>0, <1>4, <1>5, <1>6, <2>2 DEF Keeps, IInv, IndexInv
  <2>3. QED
    BY <2>1, <2>2
<1>9. CASE ~ctl.bEnabled
  <2>1. table' = table
    BY <1>7, <1>9
  <2>2. Keeps(table, table')
    BY <2>1 DEF Keeps
  <2>3. QED
    BY <1>0, <2>1, <2>2, OtherKeeps
<1>10. CASE ctl.bEnabled /\ found = LOOP
  <2>1. table' = [table EXCEPT !.hung = TRUE]
    BY <1>7, <1>10
  <2>2. /\ Sound(table') /\ Valid(table') = Valid(table)
        /\ table'.stale = table.stale
    BY <1>0, <2>1, HangSound
  <2>3. table'.Entry = table.Entry
    BY <1>0, <2>1 DEF TableType
  <2>4. ASSUME ~table'.stale PROVE FALSE
    <3>1. Indexed(table)
      BY <2>2, <2>4 DEF IInv, IndexInv
    <3>2. found = NULL \/ found \in Valid(table)
      BY <1>0, <1>3, <3>1, LookupFinds
    <3>3. QED
      BY <1>10, <3>2, SlotFacts DEF Valid
  <2>5. Keeps(table, table')
    BY <2>2, <2>3 DEF Keeps
  <2>6. IInv'
    BY <1>0, <2>2, <2>4, HandlerKeeps
  <2>7. QED
    BY <2>5, <2>6
<1>11. CASE ctl.bEnabled /\ found # LOOP /\ entry = NULL
  <2>1. table' = t
    BY <1>7, <1>11
  <2>2. Sound(table') /\ Keeps(table, table') /\
       (~table'.stale => Indexed(table'))
    BY <1>8, <2>1
  <2>3. IInv'
    BY <1>0, <2>2, HandlerKeeps
  <2>4. QED
    BY <2>2, <2>3
<1>12. CASE ctl.bEnabled /\ found # LOOP /\ entry # NULL
  <2>0. t \in TableType
    BY <1>8 DEF Sound
  <2>1. entry \in Slots
    BY <1>8, <1>12
  <2>2. PICK d : d = UpdateEntry(t.Entry[entry], f)
    OBVIOUS
  <2>3. SameOwner(t.Entry[entry], d)
    <3>1. t.Entry[entry] \in EntryType
      BY <2>0, <2>1 DEF TableType
    <3>2. QED
      BY <2>2, <3>1, UpdateKeeps
  <2>4. table' = [t EXCEPT !.Entry[entry] = d]
    BY <1>7, <1>12, <2>0, <2>1, <2>2 DEF TableType
  <2>5. Alike(t, table')
    BY <2>0, <2>1, <2>3, <2>4, RewriteOne
  <2>6. /\ Valid(table') = Valid(t)
        /\ Sound(t) => Sound(table')
        /\ \A i \in Slots : table'.Entry[i].Addr = t.Entry[i].Addr
        /\ Indexed(t) => Indexed(table')
        /\ table'.stale = t.stale
    BY <2>0, <2>5, AlikeKeeps
  <2>7. Keeps(table, table')
    <3>1. Valid(table) \subseteq Slots
      BY DEF Valid
    <3>2. QED
      BY <1>8, <2>6, <3>1 DEF Keeps
  <2>8. Sound(table') /\ (~table'.stale => Indexed(table'))
    BY <1>8, <2>6
  <2>9. IInv'
    BY <1>0, <2>8, HandlerKeeps
  <2>10. QED
    BY <2>7, <2>9
<1>13. QED
  BY <1>9, <1>10, <1>11, <1>12

\* An entry that is taken out belongs to the address of the message, and no stale
\* answer came before.
Loses ==
  /\ ~table.stale
  /\ \A j \in Valid(table) \ Valid(table') :
       Head(nl).Addr \in ADDRS /\ table.Entry[j].Addr = Head(nl).Addr

\* The answer of a band to an aging request; the second one deletes the entry.
LEMMA AgingRspKeeps ==
  ASSUME IInv, CliAgingRsp
  PROVE  IInv' /\ (~table'.stale => Loses)
<1>0. ctl' \in CtlType /\ Receive("CLI_AGING_RSP") /\ Sound(table) /\
     table \in TableType
  BY DEF IInv, TypeInv, CliAgingRsp, Sound
<1>1. Head(nl) \in AgingMessages
  BY <1>0, ReceiveFacts, MessageKinds DEF IInv
<1>2. PICK i \in Slots, a \in ADDRS, b \in Bands :
        i = Head(nl).Index /\ a = Head(nl).Addr /\ b = Head(nl).Band
  BY <1>1 DEF AgingMessages
<1>3. PICK d : d = [table.Entry[i] EXCEPT !.AgingConfirmed = @ \cup {b}]
  OBVIOUS
<1>4. SameOwner(table.Entry[i], d)
  <2>1. table.Entry[i] \in EntryType
    BY <1>0 DEF TableType
  <2>2. QED
    BY <1>3, <2>1 DEF SameOwner, EntryType
<1>5. PICK t : t = [table EXCEPT !.Entry[i] = d]
  OBVIOUS
<1>6. t = [table EXCEPT !.Entry[i].AgingConfirmed = @ \cup {b}]
  BY <1>0, <1>3, <1>5 DEF TableType
<1>7. table' = table \/ table' = t \/ table' = bndstrg_delete_entry(t, a, i)
  BY <1>2, <1>6 DEF CliAgingRsp
<1>8. Alike(table, t)
  BY <1>0, <1>4, <1>5, RewriteOne
<1>9. /\ Valid(t) = Valid(table) /\ Sound(t)
      /\ \A j \in Slots : t.Entry[j].Addr = table.Entry[j].Addr
      /\ Indexed(table) => Indexed(t)
      /\ t.stale = table.stale
  BY <1>0, <1>8, AlikeKeeps
<1>10. CASE table' = table
  <2>1. IInv'
    BY <1>0, <1>10, OtherKeeps
  <2>2. QED
    BY <1>10, <2>1 DEF Loses
<1>11. CASE table' = t
  <2>1. Sound(table') /\ Keeps(table, table') /\
       (~table'.stale => Indexed(table'))
    BY <1>0, <1>8, <1>11, AlikeTable DEF IInv, IndexInv
  <2>2. IInv'
    BY <1>0, <2>1, HandlerKeeps
  <2>3. QED
    BY <2>1, <2>2 DEF Loses, Keeps
<1>12. CASE table' = bndstrg_delete_entry(t, a, i)
  <2>1. Meant(t, a, i) = i
    BY SlotFacts DEF Meant, Slots
  <2>2. /\ Sound(table') /\ i \notin Valid(table') /\
             Valid(table) \ {i} \subseteq Valid(table')
        /\ \A j \in Valid(table) \ {i} :
             table'.Entry[j].Addr = table.Entry[j].Addr
        /\ ~table'.stale => ~t.stale /\ (i \in Valid(t) => t.Entry[i].Addr = a)
    <3>1. /\ Sound(table') /\ i \notin Valid(table') /\
               Valid(t) \ {i} \subseteq Valid(table')
          /\ \A j \in Valid(t) \ {i} : table'.Entry[j].Addr = t.Entry[j].Addr
          /\ ~table'.stale => ~t.stale /\ (i \in Valid(t) => t.Entry[i].Addr = a)
      BY <1>9, <1>12, <2>1, DeleteSound
    <3>2. Valid(t) \subseteq Slots
      BY DEF Valid
    <3>3. QED
      BY <1>9, <3>1, <3>2
  <2>3. ASSUME ~table'.stale PROVE Indexed(table')
    <3>1. Indexed(t)
      BY <1>9, <2>2, <2>3 DEF IInv, IndexInv
    <3>2. i # LOOP
      BY SlotFacts
    <3>3. i \in Valid(t) => t.Entry[i].Addr = a
      BY <2>2, <2>3
    <3>4. QED
      BY <1>9, <1>12, <2>1, <3>1, <3>2, <3>3, DeleteIndexed
  <2>4. IInv'
    BY <1>0, <2>2, <2>3, HandlerKeeps
  <2>5. ~table'.stale => Loses
    BY <1>2, <1>9, <2>2 DEF Loses
  <2>6. QED
    BY <2>4, <2>5
<1>13. QED
  BY <1>7, <1>10, <1>11, <1>12

\* A deletion by address.
LEMMA CliDeleteKeeps ==
  ASSUME IInv, CliDelete
  PROVE  IInv' /\ (~table'.stale => Loses)
<1>0. ctl' \in CtlType /\ Receive("CLI_DEL") /\ Sound(table) /\
     table \in TableType
  BY DEF IInv, TypeInv, CliDelete, Sound
<1>1. PICK a \in ADDRS : a = Head(nl).Addr /\ Head(nl).Index = MAX_TABLE_SIZE
  BY <1>0, ReceiveFacts, MessageKinds DEF IInv
<1>2. PICK x : x = MAX_TABLE_SIZE
  OBVIOUS
<1>3. table' = bndstrg_delete_entry(table, a, x)
  BY <1>1, <1>2 DEF CliDelete
<1>4. PICK e : e = Meant(table, a, x)
  OBVIOUS
<1>5. /\ Sound(table') /\ Valid(table) \ {e} \subseteq Valid(table')
      /\ ~table'.stale => ~table.stale
  BY <1>0, <1>3, <1>4, DeleteSound
<1>6. ASSUME ~table'.stale PROVE Indexed(table') /\ Loses
  <2>1. Indexed(table)
    BY <1>5, <1>6 DEF IInv, IndexInv
  <2>2. e # LOOP /\ (e \in Valid(table) => table.Entry[e].Addr = a)
    BY <1>0, <1>2, <1>4, <2>1, MeantByAddress
  <2>3. Indexed(table')
    BY <1>0, <1>3, <1>4, <2>1, <2>2, DeleteIndexed
  <2>4. Loses
    BY <1>1, <1>5, <1>6, <2>2 DEF Loses
  <2>5. QED
    BY <2>3, <2>4
<1>7. IInv'
  BY <1>0, <1>5, <1>6, HandlerKeeps
<1>8. QED
  BY <1>6, <1>7

-----------------------------------------------------------------------------
(* bndstrg_periodic_exec, the end of the daemon, and time.                 *)

\* The timer asks for the state of an interface that is not ready,
LEMMA QueryKeeps ==
  ASSUME IInv, QueryStatus
  PROVE  IInv'
<1>0. ctl \in CtlType /\ drv \in DrvType
  BY DEF IInv, TypeInv
<1>1. PICK b \in AskFor : nl' = Push(nl, <<StatusReply(b)>>)
  BY DEF QueryStatus
<1>2. PICK m : m = StatusReply(b)
  OBVIOUS
<1>3. m \in Messages
  <2>1. b \in Bands /\ drv.up \subseteq Bands
    BY <1>0 DEF AskFor, Bands, DrvType
  <2>2. QED
    BY <1>2, <2>1 DEF StatusReply, Messages
<1>4. NlType'
  BY <1>1, <1>2, <1>3, OneMessage
<1>5. table' = table /\ drv' = drv /\ pc' = pc
  BY DEF QueryStatus
<1>6. NlType' /\ Sound(table') /\ IndexInv'
  BY <1>4, <1>5, QuietKeeps
<1>7. ctl' \in CtlType
  <2>1. ctl.status_queried_cnt \in 0 .. 3 /\ ~(ctl.status_queried_cnt >= 3)
    BY <1>0 DEF CtlType, QueryStatus, GivesUp
  <2>2. PICK c \in 0 .. 3 : c = ctl.status_queried_cnt + 1
    BY <2>1
  <2>3. ctl' = [ctl EXCEPT !.status_queried_cnt = c]
    BY <1>0, <2>2 DEF QueryStatus, CtlType
  <2>4. QED
    BY <1>0, <2>3 DEF CtlType
<1>8. QED
  BY <1>5, <1>6, <1>7 DEF IInv, TypeInv

\* switches the bands on once both are ready,
LEMMA EnableKeeps ==
  ASSUME IInv, Enable
  PROVE  IInv'
<1>0. ctl \in CtlType /\ drv \in DrvType /\ nl \in Seq(Messages)
  BY DEF IInv, TypeInv, NlType
<1>1. PICK s : s = OnReplies
  OBVIOUS
<1>2. s \in Seq(Messages)
  <2>1. PICK m \in Messages : m = OnOffReply("2G", TRUE)
    BY OnOffMessage DEF Bands
  <2>2. PICK n \in Messages : n = OnOffReply("5G", TRUE)
    BY OnOffMessage DEF Bands
  <2>3. s = (IF "2G" \in ctl.Band THEN <<>> ELSE <<m>>)
            \o (IF "5G" \in ctl.Band THEN <<>> ELSE <<n>>)
    BY <1>1, <2>1, <2>2 DEF OnReplies
  <2>4. /\ <<>> \in Seq(Messages) /\ <<m>> \in Seq(Messages)
        /\ <<n>> \in Seq(Messages)
    OBVIOUS
  <2>5. PICK x \in Seq(Messages) : x = IF "2G" \in ctl.Band THEN <<>> ELSE <<m>>
    BY <2>4
  <2>6. PICK y \in Seq(Messages) : y = IF "5G" \in ctl.Band THEN <<>> ELSE <<n>>
    BY <2>4
  <2>7. QED
    BY <2>3, <2>5, <2>6, ConcatProperties
<1>3. nl' = Push(nl, s)
  BY <1>1 DEF Enable
<1>4. NlType'
  BY <1>0, <1>2, <1>3, PushFacts DEF NlType
<1>5. table' = table /\ pc' = pc
  BY DEF Enable
<1>6. NlType' /\ Sound(table') /\ IndexInv'
  BY <1>4, <1>5, QuietKeeps
<1>7. ctl' \in CtlType
  <2>1. ctl.table_enable_cnt \in 0 .. 3 /\ ~(ctl.table_enable_cnt >= 3)
    BY <1>0 DEF CtlType, Enable, GivesUp
  <2>2. PICK c \in 0 .. 3 : c = ctl.table_enable_cnt + 1
    BY <2>1
  <2>3. ctl' = [ctl EXCEPT !.table_enable_cnt = c]
    BY <1>0, <2>2 DEF Enable, CtlType
  <2>4. QED
    BY <1>0, <2>3 DEF CtlType
<1>8. drv' \in DrvType
  BY <1>0 DEF Enable, DrvType
<1>9. QED
  BY <1>5, <1>6, <1>7, <1>8 DEF IInv, TypeInv

\* or gives up after the third attempt.
LEMMA GiveUpKeeps ==
  ASSUME IInv, GiveUp
  PROVE  IInv'
BY DEF IInv, TypeInv, IndexInv, NlType, GiveUp

\* A run of bndstrg_periodic_exec decides for the young entries and asks the
\* driver about the aged ones.
LEMMA DecideKeepsAll ==
  ASSUME IInv, DecideAll
  PROVE  IInv' /\ Keeps(table, table')
<1>0. Sound(table) /\ table \in TableType /\ drv \in DrvType /\
     nl \in Seq(Messages)
  BY DEF IInv, TypeInv, NlType, Sound
<1>1. PICK E :
     E = [i \in Slots |-> IF i \in YoungSlots THEN Decide(table.Entry[i])
                                     ELSE table.Entry[i]]
  OBVIOUS
<1>2. table' = [table EXCEPT !.Entry = E]
  BY <1>0, <1>1 DEF DecideAll, TableType
<1>3. ASSUME NEW i \in Slots PROVE SameOwner(table.Entry[i], E[i])
  <2>1. table.Entry[i] \in EntryType
    BY <1>0 DEF TableType
  <2>2. SameOwner(table.Entry[i], Decide(table.Entry[i]))
    BY <2>1, DecideKeeps
  <2>3. SameOwner(table.Entry[i], table.Entry[i])
    BY <2>1 DEF SameOwner
  <2>4. QED
    BY <1>1, <2>2, <2>3
<1>4. Alike(table, table')
  <2>1. DOMAIN E = Slots /\ E = [i \in Slots |-> E[i]]
    BY <1>1
  <2>2. QED
    BY <1>0, <1>2, <1>3, <2>1, RewriteAll
<1>5. /\ Sound(table') /\ Keeps(table, table')
      /\ Indexed(table) => Indexed(table')
      /\ table'.stale = table.stale
  BY <1>0, <1>4, AlikeTable
<1>6. AgingReplies \in Seq(AgingMessages)
  BY <1>0, AgingRun
<1>7. PICK s : s = AgingReplies
  OBVIOUS
<1>8. nl' = Push(nl, s)
  BY <1>7 DEF DecideAll
<1>9. NlType'
  <2>1. AgingMessages \subseteq Messages
    BY DEF AgingMessages, Messages
  <2>2. s \in Seq(AgingMessages)
    BY <1>6, <1>7
  <2>3. s \in Seq(Messages)
    BY <2>1, <2>2
  <2>4. nl' \in Seq(Messages) /\ Len(nl') <= NL_MAX
    BY <1>0, <1>8, <2>3, PushFacts
  <2>5. QED
    BY <2>4 DEF NlType
<1>10. drv' \in DrvType
  <2>1. \A i \in Valid(table) : table.Entry[i].Addr \in ADDRS
    BY <1>0 DEF Sound
  <2>2. ASSUME NEW b \in Bands PROVE AddrsOf(Granted(b)) \subseteq ADDRS
    <3>1. Granted(b) \subseteq Valid(table)
      BY DEF Granted, YoungSlots
    <3>2. QED
      BY <2>1, <3>1 DEF AddrsOf
  <2>3. PICK A : A = [b \in Bands |-> (drv.acc[b] \cup AddrsOf(Granted(b)))
                                      \ AddrsOf(Withdrawn(b) \cup Forgotten(b))]
    OBVIOUS
  <2>4. A \in [Bands -> SUBSET ADDRS]
    <3>1. \A b \in Bands : drv.acc[b] \subseteq ADDRS
      BY <1>0 DEF DrvType
    <3>2. QED
      BY <2>2, <2>3, <3>1
  <2>5. drv' = [drv EXCEPT !.acc = A]
    BY <1>0, <2>3 DEF DecideAll, DrvType
  <2>6. QED
    BY <1>0, <2>4, <2>5 DEF DrvType
<1>11. ctl' = ctl /\ pc' = pc
  BY DEF DecideAll
<1>12. IInv'
  BY <1>5, <1>9, <1>10, <1>11 DEF IInv, TypeInv, IndexInv
<1>13. QED
  BY <1>5, <1>12

\* The daemon is told to end, and ends.
LEMMA EndKeeps ==
  ASSUME IInv, bndstrg_terminate \/ bndstrg_run_end
  PROVE  IInv'
<1>1. drv' \in DrvType /\ pc' \in {"running", "stopping", "exited"}
  BY DEF IInv, TypeInv, DrvType, bndstrg_terminate, bndstrg_run_end
<1>2. UNCHANGED <<table, ctl, nl>>
  BY DEF bndstrg_terminate, bndstrg_run_end
<1>3. QED
  BY <1>1, <1>2 DEF IInv, TypeInv, IndexInv, NlType

\* Time passes: the entries grow older and stay where they are.
LEMMA TickKeeps ==
  ASSUME IInv, Tick
  PROVE  IInv' /\ Keeps(table, table')
<1>0. Sound(table) /\ table \in TableType
  BY DEF IInv, TypeInv, Sound
<1>1. PICK E :
     E = [i \in Slots |-> IF i \in Valid(table) THEN Older(table.Entry[i])
                                     ELSE table.Entry[i]]
  OBVIOUS
<1>2. table' = [table EXCEPT !.Entry = E]
  BY <1>0, <1>1 DEF Tick, TableType
<1>3. ASSUME NEW i \in Slots PROVE SameOwner(table.Entry[i], E[i])
  <2>1. table.Entry[i] \in EntryType
    BY <1>0 DEF TableType
  <2>2. SameOwner(table.Entry[i], Older(table.Entry[i]))
    BY <2>1, OlderKeeps
  <2>3. SameOwner(table.Entry[i], table.Entry[i])
    BY <2>1 DEF SameOwner
  <2>4. QED
    BY <1>1, <2>2, <2>3
<1>4. Alike(table, table')
  <2>1. DOMAIN E = Slots /\ E = [i \in Slots |-> E[i]]
    BY <1>1
  <2>2. QED
    BY <1>0, <1>2, <1>3, <2>1, RewriteAll
<1>5. /\ Sound(table') /\ Keeps(table, table')
      /\ Indexed(table) => Indexed(table')
      /\ table'.stale = table.stale
  BY <1>0, <1>4, AlikeTable
<1>6. ctl' = ctl /\ nl' = nl /\ drv' = drv /\ pc' = pc
  BY DEF Tick
<1>7. IInv'
  BY <1>5, <1>6 DEF IInv, TypeInv, IndexInv, NlType
<1>8. QED
  BY <1>5, <1>7

\* Every step keeps the inductive invariant.
LEMMA StepKeeps ==
  ASSUME IInv, [Next]_vars
  PROVE  IInv'
<1>1. CASE Driver
  BY <1>1, DriverKeeps
<1>2. CASE event_handle
  BY <1>2, ConnReqKeeps, InfStatusKeeps, OnOffKeeps, AgingRspKeeps,
     CliDeleteKeeps,
     SetCommandKeeps DEF event_handle
<1>3. CASE bndstrg_periodic_exec
  BY <1>3, GiveUpKeeps, QueryKeeps, EnableKeeps, DecideKeepsAll
     DEF bndstrg_periodic_exec
<1>4. CASE bndstrg_terminate \/ bndstrg_run_end
  BY <1>4, EndKeeps
<1>5. CASE Tick
  BY <1>5, TickKeeps
<1>6. CASE UNCHANGED vars
  BY <1>6 DEF vars, IInv, TypeInv, IndexInv, NlType
<1>7. QED
  BY <1>1, <1>2, <1>3, <1>4, <1>5, <1>6 DEF Next, Daemon

\* A step takes out only the entry of the client its message names, if no answer
\* is stale.
LEMMA StepLoses ==
  ASSUME IInv, [Next]_vars, ~table'.stale
  PROVE  Loses
<1>1. CASE table' = table
  BY <1>1 DEF Loses
<1>2. CASE Keeps(table, table')
  BY <1>2 DEF Loses, Keeps
<1>3. CASE Driver
  <2>1. table' = table
    BY <1>3
       DEF Driver, ClientFrame, Associate, Disassociate, CliDel, InterfaceDown,
                InterfaceUp, SetParameter
  <2>2. QED
    BY <1>1, <2>1
<1>4. CASE event_handle
  <2>1. CASE bndstrg_check_conn_req
    BY <1>2, <2>1, ConnReqKeeps
  <2>2. CASE CliAgingRsp \/ CliDelete
    BY <2>2, AgingRspKeeps, CliDeleteKeeps
  <2>3. CASE InfStatusRsp \/ bndstrg_event_on_off \/ SetCommand
    BY <1>1, <2>3 DEF InfStatusRsp, bndstrg_event_on_off, SetCommand
  <2>4. QED
    BY <1>4, <2>1, <2>2, <2>3 DEF event_handle
<1>5. CASE bndstrg_periodic_exec
  <2>1. CASE DecideAll
    BY <1>2, <2>1, DecideKeepsAll
  <2>2. CASE GiveUp \/ QueryStatus \/ Enable
    BY <1>1, <2>2 DEF GiveUp, QueryStatus, Enable
  <2>3. QED
    BY <1>5, <2>1, <2>2 DEF bndstrg_periodic_exec
<1>6. CASE bndstrg_terminate \/ bndstrg_run_end
  BY <1>1, <1>6 DEF bndstrg_terminate, bndstrg_run_end
<1>7. CASE Tick
  BY <1>2, <1>7, TickKeeps
<1>8. CASE UNCHANGED vars
  BY <1>1, <1>8 DEF vars
<1>9. QED
  BY <1>3, <1>4, <1>5, <1>6, <1>7, <1>8 DEF Next, Daemon

-----------------------------------------------------------------------------
(* The theorems.                                                           *)

\* The inductive invariant holds in every reachable state.
THEOREM SteeringInvariant == Spec => []IInv
<1>1. Init => IInv
  BY InitKeeps
<1>2. IInv /\ [Next]_vars => IInv'
  BY StepKeeps
<1>3. QED
  BY <1>1, <1>2, PTL DEF Spec

\* Entries, links, counters and messages stay within their types, whatever the
\* driver answers and in whatever order: no link leads out of the array, no
\* counter past the limit where bndstrg_periodic_exec gives up.
THEOREM TypeCorrect == Spec => []TypeOK
<1>1. ASSUME IInv PROVE TypeOK
  <2>0. Sound(table) /\ table \in TableType /\ ctl \in CtlType /\ NlType
        /\ pc \in {"running", "stopping", "exited"}
    BY <1>1 DEF IInv, TypeInv, Sound
  <2>1. ASSUME NEW i \in Slots
        PROVE  EntryOK(table.Entry[i]) /\ table.pNext[i] \in Slots \cup {NULL}
    <3>1. table.Entry[i] \in EntryType /\ table.pNext[i] \in Slots \cup {NULL}
      BY <2>0 DEF TableType, Links
    <3>2. table.Entry[i].bValid => table.Entry[i].Addr \in ADDRS
      BY <2>0 DEF Sound, Valid
    <3>3. /\ table.Entry[i].AgingConfirmed \subseteq Bands
          /\ table.Entry[i].Control_Flags \subseteq Flags
          /\ table.Entry[i].elapsed \in 0 .. PARAMS.AgeTime
          /\ \A b \in Bands :
               table.Entry[i].AuthReqCount[b] \in 0 .. 2 * AUTH_WRAP - 1
      BY <3>1 DEF EntryType, Ages, Counts
    <3>4. QED
      BY <3>1, <3>2, <3>3 DEF EntryOK
  <2>2. \A h \in Buckets : table.Hash[h] \in Slots \cup {NULL}
    BY <2>0 DEF TableType, Links
  <2>3. table.Size \in 0 .. MAX_TABLE_SIZE
    BY <2>0, ValidFacts DEF Sound
  <2>4. /\ ctl.Band \subseteq Bands /\ ctl.InfReady \subseteq Bands
        /\ ctl.status_queried_cnt \in 0 .. 3 /\ ctl.table_enable_cnt \in 0 .. 3
    BY <2>0 DEF CtlType
  <2>5. Len(nl) <= NL_MAX /\ \A k \in DOMAIN nl : nl[k] \in Messages
    BY <2>0 DEF NlType
  <2>6. {table.hung, table.stale} \subseteq BOOLEAN
    BY <2>0 DEF TableType
  <2>7. QED
    BY <2>0, <2>1, <2>2, <2>3, <2>4, <2>5, <2>6 DEF TypeOK
<1>2. QED
  BY <1>1, SteeringInvariant, PTL

\* Size is the number of valid entries, also on chains that a stale answer has
\* broken: bndstrg_insert_entry finds a vacancy whenever Size says there is one.
THEOREM SizeCorrect == Spec => []SizeCountsValid
<1>1. IInv => SizeCountsValid
  BY DEF IInv, TypeInv, Sound, SizeCountsValid
<1>2. QED
  BY <1>1, SteeringInvariant, PTL

\* A stale answer is the only thing that breaks a chain of bndstrg_table_lookup:
\* until one has removed an entry of another client, whatever else happens in
\* whatever order, each chain holds the entries of its bucket and ends, and no
\* client has two entries.
THEOREM ChainsCorrect == Spec => []ChainsIndexTable
<1>1. ASSUME IInv, ~table.stale
      PROVE  /\ \A h \in Buckets :
                  /\ OnChain(table, h) =
                       {i \in Valid(table) : HASH[table.Entry[i].Addr] = h}
                  /\ Walk(table, h)[MAX_TABLE_SIZE] = NULL
             /\ \A i, j \in Valid(table) :
                  table.Entry[i].Addr = table.Entry[j].Addr => i = j
             /\ ~table.hung
  <2>0. Indexed(table) /\ table \in TableType
    BY <1>1 DEF IInv, IndexInv, TypeInv, Sound
  <2>1. ASSUME NEW h \in Buckets
        PROVE  /\ OnChain(table, h) = {i \in Valid(table) :
                    HASH[table.Entry[i].Addr] = h}
               /\ Walk(table, h)[MAX_TABLE_SIZE] = NULL
    <3>1. PICK f, n : Path(table, h, f, n) /\ Members(f, n) = Bucket(table, h)
      BY <2>0 DEF Indexed, ChainHolds
    <3>2. OnChain(table, h) = Members(f, n) /\
         Walk(table, h)[MAX_TABLE_SIZE] = NULL
      BY <2>0, <3>1, PathOnChain
    <3>3. QED
      BY <3>1, <3>2 DEF Bucket
  <2>2. QED
    BY <2>0, <2>1 DEF Indexed
<1>2. IInv => ChainsIndexTable
  BY <1>1 DEF ChainsIndexTable
<1>3. QED
  BY <1>2, SteeringInvariant, PTL

\* Up to the first stale answer bndstrg_delete_entry finds every entry it deletes
\* on the chain it searches, by index or by address and however late the message
\* that asks for it is read.
THEOREM DeleteCorrect == Spec => DeleteFindsEntry
<1>1. ASSUME IInv, [Next]_vars, ~table'.stale
      PROVE  \A i \in Valid(table) \ Valid(table') :
             i \in OnChain(table, HASH[Head(nl).Addr])
  <2> SUFFICES ASSUME NEW i \in Valid(table) \ Valid(table')
               PROVE  i \in OnChain(table, HASH[Head(nl).Addr])
    OBVIOUS
  <2>0. Indexed(table) /\ table \in TableType
    <3>1. ~table.stale
      BY <1>1, StepLoses DEF Loses
    <3>2. QED
      BY <1>1, <3>1 DEF IInv, IndexInv, TypeInv, Sound
  <2>1. PICK a \in ADDRS : a = Head(nl).Addr /\ table.Entry[i].Addr = a
    BY <1>1, StepLoses DEF Loses
  <2>2. PICK h \in Buckets : h = HASH[a]
    BY ConstantFacts
  <2>3. PICK f, n : Path(table, h, f, n) /\ Members(f, n) = Bucket(table, h)
    BY <2>0 DEF Indexed, ChainHolds
  <2>4. OnChain(table, h) = Bucket(table, h)
    BY <2>0, <2>3, PathOnChain
  <2>5. QED
    BY <2>1, <2>2, <2>4 DEF Bucket
<1>2. QED
  BY <1>1, SteeringInvariant, PTL DEF DeleteFindsEntry, Spec
=============================================================================
