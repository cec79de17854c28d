-------------------------- MODULE IappTable_proofs --------------------------
(***************************************************************************)
(* The 802.11r client table: what its functions keep, for any number of    *)
(* entries, any stations and any hash, and what follows for the table of   *)
(* one daemon under any sequence of arrivals and moves.  Iapp_proofs uses  *)
(* the same facts for the tables of all daemons.                           *)
(*                                                                         *)
(* The size alone is not inductive.  A deletion counts down for the entry  *)
(* the look-up returns, so that entry must be in use; and that follows from*)
(* its address, because an entry that is not in use has none.              *)
(*                                                                         *)
(* That a look-up finds its station is a fact about walks.  A walk is a    *)
(* function defined by recursion; what it visits is established with least *)
(* counterexamples over sets of numbers (MinExists, UpTo).  Deleted        *)
(* entries keep their next pointers, so chains can share entries, run into *)
(* each other and go round.  The invariant TableInv says what survives:    *)
(* every entry in use is reached from the head of the chain of its own     *)
(* address.                                                                *)
(***************************************************************************)
EXTENDS IappClients, FiniteSetTheorems, WellFoundedInduction, TLAPS

\* The links of a chain, an entry and the table.
Links == Slots \cup {NULL}

EntryType == [used : BOOLEAN, sta_mac : STAS \cup {NoSta}, if_idx : Int,
              next : Links]

TableType == [ft_sta_info : [Slots -> EntryType], hash : [Buckets -> Links],
              ft_sta_table_size : Int, hung : BOOLEAN]

\* Entries in use are the ones with an address
UsedHasAddress(t) ==
  \A i \in Slots : t.ft_sta_info[i].used <=> t.ft_sta_info[i].sta_mac # NoSta

\* The size counts the entries in use.
SizeIsUsed(t) == t.ft_sta_table_size = Cardinality(Used(t))

\* What every function of the table keeps.
TableOK(t) == t \in TableType /\ UsedHasAddress(t) /\ SizeIsUsed(t)

-----------------------------------------------------------------------------
(* Least elements and slots.                                               *)

\* The least of a set of natural numbers exists.
LEMMA MinExists ==
  ASSUME NEW S, S \subseteq Nat, S # {}
  PROVE  Min(S) \in S /\ \A n \in S : Min(S) <= n
<1> DEFINE R == OpToRel(<, Nat)
<1>1. IsWellFoundedOn(R, Nat)
  BY NatLessThanWellFounded
<1>2. R = {ss \in Nat \X Nat : ss[1] < ss[2]}
  BY Zenon DEF OpToRel
<1>3. \A x, y \in Nat : x < y => <<x, y>> \in R
  BY <1>2
<1> HIDE DEF R
<1>4. PICK m \in S : \A y \in S : ~(<<y, m>> \in R)
  BY <1>1, WFMin
<1>5. ASSUME NEW y \in S PROVE m <= y
  <2>1. y \in Nat /\ m \in Nat
    OBVIOUS
  <2>2. ~(y < m)
    BY <2>1, <1>3, <1>4
  <2>3. QED
    BY <2>1, <2>2
<1>6. QED
  BY <1>5 DEF Min

\* Induction up to M, for a set in place of a predicate.
LEMMA UpTo ==
  ASSUME NEW M \in Nat, NEW S, 0 \in S,
         \A n \in 0 .. M - 1 : n \in S => n + 1 \in S
  PROVE  0 .. M \subseteq S
<1> DEFINE B == (0 .. M) \ S
<1> SUFFICES ASSUME B # {} PROVE FALSE
  OBVIOUS
<1>1. Min(B) \in B /\ \A m \in B : Min(B) <= m
  BY MinExists
<1>2. PICK n \in B : \A m \in B : n <= m
  BY <1>1
<1>3. n - 1 \in 0 .. M - 1 /\ n - 1 \in S
  BY <1>2
<1>4. QED
  BY <1>2, <1>3

\* The slots are finitely many numbers, none of which is a link of its own kind.
LEMMA SlotFacts ==
  /\ Slots \subseteq Nat /\ IsFiniteSet(Slots)
  /\ Cardinality(Slots) = MAX_NUM_OF_CLIENT
  /\ NULL \notin Slots /\ LOOP \notin Slots /\ LOOP # NULL
<1>1. 0 \in Int /\ MAX_NUM_OF_CLIENT - 1 \in Int
  BY TableAssumption
<1>2. QED
  BY <1>1, TableAssumption, FS_Interval DEF Slots, NULL, LOOP

\* The link a walk follows from j.
Step(t, j) == IF j = NULL THEN NULL ELSE t.ft_sta_info[j].next

\* Following a link, or the end of a chain, yields a link.
LEMMA StepLinks ==
  ASSUME NEW t \in TableType, NEW j \in Links
  PROVE  Step(t, j) \in Links
BY DEF Step, Links, TableType, EntryType

\* The walk of a chain: it starts at the head and follows next.  Its recursive
\* definition has a solution, built up one place at a time.
LEMMA WalkSteps ==
  ASSUME NEW t \in TableType, NEW h \in Buckets
  PROVE  /\ Walk(t, h) \in [0 .. MAX_NUM_OF_CLIENT -> Links]
         /\ Walk(t, h)[0] = t.hash[h]
         /\ \A k \in 1 .. MAX_NUM_OF_CLIENT :
              Walk(t, h)[k] = Step(t, Walk(t, h)[k - 1])
<1> DEFINE M == MAX_NUM_OF_CLIENT
           W == [0 .. M -> Links]
           Good(f, n) ==
                f[0] = t.hash[h] /\ \A k \in 1 .. n : f[k] = Step(t, f[k - 1])
           S == {n \in 0 .. M : \E f \in W : Good(f, n)}
<1>0. M \in Nat /\ t.hash[h] \in Links
  BY TableAssumption DEF TableType
<1> HIDE DEF M
<1>1. 0 \in S
  <2> DEFINE g == [k \in 0 .. M |-> t.hash[h]]
  <2>1. g \in W
    BY <1>0
  <2>2. Good(g, 0)
    BY <1>0
  <2> HIDE DEF g
  <2>3. QED
    BY <1>0, <2>1, <2>2
<1>2. ASSUME NEW n \in 0 .. M - 1, n \in S
      PROVE  n + 1 \in S
  <2>1. PICK f \in W : Good(f, n)
    BY <1>2
  <2>2. n \in 0 .. M /\ n + 1 \in 0 .. M /\ f[n] \in Links
    BY <1>0
  <2>3. Step(t, f[n]) \in Links
    BY <2>2, StepLinks
  <2> DEFINE g == [f EXCEPT ![n + 1] = Step(t, f[n])]
  <2>4. g \in W
    BY <2>3
  <2>5. \A k \in 0 .. n : g[k] = f[k]
    BY <1>0
  <2>6. g[n + 1] = Step(t, g[n])
    BY <1>0, <2>2
  <2> HIDE DEF g
  <2>7. \A k \in 1 .. n : g[k] = Step(t, g[k - 1])
    BY <1>0, <2>1, <2>5
  <2>8. g[0] = t.hash[h]
    BY <1>0, <2>1, <2>5
  <2>9. \A k \in 1 .. n + 1 : k \in 1 .. n \/ k = n + 1
    BY <1>0
  <2>10. (n + 1) - 1 = n
    BY <1>0
  <2>11. Good(g, n + 1)
    BY <2>6, <2>7, <2>8, <2>9, <2>10
  <2>12. QED
    BY <2>2, <2>4, <2>11
<1>3. 0 .. M \subseteq S
  <2> HIDE DEF S
  <2>1. QED
    BY <1>0, <1>1, <1>2, UpTo
<1>4. PICK f \in W : Good(f, M)
  BY <1>0, <1>3
<1> DEFINE F(at) == [k \in 0 .. M |-> IF k = 0 THEN t.hash[h]
                       ELSE IF at[k - 1] = NULL THEN
                            NULL ELSE t.ft_sta_info[at[k - 1]].next]
<1>5. f = F(f)
  <2>1. ASSUME NEW k \in 0 .. M PROVE f[k] = F(f)[k]
    <3>1. CASE k = 0
      BY <3>1, <1>4
    <3>2. CASE k # 0
      <4>1. k \in 1 .. M
        BY <1>0, <3>2
      <4>2. QED
        BY <4>1, <1>4, <3>2 DEF Step
    <3>3. QED
      BY <3>1, <3>2
  <2>2. DOMAIN f = DOMAIN F(f) /\ F(f) = [k \in DOMAIN F(f) |-> F(f)[k]]
    OBVIOUS
  <2>3. QED
    BY <2>1, <2>2
<1>6. Walk(t, h) = CHOOSE at : at = F(at)
  BY DEF Walk, M
<1>7. Walk(t, h) = F(Walk(t, h))
  <2> HIDE DEF F
  <2>1. QED
    BY <1>5, <1>6, Zenon
<1> DEFINE at == Walk(t, h)
<1> HIDE DEF at
<1>8. at = F(at)
  BY <1>7 DEF at
<1>9. DOMAIN at = 0 .. M /\ \A k \in 0 .. M : at[k] = F(at)[k]
  BY <1>8
<1>10. at[0] = t.hash[h] /\ \A k \in 1 .. M : at[k] = Step(t, at[k - 1])
  BY <1>0, <1>9 DEF Step
<1>11. \A k \in 0 .. M : at[k] \in Links
  <2> DEFINE L == {k \in 0 .. M : at[k] \in Links}
  <2>1. 0 \in L
    BY <1>0, <1>10
  <2>2. ASSUME NEW n \in 0 .. M - 1, n \in L
        PROVE  n + 1 \in L
    <3>1. n + 1 \in 1 .. M /\ (n + 1) - 1 = n /\ n + 1 \in 0 .. M
      BY <1>0
    <3>2. at[n + 1] = Step(t, at[n])
      BY <3>1, <1>10
    <3>3. QED
      BY <2>2, <3>1, <3>2, StepLinks
  <2>3. 0 .. M \subseteq L
    <3> HIDE DEF L
    <3>1. QED
      BY <1>0, <2>1, <2>2, UpTo
  <2>4. QED
    BY <2>3
<1>12. at \in W
  BY <1>8, <1>11
<1>13. QED
  BY <1>10, <1>12 DEF at, M
\* A walk that ends, ends at NULL or at a slot it looks for.
LEMMA WalkStops ==
  ASSUME NEW t, NEW h, NEW stop,
         FirstStop(t, h, stop) # LOOP
  PROVE  Walk(t, h)[FirstStop(t, h, stop)] \in stop \cup {NULL}
<1> DEFINE at == Walk(t, h)
           hits == {k \in 0 .. MAX_NUM_OF_CLIENT :
                at[k] = NULL \/ at[k] \in stop}
<1> HIDE DEF at
<1>1. hits # {} /\ FirstStop(t, h, stop) = Min(hits)
  BY DEF FirstStop, at
<1>2. hits \subseteq Nat
  BY TableAssumption
<1>3. Min(hits) \in hits
  BY <1>1, <1>2, MinExists
<1>4. QED
  BY <1>1, <1>3 DEF at

\* A look-up returns an entry with the address it was asked for, NULL or LOOP.
LEMMA LookupResult ==
  ASSUME NEW t, NEW s,
         NEW e, e = mt_iapp_ft_client_look_up(t, s)
  PROVE  e \in {NULL, LOOP} \cup {i \in Slots : t.ft_sta_info[i].sta_mac = s}
BY WalkStops DEF mt_iapp_ft_client_look_up

-----------------------------------------------------------------------------
(* The functions.                                                          *)

\* The table after mt_iapp_ft_client_table_init.
LEMMA InitTable == TableOK(mt_iapp_ft_client_table_init)
<1> DEFINE t == mt_iapp_ft_client_table_init
<1>1. t \in TableType
  BY DEF mt_iapp_ft_client_table_init, TableType, EntryType, Links
<1>2. UsedHasAddress(t)
  BY DEF mt_iapp_ft_client_table_init, UsedHasAddress
<1>3. Used(t) = {}
  BY DEF mt_iapp_ft_client_table_init, Used
<1>4. t.ft_sta_table_size = 0
  BY DEF mt_iapp_ft_client_table_init
<1>5. QED
  BY <1>1, <1>2, <1>3, <1>4, FS_EmptySet DEF TableOK, SizeIsUsed

\* A change of hash links, next links, interfaces or hung leaves the table in
\* order.
SameUse(t, u) ==
  /\ u.ft_sta_table_size = t.ft_sta_table_size
  /\ \A i \in Slots : /\ u.ft_sta_info[i].used = t.ft_sta_info[i].used
                      /\ u.ft_sta_info[i].sta_mac = t.ft_sta_info[i].sta_mac

\* A change that leaves use, addresses and size alone keeps the table.
LEMMA SameEntries ==
  ASSUME NEW t, TableOK(t), NEW u \in TableType, SameUse(t, u)
  PROVE  TableOK(u)
<1>1. Used(u) = Used(t)
  BY DEF Used, SameUse
<1>2. UsedHasAddress(u)
  BY DEF TableOK, UsedHasAddress, SameUse
<1>3. QED
  BY <1>1, <1>2 DEF TableOK, SizeIsUsed, SameUse

\* Setting a next link of a table.
LEMMA SetNext ==
  ASSUME NEW t \in TableType, NEW j, NEW l \in Links,
         NEW u, u = [t EXCEPT !.ft_sta_info[j].next = l]
  PROVE  u \in TableType /\ SameUse(t, u)
<1> DEFINE inf == [t.ft_sta_info EXCEPT ![j].next = l]
<1>1. inf \in [Slots -> EntryType]
  BY DEF TableType, EntryType
<1>2. \A i \in Slots : /\ inf[i].used = t.ft_sta_info[i].used
                       /\ inf[i].sta_mac = t.ft_sta_info[i].sta_mac
  BY DEF TableType, EntryType
<1>3. u = [t EXCEPT !.ft_sta_info = inf]
  BY DEF TableType
<1> HIDE DEF inf
<1>4. QED
  BY <1>1, <1>2, <1>3 DEF TableType, SameUse

\* Setting the head of a chain.
LEMMA SetHead ==
  ASSUME NEW t \in TableType, NEW h, NEW l \in Links,
         NEW u, u = [t EXCEPT !.hash[h] = l]
  PROVE  u \in TableType /\ SameUse(t, u)
BY DEF TableType, SameUse

\* A walk that does not end.
LEMMA SetHung ==
  ASSUME NEW t, TableOK(t),
         NEW u, u = [t EXCEPT !.hung = TRUE]
  PROVE  TableOK(u)
<1>1. u \in TableType /\ SameUse(t, u)
  BY DEF TableOK, TableType, SameUse
<1>2. QED
  BY <1>1, SameEntries

-----------------------------------------------------------------------------
(* Chains.                                                                 *)

\* C holds the head of chain h and whatever follows one of its entries.
Closed(t, h, C) ==
  /\ t.hash[h] # NULL => t.hash[h] \in C
  /\ \A j \in C : t.ft_sta_info[j].next # NULL => t.ft_sta_info[j].next \in C

\* The entries reached from the head of chain h: the least closed set.
OnChain(t, h) ==
     {i \in Slots : \A C \in SUBSET Slots : Closed(t, h, C) => i \in C}

\* The walk of a look-up along a bucket stays on its chain until it ends.
LEMMA WalkOnChain ==
  ASSUME NEW t \in TableType, NEW h \in Buckets,
         NEW k \in 0 .. MAX_NUM_OF_CLIENT
  PROVE  Walk(t, h)[k] \in OnChain(t, h) \cup {NULL}
<1> DEFINE M == MAX_NUM_OF_CLIENT
           at == Walk(t, h)
           S == {n \in 0 .. M : at[n] \in OnChain(t, h) \cup {NULL}}
<1>0. M \in Nat
  BY TableAssumption
<1>1. /\ at \in [0 .. M -> Links]
      /\ at[0] = t.hash[h]
      /\ \A n \in 1 .. M : at[n] = Step(t, at[n - 1])
  BY WalkSteps
<1> HIDE DEF M, at
<1>2. 0 \in S
  <2>1. at[0] \in Slots \cup {NULL}
    BY <1>0, <1>1 DEF Links
  <2>2. QED
    BY <1>0, <1>1, <2>1 DEF OnChain, Closed
<1>3. ASSUME NEW n \in 0 .. M - 1, n \in S PROVE n + 1 \in S
  <2>1. n + 1 \in 1 .. M /\ (n + 1) - 1 = n /\ n + 1 \in 0 .. M
    BY <1>0
  <2>2. at[n + 1] = Step(t, at[n]) /\ at[n + 1] \in Slots \cup {NULL}
    BY <1>1, <2>1 DEF Links
  <2>3. at[n + 1] \in OnChain(t, h) \cup {NULL}
    BY <1>3, <2>2 DEF OnChain, Closed, Step
  <2>4. QED
    BY <2>1, <2>3
<1>4. 0 .. M \subseteq S
  <2> HIDE DEF S
  <2>1. QED
    BY <1>0, <1>2, <1>3, UpTo
<1>5. k \in 0 .. M
  BY DEF M
<1>6. QED
  BY <1>4, <1>5 DEF at

\* The walk of a chain meets every entry of it before it ends or goes round.
LEMMA ChainWalked ==
  ASSUME NEW t \in TableType, NEW h \in Buckets, NEW i \in OnChain(t, h)
  PROVE  \E k \in 0 .. MAX_NUM_OF_CLIENT :
           /\ Walk(t, h)[k] = i
           /\ \A m \in 0 .. k : Walk(t, h)[m] # NULL
<1> DEFINE M == MAX_NUM_OF_CLIENT
           at == Walk(t, h)
           E == {k \in 0 .. M : at[k] = NULL \/ \E m \in 0 .. k - 1 :
                at[m] = at[k]}
<1>0. M \in Nat /\ Cardinality(Slots) = M /\ IsFiniteSet(Slots)
  BY TableAssumption, SlotFacts
<1>1. /\ at \in [0 .. M -> Links]
      /\ at[0] = t.hash[h]
      /\ \A n \in 1 .. M : at[n] = Step(t, at[n - 1])
  BY WalkSteps
<1> HIDE DEF M, at
<1>2. E # {}
  <2> SUFFICES ASSUME E = {} PROVE FALSE
    OBVIOUS
  <2>1. \A k \in 0 .. M : at[k] \in Slots
    BY <1>1 DEF Links
  <2>2. \A k, m \in 0 .. M : at[k] = at[m] => k = m
    <3>1. ASSUME NEW k \in 0 .. M, NEW m \in 0 .. M, at[k] = at[m], m < k PROVE
                 FALSE
      <4>1. m \in 0 .. k - 1
        BY <1>0, <3>1
      <4>2. QED
        BY <3>1, <4>1
    <3>2. QED
      BY <1>0, <3>1
  <2>3. at \in Injection(0 .. M, Slots)
    <3>1. at \in [0 .. M -> Slots]
      BY <1>1, <2>1
    <3>2. QED
      BY <2>2, <3>1 DEF Injection, IsInjective
  <2>4. Cardinality(0 .. M) <= Cardinality(Slots)
    BY <1>0, <2>3, FS_Injection
  <2>5. Cardinality(0 .. M) = M + 1
    BY <1>0, FS_Interval
  <2>6. QED
    BY <1>0, <2>4, <2>5
<1>3. E \subseteq Nat
  BY <1>0
<1>4. PICK K \in E : \A m \in E : K <= m
  BY <1>2, <1>3, MinExists
<1> DEFINE C == {at[m] : m \in 0 .. K - 1}
<1>5. \A m \in 0 .. K - 1 : m \in 0 .. M /\ m \notin E /\ at[m] # NULL
  BY <1>0, <1>4
<1>6. C \in SUBSET Slots
  BY <1>1, <1>5 DEF Links
<1>7. at[K] # NULL => at[K] \in C
  BY <1>4
<1>8. \A m \in 0 .. K - 1 : at[m + 1] # NULL => at[m + 1] \in C
  BY <1>0, <1>4, <1>7
<1>9. Closed(t, h, C)
  <2>1. t.hash[h] # NULL => t.hash[h] \in C
    <3>1. K \in Nat
      BY <1>0, <1>4
    <3>2. CASE K = 0
      BY <3>2, <1>1, <1>7
    <3>3. CASE K # 0
      <4>1. 0 \in 0 .. K - 1
        BY <3>1, <3>3
      <4>2. QED
        BY <4>1, <1>1
    <3>4. QED
      BY <3>2, <3>3
  <2>2. ASSUME NEW m \in 0 .. K - 1,
               t.ft_sta_info[at[m]].next # NULL
        PROVE  t.ft_sta_info[at[m]].next \in C
    <3>1. m + 1 \in 1 .. M /\ (m + 1) - 1 = m
      BY <1>0, <1>4
    <3>2. at[m + 1] = t.ft_sta_info[at[m]].next
      BY <1>1, <1>5, <3>1 DEF Step
    <3>3. QED
      BY <2>2, <3>2, <1>8
  <2> HIDE DEF E
  <2>3. QED
    BY <2>1, <2>2 DEF Closed
<1>10. i \in C
  BY <1>6, <1>9 DEF OnChain
<1>11. PICK k \in 0 .. K - 1 : at[k] = i
  BY <1>10
<1>12. \A m \in 0 .. k : m \in 0 .. K - 1
  BY <1>0, <1>4
<1>13. QED
  BY <1>5, <1>11, <1>12 DEF at, M

\* An entry in use is on the chain of its address.
ChainsHold(t) ==
     \A i \in Used(t) : i \in OnChain(t, HASH[t.ft_sta_info[i].sta_mac])

\* A station has one entry.
OneEntryEach(t) ==
  \A i, j \in Used(t) : t.ft_sta_info[i].sta_mac = t.ft_sta_info[j].sta_mac =>
       i = j

TableInv(t) == TableOK(t) /\ ChainsHold(t) /\ OneEntryEach(t)

\* What is on chain h of t stays on chain h of u.
KeepsChains(t, u) == \A h \in Buckets : OnChain(t, h) \subseteq OnChain(u, h)

\* An entry in use has the address of a station, which has a bucket.
LEMMA AddressBucket ==
  ASSUME NEW t, TableOK(t), NEW i \in Used(t)
  PROVE  /\ t.ft_sta_info[i].sta_mac \in STAS
         /\ HASH[t.ft_sta_info[i].sta_mac] \in Buckets
BY DEF TableOK, UsedHasAddress, TableType, EntryType, Used, Buckets

\* A station in the table is found at its entry.
LEMMA LookupFinds ==
  ASSUME NEW t, TableInv(t), NEW i \in Used(t)
  PROVE  mt_iapp_ft_client_look_up(t, t.ft_sta_info[i].sta_mac) = i
<1> DEFINE s == t.ft_sta_info[i].sta_mac
           h == HASH[s]
           at == Walk(t, h)
           stop == {j \in Slots : t.ft_sta_info[j].sta_mac = s}
           hits == {k \in 0 .. MAX_NUM_OF_CLIENT :
                at[k] = NULL \/ at[k] \in stop}
<1>1. t \in TableType /\ h \in Buckets /\ s \in STAS /\ i \in OnChain(t, h)
  BY AddressBucket DEF TableInv, TableOK, ChainsHold
<1>2. stop = {i}
  <2>1. i \in stop
    BY DEF Used
  <2>2. ASSUME NEW j \in stop PROVE j = i
    <3>1. t.ft_sta_info[j].sta_mac # NoSta
      BY <1>1, TableAssumption DEF NoSta
    <3>2. j \in Used(t)
      BY <3>1 DEF TableInv, TableOK, UsedHasAddress, Used
    <3>3. QED
      BY <3>2 DEF TableInv, OneEntryEach
  <2>3. QED
    BY <2>1, <2>2
<1>3. PICK k \in 0 .. MAX_NUM_OF_CLIENT : at[k] = i /\ \A m \in 0 .. k :
     at[m] # NULL
  BY <1>1, ChainWalked
<1> HIDE DEF stop, s, h, at
<1>4. k \in hits /\ hits \subseteq Nat
  BY <1>2, <1>3, TableAssumption
<1>5. Min(hits) \in hits /\ Min(hits) <= k
  <2> HIDE DEF hits
  <2>1. hits # {}
    BY <1>4
  <2>2. QED
    BY <1>4, <2>1, MinExists
<1>6. Min(hits) \in 0 .. k
  BY <1>4, <1>5, TableAssumption
<1>7. at[Min(hits)] = i
  BY <1>2, <1>3, <1>5, <1>6
<1>8. FirstStop(t, h, stop) = Min(hits)
  BY <1>4 DEF FirstStop, at
<1>9. Min(hits) # LOOP
  BY <1>4, <1>5 DEF LOOP
<1>10. QED
  BY <1>7, <1>8, <1>9 DEF mt_iapp_ft_client_look_up, stop, at, h, s

\* A look-up that returns NULL: the station is not in the table and the walk
\* of its chain ends.
LEMMA LookupAbsent ==
  ASSUME NEW t, TableInv(t), NEW s \in STAS, mt_iapp_ft_client_look_up(t, s) =
         NULL
  PROVE  /\ \A i \in Used(t) : t.ft_sta_info[i].sta_mac # s
         /\ \E k \in 0 .. MAX_NUM_OF_CLIENT : Walk(t, HASH[s])[k] = NULL
<1>1. \A i \in Used(t) : t.ft_sta_info[i].sta_mac # s
  BY LookupFinds, SlotFacts DEF Used
<1> DEFINE at == Walk(t, HASH[s])
           stop == {i \in Slots : t.ft_sta_info[i].sta_mac = s}
           hits == {k \in 0 .. MAX_NUM_OF_CLIENT :
                at[k] = NULL \/ at[k] \in stop}
           k == FirstStop(t, HASH[s], stop)
<1>2. k # LOOP /\ at[k] = NULL
  BY SlotFacts DEF mt_iapp_ft_client_look_up
<1>3. hits # {} /\ k = Min(hits)
  BY <1>2 DEF FirstStop
<1> HIDE DEF at, stop
<1>4. hits \subseteq Nat
  BY TableAssumption
<1>5. k \in hits
  <2> HIDE DEF hits, k
  <2>1. QED
    BY <1>3, <1>4, MinExists
<1>6. k \in 0 .. MAX_NUM_OF_CLIENT
  <2> HIDE DEF k
  <2>1. QED
    BY <1>5
<1>7. QED
  BY <1>1, <1>2, <1>6 DEF at

\* Tables with the same links.
SameLinks(t, u) ==
  u.hash = t.hash /\ \A i \in Slots :
       u.ft_sta_info[i].next = t.ft_sta_info[i].next

\* They have the same chains and the same walks.
LEMMA SameWalks ==
  ASSUME NEW t \in TableType, NEW u \in TableType, SameLinks(t, u),
         NEW h \in Buckets
  PROVE  /\ OnChain(u, h) = OnChain(t, h)
         /\ \A k \in 0 .. MAX_NUM_OF_CLIENT : Walk(u, h)[k] = Walk(t, h)[k]
<1>1. OnChain(u, h) = OnChain(t, h)
  <2>1. \A C \in SUBSET Slots : Closed(u, h, C) <=> Closed(t, h, C)
    BY DEF Closed, SameLinks
  <2>2. QED
    BY <2>1 DEF OnChain
<1> DEFINE M == MAX_NUM_OF_CLIENT
           at == Walk(t, h)
           bt == Walk(u, h)
           S == {k \in 0 .. M : bt[k] = at[k]}
<1>2. M \in Nat
  BY TableAssumption
<1>3. /\ at \in [0 .. M -> Links] /\ at[0] = t.hash[h]
      /\ \A k \in 1 .. M : at[k] = Step(t, at[k - 1])
  BY WalkSteps
<1>4. /\ bt[0] = u.hash[h]
      /\ \A k \in 1 .. M : bt[k] = Step(u, bt[k - 1])
  BY WalkSteps
<1> HIDE DEF M, at, bt
<1>5. 0 \in S
  BY <1>2, <1>3, <1>4 DEF SameLinks
<1>6. ASSUME NEW n \in 0 .. M - 1, n \in S PROVE n + 1 \in S
  <2>1. n + 1 \in 1 .. M /\ (n + 1) - 1 = n /\ n + 1 \in 0 .. M /\ n \in 0 .. M
    BY <1>2
  <2>2. at[n + 1] = Step(t, at[n]) /\ bt[n + 1] = Step(u, at[n])
    BY <1>3, <1>4, <1>6, <2>1
  <2>3. at[n] \in Slots \cup {NULL}
    BY <1>3, <2>1 DEF Links
  <2>4. bt[n + 1] = at[n + 1]
    BY <2>2, <2>3 DEF Step, SameLinks
  <2>5. QED
    BY <2>1, <2>4
<1>7. 0 .. M \subseteq S
  <2> HIDE DEF S
  <2>1. QED
    BY <1>2, <1>5, <1>6, UpTo
<1>8. QED
  BY <1>1, <1>7 DEF at, bt, M

\* Appending slot i to a chain that ends: the chains keep what they hold, and
\* chain h gains i.
LEMMA LinkChains ==
  ASSUME NEW t \in TableType, NEW i \in Slots, NEW h \in Buckets,
         NEW z \in 0 .. MAX_NUM_OF_CLIENT, Walk(t, h)[z] = NULL,
         NEW u, u = LinkLast(t, i, h)
  PROVE  /\ u \in TableType /\ SameUse(t, u)
         /\ KeepsChains(t, u)
         /\ i \in OnChain(u, h)
         /\ \A j \in Slots : u.ft_sta_info[j].if_idx = t.ft_sta_info[j].if_idx
         /\ u.hung = t.hung
<1> DEFINE M == MAX_NUM_OF_CLIENT
           at == Walk(t, h)
           stop == {j \in Slots : t.ft_sta_info[j].next = NULL}
           hits == {k \in 0 .. M : at[k] = NULL \/ at[k] \in stop}
           k == FirstStop(t, h, stop)
<1>0. M \in Nat /\ i \in Links
  BY TableAssumption DEF Links
<1>1. /\ at \in [0 .. M -> Links] /\ at[0] = t.hash[h]
      /\ \A n \in 1 .. M : at[n] = Step(t, at[n - 1])
  BY WalkSteps
<1>2. ASSUME \A g \in Buckets, C \in SUBSET Slots : Closed(u, g, C) =>
             Closed(t, g, C)
      PROVE  KeepsChains(t, u)
  BY <1>2 DEF KeepsChains, OnChain
<1>3. CASE t.hash[h] = NULL
  <2>1. u = [t EXCEPT !.hash[h] = i]
    BY <1>3 DEF LinkLast
  <2>2. /\ u \in TableType /\ SameUse(t, u)
        /\ u.hash = [t.hash EXCEPT ![h] = i] /\ u.ft_sta_info = t.ft_sta_info
        /\ u.hung = t.hung
    BY <1>0, <2>1 DEF TableType, SameUse
  <2>3. u.hash[h] = i /\ \A g \in Buckets : t.hash[g] # NULL =>
       u.hash[g] = t.hash[g]
    BY <1>3, <2>2 DEF TableType
  <2>4. KeepsChains(t, u)
    BY <1>2, <2>2, <2>3 DEF Closed
  <2>5. i \in OnChain(u, h)
    BY <2>3, SlotFacts DEF OnChain, Closed
  <2>6. QED
    BY <2>2, <2>4, <2>5
<1>4. CASE t.hash[h] # NULL
  <2>1. hits # {} /\ hits \subseteq Nat
    <3>1. z \in hits
      OBVIOUS
    <3>2. QED
      BY <3>1, <1>0
  <2>2. k = Min(hits)
    BY <2>1 DEF FirstStop
  <2> HIDE DEF M, at, k
  <2>3. k \in hits /\ \A n \in hits : k <= n
    <3> HIDE DEF hits
    <3>1. QED
      BY <2>1, <2>2, MinExists
  <2>4. at[k] \in stop
    <3> SUFFICES ASSUME at[k] = NULL PROVE FALSE
      BY <2>3
    <3>1. k # 0
      BY <1>1, <1>4
    <3>2. k - 1 \in 0 .. M /\ k \in 1 .. M /\ ~(k <= k - 1)
      BY <1>0, <2>3, <3>1
    <3>3. k - 1 \notin hits
      BY <2>3, <3>2
    <3>4. at[k - 1] # NULL /\ at[k - 1] \notin stop /\ at[k - 1] \in Links
      BY <1>1, <3>2, <3>3
    <3>5. at[k] = t.ft_sta_info[at[k - 1]].next
      BY <1>1, <3>2, <3>4 DEF Step
    <3>6. QED
      BY <3>4, <3>5 DEF Links
  <2> DEFINE q == at[k]
  <2>5. k # LOOP
    BY <2>3, <1>0 DEF LOOP
  <2>6. u = [t EXCEPT !.ft_sta_info[q].next = i]
    BY <1>4, <2>5 DEF LinkLast, at, k
  <2>7. q \in Slots /\ t.ft_sta_info[q].next = NULL /\ q # NULL
    BY <2>4, SlotFacts
  <2>8. k \in 0 .. M
    BY <2>3
  <2>9. q \in OnChain(t, h)
    BY <2>7, <2>8, WalkOnChain DEF at, M
  <2> HIDE DEF q
  <2>10. u \in TableType /\ SameUse(t, u)
    BY <1>0, <2>6, SetNext
  <2>11. /\ u.hash = t.hash /\ u.hung = t.hung
         /\ u.ft_sta_info = [t.ft_sta_info EXCEPT ![q].next = i]
    BY <2>6 DEF TableType
  <2>12. /\ u.ft_sta_info[q].next = i
         /\ \A j \in Slots : /\ j # q =>
                                  u.ft_sta_info[j].next = t.ft_sta_info[j].next
                             /\ u.ft_sta_info[j].if_idx =
                                  t.ft_sta_info[j].if_idx
    BY <2>7, <2>11 DEF TableType, EntryType
  <2>13. KeepsChains(t, u)
    BY <1>2, <2>7, <2>11, <2>12 DEF Closed
  <2>14. i \in OnChain(u, h)
    <3>1. q \in OnChain(u, h)
      BY <2>9, <2>13 DEF KeepsChains
    <3>2. i # NULL
      BY SlotFacts
    <3>3. QED
      BY <2>12, <3>1, <3>2 DEF OnChain, Closed
  <2>15. QED
    BY <2>10, <2>11, <2>12, <2>13, <2>14
<1>5. QED
  BY <1>3, <1>4

\* Taking entry e out of chain h: the chains keep everything else.
LEMMA UnlinkChains ==
  ASSUME NEW t \in TableType, NEW h \in Buckets, NEW e \in OnChain(t, h),
         NEW u, u = Unlink(t, h, FirstStop(t, h, {e}), e)
  PROVE  /\ u \in TableType /\ SameUse(t, u)
         /\ \A g \in Buckets : OnChain(t, g) \ {e} \subseteq OnChain(u, g)
         /\ \A j \in Slots : u.ft_sta_info[j].if_idx = t.ft_sta_info[j].if_idx
         /\ u.hung = t.hung
<1> DEFINE M == MAX_NUM_OF_CLIENT
           at == Walk(t, h)
           hits == {k \in 0 .. M : at[k] = NULL \/ at[k] \in {e}}
           k == FirstStop(t, h, {e})
           x == t.ft_sta_info[e].next
<1>0. M \in Nat /\ e \in Slots /\ x \in Links /\ e # NULL
  BY TableAssumption, SlotFacts DEF OnChain, TableType, EntryType
<1>1. /\ at \in [0 .. M -> Links] /\ at[0] = t.hash[h]
      /\ \A n \in 1 .. M : at[n] = Step(t, at[n - 1])
  BY WalkSteps
<1>2. PICK z \in 0 .. M : at[z] = e /\ \A m \in 0 .. z : at[m] # NULL
  BY ChainWalked
<1>3. hits # {} /\ hits \subseteq Nat /\ z \in hits
  BY <1>0, <1>2
<1>4. k = Min(hits)
  BY <1>3 DEF FirstStop
<1>5. u = Unlink(t, h, k, e)
  OBVIOUS
<1> HIDE DEF M, at, k
<1>6. k \in hits /\ \A n \in hits : k <= n
  <2> HIDE DEF hits
  <2>1. QED
    BY <1>3, <1>4, MinExists
<1>7. at[k] = e
  <2>1. k \in 0 .. z
    BY <1>0, <1>3, <1>6
  <2>2. QED
    BY <1>2, <1>6, <2>1
<1>8. ASSUME NEW g \in Buckets,
             \A C \in SUBSET Slots : Closed(u, g, C) =>
                  Closed(t, g, C) \/ Closed(t, g, C \cup {e})
      PROVE  OnChain(t, g) \ {e} \subseteq OnChain(u, g)
  <2>1. \A C \in SUBSET Slots : C \cup {e} \in SUBSET Slots
    BY <1>0
  <2>2. QED
    BY <1>8, <2>1 DEF OnChain
<1>9. CASE k = 0
  <2>1. u = [t EXCEPT !.hash[h] = x]
    BY <1>5, <1>9 DEF Unlink
  <2>2. /\ u \in TableType /\ SameUse(t, u)
        /\ u.hash = [t.hash EXCEPT ![h] = x] /\ u.ft_sta_info = t.ft_sta_info
        /\ u.hung = t.hung
    BY <1>0, <2>1 DEF TableType, SameUse
  <2>3. u.hash[h] = x /\ \A g \in Buckets : g # h => u.hash[g] = t.hash[g]
    BY <2>2 DEF TableType
  <2>4. t.hash[h] = e
    BY <1>1, <1>7, <1>9
  <2>5. ASSUME NEW g \in Buckets, NEW C \in SUBSET Slots, Closed(u, g, C)
        PROVE  Closed(t, g, C) \/ Closed(t, g, C \cup {e})
    <3>1. CASE g = h
      <4>1. x # NULL => x \in C
        BY <2>3, <2>5, <3>1 DEF Closed
      <4>2. \A j \in C : t.ft_sta_info[j].next # NULL =>
           t.ft_sta_info[j].next \in C
        BY <2>2, <2>5 DEF Closed
      <4>3. Closed(t, g, C \cup {e})
        BY <2>4, <3>1, <4>1, <4>2 DEF Closed
      <4>4. QED
        BY <4>3
    <3>2. CASE g # h
      BY <2>2, <2>3, <2>5, <3>2 DEF Closed
    <3>3. QED
      BY <3>1, <3>2
  <2>6. QED
    BY <1>8, <2>2, <2>5
<1>10. CASE k # 0
  <2> DEFINE p == at[k - 1]
  <2>1. k - 1 \in 0 .. M /\ k \in 1 .. M /\ ~(k <= k - 1)
    BY <1>0, <1>6, <1>10
  <2>2. k - 1 \notin hits
    BY <1>6, <2>1
  <2>3. p \in Slots /\ p # e /\ p # NULL
    BY <1>1, <2>1, <2>2 DEF Links
  <2>4. t.ft_sta_info[p].next = e
    BY <1>1, <1>7, <2>1, <2>3 DEF Step
  <2>5. u = [t EXCEPT !.ft_sta_info[p].next = x]
    BY <1>5, <1>10 DEF Unlink, at
  <2> HIDE DEF p
  <2>6. u \in TableType /\ SameUse(t, u)
    BY <1>0, <2>5, SetNext
  <2>7. /\ u.hash = t.hash /\ u.hung = t.hung
        /\ u.ft_sta_info = [t.ft_sta_info EXCEPT ![p].next = x]
    BY <2>5 DEF TableType
  <2>8. /\ u.ft_sta_info[p].next = x
        /\ \A j \in Slots : /\ j # p =>
                                 u.ft_sta_info[j].next = t.ft_sta_info[j].next
                            /\ u.ft_sta_info[j].if_idx = t.ft_sta_info[j].if_idx
    <3> HIDE DEF x
    <3>1. /\ u.ft_sta_info[p] = [t.ft_sta_info[p] EXCEPT !.next = x]
          /\ \A j \in Slots : j # p => u.ft_sta_info[j] = t.ft_sta_info[j]
      BY <2>3, <2>7 DEF TableType
    <3>2. t.ft_sta_info[p] \in EntryType
      BY <2>3 DEF TableType
    <3>3. u.ft_sta_info[p].next = x /\
         u.ft_sta_info[p].if_idx = t.ft_sta_info[p].if_idx
      BY <3>1, <3>2 DEF EntryType
    <3>4. QED
      BY <3>1, <3>3
  <2>9. ASSUME NEW g \in Buckets, NEW C \in SUBSET Slots, Closed(u, g, C)
        PROVE  Closed(t, g, C) \/ Closed(t, g, C \cup {e})
    <3>1. CASE p \in C
      <4>1. x # NULL => x \in C
        BY <2>8, <2>9, <3>1 DEF Closed
      <4>2. \A j \in C \ {p} : t.ft_sta_info[j].next # NULL =>
           t.ft_sta_info[j].next \in C
        BY <2>8, <2>9 DEF Closed
      <4>3. Closed(t, g, C \cup {e})
        BY <2>4, <2>7, <2>9, <4>1, <4>2 DEF Closed
      <4>4. QED
        BY <4>3
    <3>2. CASE p \notin C
      BY <2>7, <2>8, <2>9, <3>2 DEF Closed
    <3>3. QED
      BY <3>1, <3>2
  <2>10. QED
    BY <1>8, <2>6, <2>7, <2>8, <2>9
<1>11. QED
  BY <1>9, <1>10

-----------------------------------------------------------------------------
(* Insertion and deletion.                                                 *)

\* The table has station s with interface idx.
Has(t, s, idx) ==
  \E i \in Used(t) :
       t.ft_sta_info[i].sta_mac = s /\ t.ft_sta_info[i].if_idx = idx

\* The stations other than s are in the table as before.
OthersKept(t, u, s) == \A r \in STAS \ {s}, x \in Int : Has(t, r, x) =>
     Has(u, r, x)

\* The interfaces of u are those of t, or in X.
InterfacesIn(t, u, X) ==
  \A j \in Slots : u.ft_sta_info[j].if_idx \in X \cup {t.ft_sta_info[j].if_idx}

\* The initial table is in order.
LEMMA InitInv == TableInv(mt_iapp_ft_client_table_init)
<1>1. Used(mt_iapp_ft_client_table_init) = {}
  BY DEF mt_iapp_ft_client_table_init, Used
<1>2. QED
  BY <1>1, InitTable DEF TableInv, ChainsHold, OneEntryEach

\* A walk that does not end changes nothing else.
LEMMA HungInv ==
  ASSUME NEW t, TableInv(t), NEW u, u = [t EXCEPT !.hung = TRUE]
  PROVE  /\ TableInv(u) /\ u.hung
         /\ \A s \in STAS, x \in Int : Has(t, s, x) => Has(u, s, x)
         /\ \A X : InterfacesIn(t, u, X)
<1>1. /\ TableOK(u) /\ u \in TableType /\ t \in TableType
      /\ u.ft_sta_info = t.ft_sta_info /\ u.hash = t.hash /\ u.hung = TRUE
  BY SetHung DEF TableInv, TableOK, TableType
<1>2. Used(u) = Used(t)
  BY <1>1 DEF Used
<1>3. \A h : OnChain(u, h) = OnChain(t, h)
  BY <1>1 DEF OnChain, Closed
<1>4. ChainsHold(u)
  <2>1. ASSUME NEW j \in Used(t)
        PROVE  j \in OnChain(u, HASH[u.ft_sta_info[j].sta_mac])
    <3>1. j \in OnChain(t, HASH[t.ft_sta_info[j].sta_mac])
      BY DEF TableInv, ChainsHold
    <3>2. OnChain(u, HASH[t.ft_sta_info[j].sta_mac]) =
         OnChain(t, HASH[t.ft_sta_info[j].sta_mac])
      BY <1>3
    <3>3. QED
      BY <1>1, <3>1, <3>2
  <2>2. QED
    BY <1>2, <2>1 DEF ChainsHold
<1>5. OneEntryEach(u)
  BY <1>1, <1>2 DEF TableInv, OneEntryEach
<1>6. QED
  BY <1>1, <1>2, <1>4, <1>5 DEF TableInv, Has, InterfacesIn

\* Taking an unused entry for a station that is not in the table.
LEMMA FillKeeps ==
  ASSUME NEW t, TableInv(t), t.ft_sta_table_size < MAX_NUM_OF_CLIENT,
         NEW s \in STAS, NEW idx \in Int, mt_iapp_ft_client_look_up(t, s) =
              NULL,
         NEW w, w = Fill(t, s, idx)
  PROVE  /\ TableInv(w) /\ w.hung = t.hung
         /\ Has(w, s, idx) /\ OthersKept(t, w, s) /\ InterfacesIn(t, w, {idx})
<1> DEFINE i == Min(Slots \ Used(t))
           r == [used |-> TRUE, sta_mac |-> s, if_idx |-> idx,
                 next |-> t.ft_sta_info[i].next]
           n == t.ft_sta_table_size + 1
           u == [t EXCEPT !.ft_sta_info[i] = r, !.ft_sta_table_size = n]
           h == HASH[s]
<1>0. TableOK(t) /\ t \in TableType /\ h \in Buckets
  BY DEF TableInv, TableOK, Buckets
<1>1. Used(t) # Slots
  BY <1>0, SlotFacts, TableAssumption DEF TableOK, SizeIsUsed
<1>2. i \in Slots /\ i \notin Used(t)
  <2>1. Slots \ Used(t) # {} /\ Slots \ Used(t) \subseteq Nat
    BY <1>1, SlotFacts DEF Used
  <2>2. QED
    BY <2>1, MinExists
<1>3. w = LinkLast(u, i, h)
  BY <1>0, <1>2 DEF Fill, TableType
<1> HIDE DEF i
<1>4. r \in EntryType /\ n \in Int
  BY <1>0, <1>2 DEF TableType, EntryType
<1>5. r.used = TRUE /\ r.sta_mac = s /\ r.if_idx = idx /\
     r.next = t.ft_sta_info[i].next
  OBVIOUS
<1> HIDE DEF r, n, u, h
<1>6. /\ u \in TableType
      /\ u.ft_sta_table_size = n
      /\ u.hash = t.hash /\ u.hung = t.hung
      /\ \A j \in Slots :
           u.ft_sta_info[j] = IF j = i THEN r ELSE t.ft_sta_info[j]
  BY <1>0, <1>2, <1>4 DEF u, TableType
<1>7. UsedHasAddress(u)
  BY <1>0, <1>5, <1>6, TableAssumption DEF TableOK, UsedHasAddress, NoSta
<1>8. Used(u) = Used(t) \cup {i}
  BY <1>2, <1>5, <1>6 DEF Used
<1>9. SizeIsUsed(u)
  <2>1. IsFiniteSet(Used(t))
    BY SlotFacts, FS_Subset DEF Used
  <2>2. QED
    BY <1>0, <1>2, <1>6, <1>8, <2>1, FS_AddElement DEF TableOK, SizeIsUsed, n
<1>10. TableOK(u)
  BY <1>6, <1>7, <1>9 DEF TableOK
<1>11. SameLinks(t, u)
  BY <1>5, <1>6 DEF SameLinks
<1>12. \A g \in Buckets : OnChain(u, g) = OnChain(t, g)
  BY <1>0, <1>6, <1>11, SameWalks
<1>13. PICK z \in 0 .. MAX_NUM_OF_CLIENT : Walk(u, h)[z] = NULL
  <2>1. PICK z \in 0 .. MAX_NUM_OF_CLIENT : Walk(t, h)[z] = NULL
    BY LookupAbsent DEF h
  <2>2. Walk(u, h)[z] = Walk(t, h)[z]
    BY <1>0, <1>6, <1>11, SameWalks
  <2>3. QED
    BY <2>1, <2>2
<1>14. /\ w \in TableType /\ SameUse(u, w)
       /\ KeepsChains(u, w)
       /\ i \in OnChain(w, h)
       /\ \A j \in Slots : w.ft_sta_info[j].if_idx = u.ft_sta_info[j].if_idx
       /\ w.hung = u.hung
  BY <1>0, <1>2, <1>3, <1>6, <1>13, LinkChains
<1>15. TableOK(w)
  BY <1>10, <1>14, SameEntries
<1>16. Used(w) = Used(t) \cup {i}
  BY <1>8, <1>14 DEF Used, SameUse
<1>17. \A j \in Slots : /\ w.ft_sta_info[j].sta_mac = IF j = i THEN
                             s ELSE t.ft_sta_info[j].sta_mac
                        /\ w.ft_sta_info[j].if_idx = IF j = i THEN
                             idx ELSE t.ft_sta_info[j].if_idx
  BY <1>5, <1>6, <1>14 DEF SameUse
<1>18. \A j \in Used(t) : j \in Slots /\ j # i /\ t.ft_sta_info[j].sta_mac # s
  BY <1>2, LookupAbsent DEF Used
<1>19. ChainsHold(w)
  <2>1. ASSUME NEW j \in Used(t)
        PROVE  j \in OnChain(w, HASH[w.ft_sta_info[j].sta_mac])
    <3>1. w.ft_sta_info[j].sta_mac = t.ft_sta_info[j].sta_mac
      BY <1>17, <1>18
    <3>2. HASH[t.ft_sta_info[j].sta_mac] \in Buckets
      BY <1>0, AddressBucket
    <3>3. j \in OnChain(t, HASH[t.ft_sta_info[j].sta_mac])
      BY DEF TableInv, ChainsHold
    <3>4. QED
      BY <1>12, <1>14, <3>1, <3>2, <3>3 DEF KeepsChains
  <2>2. i \in OnChain(w, HASH[w.ft_sta_info[i].sta_mac])
    BY <1>2, <1>14, <1>17 DEF h
  <2>3. QED
    BY <1>16, <2>1, <2>2 DEF ChainsHold
<1>20. OneEntryEach(w)
  BY <1>2, <1>16, <1>17, <1>18 DEF OneEntryEach, TableInv
<1>21. Has(w, s, idx) /\ OthersKept(t, w, s) /\ InterfacesIn(t, w, {idx})
  BY <1>2, <1>16, <1>17, <1>18 DEF Has, OthersKept, InterfacesIn
<1>22. QED
  BY <1>6, <1>14, <1>15, <1>19, <1>20, <1>21 DEF TableInv

\* mt_iapp_ft_client_insert.
LEMMA InsertKeeps ==
  ASSUME NEW t, TableInv(t), NEW s \in STAS, NEW idx \in Int,
         NEW u, u = mt_iapp_ft_client_insert(t, s, idx)
  PROVE  /\ TableInv(u)
         /\ OthersKept(t, u, s) /\ InterfacesIn(t, u, {idx})
         /\ \/ u.hung
            \/ Has(u, s, idx)
            \/ /\ t.ft_sta_table_size >= MAX_NUM_OF_CLIENT
               /\ \A i \in Used(t) : t.ft_sta_info[i].sta_mac # s
<1> DEFINE e == mt_iapp_ft_client_look_up(t, s)
<1>0. TableOK(t) /\ t \in TableType
  BY DEF TableInv, TableOK
<1>1. e \in {NULL, LOOP} \cup {i \in Slots : t.ft_sta_info[i].sta_mac = s}
  BY LookupResult
<1>2. CASE e = LOOP
  <2>1. u = [t EXCEPT !.hung = TRUE]
    BY <1>2, SlotFacts DEF mt_iapp_ft_client_insert
  <2>2. QED
    BY <2>1, HungInv DEF OthersKept
<1>3. CASE e \in Slots
  <2> DEFINE r == [t.ft_sta_info[e] EXCEPT !.if_idx = idx, !.used = TRUE]
  <2>1. u = [t EXCEPT !.ft_sta_info[e] = r]
    BY <1>0, <1>3, SlotFacts DEF mt_iapp_ft_client_insert, TableType
  <2>2. t.ft_sta_info[e].sta_mac = s /\ t.ft_sta_info[e] \in EntryType
    BY <1>0, <1>1, <1>3, SlotFacts DEF TableType
  <2>3. t.ft_sta_info[e].used = TRUE
    BY <1>0, <1>3, <2>2, TableAssumption
       DEF TableOK, UsedHasAddress, NoSta, EntryType
  <2> HIDE DEF e
  <2>4. /\ r \in EntryType
        /\ r.used = TRUE /\ r.sta_mac = s /\ r.if_idx = idx
        /\ r.next = t.ft_sta_info[e].next
    BY <2>2 DEF EntryType
  <2> HIDE DEF r
  <2>5. /\ u \in TableType
        /\ u.ft_sta_table_size = t.ft_sta_table_size
        /\ u.hash = t.hash /\ u.hung = t.hung
        /\ \A j \in Slots :
             u.ft_sta_info[j] = IF j = e THEN r ELSE t.ft_sta_info[j]
    BY <1>0, <1>3, <2>1, <2>4 DEF TableType
  <2>6. SameUse(t, u)
    BY <2>2, <2>3, <2>4, <2>5 DEF SameUse
  <2>7. SameLinks(t, u)
    BY <2>4, <2>5 DEF SameLinks
  <2>8. TableOK(u)
    BY <1>0, <2>5, <2>6, SameEntries
  <2>9. Used(u) = Used(t) /\ e \in Used(t)
    BY <1>3, <2>3, <2>6 DEF Used, SameUse
  <2>10. ChainsHold(u)
    <3>1. ASSUME NEW j \in Used(t)
          PROVE  j \in OnChain(u, HASH[u.ft_sta_info[j].sta_mac])
      <4>1. HASH[t.ft_sta_info[j].sta_mac] \in Buckets
        BY <1>0, AddressBucket
      <4>2. j \in OnChain(t, HASH[t.ft_sta_info[j].sta_mac])
        BY DEF TableInv, ChainsHold
      <4>3. u.ft_sta_info[j].sta_mac = t.ft_sta_info[j].sta_mac
        BY <2>6 DEF SameUse, Used
      <4>4. QED
        BY <1>0, <2>5, <2>7, <4>1, <4>2, <4>3, SameWalks
    <3>2. QED
      BY <2>9, <3>1 DEF ChainsHold
  <2>11. OneEntryEach(u)
    BY <2>6, <2>9 DEF OneEntryEach, TableInv, SameUse, Used
  <2>12. Has(u, s, idx)
    BY <1>3, <2>4, <2>5, <2>9 DEF Has
  <2>13. OthersKept(t, u, s)
    BY <2>2, <2>5, <2>9 DEF OthersKept, Has, Used
  <2>14. InterfacesIn(t, u, {idx})
    BY <2>4, <2>5 DEF InterfacesIn
  <2>15. QED
    BY <2>8, <2>10, <2>11, <2>12, <2>13, <2>14 DEF TableInv
<1>4. CASE e = NULL /\ t.ft_sta_table_size >= MAX_NUM_OF_CLIENT
  <2>1. u = t
    BY <1>4, SlotFacts DEF mt_iapp_ft_client_insert
  <2>2. \A i \in Used(t) : t.ft_sta_info[i].sta_mac # s
    BY <1>4, LookupAbsent
  <2>3. QED
    BY <1>4, <2>1, <2>2 DEF OthersKept, InterfacesIn
<1>5. CASE e = NULL /\ ~(t.ft_sta_table_size >= MAX_NUM_OF_CLIENT)
  <2>1. u = Fill(t, s, idx)
    BY <1>5, SlotFacts DEF mt_iapp_ft_client_insert
  <2>2. t.ft_sta_table_size < MAX_NUM_OF_CLIENT
    BY <1>0, <1>5, TableAssumption DEF TableType
  <2>3. QED
    BY <1>5, <2>1, <2>2, FillKeeps
<1>6. QED
  BY <1>1, <1>2, <1>3, <1>4, <1>5

\* mt_iapp_ft_client_delete.
LEMMA DeleteKeeps ==
  ASSUME NEW t, TableInv(t), NEW s \in STAS,
         NEW w, w = mt_iapp_ft_client_delete(t, s)
  PROVE  /\ TableInv(w)
         /\ OthersKept(t, w, s) /\ InterfacesIn(t, w, {-1})
<1> DEFINE e == mt_iapp_ft_client_look_up(t, s)
           h == HASH[s]
           v == Unlink(t, h, FirstStop(t, h, {e}), e)
<1>0. TableOK(t) /\ t \in TableType /\ h \in Buckets
  BY DEF TableInv, TableOK, Buckets
<1>1. e \in {NULL, LOOP} \cup {i \in Slots : t.ft_sta_info[i].sta_mac = s}
  BY LookupResult
<1>2. CASE e = LOOP
  <2>1. w = [t EXCEPT !.hung = TRUE]
    BY <1>2, SlotFacts DEF mt_iapp_ft_client_delete
  <2>2. QED
    BY <2>1, HungInv DEF OthersKept
<1>3. CASE e = NULL
  <2>1. w = t
    BY <1>3, SlotFacts DEF mt_iapp_ft_client_delete
  <2>2. QED
    BY <2>1 DEF OthersKept, InterfacesIn
<1>4. CASE e \in Slots
  <2> DEFINE r == [used |-> FALSE, sta_mac |-> NoSta, if_idx |-> -1,
                   next |-> v.ft_sta_info[e].next]
             n == v.ft_sta_table_size - 1
  <2>1. t.ft_sta_info[e].sta_mac = s
    BY <1>1, <1>4, SlotFacts
  <2>2. e \in Used(t)
    BY <1>0, <1>4, <2>1, TableAssumption
       DEF Used, TableOK, UsedHasAddress, NoSta
  <2>3. e \in OnChain(t, h)
    BY <2>1, <2>2 DEF TableInv, ChainsHold
  <2>4. /\ v \in TableType /\ SameUse(t, v)
        /\ \A g \in Buckets : OnChain(t, g) \ {e} \subseteq OnChain(v, g)
        /\ \A j \in Slots : v.ft_sta_info[j].if_idx = t.ft_sta_info[j].if_idx
    BY <1>0, <2>3, UnlinkChains
  <2>5. w = [v EXCEPT !.ft_sta_info[e] =
       [used |-> FALSE, sta_mac |-> NoSta, if_idx |-> -1,
                                          next |-> @.next],
                      !.ft_sta_table_size = @ - 1]
    BY <1>4, SlotFacts DEF mt_iapp_ft_client_delete
  <2> HIDE DEF e, h, v
  <2>6. w = [v EXCEPT !.ft_sta_info[e] = r, !.ft_sta_table_size = n]
    BY <1>4, <2>4, <2>5 DEF TableType
  <2>7. TableOK(v)
    BY <1>0, <2>4, SameEntries
  <2>8. Used(v) = Used(t)
    BY <2>4 DEF Used, SameUse
  <2>9. r \in EntryType /\ n \in Int
    BY <1>4, <2>4 DEF TableType, EntryType
  <2>10. /\ r.used = FALSE /\ r.sta_mac = NoSta /\ r.if_idx = -1
         /\ r.next = v.ft_sta_info[e].next
    OBVIOUS
  <2> HIDE DEF r, n
  <2> DEFINE I == [v.ft_sta_info EXCEPT ![e] = r]
  <2>10a. /\ v \in TableType /\ v.ft_sta_info \in [Slots -> EntryType]
         /\ v.hash \in [Buckets -> Links] /\ e \in Slots
    BY <1>4, <2>4 DEF TableType
  <2>10b. /\ I \in [Slots -> EntryType]
         /\ \A j \in Slots : I[j] = IF j = e THEN r ELSE v.ft_sta_info[j]
    BY <2>9, <2>10a
  <2>10c. w = [v EXCEPT !.ft_sta_info = I, !.ft_sta_table_size = n]
    BY <2>6
  <2> HIDE DEF I
  <2>10d. w \in TableType /\ w.ft_sta_info = I
    BY <2>9, <2>10a, <2>10b, <2>10c DEF TableType
  <2>11. /\ w \in TableType
         /\ w.ft_sta_table_size = n /\ w.hash = v.hash
         /\ \A j \in Slots :
              w.ft_sta_info[j] = IF j = e THEN r ELSE v.ft_sta_info[j]
    BY <2>10a, <2>10b, <2>10c, <2>10d DEF TableType
  <2>12. UsedHasAddress(w)
    BY <2>7, <2>10, <2>11 DEF TableOK, UsedHasAddress
  <2>13. Used(w) = Used(t) \ {e}
    BY <1>4, <2>8, <2>10, <2>11 DEF Used
  <2>14. SizeIsUsed(w)
    <3>1. IsFiniteSet(Used(t))
      BY SlotFacts, FS_Subset DEF Used
    <3>2. Cardinality(Used(w)) = Cardinality(Used(t)) - 1
      BY <2>2, <2>13, <3>1, FS_RemoveElement
    <3>3. QED
      BY <2>7, <2>8, <2>11, <3>2 DEF TableOK, SizeIsUsed, n
  <2>15. TableOK(w)
    BY <2>11, <2>12, <2>14 DEF TableOK
  <2>16. SameLinks(v, w)
    BY <2>10, <2>11 DEF SameLinks
  <2>17. \A j \in Used(w) : /\ j \in Used(t) /\ j # e
                            /\ w.ft_sta_info[j].sta_mac =
                                 t.ft_sta_info[j].sta_mac
                            /\ w.ft_sta_info[j].if_idx = t.ft_sta_info[j].if_idx
    BY <2>4, <2>11, <2>13 DEF SameUse, Used
  <2>18. ChainsHold(w)
    <3>1. ASSUME NEW j \in Used(w)
          PROVE  j \in OnChain(w, HASH[w.ft_sta_info[j].sta_mac])
      <4>1. HASH[t.ft_sta_info[j].sta_mac] \in Buckets
        BY <1>0, <2>17, AddressBucket
      <4>2. j \in OnChain(t, HASH[t.ft_sta_info[j].sta_mac])
        BY <2>17 DEF TableInv, ChainsHold
      <4>3. j \in OnChain(v, HASH[t.ft_sta_info[j].sta_mac])
        BY <2>4, <2>17, <4>1, <4>2
      <4>4. QED
        BY <2>4, <2>11, <2>16, <2>17, <4>1, <4>3, SameWalks
    <3>2. QED
      BY <3>1 DEF ChainsHold
  <2>19. OneEntryEach(w)
    BY <2>17 DEF OneEntryEach, TableInv
  <2>20. OthersKept(t, w, s)
    BY <2>1, <2>13, <2>17 DEF OthersKept, Has
  <2>21. InterfacesIn(t, w, {-1})
    BY <2>4, <2>10, <2>11 DEF InterfacesIn
  <2>22. QED
    BY <2>15, <2>18, <2>19, <2>20, <2>21 DEF TableInv
<1>5. QED
  BY <1>1, <1>2, <1>3, <1>4

-----------------------------------------------------------------------------
(* The table of one daemon.                                                *)

\* Every state of the table is in order: types, the size, one entry for each
\* station, each on its chain.
THEOREM TableInvariant == TableSpec => []TableInv(tbl)
<1>1. TableInit => TableInv(tbl)
  BY InitInv DEF TableInit
<1>2. TableInv(tbl) /\ [TableNext]_tbl => TableInv(tbl)'
  <2> SUFFICES ASSUME TableInv(tbl), [TableNext]_tbl PROVE TableInv(tbl')
    OBVIOUS
  <2>1. ASSUME NEW s \in STAS, Move(s) PROVE TableInv(tbl')
    BY <2>1, DeleteKeeps DEF Move
  <2>2. ASSUME NEW s \in STAS, NEW i \in INTERFACES, Arrive(s, i) PROVE
               TableInv(tbl')
    <3>1. i \in Int
      BY InterfacesAssumption
    <3>2. QED
      BY <2>2, <3>1, InsertKeeps DEF Arrive
  <2>3. CASE UNCHANGED tbl
    BY <2>3
  <2>4. QED
    BY <2>1, <2>2, <2>3 DEF TableNext
<1>3. QED
  BY <1>1, <1>2, PTL DEF TableSpec

\* ft_sta_table_size counts the entries in use, whatever the chains have
\* become: a deletion counts down only for an entry that was in use.
THEOREM SizeCorrect == TableSpec => []SizeCountsUsed
<1>1. TableInv(tbl) => SizeCountsUsed
  BY DEF TableInv, TableOK, SizeIsUsed, SizeCountsUsed
<1>2. QED
  BY <1>1, TableInvariant, PTL

\* mt_iapp_ft_client_look_up finds every station of the table at its own
\* entry, although deleted entries leave their next pointers behind and a
\* chain may go round.
THEOREM LookupCorrect == TableSpec => []StationsFound
<1>1. TableInv(tbl) => StationsFound
  BY LookupFinds DEF StationsFound
<1>2. QED
  BY <1>1, TableInvariant, PTL
=============================================================================
