------------------------- MODULE RadiusClient_proofs ------------------------
(***************************************************************************)
(* The safety of the RADIUS client for every number of stations, servers,  *)
(* identifiers and list entries.  TypeOK alone is not inductive: that      *)
(* num_msgs stays above zero needs CountCoversList, and the types of a     *)
(* failover need a server index within the configuration.                  *)
(***************************************************************************)
EXTENDS RadiusClient, FiniteSetTheorems, TLAPS

IInv == TypeOK /\ CountCoversList /\ UniqueIds /\ TimerPending /\ SecretCurrent

USE StationAssumption, ConfigAssumption, BoundAssumption

-----------------------------------------------------------------------------
(* Operators.                                                              *)

\* The list is finite: it is indexed by requests already sent.
LEMMA ListFinite ==
  ASSUME TypeOK
  PROVE  /\ IsFiniteSet(DOMAIN msgs)
         /\ Cardinality(DOMAIN msgs) \in Nat
<1>1. sends \in Int
  BY DEF TypeOK
<1>2. IsFiniteSet(1 .. sends)
  BY <1>1, FS_Interval
<1>3. QED
  BY <1>2, FS_Subset, FS_CardinalityType DEF TypeOK

\* Registering a timeout within the waiting times keeps the type and leaves one
\* pending.
LEMMA RegisterType ==
  ASSUME NEW t \in [0 .. MaxWait -> Nat], NEW d \in 0 .. MaxWait
  PROVE  /\ eloop_register_timeout(t, d) \in [0 .. MaxWait -> Nat]
         /\ eloop_register_timeout(t, d)[d] > 0
BY DEF eloop_register_timeout

\* The secret in use for a BSS is one of the configured ones.
LEMMA CurrentSecretType ==
  ASSUME TypeOK, NEW b \in BSS
  PROVE  CurrentSecret(b) \in Secrets
BY DEF TypeOK, CurrentSecret

\* What list_add, retransmit and the reset of a failover store are entries.
LEMMA EntryTypes ==
  ASSUME TypeOK
  PROVE  /\ \A s \in Stas : NewEntry(s) \in Entry
         /\ \A e \in Entry : Radius_client_retransmit(e) \in Entry
         /\ \A e \in Entry : ResetEntry(e) \in Entry
<1>1. ASSUME NEW s \in Stas PROVE NewEntry(s) \in Entry
  <2>1. ApIdx[s] \in BSS
    OBVIOUS
  <2>2. CurrentSecret(ApIdx[s]) \in Secrets
    BY <2>1, CurrentSecretType
  <2>3. nextId \in Ids /\ FirstWait \in 0 .. MaxWait
        /\ 2 * FirstWait \in 0 .. MaxWait
    BY DEF TypeOK
  <2>4. QED
    BY <2>1, <2>2, <2>3 DEF NewEntry, Entry
<1>2. ASSUME NEW e \in Entry PROVE Radius_client_retransmit(e) \in Entry
  <2>1. Backoff(e.wait) \in 0 .. MaxWait /\ e.attempts + 1 \in Nat
    BY DEF Backoff, Entry
  <2>2. Radius_client_retransmit(e) =
          [e EXCEPT !.attempts = e.attempts + 1, !.due = e.wait,
                    !.wait = Backoff(e.wait), !.tx = e.tx]
    BY DEF Radius_client_retransmit, SocketConnected
  <2>3. QED
    BY <2>1, <2>2 DEF Entry
<1>3. ASSUME NEW e \in Entry PROVE ResetEntry(e) \in Entry
  <2>1. FirstWait - e.age \in 0 .. MaxWait /\ 2 * FirstWait \in 0 .. MaxWait
    BY DEF Entry
  <2>2. QED
    BY <2>1 DEF ResetEntry, Entry
<1>4. QED
  BY <1>1, <1>2, <1>3
\* Retransmitting or restarting an entry leaves its identifier, BSS and secret.
LEMMA EntryKeeps ==
  ASSUME NEW e \in Entry,
         NEW f \in {Radius_client_retransmit(e), ResetEntry(e)}
  PROVE  f.id = e.id /\ f.bss = e.bss /\ f.secret = e.secret
<1>1. ResetEntry(e).id = e.id /\ ResetEntry(e).bss = e.bss
      /\ ResetEntry(e).secret = e.secret
  BY DEF ResetEntry, Entry
<1>2. /\ Radius_client_retransmit(e).id = e.id
      /\ Radius_client_retransmit(e).bss = e.bss
      /\ Radius_client_retransmit(e).secret = e.secret
  BY DEF Radius_client_retransmit, Entry, SocketConnected
<1>3. QED
  BY <1>1, <1>2

-----------------------------------------------------------------------------
(* The inductive invariant: initial states.                                *)

\* The state after initialisation satisfies the invariant.
LEMMA InitInv == Init => IInv
<1> SUFFICES ASSUME Init PROVE IInv
  OBVIOUS
<1>1. DOMAIN msgs = {}
  BY DEF Init
<1>2. TypeOK
  <2>1. msgs \in [DOMAIN msgs -> Entry] /\ DOMAIN msgs \subseteq 1 .. sends
    BY DEF Init
  <2>2. timers \in [0 .. MaxWait -> Nat]
    BY DEF Init, NoTimers
  <2>3. nextId \in Ids /\ num_msgs \in 0 .. MaxEntries /\ sends \in 0 .. MaxSends
    BY DEF Init, Ids
  <2>4. conf \in Configs /\ server \in [BSS -> Nat \ {0}]
        /\ \A b \in BSS : server[b] <= Len(conf[b])
    <3>1. conf \in Configs /\ server = [b \in BSS |-> 1]
      BY DEF Init
    <3>2. \A b \in BSS : Len(conf[b]) \in Nat /\ Len(conf[b]) > 0
      BY <3>1
    <3>3. QED
      BY <3>1, <3>2
  <2>5. sta_list \in Seq(Stas) /\ radius_identifier \in [Stas -> Ids \cup {NoId}]
    BY DEF Init
  <2>6. QED
    BY <2>1, <2>2, <2>3, <2>4, <2>5 DEF TypeOK
<1>3. CountCoversList
  BY <1>1, FS_EmptySet DEF CountCoversList, Init
<1>4. UniqueIds /\ TimerPending /\ SecretCurrent
  BY <1>1 DEF UniqueIds, TimerPending, SecretCurrent
<1>5. QED
  BY <1>2, <1>3, <1>4 DEF IInv

-----------------------------------------------------------------------------
(* Steps that change the list.                                             *)

\* A step that empties the list and leaves the rest well-typed keeps the
\* invariant.
LEMMA EmptyListInv ==
  ASSUME Radius_client_flush,
         sends' \in 0 .. MaxSends, nextId' \in Ids, conf' \in Configs,
         server' \in [BSS -> Nat \ {0}],
         \A b \in BSS : server'[b] <= Len(conf'[b]),
         sta_list' \in Seq(Stas),
         radius_identifier' \in [Stas -> Ids \cup {NoId}]
  PROVE  IInv'
<1>1. /\ msgs' = [n \in {} |-> n] /\ DOMAIN msgs' = {}
      /\ num_msgs' = 0 /\ timers' = NoTimers
  BY DEF Radius_client_flush
<1>2. TypeOK'
  <2>1. msgs' \in [DOMAIN msgs' -> Entry] /\ DOMAIN msgs' \subseteq 1 .. sends'
    BY <1>1
  <2>2. timers' \in [0 .. MaxWait -> Nat] /\ num_msgs' \in 0 .. MaxEntries
    BY <1>1 DEF NoTimers
  <2>3. QED
    BY <2>1, <2>2 DEF TypeOK
<1>3. CountCoversList'
  BY <1>1, FS_EmptySet DEF CountCoversList
<1>4. UniqueIds' /\ TimerPending' /\ SecretCurrent'
  BY <1>1 DEF UniqueIds, TimerPending, SecretCurrent
<1>5. QED
  BY <1>2, <1>3, <1>4 DEF IInv

\* A list whose entries come from the present one, with the same identifiers,
\* BSSs and secrets, still has unique identifiers and current secrets.
LEMMA SubListInv ==
  ASSUME IInv, NEW L, DOMAIN L \subseteq DOMAIN msgs,
         \A n \in DOMAIN L : /\ L[n].id = msgs[n].id
                             /\ L[n].bss = msgs[n].bss
                             /\ L[n].secret = msgs[n].secret
  PROVE  /\ \A m, n \in DOMAIN L : L[m].id = L[n].id => m = n
         /\ \A n \in DOMAIN L : L[n].secret = CurrentSecret(L[n].bss)
<1>1. UniqueIds /\ SecretCurrent
  BY DEF IInv
<1>2. \A m, n \in DOMAIN L : L[m].id = L[n].id => m = n
  BY <1>1 DEF UniqueIds
<1>3. ASSUME NEW n \in DOMAIN L PROVE L[n].secret = CurrentSecret(L[n].bss)
  BY <1>1 DEF SecretCurrent
<1>4. QED
  BY <1>2, <1>3

\* Radius_change_server keeps the invariant, whether it drops the list, restarts
\* its entries or has nothing to change.
LEMMA ChangeServerInv ==
  ASSUME IInv, NEW new \in [BSS -> Nat \ {0}], NEW L, NEW num,
         NEW t \in [0 .. MaxWait -> Nat],
         \A b \in BSS : new[b] <= Len(conf[b]),
         L \in [DOMAIN L -> Entry], DOMAIN L \subseteq DOMAIN msgs,
         num \in 0 .. MaxEntries, Cardinality(DOMAIN L) <= num,
         \A n \in DOMAIN L : /\ L[n].id = msgs[n].id
                             /\ L[n].bss = msgs[n].bss
                             /\ L[n].secret = msgs[n].secret,
         DOMAIN L # {} => \E d \in 0 .. MaxWait : t[d] > 0,
         Radius_change_server(new, L, num, t),
         UNCHANGED <<conf, nextId, sends, staVars>>
  PROVE  IInv'
<1>1. TypeOK
  BY DEF IInv
<1>2. /\ server' = new /\ UNCHANGED <<conf, nextId, sends>>
      /\ UNCHANGED sta_list /\ UNCHANGED radius_identifier
  BY DEF Radius_change_server, staVars
<1>3. /\ sends' \in 0 .. MaxSends /\ nextId' \in Ids /\ conf' \in Configs
      /\ server' \in [BSS -> Nat \ {0}]
      /\ \A b \in BSS : server'[b] <= Len(conf'[b])
      /\ sta_list' \in Seq(Stas)
      /\ radius_identifier' \in [Stas -> Ids \cup {NoId}]
  BY <1>1, <1>2 DEF TypeOK
<1>4. CASE Radius_client_flush
  BY <1>3, <1>4, EmptyListInv
<1>5. CASE ~Radius_client_flush
  <2>1. \A b \in BSS : conf[b][new[b]] = CurrentSecret(b)
    BY <1>5 DEF Radius_change_server
  <2>2. \A b \in BSS : CurrentSecret(b)' = CurrentSecret(b)
    BY <1>2, <2>1 DEF CurrentSecret
  <2>3. /\ DOMAIN msgs' = DOMAIN L
        /\ num_msgs' = num
        /\ \A n \in DOMAIN L : msgs'[n] \in {L[n], ResetEntry(L[n])}
        /\ msgs' = [n \in DOMAIN L |-> msgs'[n]]
        /\ timers' \in {t, eloop_register_timeout(NoTimers, FirstWait)}
    BY <1>5 DEF Radius_change_server
  <2>4. \A n \in DOMAIN L : L[n] \in Entry /\ ResetEntry(L[n]) \in Entry
    BY <1>1, EntryTypes
  <2>5. \A n \in DOMAIN L : /\ msgs'[n].id = msgs[n].id
                            /\ msgs'[n].bss = msgs[n].bss
                            /\ msgs'[n].secret = msgs[n].secret
    <3> SUFFICES ASSUME NEW n \in DOMAIN L
                 PROVE  /\ msgs'[n].id = L[n].id
                        /\ msgs'[n].bss = L[n].bss
                        /\ msgs'[n].secret = L[n].secret
      OBVIOUS
    <3>1. L[n] \in Entry
      BY <2>4
    <3>2. ResetEntry(L[n]).id = L[n].id /\ ResetEntry(L[n]).bss = L[n].bss
          /\ ResetEntry(L[n]).secret = L[n].secret
      BY <3>1, EntryKeeps
    <3>3. QED
      BY <2>3, <3>2
  <2>6. \A n \in DOMAIN L : msgs'[n] \in Entry
    BY <2>3, <2>4
  <2>7. FirstWait \in 0 .. MaxWait /\ NoTimers \in [0 .. MaxWait -> Nat]
    BY DEF NoTimers
  <2>8. timers' \in [0 .. MaxWait -> Nat]
    <3>1. eloop_register_timeout(NoTimers, FirstWait) \in [0 .. MaxWait -> Nat]
      BY <2>7, RegisterType
    <3>2. QED
      BY <2>3, <3>1
  <2>9. TypeOK'
    BY <1>1, <1>2, <1>3, <2>3, <2>6, <2>8 DEF TypeOK
  <2>10. CountCoversList'
    BY <2>3 DEF CountCoversList
  <2>11. UniqueIds' /\ \A n \in DOMAIN L : msgs'[n].secret
                                             = CurrentSecret(msgs'[n].bss)
    <3> DEFINE M == msgs'
    <3>1. /\ DOMAIN M \subseteq DOMAIN msgs
          /\ \A n \in DOMAIN M : /\ M[n].id = msgs[n].id
                                 /\ M[n].bss = msgs[n].bss
                                 /\ M[n].secret = msgs[n].secret
      BY <2>3, <2>5
    <3> HIDE DEF M
    <3>2. /\ \A m, n \in DOMAIN M : M[m].id = M[n].id => m = n
          /\ \A n \in DOMAIN M : M[n].secret = CurrentSecret(M[n].bss)
      BY <3>1, SubListInv
    <3>3. QED
      BY <2>3, <3>2 DEF M, UniqueIds
  <2>12. SecretCurrent'
    <3>1. \A n \in DOMAIN L : msgs'[n].bss \in BSS
      BY <2>6 DEF Entry
    <3>2. QED
      BY <2>2, <2>3, <2>11, <3>1 DEF SecretCurrent
  <2>13. TimerPending'
    <3>1. CASE timers' = t
      BY <2>3, <3>1 DEF TimerPending
    <3>2. CASE timers' = eloop_register_timeout(NoTimers, FirstWait)
      BY <2>7, <3>2, RegisterType DEF TimerPending
    <3>3. QED
      BY <2>3, <3>1, <3>2
  <2>14. QED
    BY <2>9, <2>10, <2>11, <2>12, <2>13 DEF IInv
<1>6. QED
  BY <1>4, <1>5

-----------------------------------------------------------------------------
(* One lemma per action.                                                   *)

\* Taking an identifier keeps the types of what it changes.
LEMMA TakeIdType ==
  ASSUME IInv, NEW s \in Stas, TakeId(s)
  PROVE  /\ sends' = sends + 1 /\ sends' \in 0 .. MaxSends
         /\ nextId' \in Ids
         /\ conf' \in Configs /\ server' \in [BSS -> Nat \ {0}]
         /\ \A b \in BSS : server'[b] <= Len(conf'[b])
         /\ sta_list' \in Seq(Stas)
         /\ radius_identifier' \in [Stas -> Ids \cup {NoId}]
         /\ \A b \in BSS : CurrentSecret(b)' = CurrentSecret(b)
<1>1. TypeOK
  BY DEF IInv
<1>2. sends' = sends + 1 /\ sends' \in 0 .. MaxSends
  BY <1>1, SMTT(30) DEF TypeOK, TakeId
<1>3. nextId' \in Ids
  <2>1. nextId + 1 \in Nat /\ IdSpace \in Nat /\ IdSpace > 0
    BY <1>1, SMTT(30) DEF TypeOK, Ids
  <2>2. nextId' = (nextId + 1) % IdSpace
    BY DEF TakeId
  <2>3. (nextId + 1) % IdSpace \in 0 .. IdSpace - 1
    BY <2>1
  <2>4. QED
    BY <2>2, <2>3 DEF Ids
<1>4. conf' = conf /\ server' = server /\ sta_list' = sta_list
  BY DEF TakeId, serverVars
<1>5. radius_identifier' \in [Stas -> Ids \cup {NoId}]
  BY <1>1 DEF TypeOK, TakeId
<1>6. QED
  BY <1>1, <1>2, <1>3, <1>4, <1>5 DEF TypeOK, CurrentSecret

\* The list that list_add leaves, when the entries of D survive: all but the
\* count.
LEMMA PrependInv ==
  ASSUME IInv, NEW s \in Stas, TakeId(s),
         NEW D, D \subseteq Radius_client_get_id,
         msgs' = Prepend(D, NewEntry(s))
  PROVE  /\ DOMAIN msgs' = D \cup {sends + 1}
         /\ msgs' \in [DOMAIN msgs' -> Entry]
         /\ DOMAIN msgs' \subseteq 1 .. sends'
         /\ UniqueIds'
         /\ SecretCurrent'
<1>1. TypeOK /\ UniqueIds /\ SecretCurrent
  BY DEF IInv
<1>2. sends \in Nat /\ sends' = sends + 1
  BY <1>1, TakeIdType DEF TypeOK
<1>3. D \subseteq DOMAIN msgs /\ D \subseteq 1 .. sends
      /\ \A n \in D : msgs[n].id # nextId
  BY <1>1 DEF Radius_client_get_id, TypeOK
<1>4. sends + 1 \notin D
  BY <1>2, <1>3
<1>5. NewEntry(s) \in Entry
  BY <1>1, EntryTypes
<1>6. /\ DOMAIN msgs' = D \cup {sends + 1}
      /\ msgs'[sends + 1] = NewEntry(s)
      /\ \A n \in D : msgs'[n] = msgs[n]
      /\ msgs' = [n \in D \cup {sends + 1} |-> msgs'[n]]
  BY <1>4 DEF Prepend
<1>7. \A n \in D : msgs[n] \in Entry
  BY <1>1, <1>3 DEF TypeOK
<1>8. \A n \in DOMAIN msgs' : msgs'[n] \in Entry
  BY <1>5, <1>6, <1>7
<1>9. msgs' \in [DOMAIN msgs' -> Entry]
  BY <1>6, <1>8
<1>10. DOMAIN msgs' \subseteq 1 .. sends'
  BY <1>2, <1>3, <1>6
<1>11. UniqueIds'
  <2>1. NewEntry(s).id = nextId
    BY DEF NewEntry
  <2>2. \A m, n \in D : msgs[m].id = msgs[n].id => m = n
    BY <1>1, <1>3 DEF UniqueIds
  <2>3. QED
    BY <1>3, <1>6, <2>1, <2>2 DEF UniqueIds
<1>12. SecretCurrent'
  <2>1. /\ NewEntry(s).secret = CurrentSecret(NewEntry(s).bss)
        /\ NewEntry(s).bss \in BSS
    BY DEF NewEntry
  <2>2. \A n \in D : /\ msgs[n].secret = CurrentSecret(msgs[n].bss)
                     /\ msgs[n].bss \in BSS
    BY <1>1, <1>3, <1>7 DEF SecretCurrent, Entry
  <2>3. \A b \in BSS : CurrentSecret(b)' = CurrentSecret(b)
    BY TakeIdType
  <2>4. QED
    BY <1>6, <2>1, <2>2, <2>3 DEF SecretCurrent
<1>13. QED
  BY <1>6, <1>9, <1>10, <1>11, <1>12

\* Sending keeps the invariant, in each of the three cases of list_add.
LEMMA SendInv ==
  ASSUME IInv, NEW s \in Stas, Send(s)
  PROVE  IInv'
<1> DEFINE D == Radius_client_get_id
           e == NewEntry(s)
<1>1. TypeOK /\ CountCoversList /\ TimerPending
  BY DEF IInv
<1>2. TakeId(s) /\ Radius_client_list_add(D, e)
  BY DEF Send
<1>3. IsFiniteSet(DOMAIN msgs) /\ Cardinality(DOMAIN msgs) \in Nat
  BY <1>1, ListFinite
<1>4. /\ IsFiniteSet(D) /\ Cardinality(D) \in Nat
      /\ Cardinality(D) <= num_msgs
      /\ num_msgs \in Nat /\ num_msgs <= MaxEntries
      /\ D \subseteq DOMAIN msgs
  <2>1. D \subseteq DOMAIN msgs
    BY DEF Radius_client_get_id
  <2>2. IsFiniteSet(D) /\ Cardinality(D) \in Nat
        /\ Cardinality(D) <= Cardinality(DOMAIN msgs)
    BY <1>3, <2>1, FS_Subset, FS_CardinalityType
  <2>3. QED
    BY <1>1, <1>3, <2>1, <2>2, SMTT(30) DEF CountCoversList, TypeOK
<1>5. sends + 1 \notin D /\ sends \in Nat
  BY <1>1, <1>4 DEF TypeOK
<1> HIDE DEF D, e
<1>6. PICK K \in SUBSET D :
        /\ msgs' = Prepend(K, e)
        /\ \/ num_msgs < MaxEntries /\ K = D /\ num_msgs' = num_msgs + 1
           \/ num_msgs >= MaxEntries /\ D = {} /\ num_msgs' = num_msgs
           \/ /\ num_msgs >= MaxEntries /\ num_msgs' = num_msgs
              /\ \E oldest \in D : K = D \ {oldest}
  <2>1. CASE num_msgs < MaxEntries
    BY <1>2, <1>4, <2>1 DEF Radius_client_list_add
  <2>2. CASE num_msgs >= MaxEntries /\ D = {}
    BY <1>2, <1>4, <2>2 DEF Radius_client_list_add
  <2>3. CASE num_msgs >= MaxEntries /\ D # {}
    <3>1. ~(num_msgs < MaxEntries)
      BY <1>4, <2>3
    <3>2. num_msgs' = num_msgs
          /\ \E oldest \in D : msgs' = Prepend(D \ {oldest}, e)
      BY <1>2, <2>3, <3>1, Zenon DEF Radius_client_list_add
    <3>3. QED
      BY <2>3, <3>2
  <2>4. QED
    BY <1>4, <2>1, <2>2, <2>3
<1>7. /\ DOMAIN msgs' = K \cup {sends + 1}
      /\ msgs' \in [DOMAIN msgs' -> Entry]
      /\ DOMAIN msgs' \subseteq 1 .. sends'
      /\ UniqueIds' /\ SecretCurrent'
  BY <1>2, <1>6, PrependInv DEF D, e
<1>8. CountCoversList' /\ num_msgs' \in 0 .. MaxEntries
  <2>1. IsFiniteSet(K) /\ Cardinality(K) \in Nat /\ sends + 1 \notin K
    BY <1>4, <1>5, <1>6, FS_Subset, FS_CardinalityType
  <2>2. Cardinality(K \cup {sends + 1}) = Cardinality(K) + 1
    BY <2>1, FS_AddElement
  <2>3. CASE num_msgs < MaxEntries /\ K = D /\ num_msgs' = num_msgs + 1
    BY <1>4, <1>7, <2>2, <2>3, SMTT(30) DEF CountCoversList
  <2>4. CASE num_msgs >= MaxEntries /\ D = {} /\ num_msgs' = num_msgs
    <3>1. Cardinality(K) = 0
      BY <1>6, <2>4, FS_EmptySet
    <3>2. QED
      BY <1>4, <1>7, <2>2, <2>4, <3>1 DEF CountCoversList
  <2>5. CASE /\ num_msgs >= MaxEntries /\ num_msgs' = num_msgs
             /\ \E oldest \in D : K = D \ {oldest}
    <3>1. Cardinality(K) = Cardinality(D) - 1
      BY <1>4, <2>5, FS_RemoveElement
    <3>2. QED
      BY <1>4, <1>7, <2>2, <2>5, <3>1 DEF CountCoversList
  <2>6. QED
    BY <1>6, <2>3, <2>4, <2>5
<1>9. timers' \in [0 .. MaxWait -> Nat] /\ TimerPending'
  <2>1. FirstWait \in 0 .. MaxWait /\ timers \in [0 .. MaxWait -> Nat]
    BY <1>1 DEF TypeOK
  <2>2. CASE D = {}
    <3>1. timers' = eloop_register_timeout(timers, FirstWait)
      BY <1>2, <2>2 DEF Radius_client_list_add
    <3>2. timers' \in [0 .. MaxWait -> Nat] /\ timers'[FirstWait] > 0
      BY <2>1, <3>1, RegisterType
    <3>3. QED
      BY <2>1, <3>2 DEF TimerPending
  <2>3. CASE D # {}
    <3>1. timers' = timers
      BY <1>2, <2>3 DEF Radius_client_list_add
    <3>2. DOMAIN msgs # {}
      BY <1>4, <2>3
    <3>3. QED
      BY <1>1, <2>1, <3>1, <3>2 DEF TimerPending
  <2>4. QED
    BY <2>2, <2>3
<1>10. TypeOK'
  BY <1>2, <1>7, <1>8, <1>9, TakeIdType DEF TypeOK
<1>11. QED
  BY <1>7, <1>8, <1>9, <1>10 DEF IInv

\* A step that only removes entries, counts at most as many as it removes, and
\* leaves the timeouts and the servers alone, keeps the invariant.
LEMMA RestrictInv ==
  ASSUME IInv, NEW D, D \subseteq DOMAIN msgs,
         msgs' = Restrict(msgs, D),
         num_msgs' \in 0 .. MaxEntries, Cardinality(D) <= num_msgs',
         UNCHANGED <<timers, conf, server>>,
         sends' \in 0 .. MaxSends, sends <= sends', nextId' \in Ids,
         sta_list' \in Seq(Stas),
         radius_identifier' \in [Stas -> Ids \cup {NoId}]
  PROVE  IInv'
<1>1. TypeOK /\ TimerPending
  BY DEF IInv
<1>2. DOMAIN msgs' = D /\ \A n \in D : msgs'[n] = msgs[n]
  BY DEF Restrict
<1>3. \A n \in D : msgs[n] \in Entry
  BY <1>1 DEF TypeOK
<1>4. msgs' \in [DOMAIN msgs' -> Entry]
  BY <1>2, <1>3 DEF Restrict
<1>5. DOMAIN msgs' \subseteq 1 .. sends'
  BY <1>1, <1>2, SMTT(30) DEF TypeOK
<1>6. TypeOK'
  BY <1>1, <1>4, <1>5 DEF TypeOK
<1>7. CountCoversList'
  BY <1>2 DEF CountCoversList
<1>8. UniqueIds' /\ SecretCurrent'
  BY <1>2 DEF IInv, UniqueIds, SecretCurrent, CurrentSecret
<1>9. TimerPending'
  BY <1>1, <1>2 DEF TimerPending
<1>10. QED
  BY <1>6, <1>7, <1>8, <1>9 DEF IInv

\* Taking an identifier without listing a request keeps the invariant.
LEMMA SendFailInv ==
  ASSUME IInv, NEW s \in Stas, SendFail(s)
  PROVE  IInv'
<1> DEFINE D == Radius_client_get_id
<1>1. TypeOK /\ CountCoversList
  BY DEF IInv
<1>2. TakeId(s) /\ msgs' = Restrict(msgs, D) /\ UNCHANGED <<num_msgs, timers>>
  BY DEF SendFail
<1>3. D \subseteq DOMAIN msgs
  BY DEF Radius_client_get_id
<1>4. Cardinality(D) <= num_msgs' /\ num_msgs' \in 0 .. MaxEntries
  <2>1. IsFiniteSet(DOMAIN msgs) /\ Cardinality(DOMAIN msgs) \in Nat
    BY <1>1, ListFinite
  <2>2. Cardinality(D) <= Cardinality(DOMAIN msgs) /\ Cardinality(D) \in Nat
    BY <1>3, <2>1, FS_Subset, FS_CardinalityType
  <2>3. QED
    BY <1>1, <1>2, <2>1, <2>2 DEF CountCoversList, TypeOK
<1>5. UNCHANGED <<timers, conf, server>> /\ sends <= sends'
  BY <1>1, <1>2 DEF TakeId, serverVars, TypeOK
<1> HIDE DEF D
<1>6. QED
  BY <1>2, <1>3, <1>4, <1>5, TakeIdType, RestrictInv

\* Handling a datagram keeps the invariant, whoever takes it.
LEMMA ReceiveInv ==
  ASSUME IInv, NEW id \in Ids, NEW valid \in BOOLEAN,
         Radius_client_receive(id, valid)
  PROVE  IInv'
<1>1. TypeOK /\ CountCoversList
  BY DEF IInv
<1>2. PICK n \in DOMAIN msgs : RemoveAcked(n)
  BY DEF Radius_client_receive
<1>3. IsFiniteSet(DOMAIN msgs) /\ Cardinality(DOMAIN msgs) \in Nat
  BY <1>1, ListFinite
<1>4. /\ Cardinality(DOMAIN msgs \ {n}) = Cardinality(DOMAIN msgs) - 1
      /\ Cardinality(DOMAIN msgs \ {n}) \in Nat
  BY <1>3, FS_RemoveElement, FS_CardinalityType
<1>5. msgs' = Restrict(msgs, DOMAIN msgs \ {n}) /\ num_msgs' = num_msgs - 1
  BY <1>2 DEF RemoveAcked
<1>6. /\ num_msgs' \in 0 .. MaxEntries
      /\ Cardinality(DOMAIN msgs \ {n}) <= num_msgs'
  BY <1>1, <1>3, <1>4, <1>5, SMTT(30) DEF CountCoversList, TypeOK
<1>7. UNCHANGED <<timers, conf, server, nextId, sends, sta_list>>
  BY DEF Radius_client_receive, serverVars
<1>8. radius_identifier' \in [Stas -> Ids \cup {NoId}]
  BY <1>1 DEF Radius_client_receive, ieee802_1x_receive_auth, TypeOK
<1>9. sends' \in 0 .. MaxSends /\ sends <= sends' /\ nextId' \in Ids
      /\ sta_list' \in Seq(Stas)
  BY <1>1, <1>7 DEF TypeOK
<1>10. QED
  BY <1>5, <1>6, <1>7, <1>8, <1>9, RestrictInv

\* Returning to the primary servers keeps the invariant.
LEMMA RetryPrimaryInv ==
  ASSUME IInv, Radius_retry_primary_timer
  PROVE  IInv'
<1> DEFINE new == [b \in BSS |-> 1]
<1>1. TypeOK /\ CountCoversList /\ TimerPending
  BY DEF IInv
<1>2. Radius_change_server(new, msgs, num_msgs, timers)
      /\ UNCHANGED <<conf, nextId, sends, staVars>>
  BY DEF Radius_retry_primary_timer
<1>3. \A b \in BSS : Len(conf[b]) \in Nat /\ Len(conf[b]) > 0
  BY <1>1 DEF TypeOK
<1>4. new \in [BSS -> Nat \ {0}] /\ \A b \in BSS : new[b] <= Len(conf[b])
  BY <1>3
<1> HIDE DEF new
<1>5. /\ msgs \in [DOMAIN msgs -> Entry] /\ num_msgs \in 0 .. MaxEntries
      /\ timers \in [0 .. MaxWait -> Nat]
  BY <1>1 DEF TypeOK
<1>6. Cardinality(DOMAIN msgs) <= num_msgs
      /\ (DOMAIN msgs # {} => \E d \in 0 .. MaxWait : timers[d] > 0)
  BY <1>1 DEF CountCoversList, TimerPending
<1>7. QED
  BY <1>2, <1>4, <1>5, <1>6, ChangeServerInv

\* The list after a pass of the timer: a part of the present list, its entries
\* of the right type and with their identifiers, BSSs and secrets.
LEMMA AfterPassType ==
  ASSUME IInv
  PROVE  /\ DOMAIN AfterPass \subseteq DOMAIN msgs
         /\ AfterPass \in [DOMAIN AfterPass -> Entry]
         /\ \A n \in DOMAIN AfterPass : /\ AfterPass[n].id = msgs[n].id
                                        /\ AfterPass[n].bss = msgs[n].bss
                                        /\ AfterPass[n].secret = msgs[n].secret
<1>1. TypeOK
  BY DEF IInv
<1>2. /\ DOMAIN AfterPass \subseteq DOMAIN msgs
      /\ \A n \in DOMAIN AfterPass :
           AfterPass[n] \in {msgs[n], Radius_client_retransmit(msgs[n])}
      /\ AfterPass = [n \in DOMAIN AfterPass |-> AfterPass[n]]
  BY DEF AfterPass
<1> HIDE DEF AfterPass
<1>3. ASSUME NEW n \in DOMAIN AfterPass
      PROVE  /\ AfterPass[n] \in Entry
             /\ AfterPass[n].id = msgs[n].id
             /\ AfterPass[n].bss = msgs[n].bss
             /\ AfterPass[n].secret = msgs[n].secret
  <2>1. msgs[n] \in Entry
    BY <1>1, <1>2 DEF TypeOK
  <2>2. Radius_client_retransmit(msgs[n]) \in Entry
    BY <1>1, <2>1, EntryTypes
  <2>3. /\ Radius_client_retransmit(msgs[n]).id = msgs[n].id
        /\ Radius_client_retransmit(msgs[n]).bss = msgs[n].bss
        /\ Radius_client_retransmit(msgs[n]).secret = msgs[n].secret
    BY <2>1, EntryKeeps
  <2>4. QED
    BY <1>2, <2>1, <2>2, <2>3
<1>4. AfterPass \in [DOMAIN AfterPass -> Entry]
  BY <1>2, <1>3
<1>5. QED
  BY <1>2, <1>3, <1>4

\* The next server of a BSS is one of its configured servers.
LEMMA NextServerType ==
  ASSUME IInv, NEW L
  PROVE  /\ NextServer(L) \in [BSS -> Nat \ {0}]
         /\ \A b \in BSS : NextServer(L)[b] <= Len(conf[b])
<1>1. TypeOK
  BY DEF IInv
<1>2. ASSUME NEW b \in BSS
      PROVE  NextServer(L)[b] \in Nat \ {0} /\ NextServer(L)[b] <= Len(conf[b])
  <2>1. /\ Len(conf[b]) \in Nat /\ Len(conf[b]) > 0
        /\ server[b] \in Nat \ {0} /\ server[b] <= Len(conf[b])
    BY <1>1 DEF TypeOK
  <2>2. server[b] % Len(conf[b]) \in 0 .. Len(conf[b]) - 1
    BY <2>1
  <2>3. NextServer(L)[b] \in {(server[b] % Len(conf[b])) + 1, server[b]}
    BY DEF NextServer
  <2>4. QED
    BY <2>1, <2>2, <2>3
<1>3. QED
  BY <1>2 DEF NextServer

\* The end of a pass keeps the invariant when a timeout is pending for what the
\* pass has left.
LEMMA FinishPassInv ==
  ASSUME IInv, NEW t \in [0 .. MaxWait -> Nat],
         DOMAIN AfterPass # {} => \E d \in 0 .. MaxWait : t[d] > 0,
         FinishPass(t), UNCHANGED <<conf, nextId, sends, staVars>>
  PROVE  IInv'
<1> DEFINE L == AfterPass
           gone == DOMAIN msgs \ DOMAIN L
           num == num_msgs - Cardinality(gone)
<1>1. TypeOK /\ CountCoversList
  BY DEF IInv
<1>2. /\ DOMAIN L \subseteq DOMAIN msgs /\ L \in [DOMAIN L -> Entry]
      /\ \A n \in DOMAIN L : /\ L[n].id = msgs[n].id
                             /\ L[n].bss = msgs[n].bss
                             /\ L[n].secret = msgs[n].secret
  BY AfterPassType
<1>3. Radius_change_server(NextServer(L), L, num, t)
  BY DEF FinishPass
<1> HIDE DEF L
<1>4. num \in 0 .. MaxEntries /\ Cardinality(DOMAIN L) <= num
  <2>1. IsFiniteSet(DOMAIN msgs) /\ Cardinality(DOMAIN msgs) \in Nat
    BY <1>1, ListFinite
  <2>2. IsFiniteSet(DOMAIN L) /\ Cardinality(DOMAIN L) \in Nat
    BY <1>2, <2>1, FS_Subset, FS_CardinalityType
  <2>3. DOMAIN msgs \cap DOMAIN L = DOMAIN L
    BY <1>2
  <2>4. \A S, T : IsFiniteSet(S) =>
          /\ IsFiniteSet(S \ T)
          /\ Cardinality(S \ T) = Cardinality(S) - Cardinality(S \cap T)
    BY FS_Difference
  <2>5. /\ IsFiniteSet(gone)
        /\ Cardinality(gone)
             = Cardinality(DOMAIN msgs) - Cardinality(DOMAIN msgs \cap DOMAIN L)
    BY <2>1, <2>4, Zenon
  <2>6. Cardinality(gone) = Cardinality(DOMAIN msgs) - Cardinality(DOMAIN L)
    BY <2>3, <2>5
  <2>7. Cardinality(gone) \in Nat
    BY <2>5, FS_CardinalityType
  <2>8. /\ Cardinality(DOMAIN msgs) <= num_msgs
        /\ num_msgs \in 0 .. MaxEntries /\ MaxEntries \in Nat
    BY <1>1 DEF CountCoversList, TypeOK
  <2>9. ASSUME NEW a \in Nat, NEW b \in Nat, NEW c \in Nat, NEW k \in Nat,
               NEW m \in Nat, k \in 0 .. m, a <= k, c = a - b
        PROVE  k - c \in 0 .. m /\ b <= k - c
    BY <2>9
  <2> HIDE DEF gone
  <2>10. num_msgs \in Nat
    BY <2>8
  <2>11. QED
    BY <2>1, <2>2, <2>6, <2>7, <2>8, <2>9, <2>10
<1> HIDE DEF num
<1>5. /\ NextServer(L) \in [BSS -> Nat \ {0}]
      /\ \A b \in BSS : NextServer(L)[b] <= Len(conf[b])
  BY NextServerType
<1>6. DOMAIN L # {} => \E d \in 0 .. MaxWait : t[d] > 0
  BY DEF L
<1>7. QED
  BY <1>2, <1>3, <1>4, <1>5, <1>6, ChangeServerInv

\* The timer callback keeps the invariant.
LEMMA TimerInv ==
  ASSUME IInv, Radius_client_timer
  PROVE  IInv'
<1>1. TypeOK
  BY DEF IInv
<1>2. timers[0] > 0 /\ timers \in [0 .. MaxWait -> Nat] /\ 0 \in 0 .. MaxWait
  BY <1>1 DEF Radius_client_timer, TimerNoList, TimerPass, TypeOK
<1>3. Fired \in [0 .. MaxWait -> Nat]
  BY <1>2 DEF Fired
<1>4. CASE TimerNoList
  <2>1. /\ DOMAIN msgs = {} /\ timers' = Fired
        /\ UNCHANGED <<msgs, num_msgs, conf, server, nextId, sends>>
        /\ UNCHANGED <<sta_list, radius_identifier>>
    BY <1>4 DEF TimerNoList, serverVars, staVars
  <2>2. TypeOK'
    BY <1>1, <1>3, <2>1 DEF TypeOK
  <2>3. TimerPending'
    BY <2>1 DEF TimerPending
  <2>4. CountCoversList' /\ UniqueIds' /\ SecretCurrent'
    BY <2>1 DEF IInv, CountCoversList, UniqueIds, SecretCurrent, CurrentSecret
  <2>5. QED
    BY <2>2, <2>3, <2>4 DEF IInv
<1>5. CASE TimerPass /\ DOMAIN AfterPass = {} /\ FinishPass(Fired)
  <2>1. UNCHANGED <<conf, nextId, sends, staVars>>
    BY <1>5 DEF TimerPass
  <2>2. QED
    BY <1>3, <1>5, <2>1, FinishPassInv
<1>6. CASE /\ TimerPass
           /\ \E first \in DOMAIN AfterPass :
                FinishPass(eloop_register_timeout(Fired, AfterPass[first].due))
  <2>1. PICK first \in DOMAIN AfterPass :
          FinishPass(eloop_register_timeout(Fired, AfterPass[first].due))
    BY <1>6
  <2>2. AfterPass[first].due \in 0 .. MaxWait
    <3>1. AfterPass[first] \in Entry
      BY AfterPassType
    <3>2. QED
      BY <3>1 DEF Entry
  <2> DEFINE t == eloop_register_timeout(Fired, AfterPass[first].due)
  <2>3. t \in [0 .. MaxWait -> Nat] /\ \E d \in 0 .. MaxWait : t[d] > 0
    BY <1>3, <2>2, RegisterType
  <2>4. FinishPass(t) /\ UNCHANGED <<conf, nextId, sends, staVars>>
    BY <1>6, <2>1 DEF TimerPass
  <2> HIDE DEF t
  <2>5. QED
    BY <2>3, <2>4, FinishPassInv
<1>7. QED
  BY <1>4, <1>5, <1>6 DEF Radius_client_timer, TimerPass

\* The passing of a second keeps the invariant: no pending timeout is lost.
LEMMA TickInv ==
  ASSUME IInv, Tick
  PROVE  IInv'
<1>1. TypeOK /\ TimerPending
  BY DEF IInv
<1>2. /\ UNCHANGED <<num_msgs, conf, server, nextId, sends>>
      /\ UNCHANGED <<sta_list, radius_identifier>>
  BY DEF Tick, serverVars, staVars
<1>3. DOMAIN msgs' = DOMAIN msgs
  BY DEF Tick
<1>4. ASSUME NEW n \in DOMAIN msgs
      PROVE  /\ msgs'[n] \in Entry
             /\ msgs'[n].id = msgs[n].id /\ msgs'[n].bss = msgs[n].bss
             /\ msgs'[n].secret = msgs[n].secret
  <2>1. msgs[n] \in Entry
    BY <1>1 DEF TypeOK
  <2> DEFINE due == IF msgs[n].due = 0 THEN 0 ELSE msgs[n].due - 1
             age == IF msgs[n].age = FirstWait THEN msgs[n].age
                    ELSE msgs[n].age + 1
  <2>2. msgs'[n] = [msgs[n] EXCEPT !.due = due, !.age = age]
    BY DEF Tick
  <2>3. due \in 0 .. MaxWait /\ age \in 0 .. FirstWait
    BY <2>1 DEF Entry
  <2> HIDE DEF due, age
  <2>4. QED
    BY <2>1, <2>2, <2>3 DEF Entry
<1>5. msgs' \in [DOMAIN msgs' -> Entry]
  <2>1. msgs' = [n \in DOMAIN msgs |-> msgs'[n]]
    BY DEF Tick
  <2>2. \A n \in DOMAIN msgs : msgs'[n] \in Entry
    BY <1>4
  <2>3. QED
    BY <1>3, <2>1, <2>2, Zenon
<1>6. timers' \in [0 .. MaxWait -> Nat]
  <2>1. /\ timers \in [0 .. MaxWait -> Nat]
        /\ 0 \in 0 .. MaxWait /\ 1 \in 0 .. MaxWait
    BY <1>1 DEF TypeOK
  <2> DEFINE new(d) == IF d = 0 THEN timers[0] + timers[1]
                       ELSE IF d = MaxWait THEN 0 ELSE timers[d + 1]
  <2>2. ASSUME NEW d \in 0 .. MaxWait
        PROVE  new(d) \in Nat
    <3>1. d # MaxWait => d + 1 \in 0 .. MaxWait
      OBVIOUS
    <3>2. QED
      BY <2>1, <3>1
  <2>3. timers' = [d \in 0 .. MaxWait |-> new(d)]
    BY DEF Tick
  <2> HIDE DEF new
  <2>4. QED
    BY <2>2, <2>3
<1>7. TypeOK'
  BY <1>1, <1>2, <1>3, <1>5, <1>6 DEF TypeOK
<1>8. CountCoversList'
  BY <1>2, <1>3 DEF IInv, CountCoversList
<1>9. UniqueIds' /\ SecretCurrent'
  <2>1. UniqueIds /\ SecretCurrent
    BY DEF IInv
  <2>2. UniqueIds'
    BY <1>3, <1>4, <2>1 DEF UniqueIds
  <2>3. SecretCurrent'
    BY <1>2, <1>3, <1>4, <2>1 DEF SecretCurrent, CurrentSecret
  <2>4. QED
    BY <2>2, <2>3
<1>10. TimerPending'
  <2> SUFFICES ASSUME DOMAIN msgs # {}
               PROVE  \E d \in 0 .. MaxWait : timers'[d] > 0
    BY <1>3 DEF TimerPending
  <2>1. PICK d \in 0 .. MaxWait : timers[d] > 0
    BY <1>1 DEF TimerPending
  <2>2. timers \in [0 .. MaxWait -> Nat] /\ 0 \in 0 .. MaxWait /\ 1 \in 0 .. MaxWait
    BY <1>1 DEF TypeOK
  <2>3. CASE d \in {0, 1}
    <3>1. timers'[0] = timers[0] + timers[1]
      BY <2>2 DEF Tick
    <3>2. QED
      BY <2>1, <2>2, <2>3, <3>1
  <2>4. CASE d \notin {0, 1}
    <3>1. d - 1 \in 0 .. MaxWait /\ d - 1 # 0 /\ d - 1 # MaxWait
      BY <2>4
    <3>2. \A e \in 0 .. MaxWait :
            e # 0 /\ e # MaxWait => timers'[e] = timers[e + 1]
      BY DEF Tick
    <3>3. (d - 1) + 1 = d
      OBVIOUS
    <3>4. timers'[d - 1] = timers[d]
      BY <3>1, <3>2, <3>3
    <3>5. QED
      BY <2>1, <3>1, <3>4
  <2>5. QED
    BY <2>3, <2>4
<1>11. QED
  BY <1>7, <1>8, <1>9, <1>10 DEF IInv

-----------------------------------------------------------------------------
(* Stations and the configuration.                                         *)

\* A step that leaves the list, its timeouts and the servers alone keeps the
\* invariant.
LEMMA StationInv ==
  ASSUME IInv, UNCHANGED <<clientVars, serverVars, nextId, sends>>,
         sta_list' \in Seq(Stas),
         radius_identifier' \in [Stas -> Ids \cup {NoId}]
  PROVE  IInv'
<1>1. UNCHANGED <<msgs, num_msgs, timers, conf, server, nextId, sends>>
  BY DEF clientVars, serverVars
<1>2. TypeOK'
  BY <1>1 DEF IInv, TypeOK
<1>3. (CountCoversList /\ UniqueIds /\ TimerPending /\ SecretCurrent)'
  BY <1>1 DEF IInv, CountCoversList, UniqueIds, TimerPending, SecretCurrent,
              CurrentSecret
<1>4. QED
  BY <1>2, <1>3 DEF IInv

\* A new station keeps the invariant.
LEMMA JoinInv ==
  ASSUME IInv, NEW s \in Stas, Join(s)
  PROVE  IInv'
<1>1. /\ sta_list \in Seq(Stas)
      /\ radius_identifier \in [Stas -> Ids \cup {NoId}]
  BY DEF IInv, TypeOK
<1>2. sta_list' \in Seq(Stas)
  BY <1>1 DEF Join
<1>3. radius_identifier' \in [Stas -> Ids \cup {NoId}]
  BY <1>1 DEF Join
<1>4. QED
  BY <1>2, <1>3, StationInv DEF Join

\* The removal of a station keeps the invariant.
LEMMA FreeInv ==
  ASSUME IInv, NEW i \in DOMAIN sta_list, Ap_free_sta(i)
  PROVE  IInv'
<1>1. /\ sta_list \in Seq(Stas)
      /\ radius_identifier \in [Stas -> Ids \cup {NoId}]
  BY DEF IInv, TypeOK
<1>2. i \in 1 .. Len(sta_list) /\ Len(sta_list) \in Nat
  BY <1>1
<1>3. /\ SubSeq(sta_list, 1, i - 1) \in Seq(Stas)
      /\ SubSeq(sta_list, i + 1, Len(sta_list)) \in Seq(Stas)
  BY <1>1, <1>2
<1>4. sta_list' \in Seq(Stas)
  BY <1>3 DEF Ap_free_sta
<1>5. radius_identifier' \in [Stas -> Ids \cup {NoId}]
  BY <1>1 DEF Ap_free_sta
<1>6. QED
  BY <1>4, <1>5, StationInv DEF Ap_free_sta

\* A new configuration keeps the invariant: the list is empty and the primary
\* servers are in use.
LEMMA ReloadInv ==
  ASSUME IInv, NEW c \in Configs, Handle_reload_config(c)
  PROVE  IInv'
<1>1. sends' \in 0 .. MaxSends /\ nextId' \in Ids
  BY DEF IInv, TypeOK, Handle_reload_config
<1>2. Radius_client_flush /\ conf' \in Configs
  BY DEF Handle_reload_config
<1>3. server' = [b \in BSS |-> 1] /\ conf' = c
  BY DEF Handle_reload_config
<1>4. server' \in [BSS -> Nat \ {0}]
  BY <1>3
<1>5. \A b \in BSS : server'[b] <= Len(conf'[b])
  <2> SUFFICES ASSUME NEW b \in BSS PROVE server'[b] <= Len(conf'[b])
    OBVIOUS
  <2>1. c[b] \in Seq(Secrets) /\ Len(c[b]) > 0
    OBVIOUS
  <2>2. QED
    BY <1>3, <2>1
<1>6. sta_list' \in Seq(Stas)
  BY DEF Handle_reload_config
<1>7. radius_identifier' \in [Stas -> Ids \cup {NoId}]
  BY DEF Handle_reload_config
<1>8. QED
  BY <1>1, <1>2, <1>4, <1>5, <1>6, <1>7, EmptyListInv

-----------------------------------------------------------------------------
(* The theorems.                                                           *)

\* Every step of the client, and every stuttering step, keeps the invariant.
LEMMA NextInv == IInv /\ [Next]_vars => IInv'
<1> SUFFICES ASSUME IInv, [Next]_vars PROVE IInv'
  OBVIOUS
<1>1. CASE \E s \in Stas : Join(s) \/ Send(s) \/ SendFail(s)
  BY <1>1, JoinInv, SendInv, SendFailInv
<1>2. CASE \E i \in DOMAIN sta_list : Ap_free_sta(i)
  BY <1>2, FreeInv
<1>3. CASE \E id \in Ids, valid \in BOOLEAN : Radius_client_receive(id, valid)
  BY <1>3, ReceiveInv
<1>4. CASE Radius_client_timer
  BY <1>4, TimerInv
<1>5. CASE Radius_retry_primary_timer
  BY <1>5, RetryPrimaryInv
<1>6. CASE \E c \in Configs : Handle_reload_config(c)
  BY <1>6, ReloadInv
<1>7. CASE Tick
  BY <1>7, TickInv
<1>8. CASE UNCHANGED vars
  <2>1. /\ UNCHANGED <<clientVars, serverVars, nextId, sends>>
        /\ UNCHANGED <<sta_list, radius_identifier>>
    BY <1>8 DEF vars, clientVars, serverVars
  <2>2. /\ sta_list' \in Seq(Stas)
        /\ radius_identifier' \in [Stas -> Ids \cup {NoId}]
    BY <2>1 DEF IInv, TypeOK
  <2>3. QED
    BY <2>1, <2>2, StationInv
<1>9. QED
  BY <1>1, <1>2, <1>3, <1>4, <1>5, <1>6, <1>7, <1>8 DEF Next

\* The inductive invariant holds of every run of the client.
LEMMA Invariance == Spec => []IInv
BY InitInv, NextInv, PTL DEF Spec

\* Every variable keeps its type: the back-off of Radius_client_retransmit
\* never exceeds the longest wait and num_msgs never leaves 0 .. MaxEntries.
THEOREM TypeCorrect == Spec => []TypeOK
<1>1. IInv => TypeOK
  BY DEF IInv
<1>2. QED
  BY <1>1, Invariance, PTL

\* num_msgs is an upper bound of the length of the list, so the list keeps to
\* the limit of Radius_client_list_add, although Radius_client_get_id removes
\* entries without counting them.
THEOREM CountSafe == Spec => []CountCoversList
<1>1. IInv => CountCoversList
  BY DEF IInv
<1>2. QED
  BY <1>1, Invariance, PTL

\* No two listed requests share an identifier, for every size of the identifier
\* space: what the scans of Radius_client_get_id and Radius_client_receive rely
\* on.
THEOREM IdsUnique == Spec => []UniqueIds
<1>1. IInv => UniqueIds
  BY DEF IInv
<1>2. QED
  BY <1>1, Invariance, PTL

\* A non-empty list always has a pending timeout of Radius_client_timer.
THEOREM TimerSafe == Spec => []TimerPending
<1>1. IInv => TimerPending
  BY DEF IInv
<1>2. QED
  BY <1>1, Invariance, PTL

\* No listed request is ever signed with the secret of another server than the
\* one in use, however the servers of the BSSs change.
THEOREM SecretSafe == Spec => []SecretCurrent
<1>1. IInv => SecretCurrent
  BY DEF IInv
<1>2. QED
  BY <1>1, Invariance, PTL

=============================================================================
