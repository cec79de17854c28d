---------------------------- MODULE BndStrgTable ----------------------------
(***************************************************************************)
(* The client table of the band steering daemon (bndstrg.c): a fixed array  *)
(* of entries, and chains of entries that start in Hash and continue        *)
(* through pNext.  The operators take a table and return the table the      *)
(* function leaves behind; a table is a record                             *)
(*                                                                         *)
(*   Entry, pNext, Hash, Size   the fields of struct bndstrg_cli_table      *)
(*   hung                       a walk of a chain will never end            *)
(*   stale                      a deletion removed an entry of a client     *)
(*                              other than the one it was for               *)
(*                                                                         *)
(* The code has no such flags.  stale is history: nothing reads it, and it  *)
(* tells the tables a late CLI_AGING_RSP has damaged from all the others.   *)
(*                                                                         *)
(* The functions of the daemon walk a chain until they meet NULL, so a      *)
(* chain with a cycle keeps them, and the daemon, for ever.                 *)
(***************************************************************************)
EXTENDS Integers, FiniteSets, FiniteSetsExt

CONSTANTS
  ADDRS,           \* MAC addresses of clients
  HASH,            \* MAC_ADDR_HASH_INDEX: the bucket of an address
  MAX_TABLE_SIZE   \* BND_STRG_MAX_TABLE_SIZE

ASSUME TableAssumption == MAX_TABLE_SIZE \in Nat \ {0}

Slots == 0 .. MAX_TABLE_SIZE - 1
Buckets == {HASH[a] : a \in ADDRS}
Bands == {"2G", "5G"}

NULL == -1
\* The value of a walk that does not end
LOOP == -2
\* The address of a cleared entry, all zero
NoAddr == "NoAddr"

\* The bits of Control_Flags
Flag(name, band) == <<name, band>>
Support(b) == Flag("SUPPORT", b)
Allow(b) == Flag("ALLOW_TO_CONNECT", b)
NotSupportHt(b) == Flag("NOT_SUPPORT_HT", b)
LowRssi(b) == Flag("LOW_RSSI", b)
Is2GOnly == Flag("ONLY", "2G")
Flags == {Support(b) : b \in Bands} \cup {Allow(b) : b \in Bands}
         \cup {NotSupportHt(b) : b \in Bands} \cup {LowRssi(b) : b \in Bands}
         \cup {Is2GOnly}

\* An entry just filled for address a; elapsed is the time since tp
NewEntry(a) ==
  [bValid |-> TRUE, Addr |-> a, AgingConfirmed |-> {}, Control_Flags |-> {},
   elapsed |-> 0, Rssi |-> [b \in Bands |-> 0], AuthReqCount |-> [b \in Bands |-> 0]]

EmptyTable ==
  [Entry |-> [i \in Slots |-> [NewEntry(NoAddr) EXCEPT !.bValid = FALSE]],
   pNext |-> [i \in Slots |-> NULL],
   Hash |-> [h \in Buckets |-> NULL],
   Size |-> 0, hung |-> FALSE, stale |-> FALSE]

-----------------------------------------------------------------------------
(* Chains.                                                                 *)

\* The slots a walk of chain h meets, one after the other, NULL past the end
Walk(t, h) ==
  LET at[k \in 0 .. MAX_TABLE_SIZE] ==
        IF k = 0 THEN t.Hash[h]
        ELSE IF at[k - 1] = NULL THEN NULL ELSE t.pNext[at[k - 1]]
  IN at

\* Where a walk of chain h stops that ends at NULL or at a slot of stop
StopAt(t, h, stop) ==
  LET at == Walk(t, h)
      hits == {k \in DOMAIN at : at[k] = NULL \/ at[k] \in stop}
  IN IF hits = {} THEN LOOP ELSE at[Min(hits)]

OnChain(t, h) == {Walk(t, h)[k] : k \in DOMAIN Walk(t, h)} \ {NULL}

-----------------------------------------------------------------------------
Valid(t) == {i \in Slots : t.Entry[i].bValid}

\* bndstrg_table_lookup: an invalid entry ends the walk and is returned
bndstrg_table_lookup(t, a) ==
  StopAt(t, HASH[a], {i \in Slots : ~t.Entry[i].bValid \/ t.Entry[i].Addr = a})

\* A plausible slip: the new entry becomes the head and loses the chain
Link_LoseChain(t, i, h) == [t EXCEPT !.Hash[h] = i]

\* Append slot i to chain h
LinkLast(t, i, h) ==
  LET last == StopAt(t, h, {j \in Slots : t.pNext[j] = NULL})
  IN CASE last = NULL -> [t EXCEPT !.Hash[h] = i]
       [] last = LOOP -> [t EXCEPT !.hung = TRUE]
       [] OTHER -> [t EXCEPT !.pNext[last] = i]

\* The slot bndstrg_insert_entry takes: the first vacancy, or, if there is
\* none, the last slot of the array, where its loop ends
Vacancy(t) ==
  IF Slots = Valid(t) THEN MAX_TABLE_SIZE - 1 ELSE Min(Slots \ Valid(t))

Fill(t, i, a) ==
  IF i \in Valid(t) THEN t ELSE [t EXCEPT !.Entry[i] = NewEntry(a), !.pNext[i] = NULL]

\* A plausible slip: the test for a full table is gone
Insert_NoLimit(t, a) ==
  [LinkLast(Fill(t, Vacancy(t), a), Vacancy(t), HASH[a]) EXCEPT !.Size = @ + 1]

bndstrg_insert_entry(t, a) ==
  IF t.Size >= MAX_TABLE_SIZE THEN t
  ELSE [LinkLast(Fill(t, Vacancy(t), a), Vacancy(t), HASH[a]) EXCEPT !.Size = @ + 1]

-----------------------------------------------------------------------------
\* A plausible slip: the head of a chain takes the rest of the chain with it
Unlink_CutTail(t, h, e) == IF t.Hash[h] = e THEN [t EXCEPT !.Hash[h] = NULL] ELSE t

\* Take slot e out of chain h, if the walk of that chain meets it
Unlink(t, h, e) ==
  LET at == Walk(t, h)
      k == Min({n \in DOMAIN at : at[n] = e})
  IN CASE StopAt(t, h, {e}) = LOOP -> [t EXCEPT !.hung = TRUE]
       [] StopAt(t, h, {e}) = NULL -> t
       [] OTHER -> IF k = 0 THEN [t EXCEPT !.Hash[h] = t.pNext[e]]
                   ELSE [t EXCEPT !.pNext[at[k - 1]] = t.pNext[e]]

\* The entry bndstrg_delete_entry means: the one of address a when Index is
\* past the array, else the one at Index, whoever owns it now
Meant(t, a, Index) ==
  IF Index >= MAX_TABLE_SIZE
  THEN StopAt(t, HASH[a], {i \in Slots : t.Entry[i].Addr = a})
  ELSE Index

\* A plausible slip: a deletion by address is not counted
Delete_KeepSize(t, a, Index) ==
  LET e == Meant(t, a, Index)
  IN IF e \notin Valid(t) THEN t
     ELSE [Unlink(t, HASH[a], e) EXCEPT
             !.Entry[e].bValid = FALSE,
             !.stale = @ \/ t.Entry[e].Addr # a,
             !.Size = @ - IF Index < MAX_TABLE_SIZE THEN 1 ELSE 0]

bndstrg_delete_entry(t, a, Index) ==
  LET e == Meant(t, a, Index)
  IN CASE e = LOOP -> [t EXCEPT !.hung = TRUE]
       [] e \notin Valid(t) /\ e # LOOP -> t
       [] e \in Valid(t) ->
            [Unlink(t, HASH[a], e) EXCEPT
               !.Entry[e] = [@ EXCEPT !.Addr = NoAddr, !.elapsed = 0, !.bValid = FALSE],
               !.stale = @ \/ t.Entry[e].Addr # a,
               !.Size = @ - 1]
=============================================================================
