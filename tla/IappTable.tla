----------------------------- MODULE IappTable ------------------------------
(***************************************************************************)
(* The table of 802.11r clients of the IAPP daemon (mt_iapp_util.c): a      *)
(* fixed array of entries threaded on hash chains.  An operator takes a     *)
(* table and returns the table the function leaves; a table is a record     *)
(*                                                                         *)
(*   ft_sta_info, hash, ft_sta_table_size   as in FT_CLIENT_TABLE           *)
(*   hung                                   a walk of a chain never ends    *)
(*                                                                         *)
(* The functions follow next until NULL.  An entry keeps its next pointer   *)
(* when it is deleted and when its slot is used again.                      *)
(***************************************************************************)
EXTENDS Integers, FiniteSets, FiniteSetsExt

CONSTANTS
  STAS,              \* MAC addresses of stations
  HASH,              \* MAC_ADDR_HASH_INDEX: the bucket of an address
  MAX_NUM_OF_CLIENT

ASSUME TableAssumption ==
  /\ MAX_NUM_OF_CLIENT \in Nat \ {0}
  /\ DOMAIN HASH = STAS
  /\ "NoSta" \notin STAS

Slots == 0 .. MAX_NUM_OF_CLIENT - 1
Buckets == {HASH[s] : s \in STAS}

NULL == -1
\* The result of a walk that does not end
LOOP == -2
\* The address of an entry never used or deleted, all zero
NoSta == "NoSta"

mt_iapp_ft_client_table_init ==
  [ft_sta_info |-> [i \in Slots |-> [used |-> FALSE, sta_mac |-> NoSta, if_idx |-> 0,
                                     next |-> NULL]],
   hash |-> [h \in Buckets |-> NULL],
   ft_sta_table_size |-> 0,
   hung |-> FALSE]

Used(t) == {i \in Slots : t.ft_sta_info[i].used}

\* The slots a walk of chain h meets, NULL past its end
Walk(t, h) ==
  LET at[k \in 0 .. MAX_NUM_OF_CLIENT] ==
        IF k = 0 THEN t.hash[h]
        ELSE IF at[k - 1] = NULL THEN NULL ELSE t.ft_sta_info[at[k - 1]].next
  IN at

\* The place on chain h of the first slot of stop, or of the end
FirstStop(t, h, stop) ==
  LET at == Walk(t, h)
      hits == {k \in 0 .. MAX_NUM_OF_CLIENT : at[k] = NULL \/ at[k] \in stop}
  IN IF hits = {} THEN LOOP ELSE Min(hits)

mt_iapp_ft_client_look_up(t, s) ==
  LET k == FirstStop(t, HASH[s], {i \in Slots : t.ft_sta_info[i].sta_mac = s})
  IN IF k = LOOP THEN LOOP ELSE Walk(t, HASH[s])[k]

mt_iapp_find_ifidx_by_sta_mac(t, s) ==
  LET e == mt_iapp_ft_client_look_up(t, s)
  IN IF e \in Slots THEN t.ft_sta_info[e].if_idx ELSE e

-----------------------------------------------------------------------------
\* A plausible slip: the new entry becomes the head and the chain is lost
Link_LoseChain(t, i, h) == [t EXCEPT !.hash[h] = i]

\* Append slot i to chain h
LinkLast(t, i, h) ==
  LET k == FirstStop(t, h, {j \in Slots : t.ft_sta_info[j].next = NULL})
  IN CASE t.hash[h] = NULL -> [t EXCEPT !.hash[h] = i]
       [] t.hash[h] # NULL /\ k = LOOP -> [t EXCEPT !.hung = TRUE]
       [] OTHER -> [t EXCEPT !.ft_sta_info[Walk(t, h)[k]].next = i]

\* Take the first unused entry for station s on interface idx
Fill(t, s, idx) ==
  LET i == Min(Slots \ Used(t))
      filled == [t EXCEPT !.ft_sta_info[i] = [used |-> TRUE, sta_mac |-> s,
                                              if_idx |-> idx, next |-> @.next],
                          !.ft_sta_table_size = @ + 1]
  IN LinkLast(filled, i, HASH[s])

\* A plausible slip: the entry of a known station is left as it is
Insert_KeepOld(t, s, idx) ==
  LET e == mt_iapp_ft_client_look_up(t, s)
  IN CASE e = LOOP -> [t EXCEPT !.hung = TRUE]
       [] e \in Slots -> t
       [] e = NULL /\ t.ft_sta_table_size >= MAX_NUM_OF_CLIENT -> t
       [] OTHER -> Fill(t, s, idx)

mt_iapp_ft_client_insert(t, s, idx) ==
  LET e == mt_iapp_ft_client_look_up(t, s)
  IN CASE e = LOOP -> [t EXCEPT !.hung = TRUE]
       [] e \in Slots -> [t EXCEPT !.ft_sta_info[e] = [@ EXCEPT !.if_idx = idx,
                                                                !.used = TRUE]]
       [] e = NULL /\ t.ft_sta_table_size >= MAX_NUM_OF_CLIENT -> t
       [] OTHER -> Fill(t, s, idx)

-----------------------------------------------------------------------------
\* Take entry e out of the chain at place k of bucket h; e keeps its next
Unlink(t, h, k, e) ==
  IF k = 0 THEN [t EXCEPT !.hash[h] = t.ft_sta_info[e].next]
  ELSE [t EXCEPT !.ft_sta_info[Walk(t, h)[k - 1]].next = t.ft_sta_info[e].next]

\* A plausible slip: the size is not counted down
Delete_KeepSize(t, s) ==
  LET e == mt_iapp_ft_client_look_up(t, s)
  IN CASE e = LOOP -> [t EXCEPT !.hung = TRUE]
       [] e = NULL -> t
       [] OTHER ->
            [Unlink(t, HASH[s], FirstStop(t, HASH[s], {e}), e) EXCEPT
               !.ft_sta_info[e] = [used |-> FALSE, sta_mac |-> NoSta, if_idx |-> -1,
                                   next |-> @.next]]

mt_iapp_ft_client_delete(t, s) ==
  LET e == mt_iapp_ft_client_look_up(t, s)
  IN CASE e = LOOP -> [t EXCEPT !.hung = TRUE]
       [] e = NULL -> t
       [] OTHER ->
            [Unlink(t, HASH[s], FirstStop(t, HASH[s], {e}), e) EXCEPT
               !.ft_sta_info[e] = [used |-> FALSE, sta_mac |-> NoSta, if_idx |-> -1,
                                   next |-> @.next],
               !.ft_sta_table_size = @ - 1]
=============================================================================
