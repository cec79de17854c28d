---------------------------- MODULE IappClients -----------------------------
(***************************************************************************)
(* The client table of one IAPP daemon under any sequence of associations   *)
(* and moves: an association or reassociation signal inserts a station      *)
(* (IAPP_SIG_Process), a MOVE-notify deletes it (IAPP_RcvHandlerMoveReq).   *)
(***************************************************************************)
EXTENDS IappTable

CONSTANT INTERFACES   \* indices of the hooked interfaces

ASSUME InterfacesAssumption == INTERFACES \subseteq Int

VARIABLE tbl

TableInit == tbl = mt_iapp_ft_client_table_init

Arrive(s, i) == ~tbl.hung /\ tbl' = mt_iapp_ft_client_insert(tbl, s, i)
Move(s) == ~tbl.hung /\ tbl' = mt_iapp_ft_client_delete(tbl, s)

TableNext == \E s \in STAS : Move(s) \/ \E i \in INTERFACES : Arrive(s, i)

TableSpec == TableInit /\ [][TableNext]_tbl

-----------------------------------------------------------------------------
(* Properties.                                                             *)

\* The size counts the entries in use, so that a table that is not full has
\* an entry to give.
SizeCountsUsed == tbl.ft_sta_table_size = Cardinality(Used(tbl))

\* A station in the table is found, at its own entry, whatever the next
\* pointers that deleted entries left behind have done to the chains.
StationsFound ==
  \A i \in Used(tbl) : mt_iapp_ft_client_look_up(tbl, tbl.ft_sta_info[i].sta_mac) = i

\* No walk of a chain goes round for ever: the look-ups of the receive loop
\* end and it goes back to waiting for packets.
LookupsEnd == ~tbl.hung
=============================================================================
