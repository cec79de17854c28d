-------------------------------- MODULE Iapp --------------------------------
(***************************************************************************)
(* The IAPP daemon (mtkiappd/src/rtmpiapp.c) on several access points of    *)
(* one LAN, with the wireless drivers and the stations around it.           *)
(*                                                                         *)
(* A station associates, or roams with an 802.11r reassociation; the driver *)
(* signals its daemon, which tells the other daemons: with a broadcast      *)
(* ADD-notify, or a MOVE-notify to the old access point.  A daemon that     *)
(* hears of a station in its table has its driver drop the station.         *)
(* Before a station can roam, the new access point fetches the PMK-R1 key   *)
(* from the R0KH, the access point of the first association.                *)
(*                                                                         *)
(* The drivers, the stations and the LAN are external.  Each handler of the *)
(* daemon is one action: the daemon is a single select loop (IAPP_Start     *)
(* calls IAPP_RcvHandler) and its ioctls to the driver are synchronous.     *)
(***************************************************************************)
EXTENDS IappTable, Sequences

CONSTANTS
  APS,            \* access points, each with its daemon
  IFS,            \* interfaces the daemon hooks (-wi), 0 .. IfNameWlanCount-1
  UNHOOKED,       \* interfaces of the driver that it does not hook
  OLDAP_KNOWN,    \* whether PeerIpAddr of a reassociation names the old AP
  MOVES,          \* bound of the model: (re)associations of a station
  LOSSES,         \* bound of the model: datagrams the LAN loses
  LEAVES,         \* bound of the model: stations that leave silently
  RESTARTS,       \* bound of the model: restarts of a daemon
  INFOS,          \* bound of the model: AP information exchanges
  OVER_DS         \* bound of the model: FT actions sent over the LAN

ASSUME IappAssumption ==
  /\ IFS # {} /\ IsFiniteSet(IFS) /\ IFS = 0 .. Cardinality(IFS) - 1
  /\ UNHOOKED \cap IFS = {} /\ -1 \notin UNHOOKED
  /\ IsFiniteSet(APS) /\ "NoAp" \notin APS
  /\ OLDAP_KNOWN \in BOOLEAN
  /\ {MOVES, LOSSES, LEAVES, RESTARTS, INFOS, OVER_DS} \subseteq Nat

\* PeerIpAddr 0, and the AP of a station that has none
NoAp == "NoAp"
NoAssoc == -1

VARIABLES
  table,   \* table[a]: SelfFtStaTable of the daemon of a
  up,      \* daemons that run
  sig,     \* sig[a]: driver signals waiting at SocketRawDrv
  udp,     \* datagrams on their way or waiting at SocketUdpSend
  tcp,     \* tcp[a]: connections waiting at SocketTcpRcv, one frame each
  rrb,     \* RRB frames on their way or waiting at SocketRawRRB
  assoc,   \* assoc[a][s]: the interface on which driver a has station s
  at,      \* at[s]: the AP station s uses
  l2,      \* l2[s]: where the switches of the LAN forward frames for s
  seq,     \* seq[s]: how often s has (re)associated, its sequence number
  r0kh,    \* r0kh[s]: the R0KH of s
  peer,    \* peer[a][s]: the R0KH of s as driver a was told (STATION_NOTIFY)
  want,    \* want[a]: stations for which driver a needs the PMK-R1
  pmk,     \* pmk[a]: stations of which driver a holds a key
  heard,   \* heard[a]: APs of which driver a has neighbour information
  spent    \* how much of the bounds has been used

daemon == <<table, up, sig, udp, tcp, rrb>>
driver == <<assoc, peer, want, pmk, heard>>
station == <<at, l2, seq, r0kh>>
vars == <<table, up, sig, udp, tcp, rrb, assoc, at, l2, seq, r0kh, peer, want, pmk, heard, spent>>

Sigs == {"FT_ASSOCIATION", "FT_REASSOCIATION", "KEY_REQ", "KEY_RSP_AUTO", "ACTION",
         "INFO_BROADCAST", "AP_INFO_REQ", "AP_INFO_RSP"}
Cmds == {"ADD_NOTIFY", "MOVE_NOTIFY", "MOVE_RESPONSE", "SEND_SECURITY_BLOCK",
         "ACK_SECURITY_BLOCK", "INFO_BROADCAST", "INFO_REQUEST", "INFO_RESPONSE"}

\* A signal of interface i; n is the sequence number of an association, or the
\* interface an FT action is for
Signal(name, s, n, i, p) == [Sig |-> name, sta |-> s, seq |-> n, if |-> i, peer |-> p]
Frame(cmd, a, s, n) == [cmd |-> cmd, from |-> a, sta |-> s, seq |-> n]

Init ==
  /\ table = [a \in APS |-> mt_iapp_ft_client_table_init]
  /\ up = APS
  /\ sig = [a \in APS |-> <<>>]
  /\ udp = {}
  /\ tcp = [a \in APS |-> <<>>]
  /\ rrb = {}
  /\ assoc = [a \in APS |-> [s \in STAS |-> NoAssoc]]
  /\ at = [s \in STAS |-> NoAp]
  /\ l2 = [s \in STAS |-> NoAp]
  /\ seq = [s \in STAS |-> 0]
  /\ r0kh = [s \in STAS |-> NoAp]
  /\ peer = [a \in APS |-> [s \in STAS |-> NoAp]]
  /\ want = [a \in APS |-> {}]
  /\ pmk = [a \in APS |-> {}]
  /\ heard = [a \in APS |-> {}]
  /\ spent = [losses |-> 0, leaves |-> 0, restarts |-> 0, infos |-> 0, ds |-> 0]

-----------------------------------------------------------------------------
(* The driver and the stations (external).                                 *)

\* The driver of a sends its daemon a signal, if one is running
Raise(a, g) == IF a \in up THEN [sig EXCEPT ![a] = Append(@, g)] ELSE sig

\* A first association: a becomes the R0KH and earlier keys are void
Associate(a, i, s) ==
  /\ at[s] # a /\ seq[s] < MOVES
  /\ assoc' = [assoc EXCEPT ![a][s] = i]
  /\ at' = [at EXCEPT ![s] = a]
  /\ seq' = [seq EXCEPT ![s] = @ + 1]
  /\ r0kh' = [r0kh EXCEPT ![s] = a]
  /\ pmk' = [b \in APS |-> IF b = a THEN pmk[b] \cup {s} ELSE pmk[b] \ {s}]
  /\ want' = [b \in APS |-> want[b] \ {s}]
  /\ sig' = Raise(a, Signal("FT_ASSOCIATION", s, seq'[s], i, NoAp))
  /\ UNCHANGED <<table, up, udp, tcp, rrb, l2, peer, heard, spent>>

\* A station that has authenticated roams to a, for which a needs a key
Reassociate(a, i, s) ==
  /\ at[s] \notin {a, NoAp} /\ seq[s] < MOVES /\ s \in pmk[a]
  /\ assoc' = [assoc EXCEPT ![a][s] = i]
  /\ at' = [at EXCEPT ![s] = a]
  /\ seq' = [seq EXCEPT ![s] = @ + 1]
  /\ sig' = Raise(a, Signal("FT_REASSOCIATION", s, seq'[s], i,
                             IF OLDAP_KNOWN THEN at[s] ELSE NoAp))
  /\ UNCHANGED <<table, up, udp, tcp, rrb, l2, r0kh, peer, want, pmk, heard, spent>>

\* What station s is waiting for at a is on its way
KeyInFlight(a, s) ==
  \/ \E n \in DOMAIN sig[a] : sig[a][n].Sig = "KEY_REQ" /\ sig[a][n].sta = s
  \/ \E m \in udp : m.cmd = "SEND_SECURITY_BLOCK" /\ m.from = a /\ m.sta = s
  \/ \E b \in APS : \E n \in DOMAIN tcp[b] :
       tcp[b][n].cmd = "SEND_SECURITY_BLOCK" /\ tcp[b][n].from = a /\ tcp[b][n].sta = s
  \/ \E b \in APS : \E n \in DOMAIN sig[b] :
       sig[b][n].Sig = "KEY_RSP_AUTO" /\ sig[b][n].peer = a /\ sig[b][n].sta = s
  \/ \E n \in DOMAIN tcp[a] : tcp[a][n].cmd = "ACK_SECURITY_BLOCK" /\ tcp[a][n].sta = s

\* An authentication request reaches the driver of a: it needs the key
MustFetch(a, s) ==
  at[s] \notin {a, NoAp} /\ s \notin pmk[a] /\ ~KeyInFlight(a, s)
FetchKey(a, i, s) ==
  /\ want' = [want EXCEPT ![a] = @ \cup {s}]
  /\ sig' = Raise(a, Signal("KEY_REQ", s, 0, i, peer[a][s]))

\* A station authenticates at a, or tries again, over the air
FtAuth(a, i, s) ==
  /\ MustFetch(a, s)
  /\ FetchKey(a, i, s)
  /\ UNCHANGED <<table, up, udp, tcp, rrb, assoc, station, peer, pmk, heard, spent>>

\* A station at a authenticates at interface i of b through a
FtAction(a, s, b, i) ==
  /\ at[s] = a /\ b # a /\ assoc[a][s] # NoAssoc
  /\ spent.ds < OVER_DS /\ a \in up
  /\ spent' = [spent EXCEPT !.ds = @ + 1]
  /\ sig' = Raise(a, Signal("ACTION", s, i, assoc[a][s], b))
  /\ UNCHANGED <<table, up, udp, tcp, rrb, driver, station>>

\* A station goes away: the driver drops it and has no signal for that
Leave(a, s) ==
  /\ assoc[a][s] # NoAssoc /\ at[s] = a /\ spent.leaves < LEAVES
  /\ assoc' = [assoc EXCEPT ![a][s] = NoAssoc]
  /\ at' = [at EXCEPT ![s] = NoAp]
  /\ want' = [b \in APS |-> want[b] \ {s}]
  /\ spent' = [spent EXCEPT !.leaves = @ + 1]
  /\ UNCHANGED <<daemon, l2, seq, r0kh, peer, pmk, heard>>

\* The driver reports itself to its neighbours, or asks for theirs
ApInfo(a, name) ==
  /\ spent.infos < INFOS /\ a \in up
  /\ spent' = [spent EXCEPT !.infos = @ + 1]
  /\ sig' = Raise(a, Signal(name, NoSta, 0, 0, NoAp))
  /\ UNCHANGED <<table, up, udp, tcp, rrb, driver, station>>

\* The LAN loses a datagram or an RRB frame
Lose ==
  /\ spent.losses < LOSSES
  /\ spent' = [spent EXCEPT !.losses = @ + 1]
  /\ \/ \E m \in udp : udp' = udp \ {m} /\ UNCHANGED rrb
     \/ \E f \in rrb : rrb' = rrb \ {f} /\ UNCHANGED udp
  /\ UNCHANGED <<table, up, sig, tcp, driver, station>>

-----------------------------------------------------------------------------
(* The daemon: sending.                                                    *)

\* IAPP_UDP_PacketSend: a broadcast; the sender skips its own copy
Broadcast(m) ==
  udp \cup {[cmd |-> m.cmd, from |-> m.from, sta |-> m.sta, seq |-> m.seq, to |-> b] :
              b \in up \ {m.from}}

\* A frame over a connection of its own; connect fails where no daemon runs
Connect(b, m) == IF b \in up THEN [tcp EXCEPT ![b] = Append(@, m)] ELSE tcp

\* IAPP_TCP_PacketSend and FT_KDP_SecurityBlockSend: by TCP to p, or, if p is
\* not known, by broadcast
Send(p, m) ==
  /\ udp' = IF p = NoAp THEN Broadcast(m) ELSE udp
  /\ tcp' = IF p = NoAp THEN tcp ELSE Connect(p, m)

\* The interface a command of index idx reaches.  The index is cast to UCHAR;
\* past IfNameWlanIoctl the name read is too long, and replaced by the
\* default interface, or no interface has it, and the ioctl fails
Reached(idx) == IF idx \in IFS THEN {idx} ELSE {0, NULL}

-----------------------------------------------------------------------------
(* The daemon: signals of the driver, IAPP_RcvHandlerRawDrv.               *)

Running(a) == a \in up /\ ~table[a].hung

\* The next signal of a is name, from an interface that is hooked
NextSignal(a, name) ==
  Running(a) /\ sig[a] # <<>> /\ Head(sig[a]).Sig = name /\ Head(sig[a]).if \in IFS
Consumed(a) == [sig EXCEPT ![a] = Tail(@)]

\* IAPP_SIG_Process finds no index for the interface
UnknownInterface(a) ==
  /\ Running(a) /\ sig[a] # <<>> /\ Head(sig[a]).if \notin IFS
  /\ sig' = Consumed(a)
  /\ UNCHANGED <<table, up, udp, tcp, rrb, driver, station, spent>>

\* IAPP_L2UpdateFrameSend: the switches learn that s is behind a
L2Update(s, a) == l2' = [l2 EXCEPT ![s] = a]

FT_ASSOCIATION(a) ==
  LET g == Head(sig[a])
      t == mt_iapp_ft_client_insert(table[a], g.sta, g.if)
  IN /\ NextSignal(a, "FT_ASSOCIATION")
     /\ sig' = Consumed(a)
     /\ table' = [table EXCEPT ![a] = t]
     /\ IF t.hung THEN UNCHANGED <<udp, l2>>
        ELSE /\ udp' = Broadcast(Frame("ADD_NOTIFY", a, g.sta, g.seq))
             /\ L2Update(g.sta, a)
     /\ UNCHANGED <<up, tcp, rrb, driver, at, seq, r0kh, spent>>

FT_REASSOCIATION(a) ==
  LET g == Head(sig[a])
      t == mt_iapp_ft_client_insert(table[a], g.sta, g.if)
  IN /\ NextSignal(a, "FT_REASSOCIATION")
     /\ sig' = Consumed(a)
     /\ table' = [table EXCEPT ![a] = t]
     /\ IF t.hung THEN UNCHANGED <<udp, tcp, l2>>
        ELSE /\ Send(g.peer, Frame("MOVE_NOTIFY", a, g.sta, g.seq))
             /\ L2Update(g.sta, a)
     /\ UNCHANGED <<up, rrb, driver, at, seq, r0kh, spent>>

FT_KDP_SecurityBlockSend(a) ==
  LET g == Head(sig[a])
  IN /\ NextSignal(a, "KEY_REQ")
     /\ sig' = Consumed(a)
     /\ Send(g.peer, Frame("SEND_SECURITY_BLOCK", a, g.sta, 0))
     /\ UNCHANGED <<table, up, rrb, driver, station, spent>>

FT_KDP_SecurityBlockAck(a) ==
  LET g == Head(sig[a])
  IN /\ NextSignal(a, "KEY_RSP_AUTO")
     /\ sig' = Consumed(a)
     /\ tcp' = Connect(g.peer, Frame("ACK_SECURITY_BLOCK", a, g.sta, 0))
     /\ UNCHANGED <<table, up, udp, rrb, driver, station, spent>>

FT_RRB_ActionForward(a) ==
  LET g == Head(sig[a])
  IN /\ NextSignal(a, "ACTION")
     /\ sig' = Consumed(a)
     /\ rrb' = rrb \cup {[to |-> g.peer, if |-> g.seq, sta |-> g.sta]}
     /\ UNCHANGED <<table, up, udp, tcp, driver, station, spent>>

\* FT_KDP_InformationReportSend and FT_KDP_InformationRequestSend
InformationSend(a, name, cmd) ==
  /\ NextSignal(a, name)
  /\ sig' = Consumed(a)
  /\ udp' = Broadcast(Frame(cmd, a, NoSta, 0))
  /\ UNCHANGED <<table, up, tcp, rrb, driver, station, spent>>

FT_KDP_InformationResponseSend(a) ==
  LET g == Head(sig[a])
  IN /\ NextSignal(a, "AP_INFO_RSP")
     /\ sig' = Consumed(a)
     /\ tcp' = IF g.peer = NoAp THEN tcp
               ELSE Connect(g.peer, Frame("INFO_RESPONSE", a, NoSta, 0))
     /\ UNCHANGED <<table, up, udp, rrb, driver, station, spent>>

-----------------------------------------------------------------------------
(* The daemon: frames of other daemons.                                    *)

\* The driver of a drops station s (RT_SET_DEL_MAC_ENTRY)
DelMacEntry(a, s) == assoc' = [assoc EXCEPT ![a][s] = NoAssoc]

\* A plausible slip: the notification is recorded and the station kept
AddNotify_Keep(a, m) ==
  /\ peer' = [peer EXCEPT ![a][m.sta] = m.from]
  /\ UNCHANGED <<table, assoc, tcp>>

\* A plausible slip: the station leaves the table as well
AddNotify_Forget(a, m) ==
  /\ IF mt_iapp_find_ifidx_by_sta_mac(table[a], m.sta) >= 0
     THEN DelMacEntry(a, m.sta) ELSE UNCHANGED assoc
  /\ table' = [table EXCEPT ![a] = mt_iapp_ft_client_delete(@, m.sta)]
  /\ peer' = [peer EXCEPT ![a][m.sta] = m.from]
  /\ UNCHANGED tcp

\* ADD-notify in IAPP_RcvHandlerUdp: the station goes, its entry stays; then
\* every interface learns who has the station
AddNotify(a, m) ==
  LET idx == mt_iapp_find_ifidx_by_sta_mac(table[a], m.sta)
  IN IF idx = LOOP
     THEN table' = [table EXCEPT ![a].hung = TRUE] /\ UNCHANGED <<assoc, peer, tcp>>
     ELSE /\ IF idx >= 0 THEN DelMacEntry(a, m.sta) ELSE UNCHANGED assoc
          /\ peer' = [peer EXCEPT ![a][m.sta] = m.from]
          /\ UNCHANGED <<table, tcp>>

\* A station that is not in the table is not known here: no answer.  left is
\* what remains of the connections once the frame has been taken
IAPP_RcvHandlerMoveReq(a, m, left) ==
  LET idx == mt_iapp_find_ifidx_by_sta_mac(table[a], m.sta)
      rsp == Frame("MOVE_RESPONSE", a, m.sta, m.seq)
  IN /\ CASE idx = LOOP -> table' = [table EXCEPT ![a].hung = TRUE] /\ UNCHANGED assoc
          [] idx = NULL -> UNCHANGED <<table, assoc>>
          [] OTHER -> /\ DelMacEntry(a, m.sta)
                      /\ table' = [table EXCEPT ![a] = mt_iapp_ft_client_delete(@, m.sta)]
     /\ tcp' = IF idx >= 0 /\ m.from \in up
               THEN [left EXCEPT ![m.from] = Append(@, rsp)] ELSE left
     /\ UNCHANGED <<peer, sig, want, pmk, heard>>

\* The driver of the R0KH answers a key request (external)
KeyReqCommand(a, m) ==
  sig' = IF r0kh[m.sta] = a THEN Raise(a, Signal("KEY_RSP_AUTO", m.sta, 0, 0, m.from)) ELSE sig

\* if_idx is unsigned here, so the test for -1 never holds
IAPP_RcvHandlerSSB(a, m) ==
  LET idx == mt_iapp_find_ifidx_by_sta_mac(table[a], m.sta)
  IN /\ IF idx = LOOP
        THEN table' = [table EXCEPT ![a].hung = TRUE] /\ UNCHANGED sig
        ELSE /\ UNCHANGED table
             /\ \E i \in Reached(idx) : IF i = NULL THEN UNCHANGED sig ELSE KeyReqCommand(a, m)
     /\ UNCHANGED <<assoc, peer, want, pmk, heard>>

\* What the driver does with neighbour information (external)
NeighborCommand(a, m) ==
  CASE m.cmd = "INFO_REQUEST" ->
         sig' = Raise(a, Signal("AP_INFO_RSP", NoSta, 0, 0, m.from)) /\ UNCHANGED heard
    [] OTHER -> heard' = [heard EXCEPT ![a] = @ \cup {m.from}] /\ UNCHANGED sig

IAPP_RcvHandlerApInfor(a, m, if_idx) ==
  /\ \E i \in Reached(if_idx) :
       IF i = NULL THEN UNCHANGED <<sig, heard>> ELSE NeighborCommand(a, m)
  /\ UNCHANGED <<table, assoc, peer, want, pmk>>

IAPP_RcvHandlerUdp(a, m) ==
  /\ Running(a) /\ m \in udp /\ m.to = a
  /\ udp' = udp \ {m}
  /\ CASE m.cmd = "ADD_NOTIFY" -> AddNotify(a, m) /\ UNCHANGED <<sig, want, pmk, heard>>
       [] m.cmd = "MOVE_NOTIFY" -> IAPP_RcvHandlerMoveReq(a, m, tcp)
       [] m.cmd = "SEND_SECURITY_BLOCK" -> IAPP_RcvHandlerSSB(a, m) /\ UNCHANGED tcp
       [] OTHER -> IAPP_RcvHandlerApInfor(a, m, -1) /\ UNCHANGED tcp
  /\ UNCHANGED <<up, rrb, station, spent>>

\* ACK: every interface gets the key, the driver takes it if it asked for it
IAPP_RcvHandlerTcp(a) ==
  LET m == Head(tcp[a])
      left == [tcp EXCEPT ![a] = Tail(@)]
  IN /\ Running(a) /\ tcp[a] # <<>>
     /\ CASE m.cmd = "MOVE_NOTIFY" -> IAPP_RcvHandlerMoveReq(a, m, left)
          [] m.cmd = "MOVE_RESPONSE" ->
               tcp' = left /\ UNCHANGED <<table, sig, driver>>
          [] m.cmd = "SEND_SECURITY_BLOCK" -> IAPP_RcvHandlerSSB(a, m) /\ tcp' = left
          [] m.cmd = "ACK_SECURITY_BLOCK" ->
               /\ tcp' = left
               /\ pmk' = [pmk EXCEPT ![a] = @ \cup (want[a] \cap {m.sta})]
               /\ want' = [want EXCEPT ![a] = @ \ {m.sta}]
               /\ UNCHANGED <<table, sig, assoc, peer, heard>>
          [] OTHER -> IAPP_RcvHandlerApInfor(a, m, 0) /\ tcp' = left
     /\ UNCHANGED <<up, udp, rrb, station, spent>>

\* The driver of a gets an FT action: the station authenticates here.  A frame
\* for an interface that is not hooked is ignored
IAPP_RcvHandlerRawRRB(a, f) ==
  /\ Running(a) /\ f \in rrb /\ f.to = a
  /\ rrb' = rrb \ {f}
  /\ IF f.if \in IFS /\ MustFetch(a, f.sta) THEN FetchKey(a, f.if, f.sta)
     ELSE UNCHANGED <<want, sig>>
  /\ UNCHANGED <<table, up, udp, tcp, assoc, peer, pmk, heard, station, spent>>

-----------------------------------------------------------------------------
(* Restart.  The handler of SIGTERM closes the sockets even while the loop  *)
(* walks a chain; the new daemon starts with an empty table.               *)

IAPP_TerminateHandle(a) ==
  /\ a \in up /\ spent.restarts < RESTARTS
  /\ up' = up \ {a}
  /\ sig' = [sig EXCEPT ![a] = <<>>]
  /\ tcp' = [tcp EXCEPT ![a] = <<>>]
  /\ udp' = {m \in udp : m.to # a}
  /\ rrb' = {f \in rrb : f.to # a}
  /\ spent' = [spent EXCEPT !.restarts = @ + 1]
  /\ UNCHANGED <<table, driver, station>>

IAPP_Start(a) ==
  /\ a \notin up
  /\ up' = up \cup {a}
  /\ table' = [table EXCEPT ![a] = mt_iapp_ft_client_table_init]
  /\ UNCHANGED <<sig, udp, tcp, rrb, driver, station, spent>>

-----------------------------------------------------------------------------
Environment ==
  \/ \E a \in APS, i \in IFS \cup UNHOOKED, s \in STAS :
       Associate(a, i, s) \/ Reassociate(a, i, s) \/ FtAuth(a, i, s)
  \/ \E a, b \in APS, i \in IFS \cup UNHOOKED, s \in STAS : FtAction(a, s, b, i)
  \/ \E a \in APS, s \in STAS : Leave(a, s)
  \/ \E a \in APS, name \in {"INFO_BROADCAST", "AP_INFO_REQ"} : ApInfo(a, name)
  \/ Lose

IAPP_RcvHandlerRawDrv(a) ==
  \/ UnknownInterface(a)
  \/ FT_ASSOCIATION(a)
  \/ FT_REASSOCIATION(a)
  \/ FT_KDP_SecurityBlockSend(a)
  \/ FT_KDP_SecurityBlockAck(a)
  \/ FT_RRB_ActionForward(a)
  \/ InformationSend(a, "INFO_BROADCAST", "INFO_BROADCAST")
  \/ InformationSend(a, "AP_INFO_REQ", "INFO_REQUEST")
  \/ FT_KDP_InformationResponseSend(a)

IAPP_RcvHandler(a) ==
  \/ \E m \in udp : IAPP_RcvHandlerUdp(a, m)
  \/ IAPP_RcvHandlerTcp(a)
  \/ \E f \in rrb : IAPP_RcvHandlerRawRRB(a, f)
  \/ IAPP_RcvHandlerRawDrv(a)

Next ==
  \/ Environment
  \/ \E a \in APS : IAPP_RcvHandler(a) \/ IAPP_TerminateHandle(a) \/ IAPP_Start(a)

Spec == Init /\ [][Next]_vars

\* The loop serves every socket that is ready in each turn; a station that
\* gets no answer authenticates again
Fairness ==
  /\ \A a \in APS :
       /\ WF_vars(IAPP_RcvHandlerRawDrv(a))
       /\ WF_vars(IAPP_RcvHandlerTcp(a))
       /\ WF_vars(\E m \in udp : IAPP_RcvHandlerUdp(a, m))
       /\ WF_vars(\E f \in rrb : IAPP_RcvHandlerRawRRB(a, f))
  /\ \A a \in APS, s \in STAS :
       WF_vars(s \in want[a] /\ \E i \in IFS : FtAuth(a, i, s))

LiveSpec == Spec /\ Fairness

-----------------------------------------------------------------------------
(* Properties.                                                             *)

\* The state is of the types of the C declarations, and the size of each
\* table is the number of entries in use.
TypeOK ==
  /\ up \subseteq APS
  /\ \A a \in APS :
       /\ table[a].ft_sta_table_size = Cardinality(Used(table[a]))
       /\ \A i \in Slots : /\ table[a].ft_sta_info[i].next \in Slots \cup {NULL}
                          /\ table[a].ft_sta_info[i].sta_mac \in STAS \cup {NoSta}
                          /\ table[a].ft_sta_info[i].if_idx \in IFS \cup {-1}
       /\ \A n \in DOMAIN sig[a] : sig[a][n].Sig \in Sigs
       /\ \A n \in DOMAIN tcp[a] : tcp[a][n].cmd \in Cmds
       /\ want[a] \cap pmk[a] = {}
  /\ \A m \in udp : m.cmd \in Cmds /\ m.to # m.from
  /\ assoc \in [APS -> [STAS -> IFS \cup UNHOOKED \cup {NoAssoc}]]

\* The daemon knows every station of its driver: once the signal of an
\* association on a hooked interface is handled, the table has the station
\* with the interface it uses, whatever notifications came in between.  A
\* daemon that has restarted has forgotten the stations it had, and one that
\* goes round a chain handles nothing.
TableCoversDriver ==
  spent.restarts = 0 => \A a \in up, s \in STAS :
    \/ assoc[a][s] \notin IFS
    \/ table[a].hung
    \/ \E n \in DOMAIN sig[a] : sig[a][n].sta = s
    \/ mt_iapp_find_ifidx_by_sta_mac(table[a], s) = assoc[a][s]

Quiet == udp = {} /\ rrb = {} /\ \A a \in APS : sig[a] = <<>> /\ tcp[a] = <<>>

\* A notification of a station reaches every other access point: it is a
\* broadcast, or the old access point is the only other one
EveryoneTold == OLDAP_KNOWN => Cardinality(APS) <= 2

\* When everything sent has been handled, a station is associated at most
\* where the switches of the LAN forward its frames: no access point keeps a
\* station that another one has announced.  The LAN has lost no datagram, as
\* nothing repeats or acknowledges an ADD-notify, no daemon has restarted or
\* goes round a chain, and the notifications reach everyone: with a third
\* access point a MOVE-notify to the old one alone may come before the old
\* one has heard of the station from its own driver.
OneHome ==
  /\ Quiet /\ EveryoneTold
  /\ spent.restarts = 0 /\ spent.losses = 0
  /\ \A a \in APS : ~table[a].hung
  => \A a \in APS, s \in STAS : assoc[a][s] \in IFS => l2[s] = a

\* When everything sent has been handled, at most one access point has a
\* station: the notifications have removed it everywhere else.
OneAp ==
  Quiet => \A a, b \in APS, s \in STAS : assoc[a][s] \in IFS /\ assoc[b][s] \in IFS => a = b

\* An access point whose driver needs the key of a station gets it from the
\* R0KH, or the station no longer needs it.
KeyArrives ==
  \A a \in APS, s \in STAS : s \in want[a] ~> s \notin want[a]

\* The R0KH of a station answers a key request that is sent to it: taking the
\* request from its connection leads to a response of its driver.
R0khAnswers ==
  [][\A a \in APS :
       (/\ tcp[a] # <<>> /\ tcp'[a] = Tail(tcp[a])
        /\ Head(tcp[a]).cmd = "SEND_SECURITY_BLOCK" /\ r0kh[Head(tcp[a]).sta] = a)
       => sig'[a] # sig[a]]_vars

\* A notification of an older association does not remove a newer one: while
\* a station stays with an access point, a frame of a daemon does not make
\* the driver drop it.
NewestKept ==
  [][\A a \in APS, s \in STAS :
       at[s] = a /\ at'[s] = a /\ assoc[a][s] # NoAssoc => assoc'[a][s] # NoAssoc]_vars

=============================================================================
