---------------------------- MODULE Iapp_proofs -----------------------------
(***************************************************************************)
(* The IAPP daemons of any number of access points and stations.           *)
(*                                                                         *)
(* IInv is the inductive invariant.  Cover ties the driver to the table    *)
(* through the signals that wait between them: the interface on which the  *)
(* driver has a station is that of the last association signal still in    *)
(* the queue, or, when there is none, that of the table.  Home ties the    *)
(* driver to the switches of the LAN through what is on its way: a station *)
(* that the switches have elsewhere is going to be announced here by the   *)
(* own driver or dropped by a notification that is not handled yet.        *)
(***************************************************************************)
EXTENDS Iapp, IappTable_proofs

\* The signals and the frames that name a station, the interface numbers a
\* signal may carry and the values of the fields.
StaSigs ==
  {"FT_ASSOCIATION", "FT_REASSOCIATION", "KEY_REQ", "KEY_RSP_AUTO", "ACTION"}
StaCmds == {"ADD_NOTIFY", "MOVE_NOTIFY", "MOVE_RESPONSE",
            "SEND_SECURITY_BLOCK", "ACK_SECURITY_BLOCK"}
Interfaces == IFS \cup UNHOOKED
Numbers == Nat \cup Interfaces
Aps == APS \cup {NoAp}

\* The records of the queues, the LAN and the driver's RRB interface.
SigType ==
  {g \in [Sig : Sigs, sta : STAS \cup {NoSta}, seq : Numbers, if : Interfaces,
          peer : Aps] :
     g.Sig \in StaSigs => g.sta \in STAS}
FrameType ==
  {m \in [cmd : Cmds, from : APS, sta : STAS \cup {NoSta}, seq : Numbers] :
     m.cmd \in StaCmds => m.sta \in STAS}
DatagramType ==
  {m \in [cmd : Cmds, from : APS, sta : STAS \cup {NoSta}, seq : Numbers,
          to : APS] :
     (m.cmd \in StaCmds => m.sta \in STAS) /\ m.to # m.from}
RrbType == [to : Aps, if : Numbers, sta : STAS]
SpentType ==
  [losses : Nat, leaves : Nat, restarts : Nat, infos : Nat, ds : Nat]

DriverType ==
  /\ assoc \in [APS -> [STAS -> Interfaces \cup {NoAssoc}]]
  /\ peer \in [APS -> [STAS -> Aps]]
  /\ want \in [APS -> SUBSET STAS]
  /\ pmk \in [APS -> SUBSET STAS]
  /\ \A a \in APS : want[a] \cap pmk[a] = {}

StationType ==
  /\ at \in [STAS -> Aps]
  /\ l2 \in [STAS -> Aps]
  /\ seq \in [STAS -> Nat]
  /\ r0kh \in [STAS -> Aps]

LanType ==
  /\ udp \subseteq DatagramType
  /\ tcp \in [APS -> Seq(FrameType)]
  /\ rrb \subseteq RrbType

TablesInv ==
  /\ table \in [APS -> TableType]
  /\ \A a \in APS :
       /\ TableInv(table[a])
       /\ \A i \in Slots : table[a].ft_sta_info[i].if_idx \in IFS \cup {-1}

TypeInv ==
  /\ up \subseteq APS /\ spent \in SpentType
  /\ sig \in [APS -> Seq(SigType)]
  /\ TablesInv /\ DriverType /\ StationType /\ LanType

\* A reassociation names the old access point only if that is known, and never
\* the new one.
PeerInv ==
  \A a \in APS : \A n \in 1 .. Len(sig[a]) :
    /\ sig[a][n].Sig = "FT_REASSOCIATION"
    /\ sig[a][n].peer # NoAp
    => OLDAP_KNOWN /\ sig[a][n].peer # a

AssocSig(g, s) == g.Sig \in {"FT_ASSOCIATION", "FT_REASSOCIATION"} /\ g.sta = s

\* No association of s waits in q
NoneFor(q, s) == \A n \in 1 .. Len(q) : ~AssocSig(q[n], s)

\* The last association of s in q is on interface i
LastFor(q, s, i) ==
  \E n \in 1 .. Len(q) :
    /\ AssocSig(q[n], s) /\ q[n].if = i
    /\ \A m \in 1 .. Len(q) : m > n => ~AssocSig(q[m], s)

Cover(a, s) ==
  assoc[a][s] \in IFS =>
    \/ table[a].hung
    \/ LastFor(sig[a], s, assoc[a][s])
    \/ NoneFor(sig[a], s) /\ Has(table[a], s, assoc[a][s])

\* The table has an entry for every station.
Room == IsFiniteSet(STAS) /\ Cardinality(STAS) <= MAX_NUM_OF_CLIENT

CoverInv ==
  Room /\ spent.restarts = 0 =>
       up = APS /\ \A a \in APS, s \in STAS : Cover(a, s)

Notifies == {"ADD_NOTIFY", "MOVE_NOTIFY"}

\* A notification of s that a has not handled
Notified(a, s) ==
  \/ \E m \in udp : m.cmd \in Notifies /\ m.to = a /\ m.sta = s
  \/ \E n \in 1 .. Len(tcp[a]) :
       tcp[a][n].cmd = "MOVE_NOTIFY" /\ tcp[a][n].sta = s

Home(a, s) ==
  assoc[a][s] \in IFS =>
    l2[s] = a \/ LastFor(sig[a], s, assoc[a][s]) \/ Notified(a, s)

NoneHung == \A a \in APS : ~table[a].hung

HomeInv ==
  Room /\ spent.restarts = 0 /\ spent.losses = 0 /\ NoneHung /\ EveryoneTold =>
    \A a \in APS, s \in STAS : Home(a, s)

IInv == TypeInv /\ PeerInv /\ CoverInv /\ HomeInv

-----------------------------------------------------------------------------
(* Constants and queues.                                                   *)

\* What the assumptions on the constants say of their elements.
LEMMA ConstantFacts ==
  /\ 0 \in IFS /\ IFS \subseteq Nat /\ IFS \subseteq Interfaces /\
       Interfaces \subseteq Numbers
  /\ NoAssoc \notin Interfaces /\ NoAssoc \notin IFS /\ NULL \notin IFS /\
       LOOP \notin IFS
  /\ NoAp \notin APS /\ NoSta \notin STAS /\ 0 \in Numbers
<1>1. Cardinality(IFS) \in Nat
  BY IappAssumption, FS_CardinalityType
<1>2. IFS \subseteq Nat
  BY IappAssumption, <1>1
<1>3. 0 \in IFS
  BY IappAssumption, <1>1
<1>4. QED
  BY <1>2, <1>3, IappAssumption, TableAssumption
  DEF Interfaces, Numbers, NoAssoc, NULL, LOOP, NoAp, NoSta

\* What a queue is after its last and its first element change.
LEMMA Appended ==
  ASSUME NEW S, NEW q \in Seq(S), NEW x \in S
  PROVE  /\ Append(q, x) \in Seq(S) /\ Len(Append(q, x)) = Len(q) + 1
         /\ \A n \in 1 .. Len(q) : Append(q, x)[n] = q[n]
         /\ Append(q, x)[Len(q) + 1] = x
OBVIOUS

\* Head and tail of a sequence that is not empty.
LEMMA Tailed ==
  ASSUME NEW S, NEW q \in Seq(S), q # <<>>
  PROVE  /\ Head(q) \in S /\ Head(q) = q[1]
         /\ Tail(q) \in Seq(S) /\ Len(Tail(q)) = Len(q) - 1 /\
              Len(q) \in Nat \ {0}
         /\ \A n \in 1 .. Len(q) - 1 : Tail(q)[n] = q[n + 1]
OBVIOUS

\* Another signal joins the queue.
LEMMA OtherQueued ==
  ASSUME NEW q \in Seq(SigType), NEW x \in SigType, NEW s, ~AssocSig(x, s),
         NEW i
  PROVE  /\ LastFor(q, s, i) => LastFor(Append(q, x), s, i)
         /\ NoneFor(q, s) => NoneFor(Append(q, x), s)
<1> DEFINE r == Append(q, x)
<1>1. /\ Len(r) = Len(q) + 1 /\ Len(q) \in Nat
      /\ \A n \in 1 .. Len(q) : r[n] = q[n]
      /\ r[Len(q) + 1] = x
  BY Appended
<1> HIDE DEF r
<1>2. \A n \in 1 .. Len(r) : n \in 1 .. Len(q) \/ n = Len(q) + 1
  BY <1>1
<1>3. \A n \in 1 .. Len(q) : n \in 1 .. Len(r)
  BY <1>1
<1>4. NoneFor(q, s) => NoneFor(r, s)
  BY <1>1, <1>2 DEF NoneFor
<1>5. ASSUME NEW n \in 1 .. Len(q),
             AssocSig(q[n], s) /\ q[n].if = i
             /\ \A m \in 1 .. Len(q) : m > n => ~AssocSig(q[m], s)
      PROVE  LastFor(r, s, i)
  <2>1. n \in 1 .. Len(r) /\ AssocSig(r[n], s) /\ r[n].if = i
    BY <1>1, <1>3, <1>5
  <2>2. \A m \in 1 .. Len(r) : m > n => ~AssocSig(r[m], s)
    BY <1>1, <1>2, <1>5
  <2>3. QED
    BY <2>1, <2>2 DEF LastFor
<1>6. QED
  BY <1>4, <1>5 DEF LastFor, r

\* The signal of an association joins the queue.
LEMMA OwnQueued ==
  ASSUME NEW q \in Seq(SigType), NEW x \in SigType, NEW s, AssocSig(x, s)
  PROVE  LastFor(Append(q, x), s, x.if)
<1> DEFINE r == Append(q, x)
<1>1. /\ Len(r) = Len(q) + 1 /\ Len(q) \in Nat
      /\ r[Len(q) + 1] = x
  BY Appended
<1> HIDE DEF r
<1>2. Len(q) + 1 \in 1 .. Len(r) /\ \A m \in 1 .. Len(r) : ~(m > Len(q) + 1)
  BY <1>1
<1>3. QED
  BY <1>1, <1>2 DEF LastFor, r

\* A signal is taken from the queue.
LEMMA Taken ==
  ASSUME NEW q \in Seq(SigType), q # <<>>, NEW s, NEW i
  PROVE  /\ LastFor(q, s, i) => \/ LastFor(Tail(q), s, i)
                                \/ AssocSig(Head(q), s) /\ Head(q).if = i /\
                                     NoneFor(Tail(q), s)
         /\ NoneFor(q, s) => NoneFor(Tail(q), s) /\ ~AssocSig(Head(q), s)
<1> DEFINE r == Tail(q)
<1>1. /\ Len(r) = Len(q) - 1 /\ Len(q) \in Nat \ {0} /\ Head(q) = q[1]
      /\ \A n \in 1 .. Len(q) - 1 : r[n] = q[n + 1]
  BY Tailed
<1> HIDE DEF r
<1>2. \A n \in 1 .. Len(r) : r[n] = q[n + 1] /\ n + 1 \in 1 .. Len(q)
  BY <1>1
<1>3. 1 \in 1 .. Len(q)
  BY <1>1
<1>4. NoneFor(q, s) => NoneFor(r, s) /\ ~AssocSig(Head(q), s)
  BY <1>1, <1>2, <1>3 DEF NoneFor
<1>5. ASSUME NEW n \in 1 .. Len(q), AssocSig(q[n], s), q[n].if = i,
             \A m \in 1 .. Len(q) : m > n => ~AssocSig(q[m], s)
      PROVE  \/ LastFor(r, s, i)
             \/ AssocSig(Head(q), s) /\ Head(q).if = i /\ NoneFor(r, s)
  <2>1. CASE n = 1
    <3>1. \A m \in 1 .. Len(r) : m + 1 > n
      BY <1>1, <2>1
    <3>2. NoneFor(r, s)
      BY <1>2, <1>5, <3>1 DEF NoneFor
    <3>3. QED
      BY <1>1, <1>5, <2>1, <3>2
  <2>2. CASE n # 1
    <3>1. n - 1 \in 1 .. Len(r) /\ (n - 1) + 1 = n
      BY <1>1, <2>2
    <3>2. r[n - 1] = q[n]
      BY <1>2, <3>1
    <3>3. \A m \in 1 .. Len(r) : m > n - 1 => m + 1 > n
      BY <1>1
    <3>4. ASSUME NEW m \in 1 .. Len(r), m > n - 1 PROVE ~AssocSig(r[m], s)
      <4>1. r[m] = q[m + 1] /\ m + 1 \in 1 .. Len(q) /\ m + 1 > n
        BY <1>2, <3>3, <3>4
      <4>2. QED
        BY <1>5, <4>1
    <3> DEFINE k == n - 1
    <3>5. /\ k \in 1 .. Len(r) /\ AssocSig(r[k], s) /\ r[k].if = i
          /\ \A m \in 1 .. Len(r) : m > k => ~AssocSig(r[m], s)
      BY <1>5, <3>1, <3>2, <3>4
    <3> HIDE DEF k
    <3>6. LastFor(r, s, i)
      BY <3>5, Zenon DEF LastFor
    <3>7. QED
      BY <3>6
  <2>3. QED
    BY <2>1, <2>2
<1>6. QED
  BY <1>4, <1>5 DEF LastFor, r

-----------------------------------------------------------------------------
(* Types.                                                                  *)

\* A signal built by the driver is one, with the fields it was given.
LEMMA SignalType ==
  ASSUME NEW name \in Sigs, NEW s \in STAS \cup {NoSta}, NEW n \in Numbers,
         NEW i \in Interfaces, NEW p \in Aps, name \in StaSigs => s \in STAS
  PROVE  /\ Signal(name, s, n, i, p) \in SigType
         /\ Signal(name, s, n, i, p).Sig = name /\
              Signal(name, s, n, i, p).sta = s
         /\ Signal(name, s, n, i, p).if = i /\ Signal(name, s, n, i, p).peer = p
BY DEF Signal, SigType

\* A frame built by the daemon is one, with the fields it was given.
LEMMA FrameTypes ==
  ASSUME NEW cmd \in Cmds, NEW a \in APS, NEW s \in STAS \cup {NoSta},
         NEW n \in Numbers,
         cmd \in StaCmds => s \in STAS
  PROVE  /\ Frame(cmd, a, s, n) \in FrameType
         /\ Frame(cmd, a, s, n).cmd = cmd /\ Frame(cmd, a, s, n).sta = s
         /\ Frame(cmd, a, s, n).from = a
BY DEF Frame, FrameType

\* A signal is queued for its own daemon only, and only if that runs.
LEMMA RaiseType ==
  ASSUME TypeInv, NEW a \in APS, NEW g \in SigType
  PROVE  /\ Raise(a, g) \in [APS -> Seq(SigType)]
         /\ \A b \in APS \ {a} : Raise(a, g)[b] = sig[b]
         /\ Raise(a, g)[a] = IF a \in up THEN Append(sig[a], g) ELSE sig[a]
<1>1. sig \in [APS -> Seq(SigType)]
  BY DEF TypeInv
<1>2. Append(sig[a], g) \in Seq(SigType)
  BY <1>1, Appended
<1>3. QED
  BY <1>1, <1>2 DEF Raise

\* Taking a signal removes the first of its own queue.
LEMMA ConsumedType ==
  ASSUME TypeInv, NEW a \in APS, sig[a] # <<>>
  PROVE  /\ Consumed(a) \in [APS -> Seq(SigType)]
         /\ Head(sig[a]) \in SigType
         /\ \A b \in APS \ {a} : Consumed(a)[b] = sig[b]
         /\ Consumed(a)[a] = Tail(sig[a])
<1>1. sig \in [APS -> Seq(SigType)]
  BY DEF TypeInv
<1>2. Tail(sig[a]) \in Seq(SigType) /\ Head(sig[a]) \in SigType
  BY <1>1, Tailed
<1>3. QED
  BY <1>1, <1>2 DEF Consumed

\* Taking a TCP frame removes the first of its own connection.
LEMMA TakenType ==
  ASSUME TypeInv, NEW a \in APS, tcp[a] # <<>>,
         NEW left, left = [tcp EXCEPT ![a] = Tail(@)]
  PROVE  /\ left \in [APS -> Seq(FrameType)]
         /\ Head(tcp[a]) \in FrameType
         /\ \A b \in APS \ {a} : left[b] = tcp[b]
         /\ left[a] = Tail(tcp[a])
<1>1. tcp \in [APS -> Seq(FrameType)]
  BY DEF TypeInv, LanType
<1>2. Tail(tcp[a]) \in Seq(FrameType) /\ Head(tcp[a]) \in FrameType
  BY <1>1, Tailed
<1>3. QED
  BY <1>1, <1>2

\* A connection delivers to a daemon that runs, and to no other.
LEMMA ConnectType ==
  ASSUME TypeInv, NEW b \in Aps, NEW m \in FrameType
  PROVE  /\ Connect(b, m) \in [APS -> Seq(FrameType)]
         /\ \A c \in APS \ {b} : Connect(b, m)[c] = tcp[c]
         /\ b \in APS =>
              Connect(b, m)[b] = IF b \in up THEN Append(tcp[b], m) ELSE tcp[b]
<1>1. tcp \in [APS -> Seq(FrameType)] /\ up \subseteq APS
  BY DEF TypeInv, LanType
<1>2. \A c \in APS : Append(tcp[c], m) \in Seq(FrameType)
  BY <1>1, Appended
<1>3. QED
  BY <1>1, <1>2 DEF Connect

\* A broadcast adds a datagram for every other daemon that runs.
LEMMA BroadcastType ==
  ASSUME TypeInv, NEW m \in FrameType
  PROVE  /\ Broadcast(m) \subseteq DatagramType /\ udp \subseteq Broadcast(m)
         /\ \A b \in up \ {m.from} : \E d \in Broadcast(m) :
              d.cmd = m.cmd /\ d.to = b /\ d.sta = m.sta
<1>1. up \subseteq APS /\ udp \subseteq DatagramType
  BY DEF TypeInv, LanType
<1> DEFINE copy(b) ==
     [cmd |-> m.cmd, from |-> m.from, sta |-> m.sta, seq |-> m.seq, to |-> b]
<1>2. ASSUME NEW b \in up \ {m.from} PROVE copy(b) \in DatagramType
  BY <1>1 DEF FrameType, DatagramType
<1>3. \A b : copy(b).cmd = m.cmd /\ copy(b).to = b /\ copy(b).sta = m.sta
  OBVIOUS
<1>4. Broadcast(m) = udp \cup {copy(b) : b \in up \ {m.from}}
  BY DEF Broadcast
<1> HIDE DEF copy
<1>5. QED
  BY <1>1, <1>2, <1>3, <1>4

\* Sending keeps the types and takes no datagram away.
LEMMA SendType ==
  ASSUME TypeInv, NEW p \in Aps, NEW m \in FrameType, Send(p, m)
  PROVE  udp' \subseteq DatagramType /\ tcp' \in [APS -> Seq(FrameType)] /\
         udp \subseteq udp'
<1>1. udp \subseteq DatagramType /\ tcp \in [APS -> Seq(FrameType)]
  BY DEF TypeInv, LanType
<1>2. QED
  BY <1>1, BroadcastType, ConnectType DEF Send

\* The interface the table gives for a station.
LEMMA FoundInterface ==
  ASSUME TypeInv, NEW a \in APS, NEW s \in STAS
  PROVE  mt_iapp_find_ifidx_by_sta_mac(table[a], s) \in IFS \cup {-1, LOOP}
<1> DEFINE e == mt_iapp_ft_client_look_up(table[a], s)
<1>1. e \in {NULL, LOOP} \cup Slots
  BY LookupResult
<1>2. e \in Slots => table[a].ft_sta_info[e].if_idx \in IFS \cup {-1}
  BY DEF TypeInv, TablesInv
<1>3. QED
  BY <1>1, <1>2 DEF mt_iapp_find_ifidx_by_sta_mac, NULL

\* A station that the table has is found with its interface.
LEMMA FoundWhere ==
  ASSUME NEW t, TableInv(t), NEW s \in STAS, NEW x, Has(t, s, x)
  PROVE  mt_iapp_find_ifidx_by_sta_mac(t, s) = x
<1>1. PICK i \in Used(t) :
     t.ft_sta_info[i].sta_mac = s /\ t.ft_sta_info[i].if_idx = x
  BY DEF Has
<1>2. mt_iapp_ft_client_look_up(t, s) = i
  BY <1>1, LookupFinds
<1>3. QED
  BY <1>1, <1>2 DEF mt_iapp_find_ifidx_by_sta_mac, Used

\* Setting the table of a daemon.
LEMMA SetTable ==
  ASSUME TypeInv, NEW a \in APS, NEW t, TableInv(t),
         InterfacesIn(table[a], t, IFS \cup {-1}),
         table' = [table EXCEPT ![a] = t]
  PROVE  TablesInv'
<1>1. table \in [APS -> TableType] /\ t \in TableType
  BY DEF TypeInv, TablesInv, TableInv, TableOK
<1>2. /\ table' \in [APS -> TableType] /\ table'[a] = t
      /\ \A b \in APS \ {a} : table'[b] = table[b]
  BY <1>1
<1>3. \A i \in Slots : t.ft_sta_info[i].if_idx \in IFS \cup {-1}
  BY DEF InterfacesIn, TypeInv, TablesInv
<1>4. QED
  BY <1>2, <1>3 DEF TypeInv, TablesInv

\* A walk that does not end leaves every entry of the table in place.
LEMMA HungTable ==
  ASSUME TypeInv, NEW a \in APS, table' = [table EXCEPT ![a].hung = TRUE]
  PROVE  /\ TablesInv' /\ table'[a].hung
         /\ \A b \in APS \ {a} : table'[b] = table[b]
         /\ \A s \in STAS, x \in Int : Has(table[a], s, x) =>
              Has(table'[a], s, x)
<1> DEFINE t == [table[a] EXCEPT !.hung = TRUE]
<1>1. table' = [table EXCEPT ![a] = t] /\ TableInv(table[a])
  BY DEF TypeInv, TablesInv
<1>2. /\ TableInv(t) /\ t.hung /\ InterfacesIn(table[a], t, IFS \cup {-1})
      /\ \A s \in STAS, x \in Int : Has(table[a], s, x) => Has(t, s, x)
  BY <1>1, HungInv
<1> HIDE DEF t
<1>3. TablesInv'
  BY <1>1, <1>2, SetTable
<1>4. table'[a] = t /\ \A b \in APS \ {a} : table'[b] = table[b]
  BY <1>1 DEF TypeInv, TablesInv
<1>5. QED
  BY <1>2, <1>3, <1>4

-----------------------------------------------------------------------------
(* Steps that carry no association.                                        *)

IsAssoc(g) == g.Sig \in {"FT_ASSOCIATION", "FT_REASSOCIATION"}

\* The queue of a, or what another signal makes of it.
SigKept(a) ==
  \/ sig'[a] = sig[a]
  \/ \E x \in SigType : ~IsAssoc(x) /\ sig'[a] = Append(sig[a], x)
  \/ sig[a] # <<>> /\ ~IsAssoc(Head(sig[a])) /\ sig'[a] = Tail(sig[a])

\* New signals that associate nobody do not change the last association.
LEMMA QueueKept ==
  ASSUME TypeInv, NEW a \in APS, SigKept(a), NEW s, NEW i
  PROVE  /\ LastFor(sig[a], s, i) => LastFor(sig'[a], s, i)
         /\ NoneFor(sig[a], s) => NoneFor(sig'[a], s)
<1>1. sig[a] \in Seq(SigType)
  BY DEF TypeInv
<1>2. ASSUME NEW x \in SigType, ~IsAssoc(x), sig'[a] = Append(sig[a], x)
      PROVE  /\ LastFor(sig[a], s, i) => LastFor(sig'[a], s, i)
             /\ NoneFor(sig[a], s) => NoneFor(sig'[a], s)
  BY <1>1, <1>2, OtherQueued DEF IsAssoc, AssocSig
<1>3. ASSUME sig[a] # <<>>, ~IsAssoc(Head(sig[a])), sig'[a] = Tail(sig[a])
      PROVE  /\ LastFor(sig[a], s, i) => LastFor(sig'[a], s, i)
             /\ NoneFor(sig[a], s) => NoneFor(sig'[a], s)
  BY <1>1, <1>3, Taken DEF IsAssoc, AssocSig
<1>4. QED
  BY <1>2, <1>3 DEF SigKept

\* Driver a has the stations it had, or fewer.
DriverKept(a) == \A s \in STAS : assoc'[a][s] \in {assoc[a][s], NoAssoc}

\* The table of a has what it had.
TableKept(a) ==
  /\ table[a].hung => table'[a].hung
  /\ \A s \in STAS, x \in Int : Has(table[a], s, x) => Has(table'[a], s, x)

\* Cover survives such signals, a table that keeps its entries and a station
\* that leaves.
LEMMA CoverKept ==
  ASSUME TypeInv, NEW a \in APS, SigKept(a), TableKept(a),
         NEW s \in STAS, assoc'[a][s] \in {assoc[a][s], NoAssoc}, Cover(a, s)
  PROVE  Cover(a, s)'
<1>1. SUFFICES ASSUME assoc'[a][s] \in IFS
               PROVE  \/ table'[a].hung
                      \/ LastFor(sig'[a], s, assoc'[a][s])
                      \/ NoneFor(sig'[a], s) /\ Has(table'[a], s, assoc'[a][s])
  BY DEF Cover
<1>2. assoc'[a][s] = assoc[a][s] /\ assoc[a][s] \in Int
  <2>1. assoc'[a][s] = assoc[a][s]
    BY <1>1, ConstantFacts
  <2>2. IFS \subseteq Int
    BY ConstantFacts
  <2>3. QED
    BY <1>1, <2>1, <2>2
<1>3. /\ LastFor(sig[a], s, assoc[a][s]) => LastFor(sig'[a], s, assoc[a][s])
      /\ NoneFor(sig[a], s) => NoneFor(sig'[a], s)
  BY QueueKept
<1>4. QED
  BY <1>1, <1>2, <1>3 DEF Cover, TableKept

\* Home survives them as long as no notification is lost on the way.
LEMMA HomeKept ==
  ASSUME TypeInv, NEW a \in APS, SigKept(a),
         NEW s \in STAS, assoc'[a][s] \in {assoc[a][s], NoAssoc}, Home(a, s),
         l2[s] = a => l2'[s] = a \/ Notified(a, s)',
         Notified(a, s) => \/ Notified(a, s)'
                           \/ assoc'[a][s] \notin IFS
                           \/ LastFor(sig[a], s, assoc[a][s])
  PROVE  Home(a, s)'
<1>1. SUFFICES ASSUME assoc'[a][s] \in IFS
               PROVE  l2'[s] = a \/ LastFor(sig'[a], s, assoc'[a][s]) \/
                      Notified(a, s)'
  BY DEF Home
<1>2. assoc'[a][s] = assoc[a][s] /\ assoc[a][s] \in IFS
  BY <1>1, ConstantFacts
<1>3. LastFor(sig[a], s, assoc[a][s]) => LastFor(sig'[a], s, assoc[a][s])
  BY QueueKept
<1>4. QED
  BY <1>1, <1>2, <1>3 DEF Home

\* The peers named by queued signals stay other access points.
LEMMA PeerKept ==
  ASSUME TypeInv, PeerInv, \A a \in APS : SigKept(a)
  PROVE  PeerInv'
<1> SUFFICES ASSUME NEW a \in APS, NEW n \in 1 .. Len(sig'[a]),
                    sig'[a][n].Sig = "FT_REASSOCIATION", sig'[a][n].peer # NoAp
             PROVE  OLDAP_KNOWN /\ sig'[a][n].peer # a
  BY DEF PeerInv
<1> DEFINE q == sig[a]
<1>0. q \in Seq(SigType)
  BY DEF TypeInv
<1>1. CASE sig'[a] = q
  BY <1>1 DEF PeerInv
<1>2. ASSUME NEW x \in SigType, ~IsAssoc(x), sig'[a] = Append(q, x)
      PROVE  OLDAP_KNOWN /\ sig'[a][n].peer # a
  <2>1. /\ Len(sig'[a]) = Len(q) + 1 /\ Len(q) \in Nat
        /\ \A k \in 1 .. Len(q) : sig'[a][k] = q[k]
        /\ sig'[a][Len(q) + 1] = x
    BY <1>0, <1>2, Appended
  <2>2. n # Len(q) + 1
    BY <1>2, <2>1 DEF IsAssoc
  <2>3. n \in 1 .. Len(q)
    BY <2>1, <2>2
  <2>4. QED
    BY <2>1, <2>3 DEF PeerInv
<1>3. ASSUME q # <<>>, sig'[a] = Tail(q)
      PROVE  OLDAP_KNOWN /\ sig'[a][n].peer # a
  <2>1. /\ Len(sig'[a]) = Len(q) - 1 /\ Len(q) \in Nat \ {0}
        /\ \A k \in 1 .. Len(q) - 1 : sig'[a][k] = q[k + 1]
    BY <1>0, <1>3, Tailed
  <2>2. n \in 1 .. Len(q) - 1 /\ n + 1 \in 1 .. Len(q)
    BY <2>1
  <2>3. QED
    BY <2>1, <2>2 DEF PeerInv
<1>4. QED
  BY <1>1, <1>2, <1>3 DEF SigKept

\* A step that carries no association, moves no station on the LAN and takes
\* no notification away.
LEMMA QuietStep ==
  ASSUME IInv, \A a \in APS : SigKept(a) /\ TableKept(a) /\ DriverKept(a),
         up' = up,
         spent'.restarts = 0 => spent.restarts = 0,
         \/ spent'.losses # 0
         \/ /\ spent'.losses = spent.losses /\ l2' = l2
            /\ \A a \in APS, s \in STAS : Notified(a, s) => Notified(a, s)'
  PROVE  PeerInv' /\ CoverInv' /\ HomeInv'
<1>0. TypeInv /\ PeerInv /\ CoverInv /\ HomeInv
  BY DEF IInv
<1>1. PeerInv'
  BY <1>0, PeerKept
<1>2. CoverInv'
  <2> SUFFICES ASSUME Room, spent'.restarts = 0
               PROVE  up' = APS /\ \A a \in APS, s \in STAS : Cover(a, s)'
    BY DEF CoverInv
  <2>1. up = APS /\ \A a \in APS, s \in STAS : Cover(a, s)
    BY <1>0 DEF CoverInv
  <2>2. QED
    BY <1>0, <2>1, CoverKept DEF DriverKept
<1>3. HomeInv'
  <2> SUFFICES ASSUME Room, spent'.restarts = 0, spent'.losses = 0, NoneHung',
                      EveryoneTold,
                      NEW a \in APS, NEW s \in STAS
               PROVE  Home(a, s)'
    BY DEF HomeInv, EveryoneTold
  <2>1. NoneHung
    BY DEF NoneHung, TableKept
  <2>2. Home(a, s)
    BY <1>0, <2>1 DEF HomeInv
  <2>3. QED
    BY <1>0, <2>2, HomeKept DEF DriverKept
<1>4. QED
  BY <1>1, <1>2, <1>3

-----------------------------------------------------------------------------
(* The driver and the stations.                                            *)

\* A table that does not change.
LEMMA SameTables ==
  ASSUME TypeInv, table' = table
  PROVE  TablesInv' /\ \A a \in APS : TableKept(a)
BY DEF TypeInv, TablesInv, TableKept

\* Steps of the daemons do not change the associations of the drivers.
LEMMA SameDrivers ==
  ASSUME assoc' = assoc
  PROVE  \A a \in APS : DriverKept(a)
BY DEF DriverKept

\* Notifications are not lost by adding datagrams.
LEMMA SameNotices ==
  ASSUME udp \subseteq udp', tcp' = tcp
  PROVE  \A a \in APS, s \in STAS : Notified(a, s) => Notified(a, s)'
BY DEF Notified

\* The signals of an association or a reassociation of s at a on interface i.
LEMMA ArriveKeeps ==
  ASSUME IInv, NEW a \in APS, NEW i \in Interfaces, NEW s \in STAS,
         NEW g \in SigType, IsAssoc(g), g.sta = s, g.if = i,
         g.Sig = "FT_REASSOCIATION" /\ g.peer # NoAp =>
              OLDAP_KNOWN /\ g.peer # a,
         assoc' = [assoc EXCEPT ![a][s] = i], sig' = Raise(a, g),
         UNCHANGED <<table, up, udp, tcp, l2, spent>>
  PROVE  PeerInv' /\ CoverInv' /\ HomeInv'
<1>0. TypeInv /\ PeerInv /\ CoverInv /\ HomeInv
  BY DEF IInv
<1>1. /\ \A b \in APS \ {a} : sig'[b] = sig[b]
      /\ sig'[a] = IF a \in up THEN Append(sig[a], g) ELSE sig[a]
      /\ sig[a] \in Seq(SigType)
  BY <1>0, RaiseType DEF TypeInv
<1>2. /\ assoc'[a][s] = i
      /\ \A b \in APS, r \in STAS : b # a \/ r # s => assoc'[b][r] = assoc[b][r]
  BY <1>0 DEF TypeInv, DriverType
<1>3. PeerInv'
  <2>1. /\ Len(Append(sig[a], g)) = Len(sig[a]) + 1 /\ Len(sig[a]) \in Nat
        /\ \A n \in 1 .. Len(sig[a]) : Append(sig[a], g)[n] = sig[a][n]
        /\ Append(sig[a], g)[Len(sig[a]) + 1] = g
    BY <1>1, Appended
  <2>2. \A n \in 1 .. Len(Append(sig[a], g)) :
       n \in 1 .. Len(sig[a]) \/ n = Len(sig[a]) + 1
    BY <2>1
  <2>3. ASSUME NEW n \in 1 .. Len(sig'[a]),
               sig'[a][n].Sig = "FT_REASSOCIATION", sig'[a][n].peer # NoAp
        PROVE  OLDAP_KNOWN /\ sig'[a][n].peer # a
    <3>1. CASE sig'[a] = sig[a]
      BY <1>0, <2>3, <3>1 DEF PeerInv
    <3>2. CASE sig'[a] = Append(sig[a], g)
      <4>1. CASE n = Len(sig[a]) + 1
        BY <2>1, <2>3, <3>2, <4>1
      <4>2. CASE n \in 1 .. Len(sig[a])
        <5>1. sig'[a][n] = sig[a][n]
          BY <2>1, <3>2, <4>2
        <5>2. QED
          BY <1>0, <2>3, <4>2, <5>1 DEF PeerInv
      <4>3. QED
        BY <2>2, <3>2, <4>1, <4>2
    <3>3. QED
      BY <1>1, <3>1, <3>2
  <2>4. ASSUME NEW b \in APS \ {a}, NEW n \in 1 .. Len(sig'[b]),
               sig'[b][n].Sig = "FT_REASSOCIATION", sig'[b][n].peer # NoAp
        PROVE  OLDAP_KNOWN /\ sig'[b][n].peer # b
    <3>1. sig'[b] = sig[b]
      BY <1>1
    <3>2. QED
      BY <1>0, <2>4, <3>1 DEF PeerInv
  <2>5. QED
    BY <2>3, <2>4 DEF PeerInv
<1>4. ASSUME Room, spent.restarts = 0
      PROVE  \A b \in APS, r \in STAS :
             Cover(b, r)' /\ (Home(b, r) => Home(b, r)')
  <2>1. up = APS /\ \A b \in APS, r \in STAS : Cover(b, r)
    BY <1>0, <1>4 DEF CoverInv
  <2>2. sig'[a] = Append(sig[a], g)
    BY <1>1, <2>1
  <2>3. LastFor(sig'[a], s, i)
    BY <1>1, <2>2, OwnQueued DEF AssocSig, IsAssoc
  <2>4. Cover(a, s)' /\ Home(a, s)'
    BY <1>2, <2>3 DEF Cover, Home
  <2>5. ASSUME NEW b \in APS, NEW r \in STAS, b # a \/ r # s
        PROVE  Cover(b, r)' /\ (Home(b, r) => Home(b, r)')
    <3>1. assoc'[b][r] = assoc[b][r]
      BY <1>2, <2>5
    <3>2. /\ LastFor(sig[b], r, assoc[b][r]) => LastFor(sig'[b], r, assoc[b][r])
          /\ NoneFor(sig[b], r) => NoneFor(sig'[b], r)
      <4>1. CASE b # a
        BY <1>1, <4>1
      <4>2. CASE b = a
        <5>1. ~AssocSig(g, r)
          BY <2>5, <4>2 DEF AssocSig
        <5>2. QED
          BY <1>1, <2>2, <4>2, <5>1, OtherQueued
      <4>3. QED
        BY <4>1, <4>2
    <3>3. Notified(b, r)' <=> Notified(b, r)
      BY DEF Notified
    <3>4. Cover(b, r)
      BY <2>1
    <3>5. QED
      BY <3>1, <3>2, <3>3, <3>4 DEF Cover, Home
  <2>6. QED
    BY <2>4, <2>5
<1>5. CoverInv'
  BY <1>0, <1>4 DEF CoverInv
<1>6. HomeInv'
  <2>1. NoneHung' <=> NoneHung
    BY DEF NoneHung
  <2>2. QED
    BY <1>0, <1>4, <2>1 DEF HomeInv, EveryoneTold
<1>7. QED
  BY <1>3, <1>5, <1>6

\* The driver reports an association.
LEMMA AssociateKeeps ==
  ASSUME IInv, NEW a \in APS, NEW i \in Interfaces, NEW s \in STAS,
         Associate(a, i, s)
  PROVE  IInv'
<1> DEFINE g == Signal("FT_ASSOCIATION", s, seq'[s], i, NoAp)
<1>0. TypeInv
  BY DEF IInv
<1>1. seq' \in [STAS -> Nat] /\ seq'[s] \in Numbers
  BY <1>0 DEF Associate, TypeInv, StationType, Numbers
<1>2. g \in SigType /\ g.Sig = "FT_ASSOCIATION" /\ g.sta = s /\ g.if = i
  BY <1>1, SignalType DEF Sigs, StaSigs, Aps
<1> HIDE DEF g
<1>3. sig' = Raise(a, g)
  BY DEF Associate, g
<1>4. sig' \in [APS -> Seq(SigType)]
  BY <1>0, <1>2, <1>3, RaiseType
<1>5. StationType'
  BY <1>0, <1>1 DEF Associate, TypeInv, StationType, Aps
<1>6. DriverType'
  BY <1>0 DEF Associate, TypeInv, DriverType
<1>7. TypeInv'
  BY <1>0, <1>4, <1>5, <1>6, SameTables DEF Associate, TypeInv, LanType
<1>8. PeerInv' /\ CoverInv' /\ HomeInv'
  BY <1>2, <1>3, ArriveKeeps DEF Associate, IsAssoc
<1>9. QED
  BY <1>7, <1>8 DEF IInv

\* The driver reports a reassociation, with the old access point it was told.
LEMMA ReassociateKeeps ==
  ASSUME IInv, NEW a \in APS, NEW i \in Interfaces, NEW s \in STAS,
         Reassociate(a, i, s)
  PROVE  IInv'
<1> DEFINE old == IF OLDAP_KNOWN THEN at[s] ELSE NoAp
           g == Signal("FT_REASSOCIATION", s, seq'[s], i, old)
<1>0. TypeInv
  BY DEF IInv
<1>1. seq' \in [STAS -> Nat] /\ seq'[s] \in Numbers
  BY <1>0 DEF Reassociate, TypeInv, StationType, Numbers
<1>2. old \in Aps /\ (old # NoAp => OLDAP_KNOWN /\ old # a)
  BY <1>0 DEF Reassociate, TypeInv, StationType, Aps
<1> HIDE DEF old
<1>3. g \in SigType /\ g.Sig = "FT_REASSOCIATION" /\ g.sta = s /\ g.if = i /\
     g.peer = old
  BY <1>1, <1>2, SignalType DEF Sigs, StaSigs
<1> HIDE DEF g
<1>4. sig' = Raise(a, g)
  BY DEF Reassociate, g, old
<1>5. sig' \in [APS -> Seq(SigType)]
  BY <1>0, <1>3, <1>4, RaiseType
<1>6. StationType'
  BY <1>0, <1>1 DEF Reassociate, TypeInv, StationType, Aps
<1>7. DriverType'
  BY <1>0 DEF Reassociate, TypeInv, DriverType
<1>8. TypeInv'
  BY <1>0, <1>5, <1>6, <1>7, SameTables DEF Reassociate, TypeInv, LanType
<1>9. PeerInv' /\ CoverInv' /\ HomeInv'
  BY <1>2, <1>3, <1>4, ArriveKeeps DEF Reassociate, IsAssoc
<1>10. QED
  BY <1>8, <1>9 DEF IInv

\* A signal of the driver that is not of an association.
LEMMA RaiseKept ==
  ASSUME TypeInv, NEW a \in APS, NEW g \in SigType, ~IsAssoc(g), sig' =
         Raise(a, g)
  PROVE  sig' \in [APS -> Seq(SigType)] /\ \A b \in APS : SigKept(b)
BY RaiseType DEF SigKept

\* Asking for a key queues a signal that associates nobody.
LEMMA FetchType ==
  ASSUME TypeInv, NEW a \in APS, NEW i \in Interfaces, NEW s \in STAS,
         MustFetch(a, s),
         FetchKey(a, i, s), UNCHANGED <<assoc, peer, pmk>>
  PROVE  /\ DriverType' /\ sig' \in [APS -> Seq(SigType)]
         /\ \A b \in APS : SigKept(b)
<1> DEFINE g == Signal("KEY_REQ", s, 0, i, peer[a][s])
<1>1. peer[a][s] \in Aps
  BY DEF TypeInv, DriverType
<1>2. g \in SigType /\ g.Sig = "KEY_REQ"
  BY <1>1, SignalType, ConstantFacts DEF Sigs, StaSigs
<1> HIDE DEF g
<1>3. sig' = Raise(a, g)
  BY DEF FetchKey, g
<1>4. DriverType'
  BY DEF FetchKey, MustFetch, TypeInv, DriverType
<1>5. QED
  BY <1>2, <1>3, <1>4, RaiseKept DEF IsAssoc

\* The driver needs the key of a station that authenticates with it.
LEMMA FtAuthKeeps ==
  ASSUME IInv, NEW a \in APS, NEW i \in Interfaces, NEW s \in STAS,
         FtAuth(a, i, s)
  PROVE  IInv'
<1>0. TypeInv
  BY DEF IInv
<1>1. DriverType' /\ sig' \in [APS -> Seq(SigType)] /\ \A b \in APS : SigKept(b)
  BY <1>0, FetchType DEF FtAuth
<1>2. TypeInv'
  BY <1>0, <1>1, SameTables DEF FtAuth, TypeInv, LanType, station, StationType
<1>3. PeerInv' /\ CoverInv' /\ HomeInv'
  BY <1>0, <1>1, SameTables, SameDrivers, SameNotices, QuietStep
     DEF FtAuth, station
<1>4. QED
  BY <1>2, <1>3 DEF IInv

\* The driver forwards an FT action frame to the target access point.
LEMMA FtActionKeeps ==
  ASSUME IInv, NEW a \in APS, NEW b \in APS, NEW i \in Interfaces,
         NEW s \in STAS,
         FtAction(a, s, b, i)
  PROVE  IInv'
<1> DEFINE g == Signal("ACTION", s, i, assoc[a][s], b)
<1>0. TypeInv
  BY DEF IInv
<1>1. assoc[a][s] \in Interfaces /\ i \in Numbers
  BY <1>0 DEF FtAction, TypeInv, DriverType, Numbers
<1>2. g \in SigType /\ g.Sig = "ACTION"
  BY <1>1, SignalType DEF Sigs, StaSigs, Aps
<1> HIDE DEF g
<1>3. sig' \in [APS -> Seq(SigType)] /\ \A c \in APS : SigKept(c)
  BY <1>0, <1>2, RaiseKept DEF FtAction, g, IsAssoc
<1>4. spent' \in SpentType /\ spent'.restarts = spent.restarts /\
     spent'.losses = spent.losses
  <2>1. spent' = [spent EXCEPT !.ds = @ + 1] /\ spent \in SpentType
    BY <1>0 DEF FtAction, TypeInv
  <2>2. QED
    BY <2>1 DEF SpentType
<1>5. TypeInv'
  BY <1>0, <1>3, <1>4, SameTables
  DEF FtAction, TypeInv, LanType, driver, DriverType, station, StationType
<1>6. PeerInv' /\ CoverInv' /\ HomeInv'
  BY <1>0, <1>3, <1>4, SameTables, SameDrivers, SameNotices, QuietStep
  DEF FtAction, driver, station
<1>7. QED
  BY <1>5, <1>6 DEF IInv

\* A station goes away, of which the daemon hears nothing.
LEMMA LeaveKeeps ==
  ASSUME IInv, NEW a \in APS, NEW s \in STAS, Leave(a, s)
  PROVE  IInv'
<1>0. TypeInv
  BY DEF IInv
<1>1. DriverType' /\ StationType'
  BY <1>0 DEF Leave, TypeInv, DriverType, StationType, Aps
<1>2. spent' \in SpentType /\ spent'.restarts = spent.restarts /\
     spent'.losses = spent.losses
  BY <1>0 DEF Leave, TypeInv, SpentType
<1>3. TypeInv'
  BY <1>0, <1>1, <1>2, SameTables DEF Leave, TypeInv, LanType, daemon
<1>4. \A b \in APS : SigKept(b) /\ DriverKept(b)
  BY <1>0 DEF Leave, daemon, SigKept, DriverKept, TypeInv, DriverType
<1>5. PeerInv' /\ CoverInv' /\ HomeInv'
  BY <1>0, <1>2, <1>4, SameTables, SameNotices, QuietStep DEF Leave, daemon
<1>6. QED
  BY <1>3, <1>5 DEF IInv

\* The driver asks its daemon for an information broadcast or request.
LEMMA ApInfoKeeps ==
  ASSUME IInv, NEW a \in APS, NEW name \in {"INFO_BROADCAST", "AP_INFO_REQ"},
         ApInfo(a, name)
  PROVE  IInv'
<1> DEFINE g == Signal(name, NoSta, 0, 0, NoAp)
<1>0. TypeInv
  BY DEF IInv
<1>1. g \in SigType /\ g.Sig = name
  BY SignalType, ConstantFacts DEF Sigs, StaSigs, Aps
<1> HIDE DEF g
<1>2. sig' \in [APS -> Seq(SigType)] /\ \A c \in APS : SigKept(c)
  BY <1>0, <1>1, RaiseKept DEF ApInfo, g, IsAssoc
<1>3. spent' \in SpentType /\ spent'.restarts = spent.restarts /\
     spent'.losses = spent.losses
  BY <1>0 DEF ApInfo, TypeInv, SpentType
<1>4. TypeInv'
  BY <1>0, <1>2, <1>3, SameTables
  DEF ApInfo, TypeInv, LanType, driver, DriverType, station, StationType
<1>5. PeerInv' /\ CoverInv' /\ HomeInv'
  BY <1>0, <1>2, <1>3, SameTables, SameDrivers, SameNotices, QuietStep
  DEF ApInfo, driver, station
<1>6. QED
  BY <1>4, <1>5 DEF IInv

\* A datagram is lost.  Home is kept only as long as none was lost.
LEMMA LoseKeeps ==
  ASSUME IInv, Lose
  PROVE  IInv'
<1>0. TypeInv
  BY DEF IInv
<1>1. spent' \in SpentType /\ spent'.restarts = spent.restarts /\
     spent'.losses # 0
  BY <1>0 DEF Lose, TypeInv, SpentType
<1>2. LanType'
  BY <1>0 DEF Lose, TypeInv, LanType
<1>3. TypeInv'
  BY <1>0, <1>1, <1>2, SameTables
  DEF Lose, TypeInv, driver, DriverType, station, StationType
<1>4. \A b \in APS : SigKept(b)
  BY DEF Lose, SigKept
<1>5. PeerInv' /\ CoverInv' /\ HomeInv'
  BY <1>0, <1>1, <1>4, SameTables, SameDrivers, QuietStep
     DEF Lose, driver, station
<1>6. QED
  BY <1>3, <1>5 DEF IInv

-----------------------------------------------------------------------------
(* The daemon: signals.                                                    *)

\* With an entry for every station, a station that is not in the table finds
\* a free one.
LEMMA RoomLeft ==
  ASSUME Room, NEW t, TableInv(t), NEW s \in STAS,
         \A i \in Used(t) : t.ft_sta_info[i].sta_mac # s
  PROVE  t.ft_sta_table_size < MAX_NUM_OF_CLIENT
<1> DEFINE f == [i \in Used(t) |-> t.ft_sta_info[i].sta_mac]
           T == STAS \ {s}
<1>1. TableOK(t) /\ OneEntryEach(t)
  BY DEF TableInv
<1>2. \A i \in Used(t) : t.ft_sta_info[i].sta_mac \in T
  BY <1>1, AddressBucket
<1>3. f \in [Used(t) -> T]
  BY <1>2
<1>4. f \in Injection(Used(t), T)
  BY <1>1, <1>3 DEF Injection, IsInjective, OneEntryEach
<1>5. IsFiniteSet(T) /\ Cardinality(T) = Cardinality(STAS) - 1 /\
     Cardinality(STAS) \in Nat
  BY FS_RemoveElement, FS_CardinalityType DEF Room
<1>6. Cardinality(Used(t)) <= Cardinality(T) /\ IsFiniteSet(Used(t))
  <2> HIDE DEF f, T
  <2>1. QED
    BY <1>4, <1>5, FS_Injection
<1>7. Cardinality(Used(t)) \in Nat
  BY <1>6, FS_CardinalityType
<1>8. QED
  BY <1>1, <1>5, <1>6, <1>7, TableAssumption DEF TableOK, SizeIsUsed, Room

\* Among at most two access points there are no three.
LEMMA NoThird ==
  ASSUME Cardinality(APS) <= 2, NEW a \in APS, NEW b \in APS \ {a},
         NEW c \in APS \ {a}
  PROVE  b = c
<1> SUFFICES ASSUME b # c PROVE FALSE
  OBVIOUS
<1>1. IsFiniteSet(APS)
  BY IappAssumption
<1> DEFINE A1 == APS \ {a}
           A2 == A1 \ {b}
<1>2. IsFiniteSet(A1) /\ Cardinality(A1) = Cardinality(APS) - 1
  BY <1>1, FS_RemoveElement
<1>3. IsFiniteSet(A2) /\ Cardinality(A2) = Cardinality(A1) - 1
  BY <1>2, FS_RemoveElement
<1>4. Cardinality(A2) = 0
  <2>1. Cardinality(A2) \in Nat /\ Cardinality(APS) \in Nat
    BY <1>1, <1>3, FS_CardinalityType
  <2>2. QED
    BY <1>2, <1>3, <2>1
<1>5. A2 = {}
  BY <1>3, <1>4, FS_EmptySet
<1>6. QED
  BY <1>5

\* A notification that is not handled yet stays when messages are added.
LEMMA NoticesGrow ==
  ASSUME TypeInv, udp \subseteq udp',
         \A b \in APS : \/ tcp'[b] = tcp[b]
                        \/ \E x \in FrameType : tcp'[b] = Append(tcp[b], x)
  PROVE  \A b \in APS, r \in STAS : Notified(b, r) => Notified(b, r)'
<1> SUFFICES ASSUME NEW b \in APS, NEW r \in STAS, Notified(b, r) PROVE
                    Notified(b, r)'
  OBVIOUS
<1>1. tcp[b] \in Seq(FrameType)
  BY DEF TypeInv, LanType
<1>2. ASSUME NEW n \in 1 .. Len(tcp[b]) PROVE n \in 1 .. Len(tcp'[b]) /\
             tcp'[b][n] = tcp[b][n]
  <2>1. CASE tcp'[b] = tcp[b]
    BY <2>1
  <2>2. ASSUME NEW x \in FrameType, tcp'[b] = Append(tcp[b], x)
        PROVE  n \in 1 .. Len(tcp'[b]) /\ tcp'[b][n] = tcp[b][n]
    BY <1>1, <2>2, Appended
  <2>3. QED
    BY <2>1, <2>2
<1>3. QED
  BY <1>2 DEF Notified

\* Sending takes no notification away.
LEMMA SendGrows ==
  ASSUME TypeInv, NEW p \in Aps, NEW m \in FrameType, Send(p, m)
  PROVE  \A b \in APS, r \in STAS : Notified(b, r) => Notified(b, r)'
<1>1. udp \subseteq udp'
  BY SendType
<1>2. \A b \in APS : tcp'[b] = tcp[b] \/ \E x \in FrameType :
     tcp'[b] = Append(tcp[b], x)
  BY ConnectType DEF Send
<1>3. QED
  BY <1>1, <1>2, NoticesGrow

\* A notification that is sent reaches every other access point.
LEMMA SendNotifies ==
  ASSUME TypeInv, up = APS, NEW a \in APS, NEW p \in Aps, EveryoneTold,
         p # NoAp => OLDAP_KNOWN /\ p # a, NEW s \in STAS,
         NEW m \in FrameType, m.cmd = "MOVE_NOTIFY", m.sta = s, m.from = a,
              Send(p, m)
  PROVE  \A b \in APS \ {a} : Notified(b, s)'
<1>1. CASE p = NoAp
  <2>1. udp' = Broadcast(m)
    BY <1>1 DEF Send
  <2>2. QED
    BY <2>1, BroadcastType DEF Notified, Notifies
<1>2. CASE p # NoAp
  <2>1. p \in APS \ {a} /\ Cardinality(APS) <= 2
    BY <1>2 DEF Aps, EveryoneTold
  <2>2. \A b \in APS \ {a} : b = p
    BY <2>1, NoThird
  <2>3. tcp'[p] = Append(tcp[p], m)
    BY <1>2, <2>1, ConnectType DEF Send
  <2>4. tcp[p] \in Seq(FrameType)
    BY <2>1 DEF TypeInv, LanType
  <2>5. /\ Len(tcp[p]) + 1 \in 1 .. Len(tcp'[p])
        /\ tcp'[p][Len(tcp[p]) + 1] = m
    BY <2>3, <2>4, Appended
  <2>6. Notified(p, s)'
    BY <2>5 DEF Notified
  <2>7. QED
    BY <2>2, <2>6
<1>3. QED
  BY <1>1, <1>2

\* The signal of an association or a reassociation is handled.
LEMMA AnnounceKeeps ==
  ASSUME IInv, NEW a \in APS, sig[a] # <<>>, ~table[a].hung,
         NEW g, g = Head(sig[a]), IsAssoc(g), g.if \in IFS,
         NEW s, s = g.sta,
         NEW t, t = mt_iapp_ft_client_insert(table[a], s, g.if),
         sig' = Consumed(a), table' = [table EXCEPT ![a] = t],
         UNCHANGED <<up, assoc, spent>>,
         \A b \in APS, r \in STAS : Notified(b, r) => Notified(b, r)',
         \/ t.hung /\ l2' = l2
         \/ /\ l2' = [l2 EXCEPT ![s] = a]
            /\ up = APS /\ EveryoneTold => \A b \in APS \ {a} : Notified(b, s)'
  PROVE  TablesInv' /\ PeerInv' /\ CoverInv' /\ HomeInv'
<1>0. TypeInv /\ PeerInv /\ CoverInv /\ HomeInv
  BY DEF IInv
<1>1. /\ sig[a] \in Seq(SigType) /\ g \in SigType /\ s \in STAS
      /\ sig'[a] = Tail(sig[a]) /\ \A b \in APS \ {a} : sig'[b] = sig[b]
  <2>1. /\ sig[a] \in Seq(SigType) /\ g \in SigType
        /\ sig'[a] = Tail(sig[a]) /\ \A b \in APS \ {a} : sig'[b] = sig[b]
    BY <1>0, ConsumedType DEF TypeInv
  <2>2. g.sta \in STAS
    BY <2>1 DEF IsAssoc, SigType, StaSigs
  <2>3. QED
    BY <2>1, <2>2
<1>2. AssocSig(g, s) /\ \A r \in STAS \ {s} : ~AssocSig(g, r)
  BY DEF AssocSig, IsAssoc
<1>3. g.if \in Int
  <2>1. IFS \subseteq Int
    BY ConstantFacts
  <2>2. QED
    BY <2>1
<1>4. TableInv(table[a])
  BY <1>0 DEF TypeInv, TablesInv
<1>5. /\ TableInv(t)
      /\ OthersKept(table[a], t, s) /\ InterfacesIn(table[a], t, {g.if})
      /\ \/ t.hung
         \/ Has(t, s, g.if)
         \/ /\ table[a].ft_sta_table_size >= MAX_NUM_OF_CLIENT
            /\ \A i \in Used(table[a]) : table[a].ft_sta_info[i].sta_mac # s
  BY <1>1, <1>3, <1>4, InsertKeeps
<1>6. Room => t.hung \/ Has(t, s, g.if)
  <2>1. ASSUME Room, \A i \in Used(table[a]) :
               table[a].ft_sta_info[i].sta_mac # s
        PROVE  ~(table[a].ft_sta_table_size >= MAX_NUM_OF_CLIENT)
    <3>1. table[a].ft_sta_table_size < MAX_NUM_OF_CLIENT
      BY <1>1, <1>4, <2>1, RoomLeft
    <3>2. table[a].ft_sta_table_size \in Int
      BY <1>4 DEF TableInv, TableOK, TableType
    <3>3. QED
      BY <3>1, <3>2, TableAssumption
  <2>2. QED
    BY <1>5, <2>1
<1>7. TablesInv'
  <2>1. InterfacesIn(table[a], t, IFS \cup {-1})
    BY <1>5 DEF InterfacesIn
  <2>2. QED
    BY <1>0, <1>5, <2>1, SetTable
<1>8. table'[a] = t /\ \A b \in APS \ {a} : table'[b] = table[b]
  BY <1>0 DEF TypeInv, TablesInv
<1>9. \A r, i : /\ LastFor(sig[a], r, i) =>
                     \/ LastFor(sig'[a], r, i)
                     \/ AssocSig(g, r) /\ g.if = i /\ NoneFor(sig'[a], r)
                /\ NoneFor(sig[a], r) => NoneFor(sig'[a], r) /\ ~AssocSig(g, r)
  BY <1>1, Taken
<1>10. PeerInv'
  <2>1. /\ Len(sig'[a]) = Len(sig[a]) - 1 /\ Len(sig[a]) \in Nat \ {0}
        /\ \A n \in 1 .. Len(sig[a]) - 1 : sig'[a][n] = sig[a][n + 1]
    BY <1>1, Tailed
  <2>2. ASSUME NEW n \in 1 .. Len(sig'[a]),
               sig'[a][n].Sig = "FT_REASSOCIATION", sig'[a][n].peer # NoAp
        PROVE  OLDAP_KNOWN /\ sig'[a][n].peer # a
    <3>1. n \in 1 .. Len(sig[a]) - 1 /\ n + 1 \in 1 .. Len(sig[a])
      BY <2>1
    <3>2. sig'[a][n] = sig[a][n + 1]
      BY <2>1, <3>1
    <3>3. QED
      BY <1>0, <2>2, <3>1, <3>2 DEF PeerInv
  <2>3. ASSUME NEW b \in APS \ {a}, NEW n \in 1 .. Len(sig'[b]),
               sig'[b][n].Sig = "FT_REASSOCIATION", sig'[b][n].peer # NoAp
        PROVE  OLDAP_KNOWN /\ sig'[b][n].peer # b
    <3>1. sig'[b] = sig[b]
      BY <1>1
    <3>2. QED
      BY <1>0, <2>3, <3>1 DEF PeerInv
  <2>4. QED
    BY <2>2, <2>3 DEF PeerInv
<1>11. CoverInv'
  <2> SUFFICES ASSUME Room, spent.restarts = 0
               PROVE  up = APS /\ \A b \in APS, r \in STAS : Cover(b, r)'
    BY DEF CoverInv
  <2>1. up = APS /\ \A b \in APS, r \in STAS : Cover(b, r)
    BY <1>0 DEF CoverInv
  <2>2. ASSUME NEW b \in APS \ {a}, NEW r \in STAS PROVE Cover(b, r)'
    BY <1>1, <1>8, <2>1 DEF Cover
  <2>3. ASSUME NEW r \in STAS PROVE Cover(a, r)'
    <3> SUFFICES ASSUME assoc[a][r] \in IFS, ~t.hung
                 PROVE  \/ LastFor(sig'[a], r, assoc[a][r])
                        \/ NoneFor(sig'[a], r) /\ Has(t, r, assoc[a][r])
      BY <1>8 DEF Cover
    <3>1. \/ LastFor(sig[a], r, assoc[a][r])
          \/ NoneFor(sig[a], r) /\ Has(table[a], r, assoc[a][r])
      BY <2>1 DEF Cover
    <3>2. CASE LastFor(sig[a], r, assoc[a][r])
      <4>1. \/ LastFor(sig'[a], r, assoc[a][r])
            \/ AssocSig(g, r) /\ g.if = assoc[a][r] /\ NoneFor(sig'[a], r)
        BY <1>9, <3>2
      <4>2. AssocSig(g, r) => r = s
        BY DEF AssocSig
      <4>3. QED
        BY <1>6, <4>1, <4>2
    <3>3. CASE NoneFor(sig[a], r) /\ Has(table[a], r, assoc[a][r])
      <4>1. NoneFor(sig'[a], r) /\ ~AssocSig(g, r)
        BY <1>9, <3>3
      <4>2. r # s /\ assoc[a][r] \in Int
        <5>1. IFS \subseteq Int
          BY ConstantFacts
        <5>2. QED
          BY <1>2, <4>1, <5>1
      <4>3. QED
        BY <1>5, <3>3, <4>1, <4>2 DEF OthersKept
    <3>4. QED
      BY <3>1, <3>2, <3>3
  <2>4. QED
    BY <2>1, <2>2, <2>3
<1>12. HomeInv'
  <2> SUFFICES ASSUME Room, spent.restarts = 0, spent.losses = 0, NoneHung',
                      EveryoneTold,
                      NEW b \in APS, NEW r \in STAS
               PROVE  Home(b, r)'
    BY DEF HomeInv, EveryoneTold
  <2>1. ~t.hung /\ NoneHung
    BY <1>8 DEF NoneHung
  <2>2. up = APS /\ Home(b, r)
    BY <1>0, <2>1 DEF HomeInv, CoverInv
  <2>3. l2' = [l2 EXCEPT ![s] = a] /\ \A c \in APS \ {a} : Notified(c, s)'
    BY <2>1, <2>2
  <2>4. l2 \in [STAS -> Aps]
    BY <1>0 DEF TypeInv, StationType
  <2>5. CASE r = s /\ b = a
    BY <1>1, <2>3, <2>4, <2>5 DEF Home
  <2>6. CASE r = s /\ b # a
    BY <2>3, <2>6 DEF Home
  <2>7. CASE r # s
    <3>1. l2'[r] = l2[r]
      BY <2>3, <2>4, <2>7
    <3>2. LastFor(sig[b], r, assoc[b][r]) => LastFor(sig'[b], r, assoc[b][r])
      BY <1>1, <1>2, <1>9, <2>7
    <3>3. QED
      BY <2>2, <3>1, <3>2 DEF Home
  <2>8. QED
    BY <2>5, <2>6, <2>7
<1>13. QED
  BY <1>7, <1>10, <1>11, <1>12

\* The signal a handler takes is the first, for an interface it knows.
LEMMA NextSignalType ==
  ASSUME TypeInv, NEW a \in APS, NEW name, NextSignal(a, name), NEW g, g =
         Head(sig[a])
  PROVE  /\ sig[a] # <<>> /\ ~table[a].hung /\ g.Sig = name /\ g.if \in IFS
         /\ g \in SigType /\ g.seq \in Numbers /\ g.peer \in Aps
         /\ g.sta \in STAS \cup {NoSta} /\ (name \in StaSigs => g.sta \in STAS)
<1>1. sig[a] # <<>> /\ ~table[a].hung /\ g.Sig = name /\ g.if \in IFS
  BY DEF NextSignal, Running
<1>2. g \in SigType
  BY <1>1, ConsumedType
<1>3. QED
  BY <1>1, <1>2 DEF SigType

\* The daemon enters an associated station and tells the others.
LEMMA AssociationKeeps ==
  ASSUME IInv, NEW a \in APS, FT_ASSOCIATION(a)
  PROVE  IInv'
<1> PICK g : g = Head(sig[a])
  OBVIOUS
<1> PICK t : t = mt_iapp_ft_client_insert(table[a], g.sta, g.if)
  OBVIOUS
<1> DEFINE m == Frame("ADD_NOTIFY", a, g.sta, g.seq)
<1>0. TypeInv
  BY DEF IInv
<1>1. /\ sig[a] # <<>> /\ ~table[a].hung /\ g.Sig = "FT_ASSOCIATION" /\
           g.if \in IFS
      /\ g.seq \in Numbers /\ g.sta \in STAS
  BY <1>0, NextSignalType DEF FT_ASSOCIATION, StaSigs
<1>2. m \in FrameType /\ m.cmd = "ADD_NOTIFY" /\ m.sta = g.sta /\ m.from = a
  BY <1>1, FrameTypes DEF Cmds, StaCmds
<1>3. /\ sig' = Consumed(a) /\ table' = [table EXCEPT ![a] = t]
      /\ UNCHANGED <<up, tcp, rrb, driver, at, seq, r0kh, spent>>
      /\ \/ t.hung /\ udp' = udp /\ l2' = l2
         \/ udp' = Broadcast(m) /\ l2' = [l2 EXCEPT ![g.sta] = a]
  BY DEF FT_ASSOCIATION, L2Update
<1> HIDE DEF m
<1>4. udp \subseteq udp' /\ udp' \subseteq DatagramType
  BY <1>0, <1>2, <1>3, BroadcastType DEF TypeInv, LanType
<1>5. ASSUME udp' = Broadcast(m), up = APS
      PROVE  \A b \in APS \ {a} : Notified(b, g.sta)'
  BY <1>0, <1>2, <1>5, BroadcastType DEF Notified, Notifies
<1>6. \A b \in APS, r \in STAS : Notified(b, r) => Notified(b, r)'
  BY <1>3, <1>4, SameNotices
<1>7. TablesInv' /\ PeerInv' /\ CoverInv' /\ HomeInv'
  BY <1>1, <1>3, <1>5, <1>6, AnnounceKeeps DEF driver, IsAssoc
<1>8. sig' \in [APS -> Seq(SigType)]
  BY <1>0, <1>1, <1>3, ConsumedType
<1>9. StationType' /\ DriverType'
  <2>1. DriverType'
    BY <1>0, <1>3 DEF TypeInv, DriverType, driver
  <2>2. l2' \in [STAS -> Aps]
    BY <1>0, <1>1, <1>3 DEF TypeInv, StationType, Aps
  <2>3. QED
    BY <1>0, <1>3, <2>1, <2>2 DEF TypeInv, StationType
<1>10. LanType'
  BY <1>0, <1>3, <1>4 DEF TypeInv, LanType
<1>11. TypeInv'
  BY <1>0, <1>3, <1>7, <1>8, <1>9, <1>10 DEF TypeInv
<1>12. QED
  BY <1>7, <1>11 DEF IInv

\* The daemon enters a reassociated station and tells the old access point.
LEMMA ReassociationKeeps ==
  ASSUME IInv, NEW a \in APS, FT_REASSOCIATION(a)
  PROVE  IInv'
<1> PICK g : g = Head(sig[a])
  OBVIOUS
<1> PICK t : t = mt_iapp_ft_client_insert(table[a], g.sta, g.if)
  OBVIOUS
<1> DEFINE m == Frame("MOVE_NOTIFY", a, g.sta, g.seq)
<1>0. TypeInv /\ PeerInv
  BY DEF IInv
<1>1. /\ sig[a] # <<>> /\ ~table[a].hung /\ g.Sig = "FT_REASSOCIATION" /\
           g.if \in IFS
      /\ g.seq \in Numbers /\ g.sta \in STAS /\ g.peer \in Aps
  BY <1>0, NextSignalType DEF FT_REASSOCIATION, StaSigs
<1>2. m \in FrameType /\ m.cmd = "MOVE_NOTIFY" /\ m.sta = g.sta /\ m.from = a
  BY <1>1, FrameTypes DEF Cmds, StaCmds
<1>3. /\ sig' = Consumed(a) /\ table' = [table EXCEPT ![a] = t]
      /\ UNCHANGED <<up, rrb, driver, at, seq, r0kh, spent>>
      /\ \/ t.hung /\ udp' = udp /\ tcp' = tcp /\ l2' = l2
         \/ Send(g.peer, m) /\ l2' = [l2 EXCEPT ![g.sta] = a]
  BY DEF FT_REASSOCIATION, L2Update
<1>4. g.peer # NoAp => OLDAP_KNOWN /\ g.peer # a
  <2>1. g = sig[a][1] /\ 1 \in 1 .. Len(sig[a])
    <3>1. sig[a] \in Seq(SigType)
      BY <1>0 DEF TypeInv
    <3>2. QED
      BY <1>1, <3>1, Tailed
  <2>2. QED
    BY <1>0, <1>1, <2>1 DEF PeerInv
<1> HIDE DEF m
<1>5. udp' \subseteq DatagramType /\ tcp' \in [APS -> Seq(FrameType)]
  BY <1>0, <1>1, <1>2, <1>3, SendType DEF TypeInv, LanType
<1>6. ASSUME Send(g.peer, m), up = APS, EveryoneTold
      PROVE  \A b \in APS \ {a} : Notified(b, g.sta)'
  BY <1>0, <1>1, <1>2, <1>4, <1>6, SendNotifies
<1>7. \A b \in APS, r \in STAS : Notified(b, r) => Notified(b, r)'
  BY <1>0, <1>1, <1>2, <1>3, SendGrows, SameNotices
<1>8. TablesInv' /\ PeerInv' /\ CoverInv' /\ HomeInv'
  BY <1>1, <1>3, <1>6, <1>7, AnnounceKeeps DEF driver, IsAssoc
<1>9. sig' \in [APS -> Seq(SigType)]
  BY <1>0, <1>1, <1>3, ConsumedType
<1>10. StationType' /\ DriverType'
  <2>1. DriverType'
    BY <1>0, <1>3 DEF TypeInv, DriverType, driver
  <2>2. l2' \in [STAS -> Aps]
    BY <1>0, <1>1, <1>3 DEF TypeInv, StationType, Aps
  <2>3. QED
    BY <1>0, <1>3, <2>1, <2>2 DEF TypeInv, StationType
<1>11. LanType'
  BY <1>0, <1>3, <1>5 DEF TypeInv, LanType
<1>12. TypeInv'
  BY <1>0, <1>3, <1>8, <1>9, <1>10, <1>11 DEF TypeInv
<1>13. QED
  BY <1>8, <1>12 DEF IInv

\* A signal that is not of an association is handled: messages may be added.
LEMMA OtherSignalKeeps ==
  ASSUME IInv, NEW a \in APS, sig[a] # <<>>, ~IsAssoc(Head(sig[a])) ,
         sig' = Consumed(a), UNCHANGED <<table, up, driver, station, spent>>,
         LanType', \A b \in APS, r \in STAS : Notified(b, r) => Notified(b, r)'
  PROVE  IInv'
<1>0. TypeInv
  BY DEF IInv
<1>1. sig' \in [APS -> Seq(SigType)] /\ \A b \in APS : SigKept(b)
  BY <1>0, ConsumedType DEF SigKept
<1>2. TypeInv'
  BY <1>0, <1>1, SameTables
     DEF TypeInv, driver, DriverType, station, StationType
<1>3. PeerInv' /\ CoverInv' /\ HomeInv'
  BY <1>0, <1>1, SameTables, SameDrivers, QuietStep DEF driver, station
<1>4. QED
  BY <1>2, <1>3 DEF IInv

\* A signal of an interface that is not hooked is dropped: it may be one of an
\* association, but not of one that matters here.
LEMMA UnknownInterfaceKeeps ==
  ASSUME IInv, NEW a \in APS, UnknownInterface(a)
  PROVE  IInv'
<1>0. TypeInv /\ PeerInv /\ CoverInv /\ HomeInv
  BY DEF IInv
<1>1. /\ sig[a] # <<>> /\ Head(sig[a]).if \notin IFS /\ sig' = Consumed(a)
      /\ UNCHANGED <<table, up, udp, tcp, rrb, driver, station, spent>>
  BY DEF UnknownInterface
<1>2. /\ sig[a] \in Seq(SigType) /\ sig' \in [APS -> Seq(SigType)]
      /\ sig'[a] = Tail(sig[a]) /\ \A b \in APS \ {a} : sig'[b] = sig[b]
  BY <1>0, <1>1, ConsumedType DEF TypeInv
<1>3. TypeInv'
  BY <1>0, <1>1, <1>2, SameTables
     DEF TypeInv, driver, DriverType, station, StationType, LanType
<1>4. ASSUME NEW b \in APS, NEW r \in STAS, NEW i \in IFS
      PROVE  /\ LastFor(sig[b], r, i) => LastFor(sig'[b], r, i)
             /\ NoneFor(sig[b], r) => NoneFor(sig'[b], r)
  <2>1. CASE b # a
    BY <1>2, <2>1
  <2>2. CASE b = a
    <3>1. /\ LastFor(sig[a], r, i) => \/ LastFor(Tail(sig[a]), r, i)
                                       \/ Head(sig[a]).if = i
          /\ NoneFor(sig[a], r) => NoneFor(Tail(sig[a]), r)
      BY <1>1, <1>2, Taken
    <3>2. Head(sig[a]).if # i
      BY <1>1
    <3>3. QED
      BY <1>2, <2>2, <3>1, <3>2
  <2>3. QED
    BY <2>1, <2>2
<1>5. PeerInv'
  <2>1. /\ Len(sig'[a]) = Len(sig[a]) - 1 /\ Len(sig[a]) \in Nat \ {0}
        /\ \A n \in 1 .. Len(sig[a]) - 1 : sig'[a][n] = sig[a][n + 1]
    BY <1>1, <1>2, Tailed
  <2>2. ASSUME NEW n \in 1 .. Len(sig'[a]),
               sig'[a][n].Sig = "FT_REASSOCIATION", sig'[a][n].peer # NoAp
        PROVE  OLDAP_KNOWN /\ sig'[a][n].peer # a
    <3>1. n \in 1 .. Len(sig[a]) - 1 /\ n + 1 \in 1 .. Len(sig[a])
      BY <2>1
    <3>2. sig'[a][n] = sig[a][n + 1]
      BY <2>1, <3>1
    <3>3. QED
      BY <1>0, <2>2, <3>1, <3>2 DEF PeerInv
  <2>3. ASSUME NEW b \in APS \ {a}, NEW n \in 1 .. Len(sig'[b]),
               sig'[b][n].Sig = "FT_REASSOCIATION", sig'[b][n].peer # NoAp
        PROVE  OLDAP_KNOWN /\ sig'[b][n].peer # b
    <3>1. sig'[b] = sig[b]
      BY <1>2
    <3>2. QED
      BY <1>0, <2>3, <3>1 DEF PeerInv
  <2>4. QED
    BY <2>2, <2>3 DEF PeerInv
<1>6. \A b \in APS, r \in STAS :
     (Cover(b, r) => Cover(b, r)') /\ (Home(b, r) => Home(b, r)')
  BY <1>1, <1>4 DEF Cover, Home, Notified, driver, station
<1>7. CoverInv'
  BY <1>0, <1>1, <1>6 DEF CoverInv
<1>8. HomeInv'
  BY <1>0, <1>1, <1>6 DEF HomeInv, NoneHung, EveryoneTold
<1>9. QED
  BY <1>3, <1>5, <1>7, <1>8 DEF IInv

\* The daemon asks the R0KH for a key, or everyone if it is not known.
LEMMA SecurityBlockSendKeeps ==
  ASSUME IInv, NEW a \in APS, FT_KDP_SecurityBlockSend(a)
  PROVE  IInv'
<1> DEFINE g == Head(sig[a])
           m == Frame("SEND_SECURITY_BLOCK", a, g.sta, 0)
<1>0. TypeInv
  BY DEF IInv
<1>1. sig[a] # <<>> /\ g.Sig = "KEY_REQ" /\ g.sta \in STAS /\ g.peer \in Aps
  BY <1>0, NextSignalType DEF FT_KDP_SecurityBlockSend, StaSigs
<1>2. m \in FrameType
  BY <1>1, FrameTypes, ConstantFacts DEF Cmds, StaCmds
<1>3. /\ sig' = Consumed(a) /\ Send(g.peer, m)
      /\ UNCHANGED <<table, up, rrb, driver, station, spent>>
  BY DEF FT_KDP_SecurityBlockSend
<1> HIDE DEF m, g
<1>4. LanType'
  BY <1>0, <1>1, <1>2, <1>3, SendType DEF TypeInv, LanType
<1>5. \A b \in APS, r \in STAS : Notified(b, r) => Notified(b, r)'
  BY <1>0, <1>1, <1>2, <1>3, SendGrows
<1>6. QED
  BY <1>1, <1>3, <1>4, <1>5, OtherSignalKeeps DEF g, IsAssoc

\* A frame over a connection of its own.
LEMMA ConnectKeeps ==
  ASSUME TypeInv, NEW b \in Aps, NEW m \in FrameType, tcp' = Connect(b, m) \/
         tcp' = tcp,
         UNCHANGED <<udp, rrb>>
  PROVE  LanType' /\ \A c \in APS, r \in STAS : Notified(c, r) =>
         Notified(c, r)'
<1>1. \A c \in APS : tcp'[c] = tcp[c] \/ \E x \in FrameType :
     tcp'[c] = Append(tcp[c], x)
  <2> TAKE c \in APS
  <2>1. CASE tcp' = tcp
    BY <2>1
  <2>2. CASE tcp' = Connect(b, m)
    <3>1. CASE c = b
      BY <2>2, <3>1, ConnectType
    <3>2. CASE c # b
      BY <2>2, <3>2, ConnectType
    <3>3. QED
      BY <3>1, <3>2
  <2>3. QED
    BY <2>1, <2>2
<1>2. LanType'
  BY ConnectType DEF TypeInv, LanType
<1>3. QED
  BY <1>1, <1>2, NoticesGrow

\* The daemon passes a key of its driver to the access point that asked.
LEMMA SecurityBlockAckKeeps ==
  ASSUME IInv, NEW a \in APS, FT_KDP_SecurityBlockAck(a)
  PROVE  IInv'
<1> DEFINE g == Head(sig[a])
           m == Frame("ACK_SECURITY_BLOCK", a, g.sta, 0)
<1>0. TypeInv
  BY DEF IInv
<1>1. sig[a] # <<>> /\ g.Sig = "KEY_RSP_AUTO" /\ g.sta \in STAS /\
     g.peer \in Aps
  BY <1>0, NextSignalType DEF FT_KDP_SecurityBlockAck, StaSigs
<1>2. m \in FrameType
  BY <1>1, FrameTypes, ConstantFacts DEF Cmds, StaCmds
<1>3. /\ sig' = Consumed(a) /\ tcp' = Connect(g.peer, m)
      /\ UNCHANGED <<table, up, udp, rrb, driver, station, spent>>
  BY DEF FT_KDP_SecurityBlockAck
<1> HIDE DEF m, g
<1>4. LanType' /\ \A c \in APS, r \in STAS : Notified(c, r) => Notified(c, r)'
  BY <1>0, <1>1, <1>2, <1>3, ConnectKeeps
<1>5. QED
  BY <1>1, <1>3, <1>4, OtherSignalKeeps DEF g, IsAssoc

\* The daemon passes its driver's information to the one that asked.
LEMMA InformationResponseKeeps ==
  ASSUME IInv, NEW a \in APS, FT_KDP_InformationResponseSend(a)
  PROVE  IInv'
<1> DEFINE g == Head(sig[a])
           m == Frame("INFO_RESPONSE", a, NoSta, 0)
<1>0. TypeInv
  BY DEF IInv
<1>1. sig[a] # <<>> /\ g.Sig = "AP_INFO_RSP" /\ g.peer \in Aps
  BY <1>0, NextSignalType DEF FT_KDP_InformationResponseSend
<1>2. m \in FrameType
  BY FrameTypes, ConstantFacts DEF Cmds, StaCmds
<1>3. /\ sig' = Consumed(a) /\ (tcp' = Connect(g.peer, m) \/ tcp' = tcp)
      /\ UNCHANGED <<table, up, udp, rrb, driver, station, spent>>
  BY DEF FT_KDP_InformationResponseSend
<1> HIDE DEF m, g
<1>4. LanType' /\ \A c \in APS, r \in STAS : Notified(c, r) => Notified(c, r)'
  BY <1>0, <1>1, <1>2, <1>3, ConnectKeeps
<1>5. QED
  BY <1>1, <1>3, <1>4, OtherSignalKeeps DEF g, IsAssoc

\* The daemon forwards an action frame.
LEMMA ActionForwardKeeps ==
  ASSUME IInv, NEW a \in APS, FT_RRB_ActionForward(a)
  PROVE  IInv'
<1> DEFINE g == Head(sig[a])
<1>0. TypeInv
  BY DEF IInv
<1>1. /\ sig[a] # <<>> /\ g.Sig = "ACTION" /\ g.sta \in STAS /\ g.peer \in Aps
      /\ g.seq \in Numbers
  BY <1>0, NextSignalType DEF FT_RRB_ActionForward, StaSigs
<1>2. /\ sig' = Consumed(a) /\
           rrb' = rrb \cup {[to |-> g.peer, if |-> g.seq, sta |-> g.sta]}
      /\ UNCHANGED <<table, up, udp, tcp, driver, station, spent>>
  BY DEF FT_RRB_ActionForward
<1> HIDE DEF g
<1>3. LanType'
  BY <1>0, <1>1, <1>2 DEF TypeInv, LanType, RrbType
<1>4. \A c \in APS, r \in STAS : Notified(c, r) => Notified(c, r)'
  BY <1>2, SameNotices
<1>5. QED
  BY <1>1, <1>2, <1>3, <1>4, OtherSignalKeeps DEF g, IsAssoc

\* The daemon sends the information of its access point.
LEMMA InformationSendKeeps ==
  ASSUME IInv, NEW a \in APS, NEW name \in {"INFO_BROADCAST", "AP_INFO_REQ"},
         NEW cmd \in {"INFO_BROADCAST", "INFO_REQUEST"},
              InformationSend(a, name, cmd)
  PROVE  IInv'
<1> DEFINE m == Frame(cmd, a, NoSta, 0)
<1>0. TypeInv
  BY DEF IInv
<1>1. sig[a] # <<>> /\ Head(sig[a]).Sig = name
  BY <1>0, NextSignalType DEF InformationSend
<1>2. m \in FrameType
  BY FrameTypes, ConstantFacts DEF Cmds, StaCmds
<1>3. /\ sig' = Consumed(a) /\ udp' = Broadcast(m)
      /\ UNCHANGED <<table, up, tcp, rrb, driver, station, spent>>
  BY DEF InformationSend
<1> HIDE DEF m
<1>4. LanType'
  BY <1>0, <1>2, <1>3, BroadcastType DEF TypeInv, LanType
<1>5. \A c \in APS, r \in STAS : Notified(c, r) => Notified(c, r)'
  BY <1>0, <1>2, <1>3, BroadcastType, SameNotices
<1>6. QED
  BY <1>1, <1>3, <1>4, <1>5, OtherSignalKeeps DEF IsAssoc

-----------------------------------------------------------------------------
(* The daemon: frames.                                                     *)

\* A daemon handles a frame: a station goes from the driver before it may go
\* from the table, and a notification is only used up when the station is
\* gone, or is announced by an association that still waits.
LEMMA HandleKeeps ==
  ASSUME IInv,
         \A b \in APS :
              SigKept(b) /\ DriverKept(b) /\ (table[b].hung => table'[b].hung),
         \A b \in APS, r \in STAS :
           \/ assoc'[b][r] = NoAssoc
           \/ \A x \in Int : Has(table[b], r, x) => Has(table'[b], r, x),
         up' = up, spent' = spent, l2' = l2,
         \A b \in APS, r \in STAS : Cover(b, r) /\ Notified(b, r) =>
           \/ Notified(b, r)'
           \/ assoc'[b][r] \notin IFS
           \/ table'[b].hung
           \/ LastFor(sig[b], r, assoc[b][r])
  PROVE  PeerInv' /\ CoverInv' /\ HomeInv'
<1>0. TypeInv /\ PeerInv /\ CoverInv /\ HomeInv
  BY DEF IInv
<1>1. PeerInv'
  BY <1>0, PeerKept
<1>2. ASSUME NEW b \in APS, NEW r \in STAS, Cover(b, r) PROVE Cover(b, r)'
  <2> SUFFICES ASSUME assoc'[b][r] \in IFS, ~table'[b].hung
               PROVE  \/ LastFor(sig'[b], r, assoc'[b][r])
                      \/ NoneFor(sig'[b], r) /\ Has(table'[b], r, assoc'[b][r])
    BY DEF Cover
  <2>1. assoc'[b][r] # NoAssoc /\ IFS \subseteq Int
    BY ConstantFacts
  <2>2. assoc'[b][r] = assoc[b][r] /\ assoc[b][r] \in Int
    BY <2>1 DEF DriverKept
  <2>3. Has(table[b], r, assoc[b][r]) => Has(table'[b], r, assoc[b][r])
    BY <2>1, <2>2
  <2>4. /\ LastFor(sig[b], r, assoc[b][r]) => LastFor(sig'[b], r, assoc[b][r])
        /\ NoneFor(sig[b], r) => NoneFor(sig'[b], r)
    BY <1>0, QueueKept
  <2>5. QED
    BY <1>2, <2>2, <2>3, <2>4 DEF Cover
<1>3. CoverInv'
  BY <1>0, <1>2 DEF CoverInv
<1>4. HomeInv'
  <2> SUFFICES ASSUME Room, spent.restarts = 0, spent.losses = 0, NoneHung',
                      EveryoneTold,
                      NEW b \in APS, NEW r \in STAS
               PROVE  Home(b, r)'
    BY DEF HomeInv, EveryoneTold
  <2>1. NoneHung /\ ~table'[b].hung
    BY DEF NoneHung
  <2>2. Home(b, r) /\ Cover(b, r)
    BY <1>0, <2>1 DEF HomeInv, CoverInv
  <2>3. Notified(b, r) => \/ Notified(b, r)'
                          \/ assoc'[b][r] \notin IFS
                          \/ LastFor(sig[b], r, assoc[b][r])
    BY <2>1, <2>2
  <2>4. QED
    BY <1>0, <2>2, <2>3, HomeKept DEF DriverKept
<1>5. QED
  BY <1>1, <1>3, <1>4

\* The connections of b are those of q, one more at most.
Grown(q, b) == tcp'[b] = q[b] \/ \E x \in FrameType : tcp'[b] = Append(q[b], x)

\* A datagram is taken.
LEMMA DatagramTaken ==
  ASSUME TypeInv, NEW m \in udp, udp' = udp \ {m},
         \A b \in APS : Grown(tcp, b)
  PROVE  \A b \in APS, r \in STAS : Notified(b, r) =>
           Notified(b, r)' \/ (m.cmd \in Notifies /\ b = m.to /\ r = m.sta)
<1> SUFFICES ASSUME NEW b \in APS, NEW r \in STAS, Notified(b, r),
                    ~(m.cmd \in Notifies /\ b = m.to /\ r = m.sta)
             PROVE  Notified(b, r)'
  OBVIOUS
<1>1. tcp[b] \in Seq(FrameType)
  BY DEF TypeInv, LanType
<1>2. ASSUME NEW n \in 1 .. Len(tcp[b]) PROVE n \in 1 .. Len(tcp'[b]) /\
             tcp'[b][n] = tcp[b][n]
  <2>1. CASE tcp'[b] = tcp[b]
    BY <2>1
  <2>2. ASSUME NEW x \in FrameType, tcp'[b] = Append(tcp[b], x)
        PROVE  n \in 1 .. Len(tcp'[b]) /\ tcp'[b][n] = tcp[b][n]
    BY <1>1, <2>2, Appended
  <2>3. QED
    BY <2>1, <2>2 DEF Grown
<1>3. QED
  BY <1>2 DEF Notified

\* A frame is taken from a connection of a.
LEMMA ConnectionTaken ==
  ASSUME TypeInv, NEW a \in APS, tcp[a] # <<>>, udp' = udp,
         NEW left, left = [tcp EXCEPT ![a] = Tail(@)],
         \A b \in APS : Grown(left, b)
  PROVE  \A b \in APS, r \in STAS : Notified(b, r) =>
           \/ Notified(b, r)'
           \/ Head(tcp[a]).cmd = "MOVE_NOTIFY" /\ b = a /\ r = Head(tcp[a]).sta
<1> SUFFICES ASSUME NEW b \in APS, NEW r \in STAS, Notified(b, r),
                    ~(Head(tcp[a]).cmd = "MOVE_NOTIFY" /\ b = a /\
                         r = Head(tcp[a]).sta)
             PROVE  Notified(b, r)'
  OBVIOUS
<1>1. /\ left \in [APS -> Seq(FrameType)]
      /\ \A c \in APS \ {a} : left[c] = tcp[c]
      /\ left[a] = Tail(tcp[a])
  BY TakenType
<1>2. left[b] \in Seq(FrameType) /\ tcp[b] \in Seq(FrameType)
  BY <1>1 DEF TypeInv, LanType
<1>3. ASSUME NEW n \in 1 .. Len(left[b]) PROVE n \in 1 .. Len(tcp'[b]) /\
             tcp'[b][n] = left[b][n]
  <2>1. CASE tcp'[b] = left[b]
    BY <2>1
  <2>2. ASSUME NEW x \in FrameType, tcp'[b] = Append(left[b], x)
        PROVE  n \in 1 .. Len(tcp'[b]) /\ tcp'[b][n] = left[b][n]
    BY <1>2, <2>2, Appended
  <2>3. QED
    BY <2>1, <2>2 DEF Grown
<1>4. ASSUME NEW n \in 1 .. Len(tcp[b]), tcp[b][n].cmd = "MOVE_NOTIFY",
             tcp[b][n].sta = r
      PROVE  \E k \in 1 .. Len(left[b]) : left[b][k] = tcp[b][n]
  <2>1. CASE b # a
    BY <1>1, <2>1
  <2>2. CASE b = a
    <3>1. /\ Head(tcp[a]) = tcp[a][1]
          /\ Len(left[a]) = Len(tcp[a]) - 1 /\ Len(tcp[a]) \in Nat \ {0}
          /\ \A k \in 1 .. Len(tcp[a]) - 1 : left[a][k] = tcp[a][k + 1]
      BY <1>1, <1>2, <2>2, Tailed
    <3>2. n # 1
      BY <1>4, <2>2, <3>1
    <3> DEFINE k == n - 1
    <3>3. k \in 1 .. Len(left[a]) /\ k + 1 = n /\ k \in 1 .. Len(tcp[a]) - 1
      BY <2>2, <3>1, <3>2
    <3>4. left[a][k] = tcp[a][n]
      BY <3>1, <3>3
    <3> HIDE DEF k
    <3>5. QED
      BY <2>2, <3>3, <3>4
  <2>3. QED
    BY <2>1, <2>2
<1>5. CASE \E d \in udp : d.cmd \in Notifies /\ d.to = b /\ d.sta = r
  BY <1>5 DEF Notified
<1>6. ASSUME NEW n \in 1 .. Len(tcp[b]), tcp[b][n].cmd = "MOVE_NOTIFY",
             tcp[b][n].sta = r
      PROVE  Notified(b, r)'
  <2>1. PICK k \in 1 .. Len(left[b]) : left[b][k] = tcp[b][n]
    BY <1>4, <1>6
  <2>2. k \in 1 .. Len(tcp'[b]) /\ tcp'[b][k] = tcp[b][n]
    BY <1>3, <2>1
  <2>3. QED
    BY <1>6, <2>2 DEF Notified
<1>7. QED
  BY <1>5, <1>6 DEF Notified

\* The driver drops a station.
LEMMA DroppedType ==
  ASSUME NEW a \in APS, NEW s \in STAS,
         assoc \in [APS -> [STAS -> Interfaces \cup {NoAssoc}]],
         assoc' = [assoc EXCEPT ![a][s] = NoAssoc]
  PROVE  /\ assoc' \in [APS -> [STAS -> Interfaces \cup {NoAssoc}]]
         /\ \A b \in APS : DriverKept(b)
         /\ assoc'[a][s] = NoAssoc
<1>1. /\ assoc' \in [APS -> [STAS -> Interfaces \cup {NoAssoc}]]
      /\ assoc'[a][s] = NoAssoc
      /\ \A b \in APS, r \in STAS : b # a \/ r # s => assoc'[b][r] = assoc[b][r]
  OBVIOUS
<1>2. QED
  BY <1>1 DEF DriverKept

\* ADD-notify: a station that is in the table goes from the driver.
LEMMA AddEffect ==
  ASSUME TypeInv, NEW a \in APS, ~table[a].hung,
         NEW m, m.sta \in STAS, m.from \in APS, AddNotify(a, m)
  PROVE  /\ TablesInv' /\ tcp' = tcp
         /\ assoc' \in [APS -> [STAS -> Interfaces \cup {NoAssoc}]]
         /\ peer' \in [APS -> [STAS -> Aps]]
         /\ \A b \in APS : DriverKept(b) /\ TableKept(b)
         /\ Cover(a, m.sta) => \/ assoc'[a][m.sta] \notin IFS
                               \/ table'[a].hung
                               \/ LastFor(sig[a], m.sta, assoc[a][m.sta])
<1> DEFINE s == m.sta
           idx == mt_iapp_find_ifidx_by_sta_mac(table[a], s)
<1>0. /\ assoc \in [APS -> [STAS -> Interfaces \cup {NoAssoc}]]
      /\ peer \in [APS -> [STAS -> Aps]] /\ TableInv(table[a])
  BY DEF TypeInv, DriverType, TablesInv
<1>1. CASE idx = LOOP
  <2>1. table' = [table EXCEPT ![a].hung = TRUE] /\
       UNCHANGED <<assoc, peer, tcp>>
    BY <1>1 DEF AddNotify
  <2>2. /\ TablesInv' /\ table'[a].hung
        /\ \A b \in APS \ {a} : table'[b] = table[b]
        /\ \A r \in STAS, x \in Int : Has(table[a], r, x) =>
             Has(table'[a], r, x)
    BY <2>1, HungTable
  <2>3. QED
    BY <1>0, <2>1, <2>2 DEF DriverKept, TableKept
<1>2. CASE idx # LOOP
  <2>1. /\ IF idx >= 0 THEN DelMacEntry(a, s) ELSE UNCHANGED assoc
        /\ peer' = [peer EXCEPT ![a][s] = m.from]
        /\ UNCHANGED <<table, tcp>>
    BY <1>2 DEF AddNotify
  <2>2. TablesInv' /\ \A b \in APS : TableKept(b)
    BY <2>1, SameTables
  <2>3. peer' \in [APS -> [STAS -> Aps]]
    BY <1>0, <2>1 DEF Aps
  <2>4. /\ assoc' \in [APS -> [STAS -> Interfaces \cup {NoAssoc}]]
        /\ \A b \in APS : DriverKept(b)
        /\ idx >= 0 => assoc'[a][s] = NoAssoc
    <3>1. CASE assoc' = [assoc EXCEPT ![a][s] = NoAssoc]
      BY <1>0, <3>1, DroppedType
    <3>2. CASE assoc' = assoc /\ ~(idx >= 0)
      BY <1>0, <3>2, SameDrivers
    <3>3. QED
      BY <2>1, <3>1, <3>2 DEF DelMacEntry
  <2>5. ASSUME Cover(a, s), assoc'[a][s] \in IFS PROVE
               LastFor(sig[a], s, assoc[a][s])
    <3>1. assoc'[a][s] # NoAssoc
      BY <2>5, ConstantFacts
    <3>2. assoc[a][s] \in IFS /\ ~(idx >= 0)
      BY <2>4, <2>5, <3>1 DEF DriverKept
    <3>3. ~Has(table[a], s, assoc[a][s])
      <4>1. SUFFICES ASSUME Has(table[a], s, assoc[a][s]) PROVE FALSE
        OBVIOUS
      <4>2. mt_iapp_find_ifidx_by_sta_mac(table[a], s) = assoc[a][s]
        BY <1>0, <4>1, FoundWhere
      <4>3. assoc[a][s] \in Nat
        BY <3>2, ConstantFacts
      <4> HIDE DEF s
      <4>4. assoc[a][s] >= 0
        BY <4>3
      <4>5. QED
        BY <3>2, <4>2, <4>4
    <3>4. QED
      BY <2>5, <3>2, <3>3 DEF Cover
  <2>6. QED
    BY <2>1, <2>2, <2>3, <2>4, <2>5
<1>3. QED
  BY <1>1, <1>2

\* The three outcomes of looking up the station of a MOVE-notify.
LEMMA MoveCases ==
  ASSUME NEW a, NEW m, NEW left, IAPP_RcvHandlerMoveReq(a, m, left),
         NEW s, s = m.sta, NEW idx, idx =
              mt_iapp_find_ifidx_by_sta_mac(table[a], s)
  PROVE  /\ idx = LOOP =>
              table' = [table EXCEPT ![a].hung = TRUE] /\ assoc' = assoc
         /\ idx = NULL /\ idx # LOOP => table' = table /\ assoc' = assoc
         /\ idx # NULL /\ idx # LOOP =>
              /\ assoc' = [assoc EXCEPT ![a][s] = NoAssoc]
              /\ table' = [table EXCEPT ![a] = mt_iapp_ft_client_delete(@, s)]
BY DEF IAPP_RcvHandlerMoveReq, DelMacEntry, NULL, LOOP

\* MOVE-notify: a station that is in the table goes from the driver and from
\* the table, and the sender gets an answer.
LEMMA MoveEffect ==
  ASSUME TypeInv, NEW a \in APS, ~table[a].hung,
         NEW m, m.sta \in STAS, m.from \in APS, m.seq \in Numbers,
         NEW left \in [APS -> Seq(FrameType)],
              IAPP_RcvHandlerMoveReq(a, m, left)
  PROVE  /\ TablesInv' /\ tcp' \in [APS -> Seq(FrameType)]
         /\ \A b \in APS : Grown(left, b)
         /\ assoc' \in [APS -> [STAS -> Interfaces \cup {NoAssoc}]]
         /\ \A b \in APS : DriverKept(b) /\ (table[b].hung => table'[b].hung)
         /\ \A b \in APS, r \in STAS :
              \/ assoc'[b][r] = NoAssoc
              \/ \A x \in Int : Has(table[b], r, x) => Has(table'[b], r, x)
         /\ Cover(a, m.sta) => \/ assoc'[a][m.sta] \notin IFS
                               \/ table'[a].hung
                               \/ LastFor(sig[a], m.sta, assoc[a][m.sta])
<1> PICK s : s = m.sta
  OBVIOUS
<1> PICK idx : idx = mt_iapp_find_ifidx_by_sta_mac(table[a], s)
  OBVIOUS
<1> DEFINE rsp == Frame("MOVE_RESPONSE", a, s, m.seq)
<1>0. /\ assoc \in [APS -> [STAS -> Interfaces \cup {NoAssoc}]]
      /\ TableInv(table[a]) /\ s \in STAS
  BY DEF TypeInv, DriverType, TablesInv
<1>1. tcp' \in [APS -> Seq(FrameType)]
      /\ \A b \in APS : Grown(left, b)
  <2>1. rsp \in FrameType
    BY <1>0, FrameTypes DEF Cmds, StaCmds
  <2>2. tcp' = left \/ tcp' = [left EXCEPT ![m.from] = Append(@, rsp)]
    BY DEF IAPP_RcvHandlerMoveReq
  <2> HIDE DEF rsp
  <2>3. Append(left[m.from], rsp) \in Seq(FrameType)
    BY <2>1, Appended
  <2>4. CASE tcp' = left
    BY <2>4 DEF Grown
  <2>5. CASE tcp' = [left EXCEPT ![m.from] = Append(@, rsp)]
    <3>1. tcp' \in [APS -> Seq(FrameType)] /\
         tcp'[m.from] = Append(left[m.from], rsp)
          /\ \A b \in APS \ {m.from} : tcp'[b] = left[b]
      BY <2>3, <2>5
    <3>2. QED
      BY <2>1, <3>1 DEF Grown
  <2>6. QED
    BY <2>2, <2>4, <2>5
<1>2. ASSUME table' = table, Has(table[a], s, assoc[a][s]), idx = NULL,
             assoc[a][s] \in IFS
      PROVE  FALSE
  <2>1. mt_iapp_find_ifidx_by_sta_mac(table[a], s) = assoc[a][s]
    BY <1>0, <1>2, FoundWhere
  <2>2. NULL \notin IFS
    BY ConstantFacts
  <2>3. idx = assoc[a][s]
    BY <2>1
  <2>4. QED
    BY <1>2, <2>2, <2>3, Zenon
<1>3. CASE idx = LOOP
  <2>1. table' = [table EXCEPT ![a].hung = TRUE] /\ assoc' = assoc
    BY <1>3, MoveCases
  <2>2. /\ TablesInv' /\ table'[a].hung
        /\ \A b \in APS \ {a} : table'[b] = table[b]
        /\ \A r \in STAS, x \in Int : Has(table[a], r, x) =>
             Has(table'[a], r, x)
    BY <2>1, HungTable
  <2>3. QED
    BY <1>0, <1>1, <2>1, <2>2 DEF DriverKept
<1>4. CASE idx = NULL
  <2>1. table' = table /\ assoc' = assoc
    BY <1>4, MoveCases, SlotFacts
  <2>2. Cover(a, s) => assoc'[a][s] \notin IFS \/ table'[a].hung \/
       LastFor(sig[a], s, assoc[a][s])
    BY <1>2, <1>4, <2>1 DEF Cover
  <2>3. QED
    BY <1>0, <1>1, <2>1, <2>2, SameTables, SameDrivers
<1>5. CASE idx # NULL /\ idx # LOOP
  <2> PICK w : w = mt_iapp_ft_client_delete(table[a], s)
    OBVIOUS
  <2>1. assoc' = [assoc EXCEPT ![a][s] = NoAssoc] /\
       table' = [table EXCEPT ![a] = w]
    BY <1>5, MoveCases
  <2>2. TableInv(w) /\ OthersKept(table[a], w, s) /\
       InterfacesIn(table[a], w, {-1})
    BY <1>0, DeleteKeeps
  <2>3. InterfacesIn(table[a], w, IFS \cup {-1})
    BY <2>2 DEF InterfacesIn
  <2>4. TablesInv'
    BY <2>1, <2>2, <2>3, SetTable
  <2>5. /\ assoc' \in [APS -> [STAS -> Interfaces \cup {NoAssoc}]]
        /\ \A b \in APS : DriverKept(b)
        /\ assoc'[a][s] = NoAssoc
    BY <1>0, <2>1, DroppedType
  <2>6. table'[a] = w /\ \A b \in APS \ {a} : table'[b] = table[b]
    BY <2>1 DEF TypeInv, TablesInv
  <2>7. ASSUME NEW b \in APS, NEW r \in STAS
        PROVE  \/ assoc'[b][r] = NoAssoc
               \/ \A x \in Int : Has(table[b], r, x) => Has(table'[b], r, x)
    <3>1. CASE b # a
      BY <2>6, <3>1
    <3>2. CASE b = a /\ r = s
      BY <2>5, <3>2
    <3>3. CASE b = a /\ r # s
      BY <2>2, <2>6, <3>3 DEF OthersKept
    <3>4. QED
      BY <3>1, <3>2, <3>3
  <2>8. \A b \in APS : table[b].hung => table'[b].hung
    BY <2>6
  <2>9. assoc'[a][s] \notin IFS
    BY <2>5, ConstantFacts
  <2>10. QED
    BY <1>1, <2>4, <2>5, <2>7, <2>8, <2>9
<1>6. QED
  BY <1>3, <1>4, <1>5

\* A key request: the table is looked up and the driver may answer.
LEMMA SecurityBlockEffect ==
  ASSUME TypeInv, NEW a \in APS, NEW m, m.sta \in STAS, m.from \in APS,
         IAPP_RcvHandlerSSB(a, m)
  PROVE  /\ TablesInv' /\ sig' \in [APS -> Seq(SigType)]
         /\ \A b \in APS : SigKept(b) /\ TableKept(b)
<1> PICK g : g = Signal("KEY_RSP_AUTO", m.sta, 0, 0, m.from)
  OBVIOUS
<1>1. g \in SigType /\ ~IsAssoc(g)
  BY SignalType, ConstantFacts DEF Sigs, StaSigs, Aps, IsAssoc
<1>2. sig' = sig \/ sig' = Raise(a, g)
  BY DEF IAPP_RcvHandlerSSB, KeyReqCommand
<1>3. sig' \in [APS -> Seq(SigType)] /\ \A b \in APS : SigKept(b)
  <2>1. CASE sig' = sig
    BY <2>1 DEF TypeInv, SigKept
  <2>2. CASE sig' = Raise(a, g)
    BY <1>1, <2>2, RaiseKept
  <2>3. QED
    BY <1>2, <2>1, <2>2
<1>4. TablesInv' /\ \A b \in APS : TableKept(b)
  <2>1. CASE table' = table
    BY <2>1, SameTables
  <2>2. CASE table' = [table EXCEPT ![a].hung = TRUE]
    <3>1. /\ TablesInv' /\ table'[a].hung
          /\ \A b \in APS \ {a} : table'[b] = table[b]
          /\ \A r \in STAS, x \in Int : Has(table[a], r, x) =>
               Has(table'[a], r, x)
      BY <2>2, HungTable
    <3>2. QED
      BY <3>1 DEF TableKept
  <2>3. QED
    BY <2>1, <2>2 DEF IAPP_RcvHandlerSSB
<1>5. QED
  BY <1>3, <1>4

\* Neighbour information: the driver may answer.
LEMMA NeighborEffect ==
  ASSUME TypeInv, NEW a \in APS, NEW m, m.from \in APS, NEW i,
         IAPP_RcvHandlerApInfor(a, m, i)
  PROVE  /\ sig' \in [APS -> Seq(SigType)]
         /\ \A b \in APS : SigKept(b)
         /\ UNCHANGED <<table, assoc, peer, want, pmk>>
<1> PICK g : g = Signal("AP_INFO_RSP", NoSta, 0, 0, m.from)
  OBVIOUS
<1>1. g \in SigType /\ ~IsAssoc(g)
  BY SignalType, ConstantFacts DEF Sigs, StaSigs, Aps, IsAssoc
<1>2. (sig' = sig \/ sig' = Raise(a, g)) /\
     UNCHANGED <<table, assoc, peer, want, pmk>>
  BY DEF IAPP_RcvHandlerApInfor, NeighborCommand
<1>3. CASE sig' = sig
  BY <1>2, <1>3 DEF TypeInv, SigKept
<1>4. CASE sig' = Raise(a, g)
  BY <1>1, <1>2, <1>4, RaiseKept
<1>5. QED
  BY <1>2, <1>3, <1>4

\* A datagram arrives: an ADD notification removes the station from the driver.
LEMMA UdpKeeps ==
  ASSUME IInv, NEW a \in APS, NEW m \in udp, IAPP_RcvHandlerUdp(a, m)
  PROVE  IInv'
<1>0. TypeInv
  BY DEF IInv
<1>1. /\ m \in DatagramType /\ m.from \in APS /\ m.seq \in Numbers /\
           m.cmd \in Cmds
      /\ m.cmd \in StaCmds => m.sta \in STAS
  BY <1>0 DEF TypeInv, LanType, DatagramType
<1>2. /\ ~table[a].hung /\ m.to = a /\ udp' = udp \ {m}
      /\ UNCHANGED <<up, rrb, station, spent>>
  BY DEF IAPP_RcvHandlerUdp, Running
<1>3. tcp \in [APS -> Seq(FrameType)] /\ sig \in [APS -> Seq(SigType)]
  BY <1>0 DEF TypeInv, LanType
<1>4. ASSUME tcp' \in [APS -> Seq(FrameType)], sig' \in [APS -> Seq(SigType)],
             TablesInv', DriverType'
      PROVE  TypeInv'
  BY <1>0, <1>2, <1>4 DEF TypeInv, LanType, station, StationType
<1>5. ASSUME UNCHANGED <<sig, want, pmk>>
      PROVE  sig' \in [APS -> Seq(SigType)] /\ \A b \in APS : SigKept(b)
  BY <1>3, <1>5 DEF SigKept
<1>6. l2' = l2
  BY <1>2 DEF station
<1>7. CASE m.cmd = "ADD_NOTIFY"
  <2>1. AddNotify(a, m) /\ UNCHANGED <<sig, want, pmk, heard>> /\ m.sta \in STAS
    BY <1>1, <1>7 DEF IAPP_RcvHandlerUdp, StaCmds
  <2>2. /\ TablesInv' /\ tcp' = tcp
        /\ assoc' \in [APS -> [STAS -> Interfaces \cup {NoAssoc}]]
        /\ peer' \in [APS -> [STAS -> Aps]]
        /\ \A b \in APS : DriverKept(b) /\ TableKept(b)
        /\ Cover(a, m.sta) => \/ assoc'[a][m.sta] \notin IFS
                              \/ table'[a].hung
                              \/ LastFor(sig[a], m.sta, assoc[a][m.sta])
    BY <1>0, <1>1, <1>2, <2>1, AddEffect
  <2>3. DriverType'
    BY <1>0, <2>1, <2>2 DEF TypeInv, DriverType
  <2>4. \A b \in APS, r \in STAS : Notified(b, r) =>
           Notified(b, r)' \/ (m.cmd \in Notifies /\ b = m.to /\ r = m.sta)
    BY <1>0, <1>2, <2>2, DatagramTaken DEF Grown
  <2>5. PeerInv' /\ CoverInv' /\ HomeInv'
    BY <1>2, <1>5, <1>6, <2>1, <2>2, <2>4, HandleKeeps DEF TableKept
  <2>6. QED
    BY <1>3, <1>4, <1>5, <2>1, <2>2, <2>3, <2>5 DEF IInv
<1>8. CASE m.cmd = "MOVE_NOTIFY"
  <2>1. IAPP_RcvHandlerMoveReq(a, m, tcp) /\ m.sta \in STAS
    BY <1>1, <1>8 DEF IAPP_RcvHandlerUdp, StaCmds
  <2>2. UNCHANGED <<peer, sig, want, pmk>>
    BY <2>1 DEF IAPP_RcvHandlerMoveReq
  <2>3. /\ TablesInv' /\ tcp' \in [APS -> Seq(FrameType)]
        /\ \A b \in APS : Grown(tcp, b)
        /\ assoc' \in [APS -> [STAS -> Interfaces \cup {NoAssoc}]]
        /\ \A b \in APS : DriverKept(b) /\ (table[b].hung => table'[b].hung)
        /\ \A b \in APS, r \in STAS :
             \/ assoc'[b][r] = NoAssoc
             \/ \A x \in Int : Has(table[b], r, x) => Has(table'[b], r, x)
        /\ Cover(a, m.sta) => \/ assoc'[a][m.sta] \notin IFS
                              \/ table'[a].hung
                              \/ LastFor(sig[a], m.sta, assoc[a][m.sta])
    BY <1>0, <1>1, <1>2, <1>3, <2>1, MoveEffect
  <2>4. DriverType'
    BY <1>0, <2>2, <2>3 DEF TypeInv, DriverType
  <2>5. \A b \in APS, r \in STAS : Notified(b, r) =>
           Notified(b, r)' \/ (m.cmd \in Notifies /\ b = m.to /\ r = m.sta)
    BY <1>0, <1>2, <2>3, DatagramTaken
  <2>6. PeerInv' /\ CoverInv' /\ HomeInv'
    BY <1>2, <1>5, <1>6, <2>2, <2>3, <2>5, HandleKeeps
  <2>7. QED
    BY <1>4, <1>5, <2>2, <2>3, <2>4, <2>6 DEF IInv
<1>9. CASE m.cmd \notin Notifies
  <2>1. tcp' = tcp /\ UNCHANGED <<assoc, peer, want, pmk>>
        /\ TablesInv' /\ sig' \in [APS -> Seq(SigType)]
        /\ \A b \in APS : SigKept(b) /\ TableKept(b)
    <3>1. CASE m.cmd = "SEND_SECURITY_BLOCK"
      <4>1. IAPP_RcvHandlerSSB(a, m) /\ tcp' = tcp /\ m.sta \in STAS
        BY <1>1, <3>1 DEF IAPP_RcvHandlerUdp, StaCmds
      <4>2. UNCHANGED <<assoc, peer, want, pmk>>
        BY <4>1 DEF IAPP_RcvHandlerSSB
      <4>3. QED
        BY <1>0, <1>1, <4>1, <4>2, SecurityBlockEffect
    <3>2. CASE m.cmd # "SEND_SECURITY_BLOCK"
      <4>1. IAPP_RcvHandlerApInfor(a, m, -1) /\ tcp' = tcp
        BY <1>9, <3>2 DEF IAPP_RcvHandlerUdp, Notifies
      <4>2. /\ sig' \in [APS -> Seq(SigType)]
            /\ \A b \in APS : SigKept(b)
            /\ UNCHANGED <<table, assoc, peer, want, pmk>>
        BY <1>0, <1>1, <4>1, NeighborEffect
      <4>3. QED
        BY <1>0, <4>1, <4>2, SameTables
    <3>3. QED
      BY <3>1, <3>2
  <2>2. DriverType'
    BY <1>0, <2>1 DEF TypeInv, DriverType
  <2>3. \A b \in APS, r \in STAS : Notified(b, r) => Notified(b, r)'
    BY <1>0, <1>2, <1>9, <2>1, DatagramTaken DEF Grown
  <2>4. PeerInv' /\ CoverInv' /\ HomeInv'
    BY <1>2, <1>6, <2>1, <2>3, SameDrivers, QuietStep
  <2>5. QED
    BY <1>3, <1>4, <2>1, <2>2, <2>4 DEF IInv
<1>10. QED
  BY <1>7, <1>8, <1>9 DEF Notifies

\* A TCP frame arrives: a MOVE notification removes the station from the driver.
LEMMA TcpKeeps ==
  ASSUME IInv, NEW a \in APS, IAPP_RcvHandlerTcp(a)
  PROVE  IInv'
<1> PICK m : m = Head(tcp[a])
  OBVIOUS
<1> PICK left : left = [tcp EXCEPT ![a] = Tail(@)]
  OBVIOUS
<1>0. TypeInv
  BY DEF IInv
<1>1. /\ ~table[a].hung /\ tcp[a] # <<>>
      /\ UNCHANGED <<up, udp, rrb, station, spent>>
  BY DEF IAPP_RcvHandlerTcp, Running
<1>2. m \in FrameType /\ left \in [APS -> Seq(FrameType)]
  BY <1>0, <1>1, TakenType
<1>3. /\ m.from \in APS /\ m.seq \in Numbers /\ m.cmd \in Cmds
      /\ m.cmd \in StaCmds => m.sta \in STAS
  BY <1>2 DEF FrameType
<1>4. ASSUME tcp' \in [APS -> Seq(FrameType)], sig' \in [APS -> Seq(SigType)],
             TablesInv', DriverType'
      PROVE  TypeInv'
  BY <1>0, <1>1, <1>4 DEF TypeInv, LanType, station, StationType
<1>5. l2' = l2
  BY <1>1 DEF station
<1>6. ASSUME sig' = sig
      PROVE  sig' \in [APS -> Seq(SigType)] /\ \A b \in APS : SigKept(b)
  BY <1>0, <1>6 DEF SigKept, TypeInv
<1>7. CASE m.cmd = "MOVE_NOTIFY"
  <2>1. IAPP_RcvHandlerMoveReq(a, m, left) /\ m.sta \in STAS
    BY <1>3, <1>7 DEF IAPP_RcvHandlerTcp, StaCmds
  <2>2. UNCHANGED <<peer, sig, want, pmk>>
    BY <2>1 DEF IAPP_RcvHandlerMoveReq
  <2>3. /\ TablesInv' /\ tcp' \in [APS -> Seq(FrameType)]
        /\ \A b \in APS : Grown(left, b)
        /\ assoc' \in [APS -> [STAS -> Interfaces \cup {NoAssoc}]]
        /\ \A b \in APS : DriverKept(b) /\ (table[b].hung => table'[b].hung)
        /\ \A b \in APS, r \in STAS :
             \/ assoc'[b][r] = NoAssoc
             \/ \A x \in Int : Has(table[b], r, x) => Has(table'[b], r, x)
        /\ Cover(a, m.sta) => \/ assoc'[a][m.sta] \notin IFS
                              \/ table'[a].hung
                              \/ LastFor(sig[a], m.sta, assoc[a][m.sta])
    <3>1. /\ m.sta \in STAS /\ m.from \in APS /\ m.seq \in Numbers /\
               ~table[a].hung
          /\ left \in [APS -> Seq(FrameType)] /\
               IAPP_RcvHandlerMoveReq(a, m, left)
      BY <1>1, <1>2, <1>3, <2>1
    <3>2. QED
      BY <1>0, <3>1, MoveEffect, ZenonT(60)
  <2>4. DriverType'
    BY <1>0, <2>2, <2>3 DEF TypeInv, DriverType
  <2>5. \A b \in APS, r \in STAS : Notified(b, r) =>
          Notified(b, r)' \/ (m.cmd = "MOVE_NOTIFY" /\ b = a /\ r = m.sta)
    <3>1. /\ udp' = udp /\ tcp[a] # <<>>
          /\ \A b \in APS : Grown(left, b)
      BY <1>1, <2>3
    <3>2. \A b \in APS, r \in STAS : Notified(b, r) =>
          \/ Notified(b, r)'
          \/ Head(tcp[a]).cmd = "MOVE_NOTIFY" /\ b = a /\ r = Head(tcp[a]).sta
      BY <1>0, <3>1, ConnectionTaken
    <3>3. QED
      BY <3>2
  <2>6. PeerInv' /\ CoverInv' /\ HomeInv'
    BY <1>1, <1>5, <1>6, <2>2, <2>3, <2>5, HandleKeeps
  <2>7. QED
    BY <1>4, <1>6, <2>2, <2>3, <2>4, <2>6 DEF IInv
<1>8. CASE m.cmd # "MOVE_NOTIFY"
  <2>1. /\ tcp' = left /\ UNCHANGED <<assoc, peer>>
        /\ want' \in [APS -> SUBSET STAS] /\ pmk' \in [APS -> SUBSET STAS]
        /\ \A b \in APS : want'[b] \cap pmk'[b] = {}
        /\ TablesInv' /\ sig' \in [APS -> Seq(SigType)]
        /\ \A b \in APS : SigKept(b) /\ TableKept(b)
    <3>0. /\ want \in [APS -> SUBSET STAS] /\ pmk \in [APS -> SUBSET STAS]
          /\ \A b \in APS : want[b] \cap pmk[b] = {}
      BY <1>0 DEF TypeInv, DriverType
    <3>1. CASE m.cmd = "SEND_SECURITY_BLOCK"
      <4>1. IAPP_RcvHandlerSSB(a, m) /\ tcp' = left /\ m.sta \in STAS
        BY <1>3, <3>1 DEF IAPP_RcvHandlerTcp, StaCmds
      <4>2. UNCHANGED <<assoc, peer, want, pmk>>
        BY <4>1 DEF IAPP_RcvHandlerSSB
      <4>3. QED
        BY <1>0, <1>3, <3>0, <4>1, <4>2, SecurityBlockEffect
    <3>2. CASE m.cmd = "MOVE_RESPONSE"
      <4>1. tcp' = left /\ UNCHANGED <<table, sig, driver>>
        BY <3>2 DEF IAPP_RcvHandlerTcp
      <4>2. QED
        BY <1>0, <1>6, <3>0, <4>1, SameTables DEF driver
    <3>3. CASE m.cmd = "ACK_SECURITY_BLOCK"
      <4>1. /\ tcp' = left /\ UNCHANGED <<table, sig, assoc, peer>>
            /\ pmk' = [pmk EXCEPT ![a] = @ \cup (want[a] \cap {m.sta})]
            /\ want' = [want EXCEPT ![a] = @ \ {m.sta}]
        BY <3>3 DEF IAPP_RcvHandlerTcp
      <4>2. /\ want' \in [APS -> SUBSET STAS] /\ pmk' \in [APS -> SUBSET STAS]
            /\ \A b \in APS : want'[b] \cap pmk'[b] = {}
        BY <3>0, <4>1
      <4>3. QED
        BY <1>0, <1>6, <4>1, <4>2, SameTables
    <3>4. CASE m.cmd \notin {"SEND_SECURITY_BLOCK", "MOVE_RESPONSE",
         "ACK_SECURITY_BLOCK"}
      <4>1. IAPP_RcvHandlerApInfor(a, m, 0) /\ tcp' = left
        BY <1>8, <3>4 DEF IAPP_RcvHandlerTcp
      <4>2. /\ sig' \in [APS -> Seq(SigType)]
            /\ \A b \in APS : SigKept(b)
            /\ UNCHANGED <<table, assoc, peer, want, pmk>>
        BY <1>0, <1>3, <4>1, NeighborEffect
      <4>3. QED
        BY <1>0, <3>0, <4>1, <4>2, SameTables
    <3>5. QED
      BY <3>1, <3>2, <3>3, <3>4
  <2>2. DriverType'
    BY <1>0, <2>1 DEF TypeInv, DriverType
  <2>3. \A b \in APS, r \in STAS : Notified(b, r) => Notified(b, r)'
    BY <1>0, <1>1, <1>8, <2>1, ConnectionTaken DEF Grown
  <2>4. PeerInv' /\ CoverInv' /\ HomeInv'
    BY <1>1, <1>5, <2>1, <2>3, SameDrivers, QuietStep
  <2>5. QED
    BY <1>2, <1>4, <2>1, <2>2, <2>4 DEF IInv
<1>9. QED
  BY <1>7, <1>8

\* A remote request frame arrives, for which the driver may need a key.
LEMMA RrbKeeps ==
  ASSUME IInv, NEW a \in APS, NEW f \in rrb, IAPP_RcvHandlerRawRRB(a, f)
  PROVE  IInv'
<1>0. TypeInv
  BY DEF IInv
<1>1. /\ rrb' = rrb \ {f}
      /\ UNCHANGED <<table, up, udp, tcp, assoc, peer, pmk, heard, station,
           spent>>
  BY DEF IAPP_RcvHandlerRawRRB
<1>2. f.sta \in STAS
  BY <1>0 DEF TypeInv, LanType, RrbType
<1>3. DriverType' /\ sig' \in [APS -> Seq(SigType)] /\ \A b \in APS : SigKept(b)
  <2>1. CASE f.if \in IFS /\ MustFetch(a, f.sta)
    <3>1. FetchKey(a, f.if, f.sta) /\ f.if \in Interfaces
      BY <2>1, ConstantFacts DEF IAPP_RcvHandlerRawRRB
    <3>2. QED
      BY <1>0, <1>1, <1>2, <2>1, <3>1, FetchType
  <2>2. CASE ~(f.if \in IFS /\ MustFetch(a, f.sta))
    <3>1. UNCHANGED <<want, sig>>
      BY <2>2 DEF IAPP_RcvHandlerRawRRB
    <3>2. QED
      BY <1>0, <1>1, <3>1 DEF TypeInv, DriverType, SigKept
  <2>3. QED
    BY <2>1, <2>2
<1>4. TypeInv'
  BY <1>0, <1>1, <1>3, SameTables DEF TypeInv, LanType, station, StationType
<1>5. PeerInv' /\ CoverInv' /\ HomeInv'
  BY <1>0, <1>1, <1>3, SameTables, SameDrivers, SameNotices, QuietStep
     DEF station
<1>6. QED
  BY <1>4, <1>5 DEF IInv

-----------------------------------------------------------------------------
(* Restart.                                                                *)

\* A daemon ends, and with it what waits at its sockets.
LEMMA TerminateKeeps ==
  ASSUME IInv, NEW a \in APS, IAPP_TerminateHandle(a)
  PROVE  IInv'
<1>0. TypeInv /\ PeerInv
  BY DEF IInv
<1>1. /\ up' = up \ {a} /\ sig' = [sig EXCEPT ![a] = <<>>] /\
           tcp' = [tcp EXCEPT ![a] = <<>>]
      /\ udp' \subseteq udp /\ rrb' \subseteq rrb
      /\ UNCHANGED <<table, driver, station>>
  BY DEF IAPP_TerminateHandle
<1>2. spent' \in SpentType /\ spent'.restarts # 0
  <2>1. /\ spent.restarts \in Nat /\ spent.losses \in Nat /\
             spent.leaves \in Nat
        /\ spent.infos \in Nat /\ spent.ds \in Nat /\ spent \in SpentType
    BY <1>0 DEF TypeInv, SpentType
  <2>2. spent' = [spent EXCEPT !.restarts = @ + 1]
    BY DEF IAPP_TerminateHandle
  <2>3. spent.restarts + 1 \in Nat /\ spent.restarts + 1 # 0
    BY <2>1
  <2>4. QED
    BY <2>1, <2>2, <2>3 DEF SpentType
<1>3. sig' \in [APS -> Seq(SigType)] /\ sig'[a] = <<>> /\ \A b \in APS \ {a} :
     sig'[b] = sig[b]
  BY <1>0, <1>1 DEF TypeInv
<1>4. LanType'
  BY <1>0, <1>1 DEF TypeInv, LanType
<1>5. TypeInv'
  BY <1>0, <1>1, <1>2, <1>3, <1>4, SameTables
  DEF TypeInv, driver, DriverType, station, StationType
<1>6. PeerInv'
  <2> SUFFICES ASSUME NEW b \in APS, NEW n \in 1 .. Len(sig'[b]),
                      sig'[b][n].Sig = "FT_REASSOCIATION",
                           sig'[b][n].peer # NoAp
               PROVE  OLDAP_KNOWN /\ sig'[b][n].peer # b
    BY DEF PeerInv
  <2>1. b # a
    BY <1>3
  <2>2. QED
    BY <1>0, <1>3, <2>1 DEF PeerInv
<1>7. CoverInv' /\ HomeInv'
  BY <1>2 DEF CoverInv, HomeInv
<1>8. QED
  BY <1>5, <1>6, <1>7 DEF IInv

\* A daemon starts only after a restart, as they all run at first.
LEMMA StartKeeps ==
  ASSUME IInv, NEW a \in APS, IAPP_Start(a)
  PROVE  IInv'
<1>0. TypeInv /\ PeerInv /\ CoverInv
  BY DEF IInv
<1> PICK t : t = mt_iapp_ft_client_table_init
  OBVIOUS
<1>1. /\ a \notin up /\ up' = up \cup {a} /\ table' = [table EXCEPT ![a] = t]
      /\ UNCHANGED <<sig, udp, tcp, rrb, driver, station, spent>>
  BY DEF IAPP_Start
<1>2. TableInv(t)
  BY InitInv
<1>3. InterfacesIn(table[a], t, IFS \cup {-1})
  BY ConstantFacts DEF InterfacesIn, mt_iapp_ft_client_table_init
<1>4. TypeInv'
  BY <1>0, <1>1, <1>2, <1>3, SetTable
  DEF TypeInv, driver, DriverType, station, StationType, LanType
<1>5. PeerInv'
  BY <1>0, <1>1 DEF PeerInv
<1>6. ~(Room /\ spent.restarts = 0)
  BY <1>0, <1>1 DEF CoverInv
<1>7. CoverInv' /\ HomeInv'
  BY <1>1, <1>6 DEF CoverInv, HomeInv
<1>8. QED
  BY <1>4, <1>5, <1>7 DEF IInv

-----------------------------------------------------------------------------
(* The theorems.                                                           *)

\* The invariant holds when the daemons start,
LEMMA InitKeeps == Init => IInv
<1> SUFFICES ASSUME Init PROVE IInv
  OBVIOUS
<1> USE ConstantFacts
<1>1. TablesInv
  <2> PICK t : t = mt_iapp_ft_client_table_init
    OBVIOUS
  <2>1. TableInv(t) /\ t \in TableType
    BY InitInv DEF TableInv, TableOK
  <2>2. \A i \in Slots : t.ft_sta_info[i].if_idx \in IFS
    BY DEF mt_iapp_ft_client_table_init
  <2>3. table = [a \in APS |-> t]
    BY DEF Init
  <2>4. QED
    BY <2>1, <2>2, <2>3 DEF TablesInv
<1>2. DriverType
  BY DEF Init, DriverType, Aps
<1>3. StationType
  BY DEF Init, StationType, Aps
<1>4. LanType
  BY DEF Init, LanType
<1>5. spent \in SpentType
  BY DEF Init, SpentType
<1>6. sig \in [APS -> Seq(SigType)] /\ \A a \in APS : sig[a] = <<>>
  BY DEF Init
<1>7. TypeInv
  BY <1>1, <1>2, <1>3, <1>4, <1>5, <1>6 DEF Init, TypeInv
<1>8. PeerInv
  BY <1>6 DEF PeerInv
<1>9. \A a \in APS, s \in STAS : assoc[a][s] \notin IFS
  BY DEF Init
<1>10. CoverInv
  BY <1>9 DEF Init, CoverInv, Cover
<1>11. HomeInv
  BY <1>9 DEF HomeInv, Home
<1>12. QED
  BY <1>7, <1>8, <1>10, <1>11 DEF IInv

\* and every step of a driver, a daemon or the network keeps it.
LEMMA StepKeeps == IInv /\ [Next]_vars => IInv'
<1> SUFFICES ASSUME IInv, [Next]_vars PROVE IInv'
  OBVIOUS
<1>1. CASE Environment
  <2>1. ASSUME NEW a \in APS, NEW i \in IFS \cup UNHOOKED, NEW s \in STAS,
               Associate(a, i, s) \/ Reassociate(a, i, s) \/ FtAuth(a, i, s)
        PROVE  IInv'
    BY <2>1, AssociateKeeps, ReassociateKeeps, FtAuthKeeps DEF Interfaces
  <2>2. ASSUME NEW a \in APS, NEW b \in APS, NEW i \in IFS \cup UNHOOKED,
               NEW s \in STAS,
               FtAction(a, s, b, i)
        PROVE  IInv'
    BY <2>2, FtActionKeeps DEF Interfaces
  <2>3. QED
    BY <1>1, <2>1, <2>2, LeaveKeeps, ApInfoKeeps, LoseKeeps DEF Environment
<1>2. ASSUME NEW a \in APS, IAPP_RcvHandlerRawDrv(a) PROVE IInv'
  <2>1. CASE InformationSend(a, "INFO_BROADCAST", "INFO_BROADCAST")
    BY <2>1, InformationSendKeeps
  <2>2. CASE InformationSend(a, "AP_INFO_REQ", "INFO_REQUEST")
    BY <2>2, InformationSendKeeps
  <2>3. QED
    BY <1>2, <2>1, <2>2, UnknownInterfaceKeeps, AssociationKeeps,
       ReassociationKeeps,
       SecurityBlockSendKeeps, SecurityBlockAckKeeps, ActionForwardKeeps,
       InformationResponseKeeps
    DEF IAPP_RcvHandlerRawDrv
<1>3. ASSUME NEW a \in APS, IAPP_RcvHandler(a) PROVE IInv'
  BY <1>2, <1>3, UdpKeeps, TcpKeeps, RrbKeeps DEF IAPP_RcvHandler
<1>4. CASE UNCHANGED vars
  <2>1. TypeInv'
    BY <1>4 DEF IInv, TypeInv, TablesInv, DriverType, StationType, LanType, vars
  <2>2. PeerInv'
    BY <1>4 DEF IInv, PeerInv, vars
  <2>3. CoverInv'
    BY <1>4 DEF IInv, CoverInv, Cover, vars
  <2>4. HomeInv'
    BY <1>4 DEF IInv, HomeInv, Home, Notified, NoneHung, EveryoneTold, vars
  <2>5. QED
    BY <2>1, <2>2, <2>3, <2>4 DEF IInv
<1>5. QED
  BY <1>1, <1>3, <1>4, TerminateKeeps, StartKeeps DEF Next

\* The inductive invariant holds in every reachable state.
THEOREM IappInvariant == Spec => []IInv
BY InitKeeps, StepKeeps, PTL DEF Spec

\* Whatever daemons, drivers, stations and the LAN do, the state keeps the
\* types of the C declarations: every queue holds known signals and commands,
\* no daemon gets its own datagram, a driver does not wait for a key it has,
\* and the size of every client table is the number of entries in use.
THEOREM TypeCorrect == Spec => []TypeOK
<1>1. IInv => TypeOK
  <2> SUFFICES ASSUME TypeInv PROVE TypeOK
    BY DEF IInv
  <2>1. up \subseteq APS
    BY DEF TypeInv
  <2>2. ASSUME NEW a \in APS
        PROVE  /\ table[a].ft_sta_table_size = Cardinality(Used(table[a]))
               /\ \A i \in Slots : /\ table[a].ft_sta_info[i].next \in
                                        Slots \cup {NULL}
                                  /\ table[a].ft_sta_info[i].sta_mac \in
                                       STAS \cup {NoSta}
                                  /\ table[a].ft_sta_info[i].if_idx \in
                                       IFS \cup {-1}
    BY DEF TypeInv, TablesInv, TableInv, TableOK, SizeIsUsed, TableType,
           EntryType, Links
  <2>3. ASSUME NEW a \in APS, NEW n \in DOMAIN sig[a] PROVE
               sig[a][n].Sig \in Sigs
    <3>1. sig[a] \in Seq(SigType)
      BY DEF TypeInv
    <3>2. sig[a][n] \in SigType
      BY <2>3, <3>1
    <3>3. QED
      BY <3>2 DEF SigType
  <2>4. ASSUME NEW a \in APS, NEW n \in DOMAIN tcp[a] PROVE
               tcp[a][n].cmd \in Cmds
    <3>1. tcp[a] \in Seq(FrameType)
      BY DEF TypeInv, LanType
    <3>2. tcp[a][n] \in FrameType
      BY <2>4, <3>1
    <3>3. QED
      BY <3>2 DEF FrameType
  <2>5. \A m \in udp : m.cmd \in Cmds /\ m.to # m.from
    BY DEF TypeInv, LanType, DatagramType
  <2>6. /\ assoc \in [APS -> [STAS -> IFS \cup UNHOOKED \cup {NoAssoc}]]
        /\ \A a \in APS : want[a] \cap pmk[a] = {}
    BY DEF TypeInv, DriverType, Interfaces
  <2>7. QED
    BY <2>1, <2>2, <2>3, <2>4, <2>5, <2>6 DEF TypeOK
<1>2. QED
  BY <1>1, IappInvariant, PTL

\* A table with an entry for every station knows every station of its driver,
\* with the interface it uses, except while the signal of an association
\* waits: no notification, in whatever order it comes, makes the daemon lose
\* sight of a station its driver keeps.
THEOREM TableCovers ==
  ASSUME Room
  PROVE  Spec => []TableCoversDriver
<1>1. IInv => TableCoversDriver
  <2> SUFFICES ASSUME IInv, spent.restarts = 0, NEW a \in up, NEW s \in STAS,
                      assoc[a][s] \in IFS, ~table[a].hung
               PROVE  \/ \E n \in DOMAIN sig[a] : sig[a][n].sta = s
                      \/ mt_iapp_find_ifidx_by_sta_mac(table[a], s) =
                           assoc[a][s]
    BY DEF TableCoversDriver
  <2>1. a \in APS /\ TableInv(table[a]) /\ sig[a] \in Seq(SigType)
    BY DEF IInv, TypeInv, TablesInv
  <2>2. Cover(a, s)
    BY <2>1 DEF IInv, CoverInv
  <2>3. CASE LastFor(sig[a], s, assoc[a][s])
    <3>1. DOMAIN sig[a] = 1 .. Len(sig[a])
      BY <2>1
    <3>2. QED
      BY <2>3, <3>1 DEF LastFor, AssocSig
  <2>4. CASE Has(table[a], s, assoc[a][s])
    BY <2>1, <2>4, FoundWhere
  <2>5. QED
    BY <2>2, <2>3, <2>4 DEF Cover
<1>2. QED
  BY <1>1, IappInvariant, PTL

\* When everything sent has been handled, a station is associated at most
\* where the switches forward its frames, for any number of access points,
\* stations, moves and orders of delivery.
THEOREM HomeAgreed ==
  ASSUME Room
  PROVE  Spec => []OneHome
<1>1. IInv => OneHome
  <2> SUFFICES ASSUME IInv, Quiet, EveryoneTold, spent.restarts = 0,
                      spent.losses = 0,
                      \A b \in APS : ~table[b].hung,
                      NEW a \in APS, NEW s \in STAS, assoc[a][s] \in IFS
               PROVE  l2[s] = a
    BY DEF OneHome
  <2>1. Home(a, s)
    BY DEF IInv, HomeInv, NoneHung
  <2>2. udp = {} /\ sig[a] = <<>> /\ tcp[a] = <<>>
    BY DEF Quiet
  <2>3. ~LastFor(sig[a], s, assoc[a][s]) /\ ~Notified(a, s)
    BY <2>2 DEF LastFor, Notified
  <2>4. QED
    BY <2>1, <2>3 DEF Home
<1>2. QED
  BY <1>1, IappInvariant, PTL
=============================================================================
