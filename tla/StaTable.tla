------------------------------ MODULE StaTable ------------------------------
(***************************************************************************)
(* The station table of the 802.1X daemon (8021xd/src/sta_info.c) and the  *)
(* event loop that drives it (eloop.c): the list and the hash chains of    *)
(* stations, the timeouts that point at stations, and what a reload of the  *)
(* configuration (rtdot1x.c) does to both and to the server sockets.       *)
(*                                                                         *)
(* A station lives in a block of memory; malloc may hand out any free       *)
(* block, the one just freed included.  The list and the chains are         *)
(* sequences of blocks, head first.  A timeout refers to its station by     *)
(* the block, as the pointer user_data does; the tick of the state machine  *)
(* of a station, freed with it, refers to the same block.                  *)
(*                                                                         *)
(* The daemon is single threaded: an action is one callback of eloop_run,   *)
(* except that a signal handler may run in the middle of Ap_get_sta, which  *)
(* is therefore two actions.  Tick is one second of the clock.              *)
(***************************************************************************)
EXTENDS Integers, Sequences, FiniteSets, SequencesExt

CONSTANTS
  STAS,           \* station addresses
  HASH,           \* STA_HASH: the bucket of an address
  BLOCKS,         \* blocks of memory malloc can hand out for a station
  MAX_STA_COUNT,
  BSS,            \* the interfaces ra0, ra1, ... (conf->SsidNum of them)
  FDS,            \* descriptors the process may open for server sockets
  INTERVAL,       \* conf->session_timeout_interval, 0 when not set
  GRANTS,         \* Session-Timeout values of an Accept, NoTimeout for none
  MAX_TIMEOUT,    \* the largest of them
  SIGNALS,        \* when SIGUSR1 and SIGHUP can come: "select", while the
                  \* loop waits, or "any", also in a callback
  ACCEPTS         \* bound of the model: Accepts received

NoTimeout == -1

ASSUME HashAssumption == DOMAIN HASH = STAS /\ "FREE" \notin STAS

ASSUME TableAssumption ==
  /\ MAX_STA_COUNT \in Nat \ {0}
  /\ FDS \in Nat
  /\ IsFiniteSet(BSS)
  /\ ACCEPTS \in Nat
  /\ SIGNALS \in {"select", "any"}

ASSUME TimeoutAssumption ==
  /\ MAX_TIMEOUT \in Nat \ {0}
  /\ INTERVAL \in 0 .. MAX_TIMEOUT
  /\ GRANTS \subseteq {NoTimeout} \cup 0 .. MAX_TIMEOUT

Buckets == {HASH[a] : a \in STAS}

\* The content of a block that is not allocated
FREE == "FREE"

VARIABLES
  mem,        \* mem[b]: the address of the station in block b, or FREE
  sta_list,   \* rtapd->sta_list
  sta_hash,   \* rtapd->sta_hash
  num_sta,    \* rtapd->num_sta
  link,       \* Ap_get_sta between reading sta_list and writing it: the new
              \* station and its next pointer; <<>> outside
  timeout,    \* eloop.timeout, head first
  left,       \* left[b]: what is left of the session of the station in b as
              \* its last Accept granted it, NoTimeout for no limit; observed
  open,       \* server sockets the process holds, each with its reader
  ready,      \* the BSSs whose auth_serv_sock is a socket, not -1
  accepts     \* Accepts received

tableVars == <<mem, sta_list, sta_hash, num_sta>>
sockVars == <<open, ready>>
vars == <<mem, sta_list, sta_hash, num_sta, link, timeout, left, open, ready,
          accepts>>

-----------------------------------------------------------------------------
(* The event loop's timeouts.                                              *)

\* The elements of s at the positions in S, in their order: the k-th of them
\* is at the position up to which S has k positions
Keep(s, S) ==
  [k \in 1 .. Cardinality(S) |->
     s[CHOOSE i \in S : Cardinality({j \in S : j <= i}) = k]]

Timeout == [handler : {"tick", "session"}, sta : BLOCKS, due : 0 .. MAX_TIMEOUT]

\* A plausible slip: the new timeout is put at the head, the list not sorted
Register_Head(ts, h, b, secs) ==
  <<[handler |-> h, sta |-> b, due |-> secs]>> \o ts

\* The list is kept sorted, a newcomer goes behind the timeouts that are not
\* later than it
eloop_register_timeout(ts, h, b, secs) ==
  LET k == Cardinality({i \in DOMAIN ts : ts[i].due <= secs})
  IN  InsertAt(ts, k + 1, [handler |-> h, sta |-> b, due |-> secs])

eloop_cancel_timeout(ts, h, b) ==
  Keep(ts, {i \in DOMAIN ts : ~ (ts[i].handler = h /\ ts[i].sta = b)})

\* eapol_sm_initialize: the first tick of a new state machine
StartTick(ts, b) ==
  eloop_register_timeout(eloop_cancel_timeout(ts, "tick", b), "tick", b, 1)

\* A plausible slip: the timer of an earlier Accept is not cancelled
Session_NoCancel(ts, b, secs) == eloop_register_timeout(ts, "session", b, secs)

Ap_sta_session_timeout(ts, b, secs) ==
  eloop_register_timeout(eloop_cancel_timeout(ts, "session", b),
                         "session", b, secs)

-----------------------------------------------------------------------------
(* The list and the chains.                                                *)

\* Where the walk of its chain finds the station of address a, 0 for nowhere
Lookup(a) == SelectInSeq(sta_hash[HASH[a]], LAMBDA b : mem[b] = a)
Found(a) == Lookup(a) # 0

Init ==
  /\ mem = [b \in BLOCKS |-> FREE]
  /\ sta_list = <<>>
  /\ sta_hash = [h \in Buckets |-> <<>>]
  /\ num_sta = 0
  /\ link = <<>>
  /\ timeout = <<>>
  /\ left = [b \in BLOCKS |-> NoTimeout]
  /\ open = Cardinality(BSS)
  /\ ready = BSS
  /\ accepts = 0

\* A plausible slip: the limit is tested after the station is allocated
Room_Late == num_sta <= MAX_STA_COUNT

Room == num_sta < MAX_STA_COUNT

\* A frame of an unknown station, up to the reading of sta_list.  A known
\* station, a full table and a malloc that fails change nothing.
Ap_get_sta(a) ==
  /\ link = <<>>
  /\ ~ Found(a)
  /\ Room
  /\ \E b \in BLOCKS :
       /\ mem[b] = FREE
       /\ mem' = [mem EXCEPT ![b] = a]
       /\ link' = <<[sta |-> b, next |-> sta_list]>>
  /\ UNCHANGED <<sta_list, sta_hash, num_sta, timeout, left, open, ready,
                 accepts>>

\* The rest of Ap_get_sta: the station is put at the head of the list and of
\* its chain, and its state machine starts
LinkStation ==
  /\ link # <<>>
  /\ LET b == link[1].sta
         h == HASH[mem[b]]
     IN  /\ sta_list' = <<b>> \o link[1].next
         /\ num_sta' = num_sta + 1
         /\ sta_hash' = [sta_hash EXCEPT ![h] = <<b>> \o @]
         /\ timeout' = StartTick(timeout, b)
         /\ left' = [left EXCEPT ![b] = NoTimeout]
  /\ link' = <<>>
  /\ UNCHANGED <<mem, open, ready, accepts>>

\* A plausible slip: the head of the chain is taken for the station
HashDel_Head(chain, a) == IF chain = <<>> THEN chain ELSE Tail(chain)

\* Ap_sta_hash_del removes the first station of the address from its chain
Ap_sta_hash_del(chain, a) ==
  RemoveFirstMatch(chain, LAMBDA b : mem[b] = a)

Ap_sta_list_del(list, b) == RemoveFirst(list, b)

\* A plausible slip: the station goes, its tick stays
FreeTimeouts_Keep(ts, b) == ts

\* The timeouts ieee802_1x_free_station and eapol_sm_free cancel
FreeTimeouts(ts, b) == eloop_cancel_timeout(ts, "tick", b)

\* The station in block b leaves the table and its memory is freed.  The
\* timeout of Ap_handle_session_timer stays.
Ap_free_sta(b) ==
  /\ sta_hash' = [sta_hash EXCEPT ![HASH[mem[b]]] = Ap_sta_hash_del(@, mem[b])]
  /\ sta_list' = Ap_sta_list_del(sta_list, b)
  /\ num_sta' = num_sta - 1
  /\ mem' = [mem EXCEPT ![b] = FREE]
  /\ timeout' = FreeTimeouts(timeout, b)
  /\ left' = [left EXCEPT ![b] = NoTimeout]

\* DOT1X_DISCONNECT_ENTRY: the driver reports that station a is gone
Disconnect(a) ==
  /\ link = <<>>
  /\ Found(a)
  /\ Ap_free_sta(sta_hash[HASH[a]][Lookup(a)])
  /\ UNCHANGED <<link, open, ready, accepts>>

-----------------------------------------------------------------------------
(* Sessions.                                                               *)

\* The session an Accept that grants t seconds is given, the shorter of the
\* server's and the configuration's
SessionOf(t) ==
  CASE t = NoTimeout /\ INTERVAL = 0 -> NoTimeout
    [] t = NoTimeout /\ INTERVAL > 0 -> INTERVAL
    [] t # NoTimeout /\ INTERVAL > 0 -> IF t < INTERVAL THEN t ELSE INTERVAL
    [] OTHER -> t

\* ieee802_1x_receive_auth, Access-Accept without Termination-Action: a
\* session timer is started, or the station is freed when there is no limit
Accept(b, t) ==
  /\ link = <<>>
  /\ b \in Range(sta_list)
  /\ accepts < ACCEPTS
  /\ accepts' = accepts + 1
  /\ IF SessionOf(t) = NoTimeout
     THEN Ap_free_sta(b)
     ELSE /\ timeout' = Ap_sta_session_timeout(timeout, b, SessionOf(t))
          /\ left' = [left EXCEPT ![b] = SessionOf(t)]
          /\ UNCHANGED tableVars
  /\ UNCHANGED <<link, open, ready>>

\* The same with Termination-Action RADIUS-Request: the state machine will
\* reauthenticate the station; a session timer that runs is left running
AcceptReauth(b, t) ==
  /\ link = <<>>
  /\ b \in Range(sta_list)
  /\ t # NoTimeout
  /\ accepts < ACCEPTS
  /\ accepts' = accepts + 1
  /\ left' = [left EXCEPT ![b] = NoTimeout]
  /\ UNCHANGED <<mem, sta_list, sta_hash, num_sta, link, timeout, open, ready>>

-----------------------------------------------------------------------------
(* Timeouts.                                                               *)

\* eapol_port_timers_tick registers itself again
eapol_port_timers_tick(ts, b) == eloop_register_timeout(ts, "tick", b, 1)

Expired == timeout # <<>> /\ timeout[1].due = 0

\* One round of eloop_run runs the head of the list, and no other, when it is
\* due.  Ap_handle_session_timer has the driver deauthenticate the station its
\* block holds; the station stays in the table until the driver's notice.
RunTimeout ==
  /\ link = <<>>
  /\ Expired
  /\ LET t == Head(timeout)
     IN  /\ timeout' = IF t.handler = "tick"
                       THEN eapol_port_timers_tick(Tail(timeout), t.sta)
                       ELSE Tail(timeout)
         /\ left' = IF t.handler = "session"
                    THEN [left EXCEPT ![t.sta] = NoTimeout]
                    ELSE left
  /\ UNCHANGED <<tableVars, link, open, ready, accepts>>

\* The clock
Tick ==
  /\ timeout' = [i \in DOMAIN timeout |->
                   [timeout[i] EXCEPT !.due = IF @ > 0 THEN @ - 1 ELSE 0]]
  /\ left' = [b \in BLOCKS |-> IF left[b] > 0 THEN left[b] - 1 ELSE left[b]]
  /\ UNCHANGED <<tableVars, link, open, ready, accepts>>

-----------------------------------------------------------------------------
(* Reloads.                                                                *)

\* What Apd_free_stas, which frees the stations of the list one by one,
\* leaves of the timeouts
FreeAll(ts) ==
  Keep(ts, {i \in DOMAIN ts :
              ~ (ts[i].handler = "tick" /\ ts[i].sta \in Range(sta_list))})

Apd_free_stas ==
  /\ sta_hash' = [h \in Buckets |->
                    Keep(sta_hash[h], {i \in DOMAIN sta_hash[h] :
                           sta_hash[h][i] \notin Range(sta_list)})]
  /\ sta_list' = <<>>
  /\ num_sta' = num_sta - Len(sta_list)
  /\ mem' = [b \in BLOCKS |-> IF b \in Range(sta_list) THEN FREE ELSE mem[b]]
  /\ timeout' = FreeAll(timeout)
  /\ left' = [b \in BLOCKS |->
                IF b \in Range(sta_list) THEN NoTimeout ELSE left[b]]

\* The sockets are forgotten, neither closed nor taken off the readers, and
\* Radius_client_init opens one for every BSS while the process may
ReopenSockets ==
  \E opened \in SUBSET BSS :
    /\ Cardinality(opened) =
         IF Cardinality(BSS) <= FDS - open THEN Cardinality(BSS) ELSE FDS - open
    /\ ready' = opened
    /\ open' = open + Cardinality(opened)

\* A configuration that cannot be read changes nothing
Handle_reload_config ==
  /\ link = <<>>
  /\ Apd_free_stas
  /\ ReopenSockets
  /\ UNCHANGED <<link, accepts>>

\* The same in the signal handler, wherever the daemon is
Handle_usr1 ==
  /\ SIGNALS = "any" \/ link = <<>>
  /\ Apd_free_stas
  /\ ReopenSockets
  /\ UNCHANGED <<link, accepts>>

-----------------------------------------------------------------------------
Next ==
  \/ \E a \in STAS : Ap_get_sta(a)
  \/ LinkStation
  \/ \E a \in STAS : Disconnect(a)
  \/ \E b \in BLOCKS, t \in GRANTS : Accept(b, t)
  \/ \E b \in BLOCKS, t \in GRANTS : AcceptReauth(b, t)
  \/ RunTimeout
  \/ Tick
  \/ Handle_reload_config
  \/ Handle_usr1

Spec == Init /\ [][Next]_vars

\* A callback that has begun ends, the clock advances, and every round of
\* eloop_run looks at the timeouts before it reads a socket again: callbacks
\* of the readers in between do not keep an expired timeout from running.
Fairness == SF_vars(RunTimeout) /\ WF_vars(LinkStation) /\ WF_vars(Tick)

LiveSpec == Spec /\ Fairness

-----------------------------------------------------------------------------
(* Properties.                                                             *)

TypeOK ==
  /\ mem \in [BLOCKS -> STAS \cup {FREE}]
  /\ sta_list \in Seq(BLOCKS)
  /\ sta_hash \in [Buckets -> Seq(BLOCKS)]
  /\ num_sta \in 0 .. MAX_STA_COUNT
  /\ link \in Seq([sta : BLOCKS, next : Seq(BLOCKS)])
  /\ Len(link) <= 1
  /\ timeout \in Seq(Timeout)
  /\ left \in [BLOCKS -> NoTimeout .. MAX_TIMEOUT]
  /\ open \in Nat
  /\ ready \in SUBSET BSS
  /\ accepts \in 0 .. ACCEPTS

\* The blocks on some chain
Hashed == UNION {Range(sta_hash[h]) : h \in Buckets}

\* Between two callbacks num_sta is the number of entries in sta_list, the
\* list and the hash chains hold the same stations, each once, on the chain of
\* its address, and no block is allocated to a station outside them (sta_info.c
\* keeps the three by hand in Ap_get_sta, Ap_free_sta and Apd_free_stas).
TableConsistent ==
  link = <<>> =>
    /\ num_sta = Len(sta_list)
    /\ IsInjective(sta_list)
    /\ Range(sta_list) = {b \in BLOCKS : mem[b] # FREE}
    /\ Range(sta_list) = Hashed
    /\ \A h \in Buckets : /\ IsInjective(sta_hash[h])
                          /\ \A b \in Range(sta_hash[h]) : HASH[mem[b]] = h
    /\ \A b, c \in Range(sta_list) : mem[b] = mem[c] => b = c

\* Between two callbacks every station has exactly one pending
\* eapol_port_timers_tick and no tick points at a station that is gone: a tick
\* runs on, and writes to, the memory of its state machine (eapol_sm.c:61-77,
\* 600, 643).
OneTickEach ==
  link = <<>> =>
    \A b \in BLOCKS :
      Cardinality({i \in DOMAIN timeout :
                     timeout[i].handler = "tick" /\ timeout[i].sta = b})
        = IF b \in Range(sta_list) THEN 1 ELSE 0

\* The list of timeouts is sorted by expiry, which eloop_run relies on when it
\* looks at the head only, to wait and to run (eloop.c:116-135, 213, 236).
TimeoutsSorted ==
  \A i, j \in DOMAIN timeout : i < j => timeout[i].due <= timeout[j].due

\* A station never has two session timers: a second Accept replaces the first
\* one's (Ap_sta_session_timeout, sta_info.c:232-237), also when the block
\* still carries the timer of a station freed before.
OneSessionTimer ==
  \A i, j \in DOMAIN timeout :
    timeout[i].handler = "session" /\ timeout[j].handler = "session"
      /\ timeout[i].sta = timeout[j].sta => i = j

\* A session that was granted a limit ends: its timer fires, the station
\* leaves, or a later Accept takes the limit back.  Ticks that keep coming
\* back cannot keep the session timer from the head of the list, though
\* eloop_run runs one timeout a round.
SessionEnds ==
  \A b \in BLOCKS : left[b] # NoTimeout ~> left[b] = NoTimeout

\* A session timer deauthenticates the station it was started for when that
\* station's session is over: "will reauthenticate each session every 2
\* minutes" (README:112 of 8021xd).  A pending timer therefore points at a
\* station of the table and is due when its session ends.
TimerMatchesSession ==
  \A i \in DOMAIN timeout :
    timeout[i].handler = "session" =>
      /\ mem[timeout[i].sta] # FREE
      /\ left[timeout[i].sta] = timeout[i].due

\* A reload leaves every BSS with a server socket: "edit the configuraion file
\* and then set its SSID is all to do to change any settings" (README:77 of
\* 8021xd).
SocketAfterReload == ready = BSS

=============================================================================
