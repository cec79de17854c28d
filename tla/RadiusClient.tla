---------------------------- MODULE RadiusClient ----------------------------
(***************************************************************************)
(* The RADIUS client of the 802.1X daemon (8021xd/src/radius_client.c):    *)
(* the retransmission list, its timer, the identifier counter, and the     *)
(* failover between the servers of a BSS; with the part of the station     *)
(* table (sta_info.c) that a reply is routed through.                      *)
(*                                                                         *)
(* The list is a function from request numbers to entries.  Requests are   *)
(* numbered in the order they are sent, and a new entry is always put at   *)
(* the head, so the list order is the descending order of the numbers.     *)
(* Packet contents are abstracted to the identifier, the secret that signs *)
(* them and the station they are about.                                    *)
(*                                                                         *)
(* The daemon is single threaded: every action is one callback of eloop_run *)
(* (or the part of one that touches this state), and Tick is the passing   *)
(* of one second of the clock.                                             *)
(***************************************************************************)
EXTENDS Integers, Sequences, FiniteSets, Functions

CONSTANTS
  BSS,          \* the interfaces ra0, ra1, ... (conf->SsidNum of them)
  Stas,         \* station addresses
  ApIdx,        \* ApIdx[s]: the BSS station s is associated to
  Secrets,      \* shared secrets
  Configs,      \* configurations the driver may hand out: for every BSS the
                \* shared secrets of its servers, the primary first
  IdSpace,      \* identifiers of a packet; 256, next_radius_identifier is a u8
  MaxEntries,   \* RADIUS_CLIENT_MAX_ENTRIES
  MaxRetries,   \* RADIUS_CLIENT_MAX_RETRIES
  NumFailover,  \* RADIUS_CLIENT_NUM_FAILOVER
  FirstWait,    \* RADIUS_CLIENT_FIRST_WAIT
  MaxWait,      \* RADIUS_CLIENT_MAX_WAIT
  RetryPrimary, \* conf->radius_retry_primary_interval is not 0
  MaxSends      \* bound of the model: number of requests built

Ids == 0 .. IdSpace - 1

NoId == -1

ASSUME StationAssumption == ApIdx \in [Stas -> BSS]

ASSUME ConfigAssumption ==
  /\ Configs # {}
  /\ Configs \subseteq [BSS -> Seq(Secrets)]
  /\ \A c \in Configs : \A b \in BSS : Len(c[b]) > 0

ASSUME BoundAssumption ==
  /\ MaxEntries \in Nat \ {0}
  /\ IdSpace \in Nat \ {0}
  /\ MaxRetries \in Nat
  /\ NumFailover \in Nat
  /\ FirstWait \in Nat \ {0}
  /\ MaxWait \in Nat
  /\ 2 * FirstWait <= MaxWait
  /\ RetryPrimary \in BOOLEAN
  /\ MaxSends \in Nat

VARIABLES
  msgs,       \* rtapd->radius->msgs
  num_msgs,   \* rtapd->radius->num_msgs
  nextId,     \* rtapd->radius->next_radius_identifier
  timers,     \* timers[d]: Radius_client_timer timeouts that expire in d s
  conf,       \* rtapd->conf->mbss_auth_servers (their secrets)
  server,     \* rtapd->conf->mbss_auth_server, as an index
  sends,      \* requests built so far; numbers the entries
  sta_list,   \* rtapd->sta_list, head first
  radius_identifier  \* sta->radius_identifier

clientVars == <<msgs, num_msgs, timers>>
serverVars == <<conf, server>>
staVars == <<sta_list, radius_identifier>>
vars == <<msgs, num_msgs, nextId, timers, conf, server, sends, sta_list,
          radius_identifier>>

-----------------------------------------------------------------------------
(* Entries of the retransmission list.                                     *)

\* struct radius_msg_list.  due is next_try - now (0 once it has passed), age
\* is now - first_try up to FirstWait, all that Radius_change_server can tell
\* apart.  sta (whom the packet is about) and tx (how many datagrams left the
\* host for it) are only observed.
Entry == [id : Ids, bss : BSS, secret : Secrets, sta : Stas, attempts : Nat,
          due : 0 .. MaxWait, wait : 0 .. MaxWait, age : 0 .. FirstWait,
          tx : Nat]

\* The secret of the server in use for BSS b
CurrentSecret(b) == conf[b][server[b]]

\* The entry Radius_client_list_add fills in
NewEntry(s) ==
  [id |-> nextId, bss |-> ApIdx[s], secret |-> CurrentSecret(ApIdx[s]),
   sta |-> s, attempts |-> 1, due |-> FirstWait, wait |-> 2 * FirstWait,
   age |-> 0, tx |-> 1]

Backoff_Uncapped(w) == 2 * w

\* The next wait after a wait of w
Backoff(w) == IF 2 * w > MaxWait THEN MaxWait ELSE 2 * w

\* The sockets are never connected (the connect() of Radius_change_server is
\* compiled out), so a send() without an address is refused by the kernel.
SocketConnected == FALSE

Retransmit_Uncounted(e) ==
  [e EXCEPT !.due = e.wait, !.wait = Backoff(e.wait)]

\* Radius_client_retransmit on an entry that is not given up
Radius_client_retransmit(e) ==
  [e EXCEPT !.attempts = @ + 1,
            !.due = e.wait,
            !.wait = Backoff(e.wait),
            !.tx = IF SocketConnected THEN @ + 1 ELSE @]

\* Radius_change_server, servers with the same secret: one entry
ResetEntry(e) ==
  [e EXCEPT !.attempts = 0, !.due = FirstWait - e.age, !.wait = 2 * FirstWait]

\* Radius_client_timer gives an entry up when its retransmission is the last
GiveUp(e) == e.due = 0 /\ e.attempts + 1 >= MaxRetries

-----------------------------------------------------------------------------
(* eloop timeouts of Radius_client_timer.                                  *)

NoTimers == [d \in 0 .. MaxWait |-> 0]

eloop_register_timeout(t, d) == [t EXCEPT ![d] = @ + 1]

-----------------------------------------------------------------------------
Init ==
  /\ msgs = [n \in {} |-> n]
  /\ num_msgs = 0
  /\ nextId = 0
  /\ timers = NoTimers
  /\ conf \in Configs
  /\ server = [b \in BSS |-> 1]
  /\ sends = 0
  /\ sta_list = <<>>
  /\ radius_identifier = [s \in Stas |-> NoId]

-----------------------------------------------------------------------------
(* The station table, as far as replies are routed through it.             *)

Known(s) == \E i \in DOMAIN sta_list : sta_list[i] = s

\* Ap_get_sta, a first frame of s: a new station at the head of the list
Join(s) ==
  /\ ~Known(s)
  /\ sta_list' = <<s>> \o sta_list
  /\ radius_identifier' = [radius_identifier EXCEPT ![s] = NoId]
  /\ UNCHANGED <<clientVars, serverVars, nextId, sends>>

\* Ap_free_sta of the i-th station; its requests stay in the list
Ap_free_sta(i) ==
  /\ sta_list' = SubSeq(sta_list, 1, i - 1)
                   \o SubSeq(sta_list, i + 1, Len(sta_list))
  /\ radius_identifier' = [radius_identifier EXCEPT ![sta_list[i]] = NoId]
  /\ UNCHANGED <<clientVars, serverVars, nextId, sends>>

\* Ap_get_sta_radius_identifier: s is the first station that waits for id
FirstWaiting(s, id) ==
  \E i \in DOMAIN sta_list :
    /\ sta_list[i] = s
    /\ radius_identifier[s] = id
    /\ \A j \in 1 .. i - 1 : radius_identifier[sta_list[j]] # id

-----------------------------------------------------------------------------
(* Sending: ieee802_1x_encapsulate_radius, Radius_client_get_id,           *)
(* Radius_client_send and Radius_client_list_add.                          *)

GetId_KeepOld == DOMAIN msgs

\* Radius_client_get_id: the entries that survive the new identifier
\* (num_msgs is left alone)
Radius_client_get_id == {n \in DOMAIN msgs : msgs[n].id # nextId}

\* The list with the entries of D and e, numbered sends + 1, at its head
Prepend(D, e) ==
  [n \in D \cup {sends + 1} |-> IF n = sends + 1 THEN e ELSE msgs[n]]

ListAdd_LateLimit(D, e) ==
  /\ timers' = IF D = {} THEN eloop_register_timeout(timers, FirstWait)
               ELSE timers
  /\ \/ /\ num_msgs <= MaxEntries
        /\ msgs' = Prepend(D, e)
        /\ num_msgs' = num_msgs + 1
     \/ /\ num_msgs > MaxEntries
        /\ UNCHANGED <<msgs, num_msgs>>

\* Radius_client_list_add: e joins the entries of D.  At the limit the oldest
\* of D goes, if there is one.
Radius_client_list_add(D, e) ==
  /\ timers' = IF D = {} THEN eloop_register_timeout(timers, FirstWait)
               ELSE timers
  /\ \/ /\ num_msgs < MaxEntries
        /\ msgs' = Prepend(D, e)
        /\ num_msgs' = num_msgs + 1
     \/ /\ num_msgs >= MaxEntries
        /\ D = {}
        /\ msgs' = Prepend(D, e)
        /\ num_msgs' = num_msgs
     \/ /\ num_msgs >= MaxEntries
        /\ \E oldest \in D :
             /\ \A n \in D : oldest <= n
             /\ msgs' = Prepend(D \ {oldest}, e)
        /\ num_msgs' = num_msgs

\* What every way through ieee802_1x_encapsulate_radius does first
TakeId(s) ==
  /\ Known(s)
  /\ sends < MaxSends
  /\ sends' = sends + 1
  /\ nextId' = (nextId + 1) % IdSpace
  /\ radius_identifier' = [radius_identifier EXCEPT ![s] = nextId]
  /\ UNCHANGED <<serverVars, sta_list>>

\* A request of station s is built, sent and listed
Send(s) ==
  /\ TakeId(s)
  /\ Radius_client_list_add(Radius_client_get_id, NewEntry(s))

\* The packet cannot be built (the fail label), or is sent and then cannot be
\* listed for want of memory: only the identifier has been taken
SendFail(s) ==
  /\ TakeId(s)
  /\ msgs' = Restrict(msgs, Radius_client_get_id)
  /\ UNCHANGED <<num_msgs, timers>>

-----------------------------------------------------------------------------
(* Radius_client_receive and the head of ieee802_1x_receive_auth.          *)

\* The answered request leaves the list
RemoveAcked(n) ==
  /\ msgs' = Restrict(msgs, DOMAIN msgs \ {n})
  /\ num_msgs' = num_msgs - 1

\* ieee802_1x_receive_auth: a reply that passes the checks (a valid
\* authenticator for the listed request, or a Reject without EAP message and
\* authenticator) ends the waiting of the station it is for, if there is one
ieee802_1x_receive_auth(id, valid) ==
  \/ /\ valid
     /\ \E s \in Stas :
          /\ FirstWaiting(s, id)
          /\ radius_identifier' = [radius_identifier EXCEPT ![s] = NoId]
  \/ /\ ~valid \/ \A s \in Stas : ~FirstWaiting(s, id)
     /\ UNCHANGED radius_identifier

\* A datagram with identifier id arrives.  The newest entry with that
\* identifier leaves the list, whatever the datagram turns out to be.  What the
\* port of the station does about the reply (module EapolSm), in the same
\* callback and after all of this, is a Send or an Ap_free_sta that follows.
Radius_client_receive(id, valid) ==
  /\ \E n \in DOMAIN msgs :
       /\ msgs[n].id = id
       /\ \A m \in DOMAIN msgs : msgs[m].id = id => m <= n
       /\ RemoveAcked(n)
  /\ ieee802_1x_receive_auth(id, valid)
  /\ UNCHANGED <<timers, serverVars, nextId, sends, sta_list>>

-----------------------------------------------------------------------------
(* Flushing, and the change of servers.                                    *)

Radius_client_flush ==
  /\ msgs' = [n \in {} |-> n]
  /\ num_msgs' = 0
  /\ timers' = NoTimers

ChangeServer_KeepList(new, list, num, t) ==
  /\ server' = new
  /\ msgs' = list
  /\ num_msgs' = num
  /\ timers' = t

ChangeServer_LoseTimer(new, list, num, t) ==
  /\ server' = new
  /\ \/ /\ \E b \in BSS : conf[b][new[b]] # CurrentSecret(b)
        /\ Radius_client_flush
     \/ /\ \A b \in BSS : conf[b][new[b]] = CurrentSecret(b)
        /\ msgs' = list
        /\ num_msgs' = num
        /\ timers' = IF server = new THEN t ELSE NoTimers

\* Radius_change_server for every BSS whose entry of new differs from the
\* server in use, the list being list and the timeouts t when it begins.  One
\* change to another secret drops the whole list, whatever the other changes
\* do before or after it; otherwise one change restarts every entry.
Radius_change_server(new, list, num, t) ==
  /\ server' = new
  /\ \/ /\ \E b \in BSS : conf[b][new[b]] # CurrentSecret(b)
        /\ Radius_client_flush
     \/ /\ \A b \in BSS : conf[b][new[b]] = CurrentSecret(b)
        /\ new # server
        /\ DOMAIN list # {}
        /\ msgs' = [n \in DOMAIN list |-> ResetEntry(list[n])]
        /\ num_msgs' = num
        /\ timers' = eloop_register_timeout(NoTimers, FirstWait)
     \/ /\ new = server \/ DOMAIN list = {}
        /\ \A b \in BSS : conf[b][new[b]] = CurrentSecret(b)
        /\ msgs' = list
        /\ num_msgs' = num
        /\ timers' = t

\* Radius_retry_primary_timer; its period is left open
Radius_retry_primary_timer ==
  /\ RetryPrimary
  /\ \E b \in BSS : server[b] # 1
  /\ Radius_change_server([b \in BSS |-> 1], msgs, num_msgs, timers)
  /\ UNCHANGED <<conf, nextId, sends, staVars>>

\* Handle_reload_config with a configuration that was read; all stations go
Handle_reload_config(c) ==
  /\ Radius_client_flush
  /\ conf' = c
  /\ server' = [b \in BSS |-> 1]
  /\ sta_list' = <<>>
  /\ radius_identifier' = [s \in Stas |-> NoId]
  /\ UNCHANGED <<nextId, sends>>

-----------------------------------------------------------------------------
(* Radius_client_timer.                                                    *)

\* The timeout eloop_run has taken off its list
Fired == [timers EXCEPT ![0] = @ - 1]

\* The list after one pass: due entries retransmitted, or gone
AfterPass ==
  [n \in {m \in DOMAIN msgs : ~GiveUp(msgs[m])} |->
     IF msgs[n].due = 0 THEN Radius_client_retransmit(msgs[n]) ELSE msgs[n]]

\* The BSSs that move on to another server, their list being list
FailingOver(list) ==
  {b \in BSS : /\ Len(conf[b]) > 1
               /\ \E n \in DOMAIN list :
                    list[n].bss = b /\ list[n].attempts > NumFailover}

NextServer(list) ==
  [b \in BSS |-> IF b \in FailingOver(list)
                 THEN (server[b] % Len(conf[b])) + 1
                 ELSE server[b]]

\* The list is empty when the timeout expires: nothing, and no new timeout
TimerNoList ==
  /\ timers[0] > 0
  /\ DOMAIN msgs = {}
  /\ timers' = Fired
  /\ UNCHANGED <<msgs, num_msgs, serverVars, nextId, sends, staVars>>

\* After the pass: the BSSs that fail over, the timeouts being t
FinishPass(t) ==
  Radius_change_server(NextServer(AfterPass), AfterPass,
    num_msgs - Cardinality(DOMAIN msgs \ DOMAIN AfterPass), t)

\* A new timeout for the first next_try, if anything is left
TimerPass ==
  /\ timers[0] > 0
  /\ DOMAIN msgs # {}
  /\ \/ DOMAIN AfterPass = {} /\ FinishPass(Fired)
     \/ \E first \in DOMAIN AfterPass :
          /\ \A n \in DOMAIN AfterPass :
               AfterPass[first].due <= AfterPass[n].due
          /\ FinishPass(eloop_register_timeout(Fired, AfterPass[first].due))
  /\ UNCHANGED <<conf, nextId, sends, staVars>>

Radius_client_timer == TimerNoList \/ TimerPass

-----------------------------------------------------------------------------
\* One second passes.  A timeout that has expired stays expired: callbacks
\* may be late.
Tick ==
  /\ timers' = [d \in 0 .. MaxWait |->
                  IF d = 0 THEN timers[0] + timers[1]
                  ELSE IF d = MaxWait THEN 0 ELSE timers[d + 1]]
  /\ msgs' = [n \in DOMAIN msgs |->
                [msgs[n] EXCEPT !.due = IF @ = 0 THEN 0 ELSE @ - 1,
                                !.age = IF @ = FirstWait THEN @ ELSE @ + 1]]
  /\ UNCHANGED <<num_msgs, serverVars, nextId, sends, staVars>>

Next ==
  \/ \E s \in Stas : Join(s) \/ Send(s) \/ SendFail(s)
  \/ \E i \in DOMAIN sta_list : Ap_free_sta(i)
  \/ \E id \in Ids, valid \in BOOLEAN : Radius_client_receive(id, valid)
  \/ Radius_client_timer
  \/ Radius_retry_primary_timer
  \/ \E c \in Configs : Handle_reload_config(c)
  \/ Tick

Spec == Init /\ [][Next]_vars

\* The clock runs, and eloop_run calls an expired timeout before it waits again
Fairness == WF_vars(Tick) /\ WF_vars(Radius_client_timer)

FairSpec == Spec /\ Fairness

-----------------------------------------------------------------------------
(* Properties.                                                             *)

\* Every variable has its type; in particular no entry's wait ever exceeds
\* RADIUS_CLIENT_MAX_WAIT, and num_msgs, a size_t, never goes below zero.
TypeOK ==
  /\ msgs \in [DOMAIN msgs -> Entry]
  /\ DOMAIN msgs \subseteq 1 .. sends
  /\ num_msgs \in 0 .. MaxEntries
  /\ nextId \in Ids
  /\ timers \in [0 .. MaxWait -> Nat]
  /\ conf \in Configs
  /\ server \in [BSS -> Nat \ {0}]
  /\ \A b \in BSS : server[b] <= Len(conf[b])
  /\ sends \in 0 .. MaxSends
  /\ sta_list \in Seq(Stas)
  /\ radius_identifier \in [Stas -> Ids \cup {NoId}]

\* The list never holds more than num_msgs entries, although
\* Radius_client_get_id removes entries without counting: so the list keeps to
\* RADIUS_CLIENT_MAX_ENTRIES and no decrement of num_msgs wraps around.
CountCoversList ==
  /\ Cardinality(DOMAIN msgs) <= num_msgs
  /\ num_msgs <= MaxEntries

\* No two entries of the list carry the same identifier.  The scan of
\* Radius_client_get_id relies on it (after it has freed one match it still
\* holds a pointer to it), and so does the matching of a reply.
UniqueIds ==
  \A m, n \in DOMAIN msgs : msgs[m].id = msgs[n].id => m = n

\* While a request is listed a timeout of Radius_client_timer is pending,
\* through flushes, failovers and timeouts left over from an earlier list:
\* nothing else would ever retransmit or give up the request.
TimerPending ==
  DOMAIN msgs # {} => \E d \in 0 .. MaxWait : timers[d] > 0

\* A listed request is signed with the secret of the server now in use for its
\* BSS: a failover, the return to the primary and a reload either keep the
\* secret or drop the request.
SecretCurrent ==
  \A n \in DOMAIN msgs : msgs[n].secret = CurrentSecret(msgs[n].bss)

\* Every listed request leaves the list in the end: answered, given up after
\* MaxRetries attempts or dropped.
RequestLeaves ==
  \A n \in 1 .. MaxSends : n \in DOMAIN msgs ~> n \notin DOMAIN msgs

\* Unless the servers change again and again, since a failover gives every entry
\* its attempts back, RequestLeaves holds: timeouts, back-off and MaxRetries
\* together end every request, whatever is sent, lost or reloaded meanwhile.
LeavesWhenSettled == <>[][UNCHANGED server]_vars => RequestLeaves

\* "oldest will be removed, if this limit is exceeded": sending drops a request
\* with another identifier only when the list holds MaxEntries requests.
EvictOnlyWhenFull ==
  [][\A n \in DOMAIN msgs \ DOMAIN msgs' :
       sends' # sends /\ msgs[n].id # nextId
         => Cardinality(DOMAIN msgs) >= MaxEntries]_vars

\* "to avoid using new reply from the RADIUS server with an old request": the
\* reply to a listed request can only reach the station the request is about.
ReplyToOwner ==
  \A n \in DOMAIN msgs : \A s \in Stas :
    FirstWaiting(s, msgs[n].id) => s = msgs[n].sta

\* "Remove ACKed RADIUS packet from retransmit list": a request that a datagram
\* takes off the list has been acknowledged, its station waits for it no longer.
RemovedWhenAcked ==
  [][\A n \in DOMAIN msgs \ DOMAIN msgs' :
       sends' = sends /\ timers' = timers
         => radius_identifier'[msgs[n].sta] # msgs[n].id]_vars

\* "retransmit": an entry with k >= 2 attempts has left the host k times.
RetransmitReachesWire ==
  \A n \in DOMAIN msgs : msgs[n].tx >= msgs[n].attempts

=============================================================================
