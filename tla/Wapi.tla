-------------------------------- MODULE Wapi --------------------------------
(* The key negotiation of wapid (wapi.c) between an access point, the AE, and *)
(* a station, the ASUE, that both run the daemon with a pre-shared key: the   *)
(* unicast handshake, the multicast handshake, the updates of either key, the *)
(* retransmission timers and the removal of the entry of the peer.            *)
(*                                                                            *)
(* A frame carries what its receiver looks at.  A random number is a sequence *)
(* of one number that is used nowhere else, a pairwise key the challenges it  *)
(* was computed from, and PTK_SEED, which is a hash of the key, the key       *)
(* itself.  A message authentication code is the key it was made with.        *)
EXTENDS Naturals, Sequences, FiniteSets, SequencesExt

CONSTANTS
    ASSOCS,     \* how often the station associates
    USKS,       \* how often either driver asks for a new unicast key
    MSKS,       \* how often the driver of the AE makes a new multicast key
    LOSSES,     \* how many frames are lost on the air
    RETRIES,    \* how often a frame is sent again, 3 in the code
    OVERLAP,    \* may the station associate again before both daemons have
                \* read all that is left of the former association
    UPDATERS    \* the ends whose driver asks for a new unicast key

VARIABLES
    ent,        \* the STA_TABLE_ENTRY each end keeps for the other
    timer,      \* how many WaiKeyHSTimerProc timeouts are registered for it
    trigger,    \* is wapi_trigger_timer_handler registered for it
    mskid,      \* MBSS[].MSKID
    inbox,      \* the frames waiting at wlan_sock, of the driver and the peer
    key,        \* the unicast key the driver of each end uses
    msk,        \* the multicast key the driver of each end uses
    link,       \* is the station associated
    spent       \* what has happened of the bounded events

daemon == <<ent, timer, trigger, mskid>>
vars == <<ent, timer, trigger, mskid, inbox, key, msk, link, spent>>

ASSUME BoundsAssumption == {ASSOCS, USKS, MSKS, LOSSES} \subseteq Nat
ASSUME RetriesAssumption == RETRIES \in 1 .. 9
ASSUME OverlapAssumption == OVERLAP \in BOOLEAN
ASSUME UpdatersAssumption == UPDATERS \subseteq {"AE", "ASUE"}

Ends == {"AE", "ASUE"}
Peer(p) == IF p = "AE" THEN "ASUE" ELSE "AE"

UCAST_IDLE_CTR == 0
UCAST_WAIT_RESP_CTR == 10
UCAST_WAIT_CFM_CTR == 20
UCAST_DONE_CTR == 30
MCAST_WAIT_RESP_CTR == 40

NoKey == [id |-> 0, ptk |-> <<>>]

\* A zeroed entry, which is also what StaTableInsertEntry makes of a free slot
\* once Valid is set.
Free == [Valid |-> FALSE, WaiKeyState |-> "UCAST_KEY_IDLE", PortSecured |-> FALSE,
         USKID |-> 0, ANONCE |-> <<>>, SNONCE |-> <<>>, PTK |-> <<>>,
         retry_cnt |-> UCAST_IDLE_CTR]

\* StaTableLookup, or StaTableInsertEntry when the station is not known.
Entry(p) == [ent[p] EXCEPT !.Valid = TRUE]

-----------------------------------------------------------------------------
\* The messages WAIKeyStateMachineInit gives an action in each state; all
\* others are dropped.
WAIKeyStateMachine ==
    [UCAST_KEY_IDLE  |-> {"MLME_REQ", "REQ"},
     WAIT_UCAST_RESP |-> {"MLME_REQ", "RESP"},
     WAIT_UCAST_CFM  |-> {"MLME_RESP", "CFM"},
     UCAST_KEY_DONE  |-> {"RESP", "MLME_NOTIFY", "MLME_REQ", "NOTIFY",
                          "MLME_RESP", "REQ"},
     WAIT_MCAST_RESP |-> {"MLME_NOTIFY", "MCAST_RESP"},
     MCAST_KEY_DONE  |-> {"NOTIFY", "MLME_REQ", "MLME_RESP", "REQ", "RESP",
                          "MLME_NOTIFY"}]

\* The numbers in use anywhere: os_get_random gives none of them.
InUse ==
    LET nonces == UNION {{ent[p].ANONCE, ent[p].SNONCE, ent[p].PTK, key[p].ptk} : p \in Ends}
        sent   == UNION {UNION {{f.an, f.sn, f.mic} : f \in ToSet(inbox[p])} : p \in Ends}
    IN  UNION {ToSet(s) : s \in nonces \cup sent}

os_get_random == <<CHOOSE n \in 1 .. Cardinality(InUse) + 1 :
                        /\ n \notin InUse
                        /\ \A m \in 1 .. n - 1 : m \in InUse>>

CalculatePairWiseKey(an, sn) == an \o sn

\* The other of the two indices a unicast key can have.
Rotated_Next(id) == id + 1
Rotated(id) == 1 - id

\* Of the bounded events, one of kind k more.
Spend(k) == spent' = [spent EXCEPT ![k] = @ + 1]

\* A frame of the driver or of the peer.
Frame == [type |-> "", flag |-> FALSE, uskid |-> 0, mskid |-> 0, msk |-> 0,
          an |-> <<>>, sn |-> <<>>, mic |-> <<>>]

\* wapi_handle_l2_send, after the frames `rest` are left at the socket of p.
wapi_handle_l2_send(p, rest, out) ==
    inbox' = [inbox EXCEPT ![p] = rest,
                           ![Peer(p)] = @ \o IF link THEN out ELSE <<>>]

\* What a handler of p leaves behind: the entry e, t timeouts, and the frames.
Done(p, e, t, rest, out) ==
    /\ ent' = [ent EXCEPT ![p] = e]
    /\ timer' = [timer EXCEPT ![p] = t]
    /\ wapi_handle_l2_send(p, rest, out)

\* A handler that sends nothing and tells the driver nothing, as Drop does.
Return(p, e, t, rest) ==
    /\ Done(p, e, t, rest, <<>>)
    /\ UNCHANGED <<mskid, key, msk>>

wapi_set_ucast_key_proc(p, e) ==
    key' = [key EXCEPT ![p] = [id |-> e.USKID, ptk |-> e.PTK]]

-----------------------------------------------------------------------------
(* The actions of the state machine.  e is the entry as the caller left it,   *)
(* t the timeouts that are registered and rest what is left at the socket.    *)

WaiMlmeUcastKeyReqAction(p, e, t, rest) ==
    LET id == IF e.PortSecured THEN Rotated(e.USKID) ELSE e.USKID
        an == IF e.PortSecured THEN e.PTK ELSE os_get_random
    IN  /\ Done(p,
                [e EXCEPT !.ANONCE = an,
                          !.WaiKeyState = "WAIT_UCAST_RESP",
                          !.retry_cnt = IF @ = UCAST_IDLE_CTR THEN UCAST_WAIT_RESP_CTR ELSE @],
                t + 1, rest,
                <<[Frame EXCEPT !.type = "REQ", !.flag = e.PortSecured,
                                !.uskid = id, !.an = an]>>)
        /\ UNCHANGED <<mskid, key, msk>>

\* The request for an update must rotate the key index and build on the last key.
ValidReq(e, m) == m.flag => m.uskid # e.USKID /\ m.an = e.PTK

\* The authentication code of a frame was made with this key.
Mic_Unchecked(m, ptk) == TRUE
ValidMic(m, ptk) == m.mic = ptk

\* A multicast response answers the last notify.
SameKeys_AnyMsk(p, e, m) == m.uskid = e.USKID
SameKeys(p, e, m) == m.mskid = mskid[p] /\ m.uskid = e.USKID

WaiPeerUcastKeyReqAction(p, e, t, rest, m) ==
    LET sn  == os_get_random
        new == [e EXCEPT !.USKID = IF m.flag THEN m.uskid ELSE @,
                         !.ANONCE = m.an,
                         !.SNONCE = sn,
                         !.PTK = CalculatePairWiseKey(m.an, sn),
                         !.WaiKeyState = "WAIT_UCAST_CFM",
                         !.retry_cnt = UCAST_WAIT_CFM_CTR]
    IN  \/ /\ ValidReq(e, m)
           /\ Done(p, new, 1, rest,
                   <<[Frame EXCEPT !.type = "RESP", !.flag = m.flag, !.uskid = new.USKID,
                                   !.sn = sn, !.an = m.an, !.mic = new.PTK]>>)
           /\ wapi_set_ucast_key_proc(p, new)
           /\ UNCHANGED <<mskid, msk>>
        \/ /\ ~ValidReq(e, m)
           /\ Return(p, e, t, rest)

\* The response is sent again with a new challenge, under the key of the old one.
WaiMlmeUcastKeyRespAction(p, e, t, rest) ==
    LET new == [e EXCEPT !.USKID = IF e.PortSecured THEN Rotated(@) ELSE @,
                         !.ANONCE = IF e.PortSecured THEN e.PTK ELSE @,
                         !.SNONCE = os_get_random,
                         !.WaiKeyState = "WAIT_UCAST_CFM",
                         !.retry_cnt = IF @ = UCAST_IDLE_CTR THEN UCAST_WAIT_CFM_CTR ELSE @]
    IN  /\ Done(p, new, t + 1, rest,
                <<[Frame EXCEPT !.type = "RESP", !.flag = e.PortSecured, !.uskid = new.USKID,
                                !.sn = new.SNONCE, !.an = new.ANONCE, !.mic = e.PTK]>>)
        /\ wapi_set_ucast_key_proc(p, new)
        /\ UNCHANGED <<mskid, msk>>

\* The index, the challenge and the key are stored as the checks go on.
WaiPeerUcastKeyRespAction(p, e, t, rest, m) ==
    LET stale    == m.flag /\ m.uskid = e.USKID
        rotated  == IF m.flag THEN [e EXCEPT !.USKID = m.uskid] ELSE e
        keyed    == [rotated EXCEPT !.SNONCE = m.sn,
                                    !.PTK = CalculatePairWiseKey(e.ANONCE, m.sn)]
        accepted == [keyed EXCEPT !.retry_cnt = UCAST_DONE_CTR,
                                  !.WaiKeyState = "UCAST_KEY_DONE"]
    IN  \/ /\ stale
           /\ Return(p, e, t, rest)
        \/ /\ ~stale /\ m.an # e.ANONCE
           /\ Return(p, rotated, t, rest)
        \/ /\ ~stale /\ m.an = e.ANONCE /\ ~ValidMic(m, keyed.PTK)
           /\ Return(p, keyed, t, rest)
        \/ /\ ~stale /\ m.an = e.ANONCE /\ ValidMic(m, keyed.PTK)
           /\ Done(p, accepted, IF m.flag THEN 0 ELSE 1, rest,
                   <<[Frame EXCEPT !.type = "CFM", !.flag = m.flag, !.uskid = m.uskid,
                                   !.sn = m.sn, !.mic = keyed.PTK]>>)
           /\ wapi_set_ucast_key_proc(p, accepted)
           /\ UNCHANGED <<mskid, msk>>

WaiPeerUcastKeyCfmAction(p, e, t, rest, m) ==
    \/ /\ m.sn = e.SNONCE /\ ValidMic(m, e.PTK)
       /\ Done(p, [e EXCEPT !.WaiKeyState = "UCAST_KEY_DONE"], 0, rest, <<>>)
       /\ UNCHANGED <<mskid, key, msk>>
    \/ /\ m.sn # e.SNONCE \/ ~ValidMic(m, e.PTK)
       /\ Return(p, e, t, rest)

\* The key is the one the driver has at this moment.
WaiMlmeMcastKeyNotifyAction(p, e, t, rest) ==
    /\ mskid' = [mskid EXCEPT ![p] = msk[p] % 2]
    /\ Done(p,
            [e EXCEPT !.retry_cnt = IF e.WaiKeyState # "WAIT_MCAST_RESP"
                                       THEN MCAST_WAIT_RESP_CTR ELSE @,
                      !.WaiKeyState = "WAIT_MCAST_RESP"],
            t + 1, rest,
            <<[Frame EXCEPT !.type = "NOTIFY", !.mskid = msk[p] % 2, !.uskid = e.USKID,
                            !.msk = msk[p], !.mic = e.PTK]>>)
    /\ UNCHANGED <<key, msk>>

WaiPeerMcastKeyRespAction(p, e, t, rest, m) ==
    LET valid == ValidMic(m, e.PTK) /\ SameKeys(p, e, m)
    IN  \/ /\ valid
           /\ Done(p, [e EXCEPT !.WaiKeyState = "MCAST_KEY_DONE", !.PortSecured = TRUE],
                   0, rest, <<>>)
           /\ UNCHANGED <<mskid, key, msk>>
        \/ /\ ~valid
           /\ Return(p, e, t, rest)

\* The retransmission timer of the ASUE is left alone.
WaiPeerMcastKeyNotifyAction(p, e, t, rest, m) ==
    \/ /\ ValidMic(m, e.PTK)
       /\ mskid' = [mskid EXCEPT ![p] = m.mskid]
       /\ msk' = [msk EXCEPT ![p] = m.msk]
       /\ Done(p, [e EXCEPT !.WaiKeyState = "MCAST_KEY_DONE", !.PortSecured = TRUE],
               t, rest,
               <<[Frame EXCEPT !.type = "MCAST_RESP", !.mskid = m.mskid, !.uskid = m.uskid,
                               !.mic = e.PTK]>>)
       /\ UNCHANGED key
    \/ /\ ~ValidMic(m, e.PTK)
       /\ Return(p, e, t, rest)

\* MlmeEnqueue of a message of the daemon itself, with MlmeHandler, which runs at once.
Mlme(p, type, e, t, rest) ==
    IF type \notin WAIKeyStateMachine[e.WaiKeyState] THEN Return(p, e, t, rest)
    ELSE CASE type = "MLME_REQ"    -> WaiMlmeUcastKeyReqAction(p, e, t, rest)
           [] type = "MLME_RESP"   -> WaiMlmeUcastKeyRespAction(p, e, t, rest)
           [] type = "MLME_NOTIFY" -> WaiMlmeMcastKeyNotifyAction(p, e, t, rest)

-----------------------------------------------------------------------------
(* wapi_handle_l2_receive, for the frame m at the head of the socket.         *)

Receive(p, type) ==
    /\ inbox[p] # <<>>
    /\ Head(inbox[p]).type = type
    /\ UNCHANGED <<link, spent>>

PeerTypes == {"REQ", "RESP", "CFM", "NOTIFY", "MCAST_RESP"}

\* MlmeEnqueueForRecv of a frame of the peer, with MlmeHandler: the state
\* machine has an action for it,
Taken(p, type) ==
    /\ Receive(p, type)
    /\ type \in WAIKeyStateMachine[Entry(p).WaiKeyState]
    /\ UNCHANGED trigger

\* or drops it.
Drop(p) ==
    /\ \E type \in PeerTypes : /\ Receive(p, type)
                               /\ type \notin WAIKeyStateMachine[Entry(p).WaiKeyState]
    /\ UNCHANGED trigger
    /\ Return(p, Entry(p), timer[p], Tail(inbox[p]))

PeerUcastKeyReq(p) ==
    /\ Taken(p, "REQ")
    /\ WaiPeerUcastKeyReqAction(p, Entry(p), timer[p], Tail(inbox[p]), Head(inbox[p]))

PeerUcastKeyResp(p) ==
    /\ Taken(p, "RESP")
    /\ WaiPeerUcastKeyRespAction(p, Entry(p), timer[p], Tail(inbox[p]), Head(inbox[p]))

PeerUcastKeyCfm(p) ==
    /\ Taken(p, "CFM")
    /\ WaiPeerUcastKeyCfmAction(p, Entry(p), timer[p], Tail(inbox[p]), Head(inbox[p]))

PeerMcastKeyNotify(p) ==
    /\ Taken(p, "NOTIFY")
    /\ WaiPeerMcastKeyNotifyAction(p, Entry(p), timer[p], Tail(inbox[p]), Head(inbox[p]))

PeerMcastKeyResp(p) ==
    /\ Taken(p, "MCAST_RESP")
    /\ WaiPeerMcastKeyRespAction(p, Entry(p), timer[p], Tail(inbox[p]), Head(inbox[p]))

\* WAI_MLME_KEY_HS_START, with wapi_trigger_sm_timeout.
KeyHsStart(p) ==
    /\ Receive(p, "KEY_HS_START")
    /\ trigger' = [trigger EXCEPT ![p] = TRUE]
    /\ Return(p, [Entry(p) EXCEPT !.retry_cnt = UCAST_IDLE_CTR], timer[p], Tail(inbox[p]))

\* WAI_MLME_UPDATE_USK: the first half of ADDID tells which end this one is.
UpdateUsk(p) ==
    LET e == Entry(p)
        rest == Tail(inbox[p])
    IN  /\ Receive(p, "UPDATE_USK")
        /\ UNCHANGED trigger
        /\ \/ /\ e.PortSecured
              /\ Mlme(p, IF p = "AE" THEN "MLME_REQ" ELSE "MLME_RESP",
                      [e EXCEPT !.retry_cnt = UCAST_IDLE_CTR], timer[p], rest)
           \/ /\ ~e.PortSecured
              /\ Return(p, e, timer[p], rest)

\* WAI_MLME_UPDATE_MSK
UpdateMsk(p) ==
    LET e == Entry(p)
        rest == Tail(inbox[p])
    IN  /\ Receive(p, "UPDATE_MSK")
        /\ UNCHANGED trigger
        /\ \/ /\ e.PortSecured
              /\ Mlme(p, "MLME_NOTIFY", [e EXCEPT !.retry_cnt = UCAST_DONE_CTR], timer[p], rest)
           \/ /\ ~e.PortSecured
              /\ Return(p, e, timer[p], rest)

\* The command 0xff: the entry is zeroed, its timeouts stay registered.
StaTableDeleteEntry(p) ==
    /\ Receive(p, "DELETE")
    /\ UNCHANGED trigger
    /\ Return(p, Free, timer[p], Tail(inbox[p]))

-----------------------------------------------------------------------------
wapi_trigger_timer_handler(p) ==
    /\ trigger[p]
    /\ trigger' = [trigger EXCEPT ![p] = FALSE]
    /\ UNCHANGED <<link, spent>>
    /\ \/ /\ ent[p].Valid
          /\ Mlme(p, "MLME_REQ", [ent[p] EXCEPT !.retry_cnt = UCAST_IDLE_CTR],
                  timer[p], inbox[p])
       \/ /\ ~ent[p].Valid
          /\ Return(p, ent[p], timer[p], inbox[p])

Resend_NoNotify(retry) ==
    CASE retry \in MCAST_WAIT_RESP_CTR + 1 .. MCAST_WAIT_RESP_CTR + RETRIES -> "MLME_NOTIFY"
      [] retry \in UCAST_WAIT_CFM_CTR + 1 .. UCAST_WAIT_CFM_CTR + RETRIES   -> "MLME_RESP"
      [] retry \in UCAST_WAIT_RESP_CTR + 1 .. UCAST_WAIT_RESP_CTR + RETRIES -> "MLME_REQ"
      [] OTHER                                                              -> "NOTHING"

\* The retry count tells which handshake is under way; its message is sent
\* again up to RETRIES times.
Resend(retry) ==
    CASE retry \in MCAST_WAIT_RESP_CTR + 1 .. MCAST_WAIT_RESP_CTR + RETRIES -> "MLME_NOTIFY"
      [] retry \in UCAST_DONE_CTR + 1 .. MCAST_WAIT_RESP_CTR                -> "MLME_NOTIFY"
      [] retry \in UCAST_WAIT_CFM_CTR + 1 .. UCAST_WAIT_CFM_CTR + RETRIES   -> "MLME_RESP"
      [] retry \in UCAST_WAIT_RESP_CTR + 1 .. UCAST_WAIT_RESP_CTR + RETRIES -> "MLME_REQ"
      [] retry \in UCAST_IDLE_CTR + 1 .. UCAST_WAIT_RESP_CTR                -> "NOTHING"
      [] OTHER                                                              -> "DISCONNECT"

\* DisconnectStaLink has the driver end the association; both drivers forget
\* their keys and tell their daemon to delete the entry.
DisconnectStaLink(p) ==
    LET delete == IF link THEN <<[Frame EXCEPT !.type = "DELETE"]>> ELSE <<>>
    IN  /\ link' = FALSE
        /\ inbox' = [q \in Ends |-> inbox[q] \o delete]
        /\ key' = [q \in Ends |-> NoKey]

WaiKeyHSTimerProc(p) ==
    LET e    == [ent[p] EXCEPT !.retry_cnt = (@ + 1) % 256]
        left == timer[p] - 1
        todo == Resend(e.retry_cnt)
    IN  /\ timer[p] > 0
        /\ UNCHANGED <<trigger, spent>>
        /\ \/ /\ ~ent[p].Valid
              /\ Return(p, ent[p], left, inbox[p])
              /\ UNCHANGED link
           \/ /\ ent[p].Valid
              /\ todo = "NOTHING"
              /\ Return(p, e, left, inbox[p])
              /\ UNCHANGED link
           \/ /\ ent[p].Valid
              /\ todo = "DISCONNECT"
              /\ ent' = [ent EXCEPT ![p] = e]
              /\ timer' = [timer EXCEPT ![p] = left]
              /\ DisconnectStaLink(p)
              /\ UNCHANGED <<mskid, msk>>
           \/ /\ ent[p].Valid
              /\ todo \notin {"NOTHING", "DISCONNECT"}
              /\ Mlme(p, todo, e, left, inbox[p])
              /\ UNCHANGED link

-----------------------------------------------------------------------------
(* The drivers and the air.                                                   *)

\* The station associates, and the driver of the AE asks for the handshake.
Associate ==
    /\ ~link /\ spent.assocs < ASSOCS
    /\ OVERLAP \/ \A p \in Ends : inbox[p] = <<>>
    /\ link' = TRUE
    /\ inbox' = [inbox EXCEPT !["AE"] = Append(@, [Frame EXCEPT !.type = "KEY_HS_START"])]
    /\ Spend("assocs")
    /\ UNCHANGED <<daemon, key, msk>>

\* The driver of p finds that its unicast key is due.
RenewUsk(p) ==
    /\ link /\ key[p] # NoKey /\ spent.usks < USKS
    /\ inbox' = [inbox EXCEPT ![p] = Append(@, [Frame EXCEPT !.type = "UPDATE_USK"])]
    /\ Spend("usks")
    /\ UNCHANGED <<daemon, key, msk, link>>

\* The driver of the AE makes a new multicast key.
RenewMsk ==
    /\ link /\ spent.msks < MSKS
    /\ msk' = [msk EXCEPT !["AE"] = @ + 1]
    /\ inbox' = [inbox EXCEPT !["AE"] = Append(@, [Frame EXCEPT !.type = "UPDATE_MSK"])]
    /\ Spend("msks")
    /\ UNCHANGED <<daemon, key, link>>

\* A frame between the daemons is lost.
Lose(p) ==
    /\ spent.losses < LOSSES
    /\ \E i \in 1 .. Len(inbox[p]) :
           /\ inbox[p][i].type \in PeerTypes
           /\ inbox' = [inbox EXCEPT ![p] = RemoveAt(@, i)]
    /\ Spend("losses")
    /\ UNCHANGED <<daemon, key, msk, link>>

Init ==
    /\ ent = [p \in Ends |-> Free]
    /\ timer = [p \in Ends |-> 0]
    /\ trigger = [p \in Ends |-> FALSE]
    /\ mskid = [p \in Ends |-> 0]
    /\ inbox = [p \in Ends |-> <<>>]
    /\ key = [p \in Ends |-> NoKey]
    /\ msk = [p \in Ends |-> 0]
    /\ link = FALSE
    /\ spent = [assocs |-> 0, usks |-> 0, msks |-> 0, losses |-> 0]

Socket(p) ==
    \/ PeerUcastKeyReq(p)
    \/ PeerUcastKeyResp(p)
    \/ PeerUcastKeyCfm(p)
    \/ PeerMcastKeyNotify(p)
    \/ PeerMcastKeyResp(p)
    \/ Drop(p)
    \/ KeyHsStart(p)
    \/ UpdateUsk(p)
    \/ UpdateMsk(p)
    \/ StaTableDeleteEntry(p)

\* One callback of eloop_run at end p.
Callback(p) == Socket(p) \/ WaiKeyHSTimerProc(p) \/ wapi_trigger_timer_handler(p)

Next ==
    \/ \E p \in Ends : Callback(p)
    \/ Associate
    \/ \E p \in UPDATERS : RenewUsk(p)
    \/ RenewMsk
    \/ \E p \in Ends : Lose(p)

\* eloop_run goes on while a socket is readable or a timeout is registered.
Fairness == \A p \in Ends : WF_vars(Callback(p))

Spec == Init /\ [][Next]_vars /\ Fairness

-----------------------------------------------------------------------------
\* States, key indices and counters stay in their ranges, whatever frames carry
\* the index and however often it is rotated.
TypeOK ==
    /\ \A p \in Ends :
          /\ ent[p].WaiKeyState \in DOMAIN WAIKeyStateMachine
          /\ ent[p].USKID \in 0 .. 1
          /\ ent[p].retry_cnt \in 0 .. 255
          /\ timer[p] \in Nat
    /\ link \in BOOLEAN

\* p is in the middle of a handshake.
Waiting(p) ==
    \/ ent[p].WaiKeyState \in {"WAIT_UCAST_RESP", "WAIT_UCAST_CFM", "WAIT_MCAST_RESP"}
    \/ p = "AE" /\ ent[p].WaiKeyState = "UCAST_KEY_DONE" /\ ~ent[p].PortSecured

\* Both ends hold the port secured and nothing is under way.
Negotiated ==
    link /\ \A p \in Ends : ent[p].PortSecured /\ ~Waiting(p) /\ inbox[p] = <<>>

\* Once both daemons are done, their drivers use the same unicast key under the
\* same index, although the entry's key, index and challenges are overwritten
\* before the authentication code is checked (WaiPeerUcastKeyRespAction) and a
\* retransmission carries a challenge its key does not belong to.
KeysAgree == Negotiated => key["AE"] = key["ASUE"]

\* Once both daemons are done, the station has the multicast key the AE last
\* sent: no late response to an earlier notify ends the handshake
\* (WaiPeerMcastKeyRespAction), unless two updates and a loss meet.
GroupIdsAgree ==
    spent.msks <= 1 \/ spent.losses = 0
        => (Negotiated => mskid["AE"] = mskid["ASUE"])

\* The same for every update.  The code does not keep it: an index has one bit,
\* and a late response to the last notify but one ends the handshake of the last
\* (WaiPeerMcastKeyRespAction).
LastNotifyAnswered == Negotiated => mskid["AE"] = mskid["ASUE"]

\* Whoever waits in a handshake goes on or loses the link: the one timeout that
\* every handler leaves behind is registered again until the retries are used
\* up (WaiKeyHSTimerProc), as long as the driver does not ask for both updates.
LoneHandshakeEnds ==
    \A p \in Ends :
        link /\ Waiting(p) ~> ~link \/ ~Waiting(p) \/ (spent.usks > 0 /\ spent.msks > 0)

\* The same for every request of the driver.  The code does not keep it: a
\* request it drops has already reset retry_cnt (wapi_handle_l2_receive).
HandshakeEnds == \A p \in Ends : link /\ Waiting(p) ~> ~link \/ ~Waiting(p)

\* Once both daemons are done, the station has the multicast key of the AE's
\* driver.  The code does not keep it: a request of the driver that comes
\* before the port is secured is ignored (wapi_handle_l2_receive).
GroupKeysAgree == Negotiated => msk["AE"] = msk["ASUE"]

\* The driver is given a new key under a new index.  The code does not keep it:
\* the ASUE's own update hands over the old one (WaiMlmeUcastKeyRespAction).
NewIndexNewKey ==
    [][\A p \in Ends : key[p] # NoKey /\ key'[p].id # key[p].id
                           => key'[p].ptk # key[p].ptk]_vars
=============================================================================
