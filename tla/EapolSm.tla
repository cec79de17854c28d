------------------------------ MODULE EapolSm -------------------------------
(***************************************************************************)
(* The port of one station in the 802.1X daemon: the four state machines of *)
(* eapol_sm.c, stepped together by eapol_sm_step, with the handlers of     *)
(* ieee802_1x.c that feed them.                                            *)
(*                                                                         *)
(* The variables are the structs of eapol_sm.h and keep their field names. *)
(* A handler sets its flags and starts eapol_sm_step; from there pc walks   *)
(* through the four machines, pass after pass, until a pass changes no     *)
(* state, and only then can another event be handled: the daemon has one    *)
(* thread.                                                                 *)
(*                                                                         *)
(* EAP and RADIUS contents are left out.  EAP identifiers are abstracted to *)
(* whether a response carries the expected one.  portControl is Auto for    *)
(* the life of a port and portEnabled and portValid are TRUE once it is     *)
(* set up, so the FORCE_ states have no transition into them.              *)
(***************************************************************************)
EXTENDS Integers

CONSTANTS
  QuietPeriod,     \* conf->quiet_interval
  ReAuthMax,       \* AUTH_PAE_DEFAULT_reAuthMax
  TxPeriod,        \* AUTH_PAE_DEFAULT_txPeriod
  SuppTimeout,     \* BE_AUTH_DEFAULT_suppTimeout
  ServerTimeout,   \* BE_AUTH_DEFAULT_serverTimeout
  MaxReq,          \* BE_AUTH_DEFAULT_maxReq
  ReAuthPeriod,    \* the period a port starts with
  SessionTimeouts, \* values of a server's Session-Timeout attribute
  SessionTimeoutSet, \* conf->session_timeout_set
  IntMax           \* INT_MAX

ASSUME TimeAssumption ==
  /\ IntMax \in Nat
  /\ TxPeriod \in 1 .. IntMax /\ ServerTimeout \in 1 .. IntMax
  /\ {QuietPeriod, SuppTimeout, ReAuthPeriod} \subseteq 0 .. 2 * IntMax + 1
  /\ SessionTimeouts \subseteq 0 .. 2 * IntMax + 1

ASSUME CountAssumption ==
  /\ ReAuthMax \in Nat
  /\ MaxReq \in Nat \ {0}
  /\ SessionTimeoutSet \in BOOLEAN

VARIABLES
  auth_pae,      \* struct eapol_auth_pae_sm
  be_auth,       \* struct eapol_backend_auth_sm
  reauth_timer,  \* struct eapol_reauth_timer_sm
  auth_key_tx,   \* state of struct eapol_auth_key_tx
  sm,            \* the other fields of struct eapol_state_machine
  sta,           \* fields of struct sta_info a reply depends on
  pc,            \* where eapol_sm_step is; "idle": in the event loop;
                 \* "none": there is no station
  changed,       \* the present pass has changed some state
  then,          \* what follows the step: "return", "step" (another one) or
                 \* "free" (Ap_free_sta)
  denied         \* the supplicant logged off, or the server rejected it, and
                 \* no exchange has begun since (only observed)

machines == <<auth_pae, be_auth, reauth_timer, auth_key_tx, sm, sta>>
vars == <<machines, pc, changed, then, denied>>

\* The int that an unsigned int is assigned to: the timers of a port count
\* down as int, the periods they start from are unsigned int.
Signed(t) == IF t <= IntMax THEN t ELSE t - 2 * (IntMax + 1)

-----------------------------------------------------------------------------
(* Values after eapol_sm_alloc and ieee802_1x_new_station.                 *)

FreshPae == [state |-> "INITIALIZE", eapLogoff |-> FALSE, eapStart |-> FALSE,
             reAuthCount |-> 0, rxInitialRsp |-> FALSE]

FreshBe == [state |-> "IDLE", reqCount |-> 0, rxResp |-> FALSE,
            aSuccess |-> FALSE, aFail |-> FALSE, aReq |-> FALSE,
            suppTimeout |-> SuppTimeout]

FreshReauth == [state |-> "INITIALIZE", reAuthPeriod |-> ReAuthPeriod]

FreshSm == [aWhile |-> 0, quietWhile |-> 0, reAuthWhen |-> Signed(ReAuthPeriod),
            txWhen |-> 0, authAbort |-> FALSE, authFail |-> FALSE,
            authStart |-> FALSE, authTimeout |-> FALSE, authSuccess |-> FALSE,
            keyAvailable |-> FALSE, portStatus |-> "Unauthorized",
            reAuthenticate |-> FALSE]

\* lastRecv: code of last_recv_radius.  awaiting: radius_identifier is that of
\* the last request sent and no reply to it has come.  answers: last_eap_supp
\* is the supplicant's answer to that last_recv_radius (only observed).
FreshSta == [lastRecv |-> "none", awaiting |-> FALSE, answers |-> FALSE]

Init ==
  /\ auth_pae = FreshPae
  /\ be_auth = FreshBe
  /\ reauth_timer = FreshReauth
  /\ auth_key_tx = "NO_KEY_TRANSMIT"
  /\ sm = FreshSm
  /\ sta = FreshSta
  /\ pc = "none"
  /\ changed = FALSE
  /\ then = "return"
  /\ denied = FALSE

-----------------------------------------------------------------------------
(* The loop of eapol_sm_step.                                              *)

\* Start the step that a handler ends with
BeginStep(after) ==
  /\ pc' = "pae"
  /\ changed' = FALSE
  /\ then' = after

\* Go on to the next machine; moved: this one has changed its state
Continue(next, moved) ==
  /\ pc' = next
  /\ changed' = (changed \/ moved)
  /\ UNCHANGED then

-----------------------------------------------------------------------------
(* Authenticator PAE state machine: what entering a state does.            *)

AUTH_PAE_DISCONNECTED ==
  /\ auth_pae' = [auth_pae EXCEPT !.state = "DISCONNECTED",
                                  !.eapLogoff = FALSE, !.reAuthCount = 0]
  /\ sm' = [sm EXCEPT !.portStatus = "Unauthorized"]
  /\ UNCHANGED <<sta, denied>>

\* The identity request starts a new session: last_recv_radius is dropped
AUTH_PAE_CONNECTING ==
  /\ auth_pae' = [auth_pae EXCEPT !.state = "CONNECTING", !.eapStart = FALSE,
                                  !.rxInitialRsp = FALSE,
                                  !.reAuthCount = @ + 1]
  /\ sm' = [sm EXCEPT !.reAuthenticate = FALSE, !.txWhen = TxPeriod]
  /\ sta' = [sta EXCEPT !.lastRecv = "none", !.answers = FALSE]
  /\ UNCHANGED denied

Held_KeepPort ==
  /\ auth_pae' = [auth_pae EXCEPT !.state = "HELD", !.eapLogoff = FALSE]
  /\ sm' = [sm EXCEPT !.quietWhile = Signed(QuietPeriod)]
  /\ UNCHANGED <<sta, denied>>

AUTH_PAE_HELD ==
  /\ auth_pae' = [auth_pae EXCEPT !.state = "HELD", !.eapLogoff = FALSE]
  /\ sm' = [sm EXCEPT !.portStatus = "Unauthorized",
                      !.quietWhile = Signed(QuietPeriod)]
  /\ UNCHANGED <<sta, denied>>

AUTH_PAE_AUTHENTICATED ==
  /\ auth_pae' = [auth_pae EXCEPT !.state = "AUTHENTICATED",
                                  !.reAuthCount = 0]
  /\ sm' = [sm EXCEPT !.portStatus = "Authorized"]
  /\ UNCHANGED <<sta, denied>>

AUTH_PAE_AUTHENTICATING ==
  /\ auth_pae' = [auth_pae EXCEPT !.state = "AUTHENTICATING"]
  /\ sm' = [sm EXCEPT !.authSuccess = FALSE, !.authFail = FALSE,
                      !.authTimeout = FALSE, !.authStart = TRUE]
  /\ denied' = FALSE
  /\ UNCHANGED sta

AUTH_PAE_ABORTING ==
  /\ auth_pae' = [auth_pae EXCEPT !.state = "ABORTING"]
  /\ sm' = [sm EXCEPT !.authAbort = TRUE]
  /\ UNCHANGED <<sta, denied>>

-----------------------------------------------------------------------------
(* SM_STEP(AUTH_PAE): when a state is entered.                             *)

PaeIn(state) == pc = "pae" /\ auth_pae.state = state

Disconnects_NoLimit ==
  \/ PaeIn("INITIALIZE")
  \/ PaeIn("CONNECTING") /\ auth_pae.eapLogoff
  \/ /\ PaeIn("AUTHENTICATED")
     /\ ~auth_pae.eapStart /\ ~sm.reAuthenticate
     /\ auth_pae.eapLogoff
  \/ PaeIn("ABORTING") /\ ~sm.authAbort /\ auth_pae.eapLogoff

PaeDisconnects ==
  \/ PaeIn("INITIALIZE")
  \/ /\ PaeIn("CONNECTING")
     /\ auth_pae.eapLogoff \/ auth_pae.reAuthCount > ReAuthMax
  \/ /\ PaeIn("AUTHENTICATED")
     /\ ~auth_pae.eapStart /\ ~sm.reAuthenticate
     /\ auth_pae.eapLogoff
  \/ PaeIn("ABORTING") /\ ~sm.authAbort /\ auth_pae.eapLogoff

PaeConnects ==
  \/ PaeIn("DISCONNECTED")
  \/ PaeIn("HELD") /\ sm.quietWhile = 0
  \/ /\ PaeIn("CONNECTING")
     /\ ~auth_pae.eapLogoff /\ ~auth_pae.rxInitialRsp
     /\ sm.txWhen = 0 \/ auth_pae.eapStart \/ sm.reAuthenticate
     /\ auth_pae.reAuthCount <= ReAuthMax
  \/ PaeIn("AUTHENTICATED") /\ (auth_pae.eapStart \/ sm.reAuthenticate)
  \/ PaeIn("ABORTING") /\ ~sm.authAbort /\ ~auth_pae.eapLogoff

PaeAuthenticates ==
  /\ PaeIn("CONNECTING")
  /\ ~auth_pae.eapLogoff /\ auth_pae.rxInitialRsp
  /\ auth_pae.reAuthCount <= ReAuthMax

PaeSucceeds == PaeIn("AUTHENTICATING") /\ sm.authSuccess

PaeHolds == PaeIn("AUTHENTICATING") /\ ~sm.authSuccess /\ sm.authFail

PaeAborts ==
  /\ PaeIn("AUTHENTICATING")
  /\ ~sm.authSuccess /\ ~sm.authFail
  /\ \/ sm.reAuthenticate \/ sm.authTimeout
     \/ auth_pae.eapStart \/ auth_pae.eapLogoff

PaeStays ==
  /\ pc = "pae"
  /\ ~PaeDisconnects /\ ~PaeConnects /\ ~PaeAuthenticates
  /\ ~PaeSucceeds /\ ~PaeHolds /\ ~PaeAborts

PaeStep ==
  /\ \/ PaeDisconnects /\ AUTH_PAE_DISCONNECTED
     \/ PaeConnects /\ AUTH_PAE_CONNECTING
     \/ PaeAuthenticates /\ AUTH_PAE_AUTHENTICATING
     \/ PaeSucceeds /\ AUTH_PAE_AUTHENTICATED
     \/ PaeHolds /\ AUTH_PAE_HELD
     \/ PaeAborts /\ AUTH_PAE_ABORTING
     \/ PaeStays /\ UNCHANGED <<auth_pae, sm, sta, denied>>
  /\ Continue("be", auth_pae'.state # auth_pae.state)
  /\ UNCHANGED <<be_auth, reauth_timer, auth_key_tx>>

-----------------------------------------------------------------------------
(* Backend Authentication state machine.                                   *)

BE_AUTH_INITIALIZE ==
  /\ be_auth' = [be_auth EXCEPT !.state = "INITIALIZE"]
  /\ sm' = [sm EXCEPT !.authAbort = FALSE]
  /\ UNCHANGED sta

BE_AUTH_REQUEST ==
  /\ be_auth' = [be_auth EXCEPT !.state = "REQUEST", !.reqCount = @ + 1]
  /\ sm' = [sm EXCEPT !.aWhile = Signed(be_auth.suppTimeout)]
  /\ UNCHANGED sta

Response_KeepSuccess ==
  /\ be_auth' = [be_auth EXCEPT !.state = "RESPONSE", !.aReq = FALSE,
                                !.aFail = FALSE,
                                !.rxResp = FALSE, !.reqCount = 0]
  /\ sm' = [sm EXCEPT !.authTimeout = FALSE, !.aWhile = ServerTimeout]
  /\ sta' = [sta EXCEPT !.awaiting = TRUE]

\* Entering RESPONSE forwards last_eap_supp under a new identifier
BE_AUTH_RESPONSE ==
  /\ be_auth' = [be_auth EXCEPT !.state = "RESPONSE", !.aReq = FALSE,
                                !.aSuccess = FALSE, !.aFail = FALSE,
                                !.rxResp = FALSE, !.reqCount = 0]
  /\ sm' = [sm EXCEPT !.authTimeout = FALSE, !.aWhile = ServerTimeout]
  /\ sta' = [sta EXCEPT !.awaiting = TRUE]

BE_AUTH_SUCCESS ==
  /\ be_auth' = [be_auth EXCEPT !.state = "SUCCESS"]
  /\ sm' = [sm EXCEPT !.authSuccess = TRUE]
  /\ UNCHANGED sta

BE_AUTH_FAIL ==
  /\ be_auth' = [be_auth EXCEPT !.state = "FAIL"]
  /\ sm' = [sm EXCEPT !.authFail = TRUE]
  /\ UNCHANGED sta

BE_AUTH_TIMEOUT ==
  /\ be_auth' = [be_auth EXCEPT !.state = "TIMEOUT"]
  /\ sm' = [sm EXCEPT !.authTimeout = TRUE]
  /\ UNCHANGED sta

Idle_KeepStart ==
  /\ be_auth' = [be_auth EXCEPT !.state = "IDLE", !.reqCount = 0]
  /\ UNCHANGED <<sm, sta>>

BE_AUTH_IDLE ==
  /\ be_auth' = [be_auth EXCEPT !.state = "IDLE", !.reqCount = 0]
  /\ sm' = [sm EXCEPT !.authStart = FALSE]
  /\ UNCHANGED sta

BeIn(state) == pc = "be" /\ ~sm.authAbort /\ be_auth.state = state

BeInitializes == pc = "be" /\ sm.authAbort

Requests_NoLimit ==
  \/ BeIn("REQUEST") /\ sm.aWhile = 0
  \/ BeIn("RESPONSE") /\ be_auth.aReq

BeRequests ==
  \/ BeIn("REQUEST") /\ sm.aWhile = 0 /\ be_auth.reqCount # MaxReq
  \/ BeIn("RESPONSE") /\ be_auth.aReq

BeResponds ==
  \/ BeIn("IDLE") /\ sm.authStart
  \/ /\ BeIn("REQUEST")
     /\ sm.aWhile # 0 \/ be_auth.reqCount = MaxReq
     /\ be_auth.rxResp

\* aWhile = 0 has taken REQUEST again unless reqCount = MaxReq
BeTimesOut ==
  \/ /\ BeIn("REQUEST")
     /\ ~be_auth.rxResp
     /\ sm.aWhile = 0 /\ be_auth.reqCount = MaxReq
  \/ BeIn("RESPONSE") /\ ~be_auth.aReq /\ sm.aWhile = 0

BeFails ==
  BeIn("RESPONSE") /\ ~be_auth.aReq /\ sm.aWhile # 0 /\ be_auth.aFail

BeSucceeds ==
  /\ BeIn("RESPONSE")
  /\ ~be_auth.aReq /\ sm.aWhile # 0 /\ ~be_auth.aFail
  /\ be_auth.aSuccess

BeIdles ==
  \/ BeIn("INITIALIZE") \/ BeIn("SUCCESS") \/ BeIn("FAIL") \/ BeIn("TIMEOUT")

BeStays ==
  /\ pc = "be"
  /\ ~BeInitializes /\ ~BeRequests /\ ~BeResponds /\ ~BeTimesOut
  /\ ~BeFails /\ ~BeSucceeds /\ ~BeIdles

BeStep ==
  /\ \/ BeInitializes /\ BE_AUTH_INITIALIZE
     \/ BeRequests /\ BE_AUTH_REQUEST
     \/ BeResponds /\ BE_AUTH_RESPONSE
     \/ BeTimesOut /\ BE_AUTH_TIMEOUT
     \/ BeFails /\ BE_AUTH_FAIL
     \/ BeSucceeds /\ BE_AUTH_SUCCESS
     \/ BeIdles /\ BE_AUTH_IDLE
     \/ BeStays /\ UNCHANGED <<be_auth, sm, sta>>
  /\ Continue("reauth", be_auth'.state # be_auth.state)
  /\ UNCHANGED <<auth_pae, reauth_timer, auth_key_tx, denied>>

-----------------------------------------------------------------------------
(* Reauthentication Timer and Key Transmit state machines.                 *)

REAUTH_TIMER_INITIALIZE ==
  /\ reauth_timer' = [reauth_timer EXCEPT !.state = "INITIALIZE"]
  /\ sm' = [sm EXCEPT !.reAuthWhen = Signed(reauth_timer.reAuthPeriod)]

REAUTH_TIMER_REAUTHENTICATE ==
  /\ reauth_timer' = [reauth_timer EXCEPT !.state = "REAUTHENTICATE"]
  /\ sm' = [sm EXCEPT !.reAuthenticate = TRUE]

\* reAuthEnabled is TRUE by default and nothing clears it
ReauthRestarts ==
  sm.portStatus = "Unauthorized" \/ reauth_timer.state = "REAUTHENTICATE"

ReauthStep ==
  /\ pc = "reauth"
  /\ \/ ReauthRestarts /\ REAUTH_TIMER_INITIALIZE
     \/ ~ReauthRestarts /\ sm.reAuthWhen = 0 /\ REAUTH_TIMER_REAUTHENTICATE
     \/ ~ReauthRestarts /\ sm.reAuthWhen # 0 /\ UNCHANGED <<reauth_timer, sm>>
  /\ Continue("keytx", reauth_timer'.state # reauth_timer.state)
  /\ UNCHANGED <<auth_pae, be_auth, auth_key_tx, sta, denied>>

AUTH_KEY_TX_KEY_TRANSMIT ==
  /\ auth_key_tx' = "KEY_TRANSMIT"
  /\ sm' = [sm EXCEPT !.keyAvailable = FALSE]

AUTH_KEY_TX_NO_KEY_TRANSMIT ==
  /\ auth_key_tx' = "NO_KEY_TRANSMIT"
  /\ UNCHANGED sm

KeyStops ==
  auth_key_tx = "KEY_TRANSMIT" /\ (sm.authFail \/ auth_pae.eapLogoff)

KeyTransmits ==
  /\ sm.keyAvailable /\ ~KeyStops
  /\ auth_key_tx = "KEY_TRANSMIT" \/ sm.authSuccess

KeyTxStep ==
  /\ pc = "keytx"
  /\ \/ KeyStops /\ AUTH_KEY_TX_NO_KEY_TRANSMIT
     \/ KeyTransmits /\ AUTH_KEY_TX_KEY_TRANSMIT
     \/ ~KeyStops /\ ~KeyTransmits /\ UNCHANGED <<auth_key_tx, sm>>
  /\ Continue("end", auth_key_tx' # auth_key_tx)
  /\ UNCHANGED <<auth_pae, be_auth, reauth_timer, sta, denied>>

-----------------------------------------------------------------------------
(* The end of a pass: the do-while condition, then what the caller does.   *)

\* Ap_free_sta: the station, its port and the tick of its timers are gone
Free ==
  /\ auth_pae' = FreshPae
  /\ be_auth' = FreshBe
  /\ reauth_timer' = FreshReauth
  /\ auth_key_tx' = "NO_KEY_TRANSMIT"
  /\ sm' = FreshSm
  /\ sta' = FreshSta
  /\ pc' = "none"
  /\ changed' = FALSE
  /\ then' = "return"
  /\ denied' = FALSE

EndPass ==
  /\ pc = "end"
  /\ \/ /\ changed
        /\ BeginStep(then)
        /\ UNCHANGED <<machines, denied>>
     \/ /\ ~changed /\ then = "step"
        /\ BeginStep("return")
        /\ UNCHANGED <<machines, denied>>
     \/ /\ ~changed /\ then = "return"
        /\ pc' = "idle"
        /\ UNCHANGED <<machines, changed, then, denied>>
     \/ /\ ~changed /\ then = "free"
        /\ Free

eapol_sm_step == PaeStep \/ BeStep \/ ReauthStep \/ KeyTxStep \/ EndPass

-----------------------------------------------------------------------------
(* Handlers.                                                               *)

\* Ap_get_sta for an unknown station; the frame itself may then be refused
\* (its length or version) or handled
NewStation ==
  /\ pc = "none"
  /\ pc' = "idle"
  /\ UNCHANGED <<machines, changed, then, denied>>

\* The driver reports that the station has gone (DOT1X_DISCONNECT_ENTRY), or
\* the configuration is reloaded (Apd_free_stas)
Disconnect == pc = "idle" /\ Free

\* ieee802_1x_receive steps the machines in the case of a Start or Logoff and
\* again at its end
EapolStart ==
  /\ pc = "idle"
  /\ auth_pae' = [auth_pae EXCEPT !.eapStart = TRUE]
  /\ BeginStep("step")
  /\ UNCHANGED <<be_auth, reauth_timer, auth_key_tx, sm, sta, denied>>

EapolLogoff ==
  /\ pc = "idle"
  /\ auth_pae' = [auth_pae EXCEPT !.eapLogoff = TRUE]
  /\ denied' = TRUE
  /\ BeginStep("step")
  /\ UNCHANGED <<be_auth, reauth_timer, auth_key_tx, sm, sta>>

\* handle_eap_response, Response/Identity with the expected identifier
ResponseIdentity ==
  /\ pc = "idle"
  /\ auth_pae' = [auth_pae EXCEPT !.rxInitialRsp = TRUE]
  /\ sta' = [sta EXCEPT !.answers = FALSE]
  /\ BeginStep("return")
  /\ UNCHANGED <<be_auth, reauth_timer, auth_key_tx, sm, denied>>

\* handle_eap_response, any other type.  It answers last_recv_radius if that is
\* a Challenge whose request has been sent to the supplicant.
Response ==
  /\ pc = "idle"
  /\ be_auth' = [be_auth EXCEPT !.rxResp = TRUE]
  /\ sta' = [sta EXCEPT !.answers =
               /\ sta.lastRecv = "challenge"
               /\ be_auth.state \in {"REQUEST", "RESPONSE"}]
  /\ BeginStep("return")
  /\ UNCHANGED <<auth_pae, reauth_timer, auth_key_tx, sm, denied>>

\* Any other frame, a response with another identifier included: only the step
OtherFrame ==
  /\ pc = "idle"
  /\ BeginStep("return")
  /\ UNCHANGED <<machines, denied>>

\* ieee802_1x_receive_auth up to the switch: a valid reply to the last request
Reply(code) ==
  /\ pc = "idle"
  /\ sta.awaiting
  /\ sta' = [lastRecv |-> code, awaiting |-> FALSE, answers |-> FALSE]

\* Access-Accept, with keys (ieee802_1x_get_keys) or without; t: the server asks
\* for reauthentication after t seconds
AccessAccept ==
  /\ Reply("accept")
  /\ be_auth' = [be_auth EXCEPT !.aSuccess = TRUE]
  /\ \E keys \in BOOLEAN :
       sm' = [sm EXCEPT !.keyAvailable = @ \/ keys]
  /\ \/ /\ \E t \in SessionTimeouts :
             reauth_timer' = [reauth_timer EXCEPT !.reAuthPeriod = t]
        /\ BeginStep("return")
     \/ /\ UNCHANGED reauth_timer
        /\ BeginStep("return")
     \/ /\ ~SessionTimeoutSet
        /\ UNCHANGED reauth_timer
        /\ BeginStep("free")
  /\ UNCHANGED <<auth_pae, auth_key_tx, denied>>

AccessReject ==
  /\ Reply("reject")
  /\ be_auth' = [be_auth EXCEPT !.aFail = TRUE]
  /\ denied' = (denied \/ be_auth.state = "RESPONSE")
  /\ BeginStep("return")
  /\ UNCHANGED <<auth_pae, reauth_timer, auth_key_tx, sm>>

AccessChallenge ==
  /\ Reply("challenge")
  /\ \E t \in SessionTimeouts \cup {be_auth.suppTimeout} :
       be_auth' = [be_auth EXCEPT !.aReq = TRUE, !.suppTimeout = t]
  /\ BeginStep("return")
  /\ UNCHANGED <<auth_pae, reauth_timer, auth_key_tx, sm, denied>>

Decrement(t) == IF t > 0 THEN t - 1 ELSE t

Tick_NoReauth ==
  /\ pc = "idle"
  /\ sm' = [sm EXCEPT !.aWhile = Decrement(@), !.quietWhile = Decrement(@),
                      !.txWhen = Decrement(@)]
  /\ BeginStep("return")
  /\ UNCHANGED <<auth_pae, be_auth, reauth_timer, auth_key_tx, sta, denied>>

eapol_port_timers_tick ==
  /\ pc = "idle"
  /\ sm' = [sm EXCEPT !.aWhile = Decrement(@), !.quietWhile = Decrement(@),
                      !.reAuthWhen = Decrement(@), !.txWhen = Decrement(@)]
  /\ BeginStep("return")
  /\ UNCHANGED <<auth_pae, be_auth, reauth_timer, auth_key_tx, sta, denied>>

Supplicant == EapolStart \/ EapolLogoff \/ ResponseIdentity \/ Response
                \/ OtherFrame

Server == AccessAccept \/ AccessReject \/ AccessChallenge

Next ==
  \/ eapol_sm_step
  \/ NewStation \/ Disconnect
  \/ Supplicant
  \/ Server
  \/ eapol_port_timers_tick

Spec == Init /\ [][Next]_vars

\* The loop of eapol_sm_step runs on, and the tick of a port is called once a
\* second however many frames arrive: eloop_run calls an expired timeout in
\* every round, before it reads a socket.
Fairness == WF_vars(eapol_sm_step) /\ SF_vars(eapol_port_timers_tick)

FairSpec == Spec /\ Fairness

-----------------------------------------------------------------------------
(* Properties.                                                             *)

PaeStates == {"INITIALIZE", "DISCONNECTED", "CONNECTING", "AUTHENTICATING",
              "AUTHENTICATED", "ABORTING", "HELD"}

BeStates == {"INITIALIZE", "REQUEST", "RESPONSE", "SUCCESS", "FAIL",
             "TIMEOUT", "IDLE"}

Ints == -(IntMax + 1) .. IntMax

UnsignedInts == 0 .. 2 * IntMax + 1

\* The structs of a port; reqCount and reAuthCount within their limits
PaeType == [state : PaeStates, eapLogoff : BOOLEAN, eapStart : BOOLEAN,
            reAuthCount : 0 .. ReAuthMax + 1, rxInitialRsp : BOOLEAN]

BeType == [state : BeStates, reqCount : 0 .. MaxReq, rxResp : BOOLEAN,
           aSuccess : BOOLEAN, aFail : BOOLEAN, aReq : BOOLEAN,
           suppTimeout : UnsignedInts]

ReauthType == [state : {"INITIALIZE", "REAUTHENTICATE"},
               reAuthPeriod : UnsignedInts]

SmType == [aWhile : Ints, quietWhile : Ints, reAuthWhen : Ints, txWhen : Ints,
           authAbort : BOOLEAN, authFail : BOOLEAN, authStart : BOOLEAN,
           authTimeout : BOOLEAN, authSuccess : BOOLEAN,
           keyAvailable : BOOLEAN,
           portStatus : {"Unauthorized", "Authorized"},
           reAuthenticate : BOOLEAN]

StaType == [lastRecv : {"none", "accept", "reject", "challenge"},
            awaiting : BOOLEAN, answers : BOOLEAN]

\* Types; reqCount never passes maxReq although the code compares with !=, and
\* reAuthCount is at most one above reAuthMax.
TypeOK ==
  /\ auth_pae \in PaeType
  /\ be_auth \in BeType
  /\ reauth_timer \in ReauthType
  /\ auth_key_tx \in {"NO_KEY_TRANSMIT", "KEY_TRANSMIT"}
  /\ sm \in SmType
  /\ sta \in StaType
  /\ pc \in {"none", "idle", "pae", "be", "reauth", "keytx", "end"}
  /\ changed \in BOOLEAN
  /\ then \in {"return", "step", "free"}
  /\ denied \in BOOLEAN

\* When a handler has returned, a supplicant that has logged off or that the
\* server has rejected finds its port unauthorized, and stays out until a new
\* exchange begins: no late reply, no pending reauthentication and no key
\* transmission reopens the port.
DeniedPortClosed ==
  pc = "idle" /\ denied => sm.portStatus = "Unauthorized"

\* Between handlers the PAE and the backend machine agree on whether an
\* exchange is running, and neither is left in a state it only passes through:
\* the step loop may stop early (it does not see a state that re-enters
\* itself), but never there.
MachinesAgree ==
  pc = "idle" =>
    /\ auth_pae.state \in {"INITIALIZE", "CONNECTING", "HELD",
                           "AUTHENTICATING", "AUTHENTICATED"}
    /\ be_auth.state \in {"IDLE", "REQUEST", "RESPONSE"}
    /\ auth_pae.state = "AUTHENTICATING" <=> be_auth.state # "IDLE"
    /\ reauth_timer.state = "INITIALIZE"

\* The do-while loop of eapol_sm_step ends, for every period the server sends,
\* zero included.
StepTerminates == pc \notin {"idle", "none"} ~> pc \in {"idle", "none"}

\* A port does not stay authorized for ever without the server: either it is
\* closed at some time, or the server keeps answering, or the server has sent
\* a time beyond INT_MAX, which makes an int timer negative: that timer is then
\* taken to have stopped and never to expire.
AuthorizedNeedsServer ==
  <>[](sm.portStatus = "Authorized" /\ sm.reAuthWhen >= 0 /\ sm.aWhile >= 0)
    => []<><<Server>>_vars

\* "State attribute must be copied if and only if this packet is Access-Request
\* reply to the previous Access-Challenge": what is forwarded while the last
\* reply is a Challenge is the supplicant's answer to it.
StateOnlyInReply ==
  [][be_auth.state # "RESPONSE" /\ be_auth'.state = "RESPONSE"
       => (sta.lastRecv = "challenge" => sta.answers)]_vars

\* "keyTxEnabled && keyAvailable && authSuccess": the keys of an Accept go out
\* only once the state machines have taken the Accept, although the handler
\* makes them available before the machines have decided.
KeysNeedSuccess ==
  [][pc = "keytx" /\ sm.keyAvailable /\ ~sm'.keyAvailable => sm.authSuccess]_vars

\* The verdict on the port in the terms of PortControl: an Accept counts while
\* the backend machine waits for it, and until the PAE machine has used it.
Verdict ==
  CASE auth_pae.state = "AUTHENTICATING" /\ sm.authSuccess -> "accepted"
    [] be_auth.state = "RESPONSE" /\ sta.awaiting /\ ~sm.authAbort -> "asked"
    [] be_auth.state = "RESPONSE" /\ be_auth.aSuccess /\ ~sm.authAbort
         -> "accepted"
    [] OTHER -> "none"

Port == INSTANCE PortControl WITH port <- sm.portStatus, verdict <- Verdict,
                                  pending <- sta.awaiting

\* The state machines implement PortControl: the port opens only on an Accept
\* that answers the request of the exchange in progress, never on a late one.
PortOpensOnVerdict == Port!Spec

=============================================================================
