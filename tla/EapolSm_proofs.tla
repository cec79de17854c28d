--------------------------- MODULE EapolSm_proofs ---------------------------
(***************************************************************************)
(* The port of a station for all periods, counters and server timeouts:    *)
(* its types, the agreement of the four machines between handlers, the     *)
(* closed port of a denied supplicant, and the refinement of PortControl.  *)
(*                                                                         *)
(* None of the properties is inductive: they speak of the machines when    *)
(* the loop has ended, and the proof has to follow the loop.  The          *)
(* strengthening says, for every position of the loop, which pairs of PAE  *)
(* and backend states can meet, which flags go with them, and what a pass  *)
(* that has changed nothing has established.                               *)
(***************************************************************************)
EXTENDS EapolSm, TLAPS

\* The counters of the machines, state by state: reqCount is zero when a
\* request can be entered from RESPONSE, and reAuthCount leaves room for the
\* increment of CONNECTING everywhere else.
CountsInv ==
  /\ be_auth.state = "RESPONSE" => be_auth.reqCount = 0
  /\ auth_pae.state \in {"INITIALIZE", "DISCONNECTED", "AUTHENTICATED"}
       => auth_pae.reAuthCount = 0
  /\ auth_pae.state \in {"AUTHENTICATING", "ABORTING", "HELD"}
       => auth_pae.reAuthCount <= ReAuthMax

\* The flags of an exchange while it runs: each verdict of the backend machine
\* is that of its state.
ExchangeFlags ==
  /\ sm.authStart
  /\ sm.authSuccess <=> be_auth.state = "SUCCESS"
  /\ sm.authFail <=> be_auth.state = "FAIL"
  /\ sm.authTimeout <=> be_auth.state = "TIMEOUT"

\* Where the machines are unless the PAE has just moved.
Together ==
  /\ ~sm.authAbort
  /\ \/ /\ auth_pae.state \in {"INITIALIZE", "DISCONNECTED", "CONNECTING",
                               "HELD", "AUTHENTICATED"}
        /\ be_auth.state = "IDLE"
        /\ ~sm.authStart
     \/ /\ auth_pae.state = "AUTHENTICATING"
        /\ be_auth.state \in {"REQUEST", "RESPONSE", "SUCCESS", "FAIL",
                              "TIMEOUT"}
        /\ ExchangeFlags
     \/ /\ auth_pae.state = "ABORTING"
        /\ be_auth.state = "INITIALIZE"
        /\ sm.authStart /\ ~sm.authSuccess /\ ~sm.authFail

\* Where they are when the PAE has moved and the backend machine has not yet
\* followed.
PaeAhead ==
  \/ /\ auth_pae.state \in {"DISCONNECTED", "CONNECTING", "HELD",
                            "AUTHENTICATED"}
     /\ be_auth.state = "IDLE"
     /\ ~sm.authAbort /\ ~sm.authStart
  \/ /\ auth_pae.state = "AUTHENTICATING"
     /\ be_auth.state \in {"IDLE", "REQUEST", "RESPONSE"}
     /\ ~sm.authAbort /\ ExchangeFlags
  \/ /\ auth_pae.state = "ABORTING"
     /\ be_auth.state \in {"REQUEST", "RESPONSE", "TIMEOUT"}
     /\ sm.authAbort /\ sm.authStart /\ ~sm.authSuccess /\ ~sm.authFail
  \/ /\ \/ auth_pae.state = "AUTHENTICATED" /\ be_auth.state = "SUCCESS"
        \/ auth_pae.state = "HELD" /\ be_auth.state = "FAIL"
        \/ /\ auth_pae.state \in {"CONNECTING", "DISCONNECTED"}
           /\ be_auth.state = "INITIALIZE"
     /\ ~sm.authAbort

\* The pairs of states at each position of the loop.
JointInv ==
  /\ pc # "be" => Together
  /\ pc = "be" => PaeAhead
  /\ pc \notin {"none", "idle", "pae"} => auth_pae.state # "INITIALIZE"

\* In the second half of a pass: the machines are passing through a state
\* only if the pass has changed something, so the loop goes on.
Resting ==
  /\ auth_pae.state \notin {"DISCONNECTED", "ABORTING"}
  /\ be_auth.state \in {"IDLE", "REQUEST", "RESPONSE"}

\* What a pass without a change leaves the PAE: nothing that would move it.
PaeQuiet ==
  /\ auth_pae.state \in {"AUTHENTICATING", "AUTHENTICATED"}
       => ~auth_pae.eapStart /\ ~auth_pae.eapLogoff /\ ~sm.reAuthenticate
  /\ auth_pae.state = "CONNECTING" => ~auth_pae.eapLogoff

\* The same for the backend machine: it waits for the server.
BeQuiet ==
  be_auth.state = "RESPONSE" =>
    ~be_auth.aReq /\ ~be_auth.aFail /\ ~be_auth.aSuccess /\ sm.aWhile # 0

QuietInv ==
  /\ pc = "be" /\ ~changed =>
       /\ PaeQuiet /\ Resting
       /\ auth_pae.state = "AUTHENTICATING" => be_auth.state # "IDLE"
  /\ pc \in {"reauth", "keytx", "end"} /\ ~changed =>
       PaeQuiet /\ BeQuiet /\ Resting
  /\ pc \in {"keytx", "end"} /\ ~changed => reauth_timer.state = "INITIALIZE"
  /\ pc \in {"idle", "none"} =>
       /\ PaeQuiet /\ BeQuiet /\ Resting
       /\ reauth_timer.state = "INITIALIZE"
       /\ then = "return" /\ ~changed

\* The server has rejected the supplicant and the backend machine will take
\* the verdict at its next step.
Rejected ==
  /\ be_auth.state = "RESPONSE"
  /\ be_auth.aFail /\ ~be_auth.aReq /\ sm.aWhile # 0

\* A denied supplicant's port is closed, or the event that denied it has just
\* been set and is on its way through the machines.
DeniedInv ==
  /\ auth_pae.state \in {"INITIALIZE", "DISCONNECTED", "HELD"}
       => sm.portStatus = "Unauthorized"
  /\ denied /\ auth_pae.state = "AUTHENTICATING" =>
       \/ pc = "pae" /\ auth_pae.eapLogoff /\ be_auth.state # "SUCCESS"
       \/ pc = "pae" /\ Rejected /\ ~auth_pae.eapStart /\ ~sm.reAuthenticate
       \/ pc = "be" /\ Rejected
       \/ pc # "be" /\ be_auth.state = "FAIL"
  /\ denied /\ sm.portStatus = "Authorized" =>
       \/ auth_pae.state = "AUTHENTICATING"
       \/ auth_pae.state = "ABORTING" /\ auth_pae.eapLogoff
       \/ pc = "pae" /\ auth_pae.state = "CONNECTING" /\ auth_pae.eapLogoff
       \/ /\ pc = "pae" /\ auth_pae.state = "AUTHENTICATED"
          /\ auth_pae.eapLogoff /\ ~auth_pae.eapStart /\ ~sm.reAuthenticate

\* A reply makes its verdict and its request counts as answered, in one step.
ReplyInv == sta.awaiting => ~be_auth.aSuccess /\ ~be_auth.aFail

IInv == TypeOK /\ CountsInv /\ JointInv /\ QuietInv /\ DeniedInv /\ ReplyInv

-----------------------------------------------------------------------------
(* Ranges.                                                                 *)

\* Timers and counters: the constants they are set to, a period taken as an
\* int, a decrement and an increment below the limit.
LEMMA TimerRanges ==
  /\ TxPeriod \in Ints /\ ServerTimeout \in Ints
  /\ Signed(QuietPeriod) \in Ints
  /\ \A t \in UnsignedInts : Signed(t) \in Ints
  /\ \A t \in Ints : Decrement(t) \in Ints
BY TimeAssumption DEF Signed, Ints, UnsignedInts, Decrement

\* Zero is a value of both counters.
LEMMA CounterRanges == 0 \in 0 .. ReAuthMax + 1 /\ 0 \in 0 .. MaxReq
BY CountAssumption

\* Entering CONNECTING or REQUEST finds room for one more attempt.
LEMMA ConnectRoom ==
  IInv /\ PaeConnects => auth_pae.reAuthCount + 1 \in 0 .. ReAuthMax + 1
<1> SUFFICES ASSUME IInv, PaeConnects
             PROVE  auth_pae.reAuthCount + 1 \in 0 .. ReAuthMax + 1
  OBVIOUS
<1>1. auth_pae.reAuthCount \in 0 .. ReAuthMax + 1
  BY DEF IInv, TypeOK, PaeType
<1>2. auth_pae.reAuthCount = 0 \/ auth_pae.reAuthCount <= ReAuthMax
  BY DEF IInv, CountsInv, PaeConnects, PaeIn
<1>3. QED
  BY <1>1, <1>2, CountAssumption

\* A request is entered only while reqCount is below its limit.
LEMMA RequestRoom ==
  IInv /\ BeRequests => be_auth.reqCount + 1 \in 0 .. MaxReq
<1> SUFFICES ASSUME IInv, BeRequests PROVE be_auth.reqCount + 1 \in 0 .. MaxReq
  OBVIOUS
<1>1. be_auth.reqCount \in 0 .. MaxReq
  BY DEF IInv, TypeOK, BeType
<1>2. be_auth.reqCount = 0 \/ be_auth.reqCount # MaxReq
  BY DEF IInv, CountsInv, BeRequests, BeIn
<1>3. QED
  BY <1>1, <1>2, CountAssumption

-----------------------------------------------------------------------------
(* The machines.                                                           *)


\* A step of the PAE machine.
LEMMA PaeKeeps == IInv /\ PaeStep => IInv'
<1> SUFFICES ASSUME IInv, PaeStep PROVE IInv'
  OBVIOUS
<1> USE DEF PaeStep, Continue, PaeIn, IInv
<1>1. CASE PaeDisconnects /\ AUTH_PAE_DISCONNECTED
  <2>1. TypeOK'
    <3>1. auth_pae' \in PaeType
      BY <1>1, CounterRanges
         DEF PaeDisconnects, AUTH_PAE_DISCONNECTED, TypeOK, PaeType, PaeStates
    <3>2. sm' \in SmType
      BY <1>1 DEF PaeDisconnects, AUTH_PAE_DISCONNECTED, TypeOK, SmType
    <3>3. QED
      BY <1>1, <3>1, <3>2 DEF PaeDisconnects, AUTH_PAE_DISCONNECTED, TypeOK
  <2>2. CountsInv' /\ ReplyInv'
    BY <1>1, CountAssumption
       DEF PaeDisconnects, AUTH_PAE_DISCONNECTED, CountsInv, ReplyInv
  <2>3. JointInv'
    BY <1>1
       DEF PaeDisconnects, AUTH_PAE_DISCONNECTED, JointInv, Together, PaeAhead
  <2>4. QuietInv'
    BY <1>1
       DEF PaeDisconnects, AUTH_PAE_DISCONNECTED, TypeOK, PaeType, PaeStates,
           QuietInv, PaeQuiet, BeQuiet, Resting
  <2>5. DeniedInv'
    BY <1>1 DEF PaeDisconnects, AUTH_PAE_DISCONNECTED, DeniedInv, Rejected
  <2>6. QED
    BY <2>1, <2>2, <2>3, <2>4, <2>5
<1>2. CASE PaeConnects /\ AUTH_PAE_CONNECTING
  <2>1. TypeOK'
    <3>1. auth_pae' \in PaeType
      BY <1>2, ConnectRoom
         DEF PaeConnects, AUTH_PAE_CONNECTING, TypeOK, PaeType, PaeStates
    <3>2. sm' \in SmType
      BY <1>2, TimerRanges DEF PaeConnects, AUTH_PAE_CONNECTING, TypeOK, SmType
    <3>3. sta' \in StaType
      BY <1>2 DEF PaeConnects, AUTH_PAE_CONNECTING, TypeOK, StaType
    <3>4. QED
      BY <1>2, <3>1, <3>2, <3>3 DEF PaeConnects, AUTH_PAE_CONNECTING, TypeOK
  <2>2. CountsInv' /\ ReplyInv'
    BY <1>2, CountAssumption
       DEF PaeConnects, AUTH_PAE_CONNECTING, CountsInv, ReplyInv
  <2>3. JointInv'
    BY <1>2 DEF PaeConnects, AUTH_PAE_CONNECTING, JointInv, Together, PaeAhead
  <2>4. QuietInv'
    BY <1>2
       DEF PaeConnects, AUTH_PAE_CONNECTING, TypeOK, PaeType, PaeStates,
           JointInv, Together, QuietInv, PaeQuiet, BeQuiet, Resting
  <2>5. DeniedInv'
    BY <1>2 DEF PaeConnects, AUTH_PAE_CONNECTING, DeniedInv, Rejected
  <2>6. QED
    BY <2>1, <2>2, <2>3, <2>4, <2>5
<1>3. CASE PaeAuthenticates /\ AUTH_PAE_AUTHENTICATING
  <2>1. TypeOK'
    <3>1. auth_pae' \in PaeType
      BY <1>3
         DEF PaeAuthenticates, AUTH_PAE_AUTHENTICATING, TypeOK, PaeType,
             PaeStates
    <3>2. sm' \in SmType
      BY <1>3 DEF PaeAuthenticates, AUTH_PAE_AUTHENTICATING, TypeOK, SmType
    <3>3. QED
      BY <1>3, <3>1, <3>2 DEF PaeAuthenticates, AUTH_PAE_AUTHENTICATING, TypeOK
  <2>2. CountsInv' /\ ReplyInv'
    BY <1>3, CountAssumption
       DEF PaeAuthenticates, AUTH_PAE_AUTHENTICATING, CountsInv, ReplyInv
  <2>3. JointInv'
    BY <1>3
       DEF PaeAuthenticates, AUTH_PAE_AUTHENTICATING, JointInv, Together,
           PaeAhead, ExchangeFlags
  <2>4. QuietInv'
    BY <1>3
       DEF PaeAuthenticates, AUTH_PAE_AUTHENTICATING, TypeOK, PaeType,
           PaeStates, QuietInv, PaeQuiet, BeQuiet, Resting
  <2>5. DeniedInv'
    BY <1>3 DEF PaeAuthenticates, AUTH_PAE_AUTHENTICATING, DeniedInv, Rejected
  <2>6. QED
    BY <2>1, <2>2, <2>3, <2>4, <2>5
<1>4. CASE PaeSucceeds /\ AUTH_PAE_AUTHENTICATED
  <2>1. TypeOK'
    <3>1. auth_pae' \in PaeType
      BY <1>4, CounterRanges
         DEF PaeSucceeds, AUTH_PAE_AUTHENTICATED, TypeOK, PaeType, PaeStates
    <3>2. sm' \in SmType
      BY <1>4 DEF PaeSucceeds, AUTH_PAE_AUTHENTICATED, TypeOK, SmType
    <3>3. QED
      BY <1>4, <3>1, <3>2 DEF PaeSucceeds, AUTH_PAE_AUTHENTICATED, TypeOK
  <2>2. CountsInv' /\ ReplyInv'
    BY <1>4, CountAssumption
       DEF PaeSucceeds, AUTH_PAE_AUTHENTICATED, CountsInv, ReplyInv
  <2>3. JointInv'
    BY <1>4
       DEF PaeSucceeds, AUTH_PAE_AUTHENTICATED, JointInv, Together, PaeAhead,
           ExchangeFlags
  <2>4. QuietInv'
    BY <1>4
       DEF PaeSucceeds, AUTH_PAE_AUTHENTICATED, TypeOK, SmType, QuietInv,
           PaeQuiet, BeQuiet, Resting
  <2>5. DeniedInv'
    BY <1>4
       DEF PaeSucceeds, AUTH_PAE_AUTHENTICATED, JointInv, Together,
           ExchangeFlags, DeniedInv, Rejected
  <2>6. QED
    BY <2>1, <2>2, <2>3, <2>4, <2>5
<1>5. CASE PaeHolds /\ AUTH_PAE_HELD
  <2>1. TypeOK'
    <3>1. auth_pae' \in PaeType
      BY <1>5 DEF PaeHolds, AUTH_PAE_HELD, TypeOK, PaeType, PaeStates
    <3>2. sm' \in SmType
      BY <1>5, TimerRanges DEF PaeHolds, AUTH_PAE_HELD, TypeOK, SmType
    <3>3. QED
      BY <1>5, <3>1, <3>2 DEF PaeHolds, AUTH_PAE_HELD, TypeOK
  <2>2. CountsInv' /\ ReplyInv'
    BY <1>5, CountAssumption DEF PaeHolds, AUTH_PAE_HELD, CountsInv, ReplyInv
  <2>3. JointInv'
    BY <1>5
       DEF PaeHolds, AUTH_PAE_HELD, JointInv, Together, PaeAhead, ExchangeFlags
  <2>4. QuietInv'
    BY <1>5
       DEF PaeHolds, AUTH_PAE_HELD, TypeOK, SmType, QuietInv, PaeQuiet, BeQuiet,
           Resting
  <2>5. DeniedInv'
    BY <1>5 DEF PaeHolds, AUTH_PAE_HELD, DeniedInv, Rejected
  <2>6. QED
    BY <2>1, <2>2, <2>3, <2>4, <2>5
<1>6. CASE PaeAborts /\ AUTH_PAE_ABORTING
  <2>1. TypeOK'
    <3>1. auth_pae' \in PaeType
      BY <1>6 DEF PaeAborts, AUTH_PAE_ABORTING, TypeOK, PaeType, PaeStates
    <3>2. sm' \in SmType
      BY <1>6 DEF PaeAborts, AUTH_PAE_ABORTING, TypeOK, SmType
    <3>3. QED
      BY <1>6, <3>1, <3>2 DEF PaeAborts, AUTH_PAE_ABORTING, TypeOK
  <2>2. CountsInv' /\ ReplyInv'
    BY <1>6, CountAssumption
       DEF PaeAborts, AUTH_PAE_ABORTING, CountsInv, ReplyInv
  <2>3. JointInv'
    BY <1>6
       DEF PaeAborts, AUTH_PAE_ABORTING, JointInv, Together, PaeAhead,
           ExchangeFlags
  <2>4. QuietInv'
    BY <1>6
       DEF PaeAborts, AUTH_PAE_ABORTING, TypeOK, SmType, JointInv, Together,
           ExchangeFlags, QuietInv, PaeQuiet, BeQuiet, Resting
  <2>5. DeniedInv'
    BY <1>6
       DEF PaeAborts, AUTH_PAE_ABORTING, JointInv, Together, ExchangeFlags,
           DeniedInv, Rejected
  <2>6. QED
    BY <2>1, <2>2, <2>3, <2>4, <2>5
<1>7. CASE PaeStays /\ UNCHANGED <<auth_pae, sm, sta, denied>>
  <2>1. TypeOK'
    <3>1. QED
      BY <1>7
         DEF PaeStays, PaeDisconnects, PaeConnects, PaeAuthenticates,
             PaeSucceeds, PaeHolds, PaeAborts, TypeOK
  <2>2. CountsInv' /\ ReplyInv'
    BY <1>7, CountAssumption
       DEF PaeStays, PaeDisconnects, PaeConnects, PaeAuthenticates, PaeSucceeds,
           PaeHolds, PaeAborts, CountsInv, ReplyInv
  <2>3. JointInv'
    BY <1>7
       DEF PaeStays, PaeDisconnects, PaeConnects, PaeAuthenticates, PaeSucceeds,
           PaeHolds, PaeAborts, JointInv, Together, PaeAhead, ExchangeFlags
  <2>4. QuietInv'
    BY <1>7
       DEF PaeStays, PaeDisconnects, PaeConnects, PaeAuthenticates, PaeSucceeds,
           PaeHolds, PaeAborts, JointInv, Together, ExchangeFlags, QuietInv,
           PaeQuiet, BeQuiet, Resting
  <2>5. DeniedInv'
    BY <1>7
       DEF PaeStays, PaeDisconnects, PaeConnects, PaeAuthenticates, PaeSucceeds,
           PaeHolds, PaeAborts, JointInv, Together, ExchangeFlags, DeniedInv,
           Rejected
  <2>6. QED
    BY <2>1, <2>2, <2>3, <2>4, <2>5
<1>8. QED
  BY <1>1, <1>2, <1>3, <1>4, <1>5, <1>6, <1>7

\* A step of the backend machine.
LEMMA BeKeeps == IInv /\ BeStep => IInv'
<1> SUFFICES ASSUME IInv, BeStep PROVE IInv'
  OBVIOUS
<1> USE DEF BeStep, Continue, BeIn, IInv
<1>1. CASE BeInitializes /\ BE_AUTH_INITIALIZE
  <2>1. TypeOK'
    <3>1. be_auth' \in BeType
      BY <1>1 DEF BeInitializes, BE_AUTH_INITIALIZE, TypeOK, BeType, BeStates
    <3>2. sm' \in SmType
      BY <1>1 DEF BeInitializes, BE_AUTH_INITIALIZE, TypeOK, SmType
    <3>3. QED
      BY <1>1, <3>1, <3>2 DEF BeInitializes, BE_AUTH_INITIALIZE, TypeOK
  <2>2. CountsInv' /\ ReplyInv'
    BY <1>1, CountAssumption
       DEF BeInitializes, BE_AUTH_INITIALIZE, CountsInv, ReplyInv
  <2>3. JointInv'
    BY <1>1 DEF BeInitializes, BE_AUTH_INITIALIZE, JointInv, Together, PaeAhead
  <2>4. QuietInv'
    BY <1>1
       DEF BeInitializes, BE_AUTH_INITIALIZE, JointInv, PaeAhead, QuietInv,
           PaeQuiet, BeQuiet, Resting
  <2>5. DeniedInv'
    BY <1>1
       DEF BeInitializes, BE_AUTH_INITIALIZE, JointInv, PaeAhead, DeniedInv,
           Rejected
  <2>6. QED
    BY <2>1, <2>2, <2>3, <2>4, <2>5
<1>2. CASE BeRequests /\ BE_AUTH_REQUEST
  <2>1. TypeOK'
    <3>1. be_auth' \in BeType
      BY <1>2, RequestRoom
         DEF BeRequests, BE_AUTH_REQUEST, TypeOK, BeType, BeStates
    <3>2. sm' \in SmType
      BY <1>2, TimerRanges
         DEF BeRequests, BE_AUTH_REQUEST, TypeOK, SmType, BeType
    <3>3. QED
      BY <1>2, <3>1, <3>2 DEF BeRequests, BE_AUTH_REQUEST, TypeOK
  <2>2. CountsInv' /\ ReplyInv'
    BY <1>2, CountAssumption
       DEF BeRequests, BE_AUTH_REQUEST, CountsInv, ReplyInv
  <2>3. JointInv'
    BY <1>2
       DEF BeRequests, BE_AUTH_REQUEST, JointInv, Together, PaeAhead,
           ExchangeFlags
  <2>4. QuietInv'
    BY <1>2
       DEF BeRequests, BE_AUTH_REQUEST, TypeOK, QuietInv, PaeQuiet, BeQuiet,
           Resting
  <2>5. DeniedInv'
    BY <1>2 DEF BeRequests, BE_AUTH_REQUEST, DeniedInv, Rejected
  <2>6. QED
    BY <2>1, <2>2, <2>3, <2>4, <2>5
<1>3. CASE BeResponds /\ BE_AUTH_RESPONSE
  <2>1. TypeOK'
    <3>1. be_auth' \in BeType
      BY <1>3, CounterRanges
         DEF BeResponds, BE_AUTH_RESPONSE, TypeOK, BeType, BeStates
    <3>2. sm' \in SmType
      BY <1>3, TimerRanges DEF BeResponds, BE_AUTH_RESPONSE, TypeOK, SmType
    <3>3. sta' \in StaType
      BY <1>3 DEF BeResponds, BE_AUTH_RESPONSE, TypeOK, StaType
    <3>4. QED
      BY <1>3, <3>1, <3>2, <3>3 DEF BeResponds, BE_AUTH_RESPONSE, TypeOK
  <2>2. CountsInv' /\ ReplyInv'
    BY <1>3, CountAssumption
       DEF BeResponds, BE_AUTH_RESPONSE, CountsInv, ReplyInv
  <2>3. JointInv'
    BY <1>3
       DEF BeResponds, BE_AUTH_RESPONSE, JointInv, Together, PaeAhead,
           ExchangeFlags
  <2>4. QuietInv'
    BY <1>3
       DEF BeResponds, BE_AUTH_RESPONSE, TypeOK, SmType, QuietInv, PaeQuiet,
           BeQuiet, Resting
  <2>5. DeniedInv'
    BY <1>3 DEF BeResponds, BE_AUTH_RESPONSE, DeniedInv, Rejected
  <2>6. QED
    BY <2>1, <2>2, <2>3, <2>4, <2>5
<1>4. CASE BeTimesOut /\ BE_AUTH_TIMEOUT
  <2>1. TypeOK'
    <3>1. be_auth' \in BeType
      BY <1>4 DEF BeTimesOut, BE_AUTH_TIMEOUT, TypeOK, BeType, BeStates
    <3>2. sm' \in SmType
      BY <1>4 DEF BeTimesOut, BE_AUTH_TIMEOUT, TypeOK, SmType
    <3>3. QED
      BY <1>4, <3>1, <3>2 DEF BeTimesOut, BE_AUTH_TIMEOUT, TypeOK
  <2>2. CountsInv' /\ ReplyInv'
    BY <1>4, CountAssumption
       DEF BeTimesOut, BE_AUTH_TIMEOUT, CountsInv, ReplyInv
  <2>3. JointInv'
    BY <1>4
       DEF BeTimesOut, BE_AUTH_TIMEOUT, JointInv, Together, PaeAhead,
           ExchangeFlags
  <2>4. QuietInv'
    BY <1>4
       DEF BeTimesOut, BE_AUTH_TIMEOUT, TypeOK, SmType, JointInv, PaeAhead,
           ExchangeFlags, QuietInv, PaeQuiet, BeQuiet, Resting
  <2>5. DeniedInv'
    BY <1>4 DEF BeTimesOut, BE_AUTH_TIMEOUT, DeniedInv, Rejected
  <2>6. QED
    BY <2>1, <2>2, <2>3, <2>4, <2>5
<1>5. CASE BeFails /\ BE_AUTH_FAIL
  <2>1. TypeOK'
    <3>1. be_auth' \in BeType
      BY <1>5 DEF BeFails, BE_AUTH_FAIL, TypeOK, BeType, BeStates
    <3>2. sm' \in SmType
      BY <1>5 DEF BeFails, BE_AUTH_FAIL, TypeOK, SmType
    <3>3. QED
      BY <1>5, <3>1, <3>2 DEF BeFails, BE_AUTH_FAIL, TypeOK
  <2>2. CountsInv' /\ ReplyInv'
    BY <1>5, CountAssumption DEF BeFails, BE_AUTH_FAIL, CountsInv, ReplyInv
  <2>3. JointInv'
    BY <1>5
       DEF BeFails, BE_AUTH_FAIL, JointInv, Together, PaeAhead, ExchangeFlags
  <2>4. QuietInv'
    BY <1>5
       DEF BeFails, BE_AUTH_FAIL, TypeOK, SmType, JointInv, PaeAhead,
           ExchangeFlags, QuietInv, PaeQuiet, BeQuiet, Resting
  <2>5. DeniedInv'
    BY <1>5 DEF BeFails, BE_AUTH_FAIL, DeniedInv, Rejected
  <2>6. QED
    BY <2>1, <2>2, <2>3, <2>4, <2>5
<1>6. CASE BeSucceeds /\ BE_AUTH_SUCCESS
  <2>1. TypeOK'
    <3>1. be_auth' \in BeType
      BY <1>6 DEF BeSucceeds, BE_AUTH_SUCCESS, TypeOK, BeType, BeStates
    <3>2. sm' \in SmType
      BY <1>6 DEF BeSucceeds, BE_AUTH_SUCCESS, TypeOK, SmType
    <3>3. QED
      BY <1>6, <3>1, <3>2 DEF BeSucceeds, BE_AUTH_SUCCESS, TypeOK
  <2>2. CountsInv' /\ ReplyInv'
    BY <1>6, CountAssumption
       DEF BeSucceeds, BE_AUTH_SUCCESS, CountsInv, ReplyInv
  <2>3. JointInv'
    BY <1>6
       DEF BeSucceeds, BE_AUTH_SUCCESS, JointInv, Together, PaeAhead,
           ExchangeFlags
  <2>4. QuietInv'
    BY <1>6
       DEF BeSucceeds, BE_AUTH_SUCCESS, TypeOK, SmType, JointInv, PaeAhead,
           ExchangeFlags, QuietInv, PaeQuiet, BeQuiet, Resting
  <2>5. DeniedInv'
    BY <1>6 DEF BeSucceeds, BE_AUTH_SUCCESS, DeniedInv, Rejected
  <2>6. QED
    BY <2>1, <2>2, <2>3, <2>4, <2>5
<1>7. CASE BeIdles /\ BE_AUTH_IDLE
  <2>1. TypeOK'
    <3>1. be_auth' \in BeType
      BY <1>7, CounterRanges DEF BeIdles, BE_AUTH_IDLE, TypeOK, BeType, BeStates
    <3>2. sm' \in SmType
      BY <1>7 DEF BeIdles, BE_AUTH_IDLE, TypeOK, SmType
    <3>3. QED
      BY <1>7, <3>1, <3>2 DEF BeIdles, BE_AUTH_IDLE, TypeOK
  <2>2. CountsInv' /\ ReplyInv'
    BY <1>7, CountAssumption DEF BeIdles, BE_AUTH_IDLE, CountsInv, ReplyInv
  <2>3. JointInv'
    BY <1>7 DEF BeIdles, BE_AUTH_IDLE, JointInv, Together, PaeAhead
  <2>4. QuietInv'
    BY <1>7 DEF BeIdles, BE_AUTH_IDLE, QuietInv, PaeQuiet, BeQuiet, Resting
  <2>5. DeniedInv'
    BY <1>7 DEF BeIdles, BE_AUTH_IDLE, DeniedInv, Rejected
  <2>6. QED
    BY <2>1, <2>2, <2>3, <2>4, <2>5
<1>8. CASE BeStays /\ UNCHANGED <<be_auth, sm, sta>>
  <2>1. TypeOK'
    <3>1. QED
      BY <1>8
         DEF BeStays, BeInitializes, BeRequests, BeResponds, BeTimesOut,
             BeFails, BeSucceeds, BeIdles, TypeOK
  <2>2. CountsInv' /\ ReplyInv'
    BY <1>8, CountAssumption
       DEF BeStays, BeInitializes, BeRequests, BeResponds, BeTimesOut, BeFails,
           BeSucceeds, BeIdles, CountsInv, ReplyInv
  <2>3. JointInv'
    BY <1>8
       DEF BeStays, BeInitializes, BeRequests, BeResponds, BeTimesOut, BeFails,
           BeSucceeds, BeIdles, JointInv, Together, PaeAhead, ExchangeFlags
  <2>4. QuietInv'
    BY <1>8
       DEF BeStays, BeInitializes, BeRequests, BeResponds, BeTimesOut, BeFails,
           BeSucceeds, BeIdles, QuietInv, PaeQuiet, BeQuiet, Resting
  <2>5. DeniedInv'
    BY <1>8
       DEF BeStays, BeInitializes, BeRequests, BeResponds, BeTimesOut, BeFails,
           BeSucceeds, BeIdles, DeniedInv, Rejected
  <2>6. QED
    BY <2>1, <2>2, <2>3, <2>4, <2>5
<1>9. QED
  BY <1>1, <1>2, <1>3, <1>4, <1>5, <1>6, <1>7, <1>8

\* A step of the reauthentication timer machine.
LEMMA ReauthKeeps == IInv /\ ReauthStep => IInv'
<1> SUFFICES ASSUME IInv, ReauthStep PROVE IInv'
  OBVIOUS
<1> USE DEF ReauthStep, Continue, IInv
<1>1. CASE ReauthRestarts /\ REAUTH_TIMER_INITIALIZE
  <2>1. TypeOK'
    <3>1. reauth_timer' \in ReauthType
      BY <1>1 DEF ReauthRestarts, REAUTH_TIMER_INITIALIZE, TypeOK, ReauthType
    <3>2. sm' \in SmType
      BY <1>1, TimerRanges
         DEF ReauthRestarts, REAUTH_TIMER_INITIALIZE, TypeOK, SmType, ReauthType
    <3>3. QED
      BY <1>1, <3>1, <3>2 DEF ReauthRestarts, REAUTH_TIMER_INITIALIZE, TypeOK
  <2>2. CountsInv' /\ ReplyInv'
    BY <1>1, CountAssumption
       DEF ReauthRestarts, REAUTH_TIMER_INITIALIZE, CountsInv, ReplyInv
  <2>3. JointInv'
    BY <1>1
       DEF ReauthRestarts, REAUTH_TIMER_INITIALIZE, JointInv, Together,
           ExchangeFlags
  <2>4. QuietInv'
    BY <1>1
       DEF ReauthRestarts, REAUTH_TIMER_INITIALIZE, TypeOK, QuietInv, PaeQuiet,
           BeQuiet, Resting
  <2>5. DeniedInv'
    BY <1>1 DEF ReauthRestarts, REAUTH_TIMER_INITIALIZE, DeniedInv, Rejected
  <2>6. QED
    BY <2>1, <2>2, <2>3, <2>4, <2>5
<1>2. CASE ~ReauthRestarts /\ sm.reAuthWhen = 0 /\ REAUTH_TIMER_REAUTHENTICATE
  <2>1. TypeOK'
    <3>1. reauth_timer' \in ReauthType
      BY <1>2
         DEF ReauthRestarts, REAUTH_TIMER_REAUTHENTICATE, TypeOK, ReauthType
    <3>2. sm' \in SmType
      BY <1>2 DEF ReauthRestarts, REAUTH_TIMER_REAUTHENTICATE, TypeOK, SmType
    <3>3. QED
      BY <1>2, <3>1, <3>2
         DEF ReauthRestarts, REAUTH_TIMER_REAUTHENTICATE, TypeOK
  <2>2. CountsInv' /\ ReplyInv'
    BY <1>2, CountAssumption
       DEF ReauthRestarts, REAUTH_TIMER_REAUTHENTICATE, CountsInv, ReplyInv
  <2>3. JointInv'
    BY <1>2
       DEF ReauthRestarts, REAUTH_TIMER_REAUTHENTICATE, JointInv, Together,
           ExchangeFlags
  <2>4. QuietInv'
    BY <1>2
       DEF ReauthRestarts, REAUTH_TIMER_REAUTHENTICATE, TypeOK, ReauthType,
           QuietInv, PaeQuiet, BeQuiet, Resting
  <2>5. DeniedInv'
    BY <1>2 DEF ReauthRestarts, REAUTH_TIMER_REAUTHENTICATE, DeniedInv, Rejected
  <2>6. QED
    BY <2>1, <2>2, <2>3, <2>4, <2>5
<1>3. CASE ~ReauthRestarts /\ sm.reAuthWhen # 0 /\
     UNCHANGED <<reauth_timer, sm>>
  <2>1. TypeOK'
    <3>1. QED
      BY <1>3 DEF ReauthRestarts, TypeOK
  <2>2. CountsInv' /\ ReplyInv'
    BY <1>3, CountAssumption DEF ReauthRestarts, CountsInv, ReplyInv
  <2>3. JointInv'
    BY <1>3 DEF ReauthRestarts, JointInv, Together, ExchangeFlags
  <2>4. QuietInv'
    BY <1>3
       DEF ReauthRestarts, TypeOK, ReauthType, QuietInv, PaeQuiet, BeQuiet,
           Resting
  <2>5. DeniedInv'
    BY <1>3 DEF ReauthRestarts, DeniedInv, Rejected
  <2>6. QED
    BY <2>1, <2>2, <2>3, <2>4, <2>5
<1>4. QED
  BY <1>1, <1>2, <1>3

\* A step of the key transmit machine.
LEMMA KeyTxKeeps == IInv /\ KeyTxStep => IInv'
<1> SUFFICES ASSUME IInv, KeyTxStep PROVE IInv'
  OBVIOUS
<1> USE DEF KeyTxStep, Continue, IInv
<1>1. CASE KeyStops /\ AUTH_KEY_TX_NO_KEY_TRANSMIT
  <2>1. TypeOK'
    <3>1. QED
      BY <1>1 DEF KeyStops, AUTH_KEY_TX_NO_KEY_TRANSMIT, TypeOK
  <2>2. CountsInv' /\ ReplyInv'
    BY <1>1, CountAssumption
       DEF KeyStops, AUTH_KEY_TX_NO_KEY_TRANSMIT, CountsInv, ReplyInv
  <2>3. JointInv'
    BY <1>1
       DEF KeyStops, AUTH_KEY_TX_NO_KEY_TRANSMIT, JointInv, Together,
           ExchangeFlags
  <2>4. QuietInv'
    BY <1>1
       DEF KeyStops, AUTH_KEY_TX_NO_KEY_TRANSMIT, QuietInv, PaeQuiet, BeQuiet,
           Resting
  <2>5. DeniedInv'
    BY <1>1 DEF KeyStops, AUTH_KEY_TX_NO_KEY_TRANSMIT, DeniedInv, Rejected
  <2>6. QED
    BY <2>1, <2>2, <2>3, <2>4, <2>5
<1>2. CASE KeyTransmits /\ AUTH_KEY_TX_KEY_TRANSMIT
  <2>1. TypeOK'
    <3>1. sm' \in SmType
      BY <1>2 DEF KeyTransmits, AUTH_KEY_TX_KEY_TRANSMIT, TypeOK, SmType
    <3>2. QED
      BY <1>2, <3>1 DEF KeyTransmits, AUTH_KEY_TX_KEY_TRANSMIT, TypeOK
  <2>2. CountsInv' /\ ReplyInv'
    BY <1>2, CountAssumption
       DEF KeyTransmits, AUTH_KEY_TX_KEY_TRANSMIT, CountsInv, ReplyInv
  <2>3. JointInv'
    BY <1>2
       DEF KeyTransmits, AUTH_KEY_TX_KEY_TRANSMIT, JointInv, Together,
           ExchangeFlags
  <2>4. QuietInv'
    BY <1>2
       DEF KeyTransmits, AUTH_KEY_TX_KEY_TRANSMIT, TypeOK, QuietInv, PaeQuiet,
           BeQuiet, Resting
  <2>5. DeniedInv'
    BY <1>2 DEF KeyTransmits, AUTH_KEY_TX_KEY_TRANSMIT, DeniedInv, Rejected
  <2>6. QED
    BY <2>1, <2>2, <2>3, <2>4, <2>5
<1>3. CASE ~KeyStops /\ ~KeyTransmits /\ UNCHANGED <<auth_key_tx, sm>>
  <2>1. TypeOK'
    <3>1. QED
      BY <1>3 DEF KeyStops, TypeOK
  <2>2. CountsInv' /\ ReplyInv'
    BY <1>3, CountAssumption DEF KeyStops, CountsInv, ReplyInv
  <2>3. JointInv'
    BY <1>3 DEF KeyStops, JointInv, Together, ExchangeFlags
  <2>4. QuietInv'
    BY <1>3 DEF KeyStops, QuietInv, PaeQuiet, BeQuiet, Resting
  <2>5. DeniedInv'
    BY <1>3 DEF KeyStops, DeniedInv, Rejected
  <2>6. QED
    BY <2>1, <2>2, <2>3, <2>4, <2>5
<1>4. QED
  BY <1>1, <1>2, <1>3

-----------------------------------------------------------------------------
(* A port that is not there, the end of a pass, and the handlers.          *)

\* The state after eapol_sm_alloc, which is also what Ap_free_sta leaves.
LEMMA FreshTypes ==
  /\ FreshPae \in PaeType /\ FreshBe \in BeType
  /\ FreshReauth \in ReauthType /\ FreshSm \in SmType
  /\ FreshSta \in StaType
<1>1. FreshPae \in PaeType
  BY CounterRanges DEF FreshPae, PaeType, PaeStates
<1>2. SuppTimeout \in UnsignedInts /\ ReAuthPeriod \in UnsignedInts
      /\ 0 \in Ints
  BY TimeAssumption DEF UnsignedInts, Ints
<1>3. FreshBe \in BeType
  BY <1>2, CounterRanges DEF FreshBe, BeType, BeStates
<1>4. FreshReauth \in ReauthType
  BY <1>2 DEF FreshReauth, ReauthType
<1>5. FreshSm \in SmType
  BY <1>2, TimerRanges DEF FreshSm, SmType
<1>6. FreshSta \in StaType
  BY DEF FreshSta, StaType
<1>7. QED
  BY <1>1, <1>3, <1>4, <1>5, <1>6

\* The initial state.
LEMMA InitKeeps == Init => IInv
<1> SUFFICES ASSUME Init PROVE IInv
  OBVIOUS
<1>1. TypeOK
  BY FreshTypes DEF Init, TypeOK
<1>2. CountsInv /\ ReplyInv
  BY CountAssumption
  DEF Init, FreshPae, FreshBe, FreshSta, CountsInv, ReplyInv
<1>3. JointInv /\ QuietInv /\ DeniedInv
  BY DEF Init, FreshPae, FreshBe, FreshReauth, FreshSm, JointInv, Together,
         QuietInv, PaeQuiet, BeQuiet, Resting, DeniedInv
<1>4. QED
  BY <1>1, <1>2, <1>3 DEF IInv

\* Ap_free_sta.
LEMMA FreeKeeps == Free => IInv'
<1> SUFFICES ASSUME Free PROVE IInv'
  OBVIOUS
<1>1. TypeOK'
  BY FreshTypes DEF Free, TypeOK
<1>2. CountsInv' /\ ReplyInv'
  BY CountAssumption
  DEF Free, FreshPae, FreshBe, FreshSta, CountsInv, ReplyInv
<1>3. JointInv' /\ QuietInv' /\ DeniedInv'
  BY DEF Free, FreshPae, FreshBe, FreshReauth, FreshSm, JointInv, Together,
         QuietInv, PaeQuiet, BeQuiet, Resting, DeniedInv
<1>4. QED
  BY <1>1, <1>2, <1>3 DEF IInv

\* The end of a pass: another one, the step the caller asks for, its return,
\* or the end of the station.
LEMMA EndKeeps == IInv /\ EndPass => IInv'
<1> SUFFICES ASSUME IInv, EndPass PROVE IInv'
  OBVIOUS
<1>1. CASE Free
  BY <1>1, FreeKeeps
<1>2. CASE ~Free
  <2>1. /\ UNCHANGED machines /\ UNCHANGED denied
        /\ \/ pc' = "pae" /\ changed' = FALSE /\ then' \in {then, "return"}
           \/ pc' = "idle" /\ ~changed /\ UNCHANGED changed /\ then' = "return"
    BY <1>2 DEF EndPass, BeginStep
  <2>2. TypeOK' /\ CountsInv' /\ ReplyInv'
    BY <2>1 DEF IInv, TypeOK, CountsInv, ReplyInv, machines
  <2>3. JointInv' /\ QuietInv' /\ DeniedInv'
    BY <2>1 DEF EndPass, machines, IInv, JointInv, Together, ExchangeFlags,
                QuietInv, PaeQuiet, BeQuiet, Resting, DeniedInv, Rejected
  <2>4. QED
    BY <2>2, <2>3 DEF IInv
<1>3. QED
  BY <1>1, <1>2


\* A frame of the supplicant or a tick of the timers.
LEMMA SupplicantKeeps == IInv /\ (Supplicant \/ eapol_port_timers_tick) => IInv'
<1> SUFFICES ASSUME IInv, (Supplicant \/ eapol_port_timers_tick) PROVE IInv'
  OBVIOUS
<1> USE DEF BeginStep, IInv
<1>1. CASE EapolStart
  <2>1. TypeOK'
    <3>1. auth_pae' \in PaeType
      BY <1>1 DEF EapolStart, TypeOK, PaeType, PaeStates
    <3>2. QED
      BY <1>1, <3>1 DEF EapolStart, TypeOK
  <2>2. CountsInv' /\ ReplyInv'
    BY <1>1, CountAssumption DEF EapolStart, CountsInv, ReplyInv
  <2>3. JointInv'
    BY <1>1 DEF EapolStart, JointInv, Together, ExchangeFlags
  <2>4. QuietInv'
    BY <1>1 DEF EapolStart, QuietInv, PaeQuiet, BeQuiet, Resting
  <2>5. DeniedInv'
    BY <1>1 DEF EapolStart, DeniedInv, Rejected
  <2>6. QED
    BY <2>1, <2>2, <2>3, <2>4, <2>5
<1>2. CASE EapolLogoff
  <2>1. TypeOK'
    <3>1. auth_pae' \in PaeType
      BY <1>2 DEF EapolLogoff, TypeOK, PaeType, PaeStates
    <3>2. QED
      BY <1>2, <3>1 DEF EapolLogoff, TypeOK
  <2>2. CountsInv' /\ ReplyInv'
    BY <1>2, CountAssumption DEF EapolLogoff, CountsInv, ReplyInv
  <2>3. JointInv'
    BY <1>2 DEF EapolLogoff, JointInv, Together, ExchangeFlags
  <2>4. QuietInv'
    BY <1>2 DEF EapolLogoff, QuietInv, PaeQuiet, BeQuiet, Resting
  <2>5. DeniedInv'
    BY <1>2
       DEF EapolLogoff, JointInv, Together, QuietInv, PaeQuiet, BeQuiet,
           Resting, DeniedInv, Rejected
  <2>6. QED
    BY <2>1, <2>2, <2>3, <2>4, <2>5
<1>3. CASE ResponseIdentity
  <2>1. TypeOK'
    <3>1. auth_pae' \in PaeType
      BY <1>3 DEF ResponseIdentity, TypeOK, PaeType, PaeStates
    <3>2. sta' \in StaType
      BY <1>3 DEF ResponseIdentity, TypeOK, StaType
    <3>3. QED
      BY <1>3, <3>1, <3>2 DEF ResponseIdentity, TypeOK
  <2>2. CountsInv' /\ ReplyInv'
    BY <1>3, CountAssumption DEF ResponseIdentity, CountsInv, ReplyInv
  <2>3. JointInv'
    BY <1>3 DEF ResponseIdentity, JointInv, Together, ExchangeFlags
  <2>4. QuietInv'
    BY <1>3 DEF ResponseIdentity, QuietInv, PaeQuiet, BeQuiet, Resting
  <2>5. DeniedInv'
    BY <1>3 DEF ResponseIdentity, DeniedInv, Rejected
  <2>6. QED
    BY <2>1, <2>2, <2>3, <2>4, <2>5
<1>4. CASE Response
  <2>1. TypeOK'
    <3>1. be_auth' \in BeType
      BY <1>4 DEF Response, TypeOK, BeType, BeStates
    <3>2. sta' \in StaType
      BY <1>4 DEF Response, TypeOK, StaType
    <3>3. QED
      BY <1>4, <3>1, <3>2 DEF Response, TypeOK
  <2>2. CountsInv' /\ ReplyInv'
    BY <1>4, CountAssumption DEF Response, CountsInv, ReplyInv
  <2>3. JointInv'
    BY <1>4 DEF Response, JointInv, Together, ExchangeFlags
  <2>4. QuietInv'
    BY <1>4 DEF Response, QuietInv, PaeQuiet, BeQuiet, Resting
  <2>5. DeniedInv'
    BY <1>4 DEF Response, DeniedInv, Rejected
  <2>6. QED
    BY <2>1, <2>2, <2>3, <2>4, <2>5
<1>5. CASE OtherFrame
  <2>1. TypeOK'
    <3>1. QED
      BY <1>5 DEF OtherFrame, machines, TypeOK
  <2>2. CountsInv' /\ ReplyInv'
    BY <1>5, CountAssumption DEF OtherFrame, machines, CountsInv, ReplyInv
  <2>3. JointInv'
    BY <1>5 DEF OtherFrame, machines, JointInv, Together, ExchangeFlags
  <2>4. QuietInv'
    BY <1>5 DEF OtherFrame, machines, QuietInv, PaeQuiet, BeQuiet, Resting
  <2>5. DeniedInv'
    BY <1>5 DEF OtherFrame, machines, DeniedInv, Rejected
  <2>6. QED
    BY <2>1, <2>2, <2>3, <2>4, <2>5
<1>6. CASE eapol_port_timers_tick
  <2>1. TypeOK'
    <3>1. sm' \in SmType
      BY <1>6, TimerRanges DEF eapol_port_timers_tick, TypeOK, SmType
    <3>2. QED
      BY <1>6, <3>1 DEF eapol_port_timers_tick, TypeOK
  <2>2. CountsInv' /\ ReplyInv'
    BY <1>6, CountAssumption DEF eapol_port_timers_tick, CountsInv, ReplyInv
  <2>3. JointInv'
    BY <1>6 DEF eapol_port_timers_tick, JointInv, Together, ExchangeFlags
  <2>4. QuietInv'
    BY <1>6 DEF eapol_port_timers_tick, QuietInv, PaeQuiet, BeQuiet, Resting
  <2>5. DeniedInv'
    BY <1>6 DEF eapol_port_timers_tick, DeniedInv, Rejected
  <2>6. QED
    BY <2>1, <2>2, <2>3, <2>4, <2>5
<1>7. QED
  BY <1>1, <1>2, <1>3, <1>4, <1>5, <1>6 DEF Supplicant

\* A reply of the server.
LEMMA ServerKeeps == IInv /\ Server => IInv'
<1> SUFFICES ASSUME IInv, Server PROVE IInv'
  OBVIOUS
<1> USE DEF BeginStep, Reply, IInv
<1>1. CASE AccessAccept
  <2>1. TypeOK'
    <3>1. be_auth' \in BeType
      BY <1>1 DEF AccessAccept, TypeOK, BeType, BeStates
    <3>2. sm' \in SmType
      BY <1>1 DEF AccessAccept, TypeOK, SmType
    <3>3. reauth_timer' \in ReauthType
      BY <1>1, TimeAssumption DEF AccessAccept, TypeOK, ReauthType, UnsignedInts
    <3>4. sta' \in StaType
      BY <1>1 DEF AccessAccept, StaType
    <3>5. QED
      BY <1>1, <3>1, <3>2, <3>3, <3>4 DEF AccessAccept, TypeOK
  <2>2. CountsInv' /\ ReplyInv'
    BY <1>1, CountAssumption DEF AccessAccept, CountsInv, ReplyInv
  <2>3. JointInv'
    BY <1>1 DEF AccessAccept, JointInv, Together, ExchangeFlags
  <2>4. QuietInv'
    BY <1>1 DEF AccessAccept, QuietInv, PaeQuiet, BeQuiet, Resting
  <2>5. DeniedInv'
    BY <1>1 DEF AccessAccept, DeniedInv, Rejected
  <2>6. QED
    BY <2>1, <2>2, <2>3, <2>4, <2>5
<1>2. CASE AccessReject
  <2>1. TypeOK'
    <3>1. be_auth' \in BeType
      BY <1>2 DEF AccessReject, TypeOK, BeType, BeStates
    <3>2. sta' \in StaType
      BY <1>2 DEF AccessReject, StaType
    <3>3. QED
      BY <1>2, <3>1, <3>2 DEF AccessReject, TypeOK
  <2>2. CountsInv' /\ ReplyInv'
    BY <1>2, CountAssumption DEF AccessReject, CountsInv, ReplyInv
  <2>3. JointInv'
    BY <1>2 DEF AccessReject, JointInv, Together, ExchangeFlags
  <2>4. QuietInv'
    BY <1>2 DEF AccessReject, QuietInv, PaeQuiet, BeQuiet, Resting
  <2>5. DeniedInv'
    BY <1>2
       DEF AccessReject, TypeOK, JointInv, Together, QuietInv, PaeQuiet,
           BeQuiet, Resting, DeniedInv, Rejected
  <2>6. QED
    BY <2>1, <2>2, <2>3, <2>4, <2>5
<1>3. CASE AccessChallenge
  <2>1. TypeOK'
    <3>1. be_auth' \in BeType
      BY <1>3, TimeAssumption
         DEF AccessChallenge, TypeOK, BeType, BeStates, UnsignedInts
    <3>2. sta' \in StaType
      BY <1>3 DEF AccessChallenge, StaType
    <3>3. QED
      BY <1>3, <3>1, <3>2 DEF AccessChallenge, TypeOK
  <2>2. CountsInv' /\ ReplyInv'
    BY <1>3, CountAssumption DEF AccessChallenge, CountsInv, ReplyInv
  <2>3. JointInv'
    BY <1>3 DEF AccessChallenge, JointInv, Together, ExchangeFlags
  <2>4. QuietInv'
    BY <1>3 DEF AccessChallenge, QuietInv, PaeQuiet, BeQuiet, Resting
  <2>5. DeniedInv'
    BY <1>3 DEF AccessChallenge, DeniedInv, Rejected
  <2>6. QED
    BY <2>1, <2>2, <2>3, <2>4, <2>5
<1>4. QED
  BY <1>1, <1>2, <1>3 DEF Server

-----------------------------------------------------------------------------
(* The invariants.                                                         *)

\* Every step of the daemon for this station.
LEMMA NextKeeps == IInv /\ [Next]_vars => IInv'
<1> SUFFICES ASSUME IInv, [Next]_vars PROVE IInv'
  OBVIOUS
<1>1. CASE eapol_sm_step
  BY <1>1, PaeKeeps, BeKeeps, ReauthKeeps, KeyTxKeeps, EndKeeps
  DEF eapol_sm_step
<1>2. CASE NewStation
  <2>1. TypeOK' /\ CountsInv' /\ ReplyInv'
    BY <1>2 DEF NewStation, machines, IInv, TypeOK, CountsInv, ReplyInv
  <2>2. JointInv' /\ QuietInv' /\ DeniedInv'
    BY <1>2 DEF NewStation, machines, IInv, JointInv, Together, ExchangeFlags,
                QuietInv, PaeQuiet, BeQuiet, Resting, DeniedInv, Rejected
  <2>3. QED
    BY <2>1, <2>2 DEF IInv
<1>3. CASE Disconnect
  BY <1>3, FreeKeeps DEF Disconnect
<1>4. CASE Supplicant \/ eapol_port_timers_tick
  BY <1>4, SupplicantKeeps
<1>5. CASE Server
  BY <1>5, ServerKeeps
<1>6. CASE UNCHANGED vars
  BY <1>6 DEF vars, machines, IInv, TypeOK, CountsInv, ReplyInv,
              JointInv, Together, PaeAhead, ExchangeFlags, QuietInv, PaeQuiet,
              BeQuiet, Resting, DeniedInv, Rejected
<1>7. QED
  BY <1>1, <1>2, <1>3, <1>4, <1>5, <1>6 DEF Next

\* The strengthened invariant holds in every reachable state.
THEOREM LoopInvariant == Spec => []IInv
BY InitKeeps, NextKeeps, PTL DEF Spec

\* Types, and with them the bounds of the counters that BE_AUTH_REQUEST and
\* AUTH_PAE_CONNECTING increment: reqCount stays within maxReq and reAuthCount
\* within reAuthMax + 1.
THEOREM TypeCorrect == Spec => []TypeOK
<1>1. IInv => TypeOK
  BY DEF IInv
<1>2. QED
  BY <1>1, LoopInvariant, PTL

\* When eapol_sm_step has returned, the PAE and the backend machine agree on
\* whether an exchange is running and none is left in a passing state.
THEOREM MachinesSettle == Spec => []MachinesAgree
<1>1. IInv => MachinesAgree
  BY DEF IInv, JointInv, Together, QuietInv, Resting, MachinesAgree
<1>2. QED
  BY <1>1, LoopInvariant, PTL

\* When a handler has returned, a supplicant that logged off or was rejected
\* finds its port unauthorized.
THEOREM DeniedStaysOut == Spec => []DeniedPortClosed
<1>1. IInv => DeniedPortClosed
  BY DEF IInv, TypeOK, SmType, JointInv, Together, QuietInv, Resting, DeniedInv,
         DeniedPortClosed
<1>2. QED
  BY <1>1, LoopInvariant, PTL

-----------------------------------------------------------------------------
(* Action properties and the refinement.                                   *)

\* The port before and after a handler that leaves the machines alone.
LEMMA PortStutters == UNCHANGED machines => UNCHANGED Port!vars
BY DEF machines, Verdict, Port!vars

\* The PAE machine opens the port with the verdict, closes it, gives an
\* exchange up, or does nothing PortControl speaks of.
LEMMA PaePort == IInv /\ PaeStep => [Port!Next]_(Port!vars)
<1> SUFFICES ASSUME IInv, PaeStep PROVE [Port!Next]_(Port!vars)
  OBVIOUS
<1> USE DEF PaeStep, PaeIn, IInv, TypeOK, PaeType, BeType, SmType, StaType,
            JointInv, Together, ExchangeFlags, Verdict
<1>1. CASE PaeDisconnects /\ AUTH_PAE_DISCONNECTED
  BY <1>1 DEF PaeDisconnects, AUTH_PAE_DISCONNECTED, Port!Next, Port!Close
<1>2. CASE PaeConnects /\ AUTH_PAE_CONNECTING
  BY <1>2 DEF PaeConnects, AUTH_PAE_CONNECTING, Port!vars
<1>3. CASE PaeAuthenticates /\ AUTH_PAE_AUTHENTICATING
  BY <1>3 DEF PaeAuthenticates, AUTH_PAE_AUTHENTICATING, Port!vars
<1>4. CASE PaeSucceeds /\ AUTH_PAE_AUTHENTICATED
  BY <1>4 DEF PaeSucceeds, AUTH_PAE_AUTHENTICATED, Port!Next, Port!Open
<1>5. CASE PaeHolds /\ AUTH_PAE_HELD
  BY <1>5 DEF PaeHolds, AUTH_PAE_HELD, Port!Next, Port!Close
<1>6. CASE PaeAborts /\ AUTH_PAE_ABORTING
  BY <1>6 DEF PaeAborts, AUTH_PAE_ABORTING, Port!Next, Port!Abandon
<1>7. CASE PaeStays /\ UNCHANGED <<auth_pae, sm, sta, denied>>
  BY <1>7, PortStutters DEF machines
<1>8. QED
  BY <1>1, <1>2, <1>3, <1>4, <1>5, <1>6, <1>7

\* The backend machine asks the server, or gives the question or the verdict
\* up, unless it passes an Accept on to the PAE.
LEMMA BePort == IInv /\ BeStep => [Port!Next]_(Port!vars)
<1> SUFFICES ASSUME IInv, BeStep PROVE [Port!Next]_(Port!vars)
  OBVIOUS
<1> USE DEF BeStep, BeIn, IInv, TypeOK, PaeType, BeType, SmType, StaType,
            JointInv, PaeAhead, ExchangeFlags, ReplyInv, Verdict
<1>1. CASE BeInitializes /\ BE_AUTH_INITIALIZE
  BY <1>1 DEF BeInitializes, BE_AUTH_INITIALIZE, Port!vars
<1>2. CASE BeRequests /\ BE_AUTH_REQUEST
  BY <1>2 DEF BeRequests, BE_AUTH_REQUEST, Port!Next, Port!Abandon
<1>3. CASE BeResponds /\ BE_AUTH_RESPONSE
  BY <1>3 DEF BeResponds, BE_AUTH_RESPONSE, Port!Next, Port!Ask
<1>4. CASE BeTimesOut /\ BE_AUTH_TIMEOUT
  BY <1>4 DEF BeTimesOut, BE_AUTH_TIMEOUT, Port!Next, Port!Abandon
<1>5. CASE BeFails /\ BE_AUTH_FAIL
  BY <1>5 DEF BeFails, BE_AUTH_FAIL, Port!Next, Port!Abandon
<1>6. CASE BeSucceeds /\ BE_AUTH_SUCCESS
  BY <1>6 DEF BeSucceeds, BE_AUTH_SUCCESS, Port!vars
<1>7. CASE BeIdles /\ BE_AUTH_IDLE
  BY <1>7 DEF BeIdles, BE_AUTH_IDLE, Port!vars
<1>8. CASE BeStays /\ UNCHANGED <<be_auth, sm, sta>>
  BY <1>8, PortStutters DEF machines
<1>9. QED
  BY <1>1, <1>2, <1>3, <1>4, <1>5, <1>6, <1>7, <1>8

\* The other two machines and the end of a pass do not touch the verdict;
\* Ap_free_sta closes the port.
LEMMA LoopPort ==
  IInv /\ (ReauthStep \/ KeyTxStep \/ EndPass \/ Disconnect \/ NewStation)
    => [Port!Next]_(Port!vars)
<1> SUFFICES ASSUME IInv,
                    ReauthStep \/ KeyTxStep \/ EndPass \/ Disconnect \/
                         NewStation
             PROVE  [Port!Next]_(Port!vars)
  OBVIOUS
<1>1. CASE ReauthStep
  BY <1>1 DEF ReauthStep, REAUTH_TIMER_INITIALIZE, REAUTH_TIMER_REAUTHENTICATE,
              IInv, TypeOK, SmType, Verdict, Port!vars
<1>2. CASE KeyTxStep
  BY <1>2 DEF KeyTxStep, AUTH_KEY_TX_KEY_TRANSMIT, AUTH_KEY_TX_NO_KEY_TRANSMIT,
              IInv, TypeOK, SmType, Verdict, Port!vars
<1>3. CASE Free
  BY <1>3 DEF Free, FreshPae, FreshBe, FreshSm, FreshSta, Verdict,
              Port!Next, Port!Close
<1>4. CASE EndPass
  BY <1>3, <1>4, PortStutters DEF EndPass
<1>5. CASE Disconnect \/ NewStation
  BY <1>3, <1>5, PortStutters DEF Disconnect, NewStation
<1>6. QED
  BY <1>1, <1>2, <1>4, <1>5

\* A frame or a tick sets flags and timers that the verdict does not depend on.
LEMMA SupplicantPort ==
  IInv /\ (Supplicant \/ eapol_port_timers_tick) => UNCHANGED Port!vars
<1> SUFFICES ASSUME IInv, Supplicant \/ eapol_port_timers_tick
             PROVE  UNCHANGED Port!vars
  OBVIOUS
<1> USE DEF IInv, TypeOK, PaeType, BeType, SmType, StaType, Verdict, Port!vars
<1>1. CASE EapolStart \/ EapolLogoff
  BY <1>1 DEF EapolStart, EapolLogoff
<1>2. CASE ResponseIdentity \/ Response
  BY <1>2 DEF ResponseIdentity, Response
<1>3. CASE OtherFrame
  BY <1>3, PortStutters DEF OtherFrame
<1>4. CASE eapol_port_timers_tick
  BY <1>4 DEF eapol_port_timers_tick
<1>5. QED
  BY <1>1, <1>2, <1>3, <1>4 DEF Supplicant

\* A reply is the verdict of the server if the exchange still waits for it, and
\* is otherwise dropped.
LEMMA ServerPort == IInv /\ Server => Port!Next
<1> SUFFICES ASSUME IInv, Server PROVE Port!Next
  OBVIOUS
<1> USE DEF Reply, IInv, TypeOK, PaeType, BeType, SmType, StaType, JointInv,
            Together, ExchangeFlags, QuietInv, BeQuiet, Resting, Verdict
<1>1. CASE AccessAccept /\ be_auth.state = "RESPONSE"
  BY <1>1 DEF AccessAccept, Port!Next, Port!Accept
<1>2. CASE AccessAccept /\ be_auth.state # "RESPONSE"
  BY <1>2 DEF AccessAccept, Port!Next, Port!Discard
<1>3. CASE AccessReject
  BY <1>3 DEF AccessReject, Port!Next, Port!Discard
<1>4. CASE AccessChallenge
  BY <1>4 DEF AccessChallenge, Port!Next, Port!Discard
<1>5. QED
  BY <1>1, <1>2, <1>3, <1>4 DEF Server

\* The four machines with their handlers implement PortControl: whatever the
\* order of frames, ticks and replies, the port opens only on an Accept that
\* answers the request of the exchange in progress.
THEOREM PortImplemented == Spec => PortOpensOnVerdict
<1>1. Init => Port!Init
  BY DEF Init, FreshPae, FreshBe, FreshSm, FreshSta, Verdict, Port!Init
<1>2. IInv /\ [Next]_vars => [Port!Next]_(Port!vars)
  <2> SUFFICES ASSUME IInv, [Next]_vars PROVE [Port!Next]_(Port!vars)
    OBVIOUS
  <2>1. CASE eapol_sm_step
    BY <2>1, PaePort, BePort, LoopPort DEF eapol_sm_step
  <2>2. CASE NewStation \/ Disconnect
    BY <2>2, LoopPort
  <2>3. CASE Supplicant \/ eapol_port_timers_tick
    BY <2>3, SupplicantPort
  <2>4. CASE Server
    BY <2>4, ServerPort
  <2>5. CASE UNCHANGED vars
    BY <2>5, PortStutters DEF vars, machines
  <2>6. QED
    BY <2>1, <2>2, <2>3, <2>4, <2>5 DEF Next
<1>3. QED
  BY <1>1, <1>2, LoopInvariant, PTL DEF Spec, PortOpensOnVerdict, Port!Spec


=============================================================================
