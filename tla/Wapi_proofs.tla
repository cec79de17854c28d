----------------------------- MODULE Wapi_proofs -----------------------------
(***************************************************************************)
(* The key negotiation of wapid, for any number of associations, updates,  *)
(* losses and retries.                                                     *)
(*                                                                         *)
(* Types: TypeInv is inductive.  A random number is one that nothing uses, *)
(* of which there is always one, as what is in use is finite.              *)
(*                                                                         *)
(* Keys: both drivers end with the same key.  The argument follows the     *)
(* right to complete the handshake.  A first request is on its way only    *)
(* while the AE waits for the answer (Offers).  A response that the AE     *)
(* takes was made with the challenges it carries; there is one at most, it *)
(* carries the key of the ASUE's entry, and if its challenge is still that *)
(* of the entry, the key is the one the ASUE's driver has (InResponse).    *)
(* The confirmation it makes counts only while the ASUE's challenge is the *)
(* one it answers, and then both drivers have the key (InConfirm); once    *)
(* the ASUE is done they have it still (Used).  A response that is sent    *)
(* again has a new challenge under the key of the old one: it is neither   *)
(* accepted nor confirmed.  If the AE answers a request of the ASUE's own, *)
(* it waits for a confirmation that nobody sends until the link is lost    *)
(* (Live).                                                                 *)
(*                                                                         *)
(* Group ids: once both are done, the station has the multicast key the AE *)
(* last sent.  As long as nothing is lost, the last notify is in the       *)
(* socket of the station, behind the confirmation it waits for and under   *)
(* its key (NothingLost).  With one update the indices only rise, so that  *)
(* a late response to an earlier notify is refused (Rising).               *)
(*                                                                         *)
(* The handlers are first described by what they leave (the lemmas         *)
(* ...Does); the lemmas on values then say what each does to Handshake,    *)
(* and PointStep and StationStep put them together.  Away says what is     *)
(* left of an association for the next one to start with.                  *)
(***************************************************************************)
EXTENDS Wapi, FiniteSetTheorems, SequenceTheorems, WellFoundedInduction, TLAPS

Challenges == Seq(Nat)
States == {"UCAST_KEY_IDLE", "WAIT_UCAST_RESP", "WAIT_UCAST_CFM",
           "UCAST_KEY_DONE", "WAIT_MCAST_RESP", "MCAST_KEY_DONE"}
DriverTypes == {"", "KEY_HS_START", "UPDATE_USK", "UPDATE_MSK", "DELETE"}

EntType == [Valid : BOOLEAN, WaiKeyState : States, PortSecured : BOOLEAN,
            USKID : 0 .. 1, ANONCE : Challenges, SNONCE : Challenges,
            PTK : Challenges, retry_cnt : 0 .. 255]

FrameType == [type : PeerTypes \cup DriverTypes, flag : BOOLEAN,
              uskid : 0 .. 1, mskid : 0 .. 1, msk : Nat, an : Challenges,
              sn : Challenges, mic : Challenges]

KeyType == [id : 0 .. 1, ptk : Challenges]

SpentType == [assocs : Nat, usks : Nat, msks : Nat, losses : Nat]

\* What the handlers change has its type,
HandlerTypes ==
    /\ ent \in [Ends -> EntType]
    /\ timer \in [Ends -> Nat]
    /\ mskid \in [Ends -> 0 .. 1]
    /\ inbox \in [Ends -> Seq(FrameType)]
    /\ key \in [Ends -> KeyType]
    /\ msk \in [Ends -> Nat]

\* and so has every variable.
TypeInv ==
    /\ HandlerTypes
    /\ trigger \in [Ends -> BOOLEAN]
    /\ link \in BOOLEAN
    /\ spent \in SpentType

-----------------------------------------------------------------------------
(* Sequences.                                                              *)

\* The elements of a sequence.
LEMMA ToSetRange ==
    ASSUME NEW T, NEW s \in Seq(T)
    PROVE  /\ ToSet(s) = {s[i] : i \in DOMAIN s}
           /\ ToSet(s) \subseteq T
           /\ DOMAIN s = 1 .. Len(s)
<1>1. DOMAIN s = 1 .. Len(s)
  OBVIOUS
<1>2. QED
  BY <1>1 DEF ToSet

\* What a function makes of a finite set is finite.
LEMMA ImageFinite ==
    ASSUME NEW g, IsFiniteSet(DOMAIN g)
    PROVE  IsFiniteSet({g[x] : x \in DOMAIN g})
<1> DEFINE T == {g[x] : x \in DOMAIN g}
           h == [x \in DOMAIN g |-> g[x]]
<1>1. h \in [DOMAIN g -> T]
  OBVIOUS
<1>2. \A t \in T : \E x \in DOMAIN g : h[x] = t
  OBVIOUS
<1>3. h \in Surjection(DOMAIN g, T)
  BY <1>1, <1>2 DEF Surjection
<1>4. QED
  BY <1>3, FS_Surjection

LEMMA ToSetFinite ==
    ASSUME NEW T, NEW s \in Seq(T)
    PROVE  IsFiniteSet(ToSet(s))
<1>1. IsFiniteSet(DOMAIN s)
  BY ToSetRange, FS_Interval
<1>2. QED
  BY <1>1, ImageFinite, ToSetRange

\* A challenge and the numbers in it.
LEMMA ChallengeNumbers ==
    ASSUME NEW q \in Challenges
    PROVE  /\ IsFiniteSet(ToSet(q))
           /\ ToSet(q) \subseteq Nat
  BY ToSetFinite, ToSetRange DEF Challenges

-----------------------------------------------------------------------------
(* The random numbers.                                                     *)

\* The challenges and keys that an end holds and those on the way to it.
Held(p) == {ent[p].ANONCE, ent[p].SNONCE, ent[p].PTK, key[p].ptk}
Sent(p) == UNION {{f.an, f.sn, f.mic} : f \in ToSet(inbox[p])}
Strings == UNION {Held(p) \cup Sent(p) : p \in Ends}

\* The numbers of the frames of one inbox are finitely many.
LEMMA SentFinite ==
    ASSUME NEW s \in Seq(FrameType)
    PROVE  IsFiniteSet(UNION {ToSet(f.an) \cup ToSet(f.sn) \cup ToSet(f.mic) :
                                  f \in ToSet(s)})
<1> DEFINE F == ToSet(s)
           g == [f \in F |-> ToSet(f.an) \cup ToSet(f.sn) \cup ToSet(f.mic)]
<1>1. F \subseteq FrameType /\ IsFiniteSet(F)
  BY ToSetRange, ToSetFinite
<1> HIDE DEF F
<1>2. \A f \in F : IsFiniteSet(g[f])
  <2> TAKE f \in F
  <2>1. f.an \in Challenges /\ f.sn \in Challenges /\ f.mic \in Challenges
    BY <1>1 DEF FrameType
  <2>2. IsFiniteSet(ToSet(f.an) \cup ToSet(f.sn) \cup ToSet(f.mic))
    BY <2>1, ChallengeNumbers, FS_Union
  <2>3. QED
    BY <2>2
<1>3. DOMAIN g = F
  OBVIOUS
<1>4. IsFiniteSet({g[f] : f \in F})
  <2> HIDE DEF g
  <2>1. QED
    BY <1>1, <1>3, ImageFinite
<1>5. \A T \in {g[f] : f \in F} : IsFiniteSet(T)
  <2> HIDE DEF g
  <2>1. QED
    BY <1>2
<1>6. IsFiniteSet(UNION {g[f] : f \in F})
  <2> HIDE DEF g
  <2>1. QED
    BY <1>4, <1>5, FS_UNION
<1>7. {g[f] : f \in F} = {ToSet(f.an) \cup ToSet(f.sn) \cup ToSet(f.mic) :
     f \in F}
  OBVIOUS
<1>8. QED
  BY <1>6, <1>7 DEF F

\* The numbers in use are those of the strings in use.
LEMMA InUseStrings == InUse = UNION {ToSet(q) : q \in Strings}
<1> DEFINE nonces ==
     UNION {{ent[p].ANONCE, ent[p].SNONCE, ent[p].PTK, key[p].ptk} :
                                p \in Ends}
           sent == UNION {UNION {{f.an, f.sn, f.mic} : f \in ToSet(inbox[p])} :
                              p \in Ends}
<1>1. Strings = nonces \cup sent
  BY DEF Strings, Held, Sent
<1>2. InUse = UNION {ToSet(q) : q \in nonces \cup sent}
  BY DEF InUse
<1>3. QED
  BY <1>1, <1>2

LEMMA InUseFinite ==
    ASSUME TypeInv
    PROVE  IsFiniteSet(InUse) /\ InUse \subseteq Nat
<1> DEFINE N(p) == ToSet(ent[p].ANONCE) \cup ToSet(ent[p].SNONCE)
                       \cup ToSet(ent[p].PTK) \cup ToSet(key[p].ptk)
           F(p) == UNION {ToSet(f.an) \cup ToSet(f.sn) \cup ToSet(f.mic) :
                              f \in ToSet(inbox[p])}
<1>1. ASSUME NEW p \in Ends
      PROVE  IsFiniteSet(N(p)) /\ N(p) \subseteq Nat
  <2>1. /\ ent[p].ANONCE \in Challenges /\ ent[p].SNONCE \in Challenges
        /\ ent[p].PTK \in Challenges /\ key[p].ptk \in Challenges
    BY DEF TypeInv, HandlerTypes, EntType, KeyType
  <2>2. QED
    BY <2>1, ChallengeNumbers, FS_Union
<1>2. ASSUME NEW p \in Ends
      PROVE  IsFiniteSet(F(p)) /\ F(p) \subseteq Nat
  <2>1. inbox[p] \in Seq(FrameType)
    BY DEF TypeInv, HandlerTypes
  <2>2. IsFiniteSet(F(p))
    BY <2>1, SentFinite
  <2>3. ToSet(inbox[p]) \subseteq FrameType
    BY <2>1, ToSetRange
  <2>4. \A f \in FrameType : /\ f.an \in Challenges /\ f.sn \in Challenges
                             /\ f.mic \in Challenges
    BY DEF FrameType
  <2>5. QED
    BY <2>2, <2>3, <2>4, ChallengeNumbers
<1>3. ASSUME NEW x \in InUse
      PROVE  \E p \in Ends : x \in N(p) \/ x \in F(p)
  <2>1. PICK q \in Strings : x \in ToSet(q)
    BY InUseStrings
  <2>2. PICK p \in Ends : q \in Held(p) \/ q \in Sent(p)
    BY DEF Strings
  <2>3. CASE q \in Held(p)
    BY <2>1, <2>3 DEF Held
  <2>4. CASE q \in Sent(p)
    <3>1. PICK f \in ToSet(inbox[p]) : q \in {f.an, f.sn, f.mic}
      BY <2>4 DEF Sent
    <3>2. x \in F(p)
      BY <2>1, <3>1
    <3>3. QED
      BY <3>2
  <2>5. QED
    BY <2>2, <2>3, <2>4
<1> DEFINE All == N("AE") \cup N("ASUE") \cup F("AE") \cup F("ASUE")
<1>4. IsFiniteSet(All) /\ All \subseteq Nat
  <2> HIDE DEF N, F
  <2>1. QED
    BY <1>1, <1>2, FS_Union DEF Ends
<1>5. InUse \subseteq All
  <2> HIDE DEF N, F
  <2>1. QED
    BY <1>3 DEF Ends
<1>6. QED
  BY <1>4, <1>5, FS_Subset

\* os_get_random gives a number that is in no string in use.
LEMMA RandomIsNew ==
    ASSUME TypeInv
    PROVE  \E n \in Nat \ InUse : os_get_random = <<n>>
<1> DEFINE C == Cardinality(InUse)
           M == {n \in 1 .. C + 1 : n \notin InUse}
           P(n) == n \notin InUse /\ \A m \in 1 .. n - 1 : m \in InUse
<1>1. IsFiniteSet(InUse) /\ C \in Nat
  BY InUseFinite, FS_CardinalityType
<1>2. M # {}
  <2> SUFFICES ASSUME 1 .. C + 1 \subseteq InUse PROVE FALSE
    OBVIOUS
  <2>1. Cardinality(1 .. C + 1) <= C
    BY <1>1, FS_Subset
  <2>2. Cardinality(1 .. C + 1) = C + 1
    <3> HIDE DEF C
    <3>1. QED
      BY <1>1, FS_Interval
  <2>3. QED
    BY <1>1, <2>1, <2>2
<1>3. PICK n \in M : \A m \in M : n <= m
  <2> HIDE DEF C
  <2>1. M \subseteq Nat
    BY <1>1
  <2> DEFINE R == OpToRel(<, Nat)
  <2>2. IsWellFoundedOn(R, Nat)
    BY NatLessThanWellFounded
  <2>3. R = {ss \in Nat \X Nat : ss[1] < ss[2]}
    BY Zenon DEF OpToRel
  <2>4. \A x, y \in Nat : x < y => <<x, y>> \in R
    BY <2>3
  <2> HIDE DEF R, M
  <2>5. PICK n \in M : \A m \in M : ~(<<m, n>> \in R)
    BY <1>2, <2>1, <2>2, WFMin
  <2>6. \A m \in M : n <= m
    <3> TAKE m \in M
    <3>1. m \in Nat /\ n \in Nat
      BY <2>1
    <3>2. ~(m < n)
      BY <3>1, <2>4, <2>5
    <3>3. QED
      BY <3>1, <3>2
  <2>7. QED
    BY <2>6
<1>4. n \in 1 .. C + 1 /\ P(n)
  <2>1. n \in 1 .. C + 1 /\ n \notin InUse
    BY <1>3
  <2>2. ASSUME NEW m \in 1 .. n - 1, m \notin InUse PROVE FALSE
    <3>1. m \in 1 .. C + 1 /\ m < n
      BY <1>1, <2>1
    <3>2. QED
      BY <1>1, <1>3, <2>1, <2>2, <3>1
  <2>3. QED
    BY <2>1, <2>2
<1> DEFINE r == CHOOSE k \in 1 .. C + 1 : P(k)
<1>5. r \in 1 .. C + 1 /\ P(r)
  <2> HIDE DEF P, C
  <2>1. QED
    BY <1>4
<1>6. os_get_random = <<r>>
  BY DEF os_get_random
<1>7. r \in Nat \ InUse
  BY <1>1, <1>5
<1>8. QED
  BY <1>6, <1>7

\* r is neither q nor the second half of q.
Apart(r, q) == q # r /\ \A an \in Challenges : CalculatePairWiseKey(an, r) # q

\* A random number is one number that no string in use has.
LEMMA RandomApart ==
    ASSUME TypeInv
    PROVE  /\ os_get_random \in Challenges
           /\ Len(os_get_random) = 1
           /\ \A q \in Strings : Apart(os_get_random, q)
<1>1. PICK n \in Nat \ InUse : os_get_random = <<n>>
  BY RandomIsNew
<1>2. os_get_random \in Challenges /\ Len(os_get_random) = 1
  BY <1>1 DEF Challenges
<1>3. ASSUME NEW q \in Strings PROVE n \notin ToSet(q)
  BY InUseStrings
<1>4. n \in ToSet(<<n>>)
  <2>1. 1 \in DOMAIN <<n>> /\ <<n>>[1] = n
    OBVIOUS
  <2>2. QED
    BY <2>1 DEF ToSet
<1>5. ASSUME NEW an \in Challenges PROVE n \in ToSet(an \o <<n>>)
  <2>1. an \in Seq(Nat) /\ <<n>> \in Seq(Nat)
    BY <1>1 DEF Challenges
  <2>2. /\ an \o <<n>> \in Seq(Nat) /\ Len(an \o <<n>>) = Len(an) + 1
        /\ (an \o <<n>>)[Len(an) + 1] = n
    BY <2>1
  <2>3. Len(an) + 1 \in DOMAIN (an \o <<n>>)
    BY <2>1, <2>2, ToSetRange
  <2>4. QED
    BY <2>2, <2>3 DEF ToSet
<1>6. QED
  BY <1>1, <1>2, <1>3, <1>4, <1>5 DEF Apart, CalculatePairWiseKey

\* What an end holds is in use,
LEMMA HeldInUse ==
    ASSUME NEW p \in Ends
    PROVE  /\ ent[p].ANONCE \in Strings /\ ent[p].SNONCE \in Strings
           /\ ent[p].PTK \in Strings /\ key[p].ptk \in Strings
  BY DEF Strings, Held

\* and so is what is on its way.
LEMMA SentInUse ==
    ASSUME NEW p \in Ends, NEW m \in ToSet(inbox[p])
    PROVE  m.an \in Strings /\ m.sn \in Strings /\ m.mic \in Strings
<1>1. m.an \in Sent(p) /\ m.sn \in Sent(p) /\ m.mic \in Sent(p)
  BY DEF Sent
<1>2. QED
  BY <1>1 DEF Strings

-----------------------------------------------------------------------------
(* Types.                                                                  *)

\* What the handlers store is in range.
LEMMA Ranges ==
    /\ {"WAIT_UCAST_RESP", "WAIT_UCAST_CFM", "UCAST_KEY_DONE",
        "WAIT_MCAST_RESP", "MCAST_KEY_DONE"} \subseteq States
    /\ {UCAST_IDLE_CTR, UCAST_WAIT_RESP_CTR, UCAST_WAIT_CFM_CTR, UCAST_DONE_CTR,
        MCAST_WAIT_RESP_CTR} \subseteq 0 .. 255
  BY DEF States, UCAST_IDLE_CTR, UCAST_WAIT_RESP_CTR, UCAST_WAIT_CFM_CTR,
         UCAST_DONE_CTR, MCAST_WAIT_RESP_CTR

LEMMA EndsAre ==
     Ends = {"AE", "ASUE"} /\ Peer("AE") = "ASUE" /\ Peer("ASUE") = "AE"
  BY DEF Ends, Peer

\* What a handler leaves has its type.
LEMMA DoneTypes ==
    ASSUME TypeInv, NEW p \in Ends, NEW e \in EntType, NEW t \in Nat,
           NEW rest \in Seq(FrameType), NEW out \in Seq(FrameType),
           Done(p, e, t, rest, out)
    PROVE  /\ ent' \in [Ends -> EntType]
           /\ timer' \in [Ends -> Nat]
           /\ inbox' \in [Ends -> Seq(FrameType)]
<1>1. Peer(p) \in Ends /\ Peer(p) # p
  BY DEF Ends, Peer
<1>2. inbox \in [Ends -> Seq(FrameType)]
  BY DEF TypeInv, HandlerTypes
<1>3. inbox[Peer(p)] \o (IF link THEN out ELSE <<>>) \in Seq(FrameType)
  <2>1. inbox[Peer(p)] \in Seq(FrameType)
    BY <1>1, <1>2
  <2>2. (IF link THEN out ELSE <<>>) \in Seq(FrameType)
    OBVIOUS
  <2>3. QED
    BY <2>1, <2>2, ConcatProperties
<1>4. inbox' = [inbox EXCEPT ![p] = rest,
                             ![Peer(p)] = inbox[Peer(p)] \o (IF link THEN
                                  out ELSE <<>>)]
  BY <1>1, <1>2 DEF Done, wapi_handle_l2_send
<1>5. inbox' \in [Ends -> Seq(FrameType)]
  BY <1>1, <1>2, <1>3, <1>4
<1>6. QED
  BY <1>5 DEF Done, TypeInv, HandlerTypes

\* The state and the frame at the start of a handler.
Called(p, e, t, rest) ==
    /\ p \in Ends
    /\ e \in EntType
    /\ t \in Nat
    /\ rest \in Seq(FrameType)

LEMMA ReturnTypes ==
    ASSUME TypeInv, NEW p, NEW e, NEW t, NEW rest, Called(p, e, t, rest),
           Return(p, e, t, rest)
    PROVE  HandlerTypes'
<1>1. <<>> \in Seq(FrameType)
  OBVIOUS
<1>2. QED
  BY <1>1, DoneTypes DEF Return, Called, TypeInv, HandlerTypes

\* The fields of the frame that others are made from.
LEMMA FrameFields == <<>> \in Challenges /\ Frame \in FrameType
<1>1. <<>> \in Challenges
  BY DEF Challenges
<1>2. QED
  BY <1>1 DEF Frame, FrameType, DriverTypes

\* What a request for a handshake leaves: the entry new and the frame f.
Requested(e, new, f) ==
    /\ new.WaiKeyState = "WAIT_UCAST_RESP" /\ new.PortSecured = e.PortSecured
    /\ new.USKID = e.USKID /\ new.PTK = e.PTK
    /\ new.ANONCE = IF e.PortSecured THEN e.PTK ELSE os_get_random
    /\ f.type = "REQ" /\ f.flag = e.PortSecured /\ f.an = new.ANONCE

LEMMA MlmeReqDoes ==
    ASSUME TypeInv, NEW p, NEW e, NEW t, NEW rest, Called(p, e, t, rest),
           WaiMlmeUcastKeyReqAction(p, e, t, rest)
    PROVE  \E new \in EntType, f \in FrameType :
               /\ Done(p, new, t + 1, rest, <<f>>)
               /\ UNCHANGED <<mskid, key, msk>>
               /\ Requested(e, new, f)
<1> DEFINE id == IF e.PortSecured THEN Rotated(e.USKID) ELSE e.USKID
           an == IF e.PortSecured THEN e.PTK ELSE os_get_random
           r == IF e.retry_cnt = UCAST_IDLE_CTR THEN UCAST_WAIT_RESP_CTR
                                                ELSE e.retry_cnt
           new == [e EXCEPT !.ANONCE = an,
                            !.WaiKeyState = "WAIT_UCAST_RESP",
                            !.retry_cnt = r]
           m == [Frame EXCEPT !.type = "REQ", !.flag = e.PortSecured,
                              !.uskid = id, !.an = an]
<1>1. id \in 0 .. 1 /\ an \in Challenges /\ r \in 0 .. 255
  BY RandomApart DEF Called, EntType, Rotated, UCAST_WAIT_RESP_CTR
<1>2. Done(p, new, t + 1, rest, <<m>>) /\ UNCHANGED <<mskid, key, msk>>
  BY DEF WaiMlmeUcastKeyReqAction
<1>3. an = IF e.PortSecured THEN e.PTK ELSE os_get_random
  OBVIOUS
<1> HIDE DEF id, an, r
<1>4. e.PortSecured \in BOOLEAN /\ e \in EntType
  BY DEF Called, EntType
<1>5. new \in EntType
  BY <1>1, <1>4 DEF EntType, States
<1>6. m \in FrameType
  BY <1>1, <1>4, FrameFields DEF FrameType, PeerTypes
<1>7. Requested(e, new, m)
  BY <1>3, <1>4, FrameFields DEF Requested, EntType, FrameType
<1> HIDE DEF new, m
<1>8. QED
  BY <1>2, <1>5, <1>6, <1>7

LEMMA MlmeReqTypes ==
    ASSUME TypeInv, NEW p, NEW e, NEW t, NEW rest, Called(p, e, t, rest),
           WaiMlmeUcastKeyReqAction(p, e, t, rest)
    PROVE  HandlerTypes'
<1>1. PICK new \in EntType, f \in FrameType :
          Done(p, new, t + 1, rest, <<f>>) /\ UNCHANGED <<mskid, key, msk>>
  BY MlmeReqDoes
<1>2. <<f>> \in Seq(FrameType) /\ t + 1 \in Nat
  BY DEF Called
<1>3. QED
  BY <1>1, <1>2, DoneTypes DEF Called, TypeInv, HandlerTypes

\* A pairwise key is longer by one challenge than the other.
LEMMA PairWiseKey ==
    ASSUME NEW an \in Challenges, NEW sn \in Challenges
    PROVE  /\ CalculatePairWiseKey(an, sn) \in Challenges
           /\ Len(CalculatePairWiseKey(an, sn)) = Len(an) + Len(sn)
  BY ConcatProperties DEF CalculatePairWiseKey, Challenges

\* The driver is given a key of the right type.
LEMMA KeyTypes ==
    ASSUME TypeInv, NEW p \in Ends, NEW e \in EntType,
           wapi_set_ucast_key_proc(p, e)
    PROVE  key' \in [Ends -> KeyType]
<1>1. [id |-> e.USKID, ptk |-> e.PTK] \in KeyType
  BY DEF EntType, KeyType
<1>2. QED
  BY <1>1 DEF wapi_set_ucast_key_proc, TypeInv, HandlerTypes

\* What an accepted request leaves.
Responded(e, m, new, f) ==
    /\ new.WaiKeyState = "WAIT_UCAST_CFM" /\ new.PortSecured = e.PortSecured
    /\ new.USKID = IF m.flag THEN m.uskid ELSE e.USKID
    /\ new.SNONCE = os_get_random
    /\ new.PTK = CalculatePairWiseKey(m.an, os_get_random)
    /\ new.retry_cnt = UCAST_WAIT_CFM_CTR
    /\ f.type = "RESP" /\ f.flag = m.flag /\ f.uskid = new.USKID
    /\ f.sn = os_get_random /\ f.an = m.an /\ f.mic = new.PTK

LEMMA PeerReqDoes ==
    ASSUME TypeInv, NEW p, NEW e, NEW t, NEW rest, Called(p, e, t, rest),
           NEW m \in FrameType, WaiPeerUcastKeyReqAction(p, e, t, rest, m)
    PROVE  \/ Return(p, e, t, rest)
           \/ \E new \in EntType, f \in FrameType :
                  /\ Done(p, new, 1, rest, <<f>>)
                  /\ wapi_set_ucast_key_proc(p, new)
                  /\ UNCHANGED <<mskid, msk>>
                  /\ Responded(e, m, new, f)
<1> DEFINE sn == os_get_random
           id == IF m.flag THEN m.uskid ELSE e.USKID
           ptk == CalculatePairWiseKey(m.an, sn)
           new == [e EXCEPT !.USKID = id, !.ANONCE = m.an, !.SNONCE = sn,
                            !.PTK = ptk, !.WaiKeyState = "WAIT_UCAST_CFM",
                            !.retry_cnt = UCAST_WAIT_CFM_CTR]
           f == [Frame EXCEPT !.type = "RESP", !.flag = m.flag,
                              !.uskid = new.USKID, !.sn = sn, !.an = m.an,
                              !.mic = new.PTK]
<1>1. /\ id \in 0 .. 1 /\ sn \in Challenges /\ m.an \in Challenges
      /\ ptk \in Challenges /\ m.flag \in BOOLEAN /\ e \in EntType
  BY RandomApart, PairWiseKey DEF Called, EntType, FrameType
<1>2. \/ Return(p, e, t, rest)
      \/ /\ Done(p, new, 1, rest, <<f>>)
         /\ wapi_set_ucast_key_proc(p, new)
         /\ UNCHANGED <<mskid, msk>>
  BY DEF WaiPeerUcastKeyReqAction
<1>3. /\ sn = os_get_random /\ ptk = CalculatePairWiseKey(m.an, os_get_random)
      /\ id = IF m.flag THEN m.uskid ELSE e.USKID
  OBVIOUS
<1> HIDE DEF id, sn, ptk
<1>4. new \in EntType
  BY <1>1, Ranges DEF EntType
<1>5. f \in FrameType
  BY <1>1, <1>4, FrameFields DEF FrameType, PeerTypes, EntType
<1>6. Responded(e, m, new, f)
  BY <1>1, <1>3, FrameFields DEF Responded, EntType, FrameType
<1> HIDE DEF new, f
<1>7. QED
  BY <1>2, <1>4, <1>5, <1>6

LEMMA PeerReqTypes ==
    ASSUME TypeInv, NEW p, NEW e, NEW t, NEW rest, Called(p, e, t, rest),
           NEW m \in FrameType, WaiPeerUcastKeyReqAction(p, e, t, rest, m)
    PROVE  HandlerTypes'
<1>1. ASSUME NEW new \in EntType, NEW f \in FrameType,
             Done(p, new, 1, rest, <<f>>), wapi_set_ucast_key_proc(p, new),
             UNCHANGED <<mskid, msk>>
      PROVE  HandlerTypes'
  <2>1. <<f>> \in Seq(FrameType) /\ p \in Ends /\ rest \in Seq(FrameType)
    BY DEF Called
  <2>2. QED
    BY <1>1, <2>1, DoneTypes, KeyTypes DEF TypeInv, HandlerTypes
<1>2. QED
  BY <1>1, PeerReqDoes, ReturnTypes

\* What a response of one's own accord leaves.
SentResponse(e, new, f) ==
    /\ new.WaiKeyState = "WAIT_UCAST_CFM" /\ new.PortSecured = e.PortSecured
    /\ e.PortSecured \/ new.USKID = e.USKID
    /\ new.SNONCE = os_get_random /\ new.PTK = e.PTK
    /\ new.retry_cnt = IF e.retry_cnt = UCAST_IDLE_CTR THEN UCAST_WAIT_CFM_CTR
                                                       ELSE e.retry_cnt
    /\ f.type = "RESP" /\ f.flag = e.PortSecured
    /\ f.sn = os_get_random /\ f.mic = e.PTK

LEMMA MlmeRespDoes ==
    ASSUME TypeInv, NEW p, NEW e, NEW t, NEW rest, Called(p, e, t, rest),
           WaiMlmeUcastKeyRespAction(p, e, t, rest)
    PROVE  \E new \in EntType, f \in FrameType :
               /\ Done(p, new, t + 1, rest, <<f>>)
               /\ wapi_set_ucast_key_proc(p, new)
               /\ UNCHANGED <<mskid, msk>>
               /\ SentResponse(e, new, f)
<1> DEFINE sn == os_get_random
           id == IF e.PortSecured THEN Rotated(e.USKID) ELSE e.USKID
           an == IF e.PortSecured THEN e.PTK ELSE e.ANONCE
           r == IF e.retry_cnt = UCAST_IDLE_CTR THEN UCAST_WAIT_CFM_CTR
                                                ELSE e.retry_cnt
           new == [e EXCEPT !.USKID = id, !.ANONCE = an, !.SNONCE = sn,
                            !.WaiKeyState = "WAIT_UCAST_CFM", !.retry_cnt = r]
           f == [Frame EXCEPT !.type = "RESP", !.flag = e.PortSecured,
                              !.uskid = new.USKID, !.sn = new.SNONCE,
                              !.an = new.ANONCE, !.mic = e.PTK]
<1>1. /\ id \in 0 .. 1 /\ sn \in Challenges /\ an \in Challenges
      /\ r \in 0 .. 255
  BY RandomApart DEF Called, EntType, Rotated, UCAST_WAIT_CFM_CTR
<1>2. /\ Done(p, new, t + 1, rest, <<f>>)
      /\ wapi_set_ucast_key_proc(p, new)
      /\ UNCHANGED <<mskid, msk>>
  BY DEF WaiMlmeUcastKeyRespAction
<1>3. /\ sn = os_get_random
      /\ e.PortSecured \/ id = e.USKID
      /\ r = IF e.retry_cnt = UCAST_IDLE_CTR THEN UCAST_WAIT_CFM_CTR
                                             ELSE e.retry_cnt
      /\ e \in EntType
  BY DEF Called
<1> HIDE DEF id, sn, an, r
<1>4. new \in EntType
  <2>1. e \in EntType
    BY <1>3
  <2>2. QED
    BY <1>1, <2>1 DEF EntType, States
<1>5. f \in FrameType
  BY <1>1, <1>3, <1>4, FrameFields DEF FrameType, PeerTypes, EntType
<1>6. /\ new.WaiKeyState = "WAIT_UCAST_CFM" /\ new.PortSecured = e.PortSecured
      /\ new.USKID = id /\ new.SNONCE = sn /\ new.PTK = e.PTK
      /\ new.retry_cnt = r
  BY <1>3 DEF EntType
<1>7. f.type = "RESP" /\ f.flag = e.PortSecured /\ f.sn = sn /\ f.mic = e.PTK
  BY <1>6, FrameFields DEF FrameType
<1>8. SentResponse(e, new, f)
  BY <1>3, <1>6, <1>7 DEF SentResponse
<1> HIDE DEF new, f
<1>9. QED
  BY <1>2, <1>4, <1>5, <1>8

LEMMA MlmeRespTypes ==
    ASSUME TypeInv, NEW p, NEW e, NEW t, NEW rest, Called(p, e, t, rest),
           WaiMlmeUcastKeyRespAction(p, e, t, rest)
    PROVE  HandlerTypes'
<1>1. PICK new \in EntType, f \in FrameType :
          /\ Done(p, new, t + 1, rest, <<f>>)
          /\ wapi_set_ucast_key_proc(p, new)
          /\ UNCHANGED <<mskid, msk>>
  BY MlmeRespDoes
<1>2. /\ <<f>> \in Seq(FrameType) /\ p \in Ends /\ rest \in Seq(FrameType)
      /\ t + 1 \in Nat
  BY DEF Called
<1>3. QED
  BY <1>1, <1>2, DoneTypes, KeyTypes DEF TypeInv, HandlerTypes

\* What is left of a response that is not accepted,
Refused(e, m, new) ==
    /\ new.WaiKeyState = e.WaiKeyState /\ new.PortSecured = e.PortSecured
    /\ new.ANONCE = e.ANONCE /\ new.retry_cnt = e.retry_cnt
    /\ m.flag \/ new.USKID = e.USKID
    /\ new.PTK \in {e.PTK, CalculatePairWiseKey(e.ANONCE, m.sn)}

\* and of one that is.
Accepted(e, m, new, f) ==
    /\ m.an = e.ANONCE /\ m.mic = CalculatePairWiseKey(m.an, m.sn)
    /\ new.WaiKeyState = "UCAST_KEY_DONE" /\ new.PortSecured = e.PortSecured
    /\ new.ANONCE = e.ANONCE /\ new.PTK = m.mic
    /\ new.USKID = IF m.flag THEN m.uskid ELSE e.USKID
    /\ f.type = "CFM" /\ f.sn = m.sn /\ f.mic = m.mic

LEMMA PeerRespDoes ==
    ASSUME TypeInv, NEW p, NEW e, NEW t, NEW rest, Called(p, e, t, rest),
           NEW m \in FrameType, WaiPeerUcastKeyRespAction(p, e, t, rest, m)
    PROVE  \/ \E new \in EntType : Return(p, new, t, rest) /\ Refused(e, m, new)
           \/ \E new \in EntType, f \in FrameType, n \in 0 .. 1 :
                  /\ Done(p, new, n, rest, <<f>>)
                  /\ wapi_set_ucast_key_proc(p, new)
                  /\ UNCHANGED <<mskid, msk>>
                  /\ Accepted(e, m, new, f)
<1> DEFINE rotated  == IF m.flag THEN [e EXCEPT !.USKID = m.uskid] ELSE e
           ptk      == CalculatePairWiseKey(e.ANONCE, m.sn)
           keyed    == [rotated EXCEPT !.SNONCE = m.sn, !.PTK = ptk]
           accepted == [keyed EXCEPT !.retry_cnt = UCAST_DONE_CTR,
                                     !.WaiKeyState = "UCAST_KEY_DONE"]
           f == [Frame EXCEPT !.type = "CFM", !.flag = m.flag, !.uskid =
                m.uskid,
                              !.sn = m.sn, !.mic = keyed.PTK]
           n == IF m.flag THEN 0 ELSE 1
<1>1. /\ m.sn \in Challenges /\ m.uskid \in 0 .. 1 /\ m.flag \in BOOLEAN
      /\ ptk \in Challenges /\ e.ANONCE \in Challenges /\ e \in EntType
  BY PairWiseKey DEF Called, EntType, FrameType
<1>2. \/ Return(p, e, t, rest)
      \/ Return(p, rotated, t, rest)
      \/ Return(p, keyed, t, rest)
      \/ /\ m.an = e.ANONCE /\ m.mic = keyed.PTK
         /\ Done(p, accepted, n, rest, <<f>>)
         /\ wapi_set_ucast_key_proc(p, accepted)
         /\ UNCHANGED <<mskid, msk>>
  BY DEF WaiPeerUcastKeyRespAction, ValidMic
<1>3. ptk = CalculatePairWiseKey(e.ANONCE, m.sn) /\ n \in 0 .. 1
  OBVIOUS
<1> HIDE DEF ptk, n
<1>4. /\ rotated \in EntType
      /\ m.flag \/ rotated.USKID = e.USKID
      /\ rotated.USKID = IF m.flag THEN m.uskid ELSE e.USKID
      /\ rotated.WaiKeyState = e.WaiKeyState /\ rotated.PTK = e.PTK
      /\ rotated.PortSecured = e.PortSecured /\ rotated.ANONCE = e.ANONCE
      /\ rotated.retry_cnt = e.retry_cnt
  BY <1>1 DEF EntType
<1> HIDE DEF rotated
<1>5. /\ keyed \in EntType /\ keyed.USKID = rotated.USKID
      /\ keyed.WaiKeyState = e.WaiKeyState /\ keyed.PTK = ptk
      /\ keyed.PortSecured = e.PortSecured /\ keyed.ANONCE = e.ANONCE
      /\ keyed.retry_cnt = e.retry_cnt
  <2>1. keyed \in EntType
    BY <1>1, <1>4 DEF EntType
  <2>2. /\ keyed.USKID = rotated.USKID
        /\ keyed.WaiKeyState = rotated.WaiKeyState /\ keyed.PTK = ptk
        /\ keyed.PortSecured = rotated.PortSecured
        /\ keyed.ANONCE = rotated.ANONCE /\ keyed.retry_cnt = rotated.retry_cnt
    BY <1>4 DEF EntType
  <2>3. QED
    BY <1>4, <2>1, <2>2
<1> HIDE DEF keyed
<1>6. accepted \in EntType
  BY <1>5, Ranges DEF EntType
<1>7. /\ accepted.USKID = keyed.USKID /\ accepted.WaiKeyState = "UCAST_KEY_DONE"
      /\ accepted.PTK = ptk /\ accepted.PortSecured = e.PortSecured
      /\ accepted.ANONCE = e.ANONCE
  BY <1>5 DEF EntType
<1>8. f \in FrameType /\ f.type = "CFM" /\ f.sn = m.sn /\ f.mic = keyed.PTK
  BY <1>1, <1>5, FrameFields DEF FrameType, PeerTypes, EntType
<1> HIDE DEF accepted, f
<1>9. Refused(e, m, e) /\ Refused(e, m, rotated) /\ Refused(e, m, keyed)
  BY <1>3, <1>4, <1>5 DEF Refused
<1>10. m.an = e.ANONCE /\ m.mic = keyed.PTK => Accepted(e, m, accepted, f)
  BY <1>3, <1>4, <1>5, <1>7, <1>8 DEF Accepted
<1>11. CASE /\ m.an = e.ANONCE /\ m.mic = keyed.PTK
            /\ Done(p, accepted, n, rest, <<f>>)
            /\ wapi_set_ucast_key_proc(p, accepted)
            /\ UNCHANGED <<mskid, msk>>
  BY <1>3, <1>6, <1>8, <1>10, <1>11
<1>12. CASE Return(p, e, t, rest) \/ Return(p, rotated, t, rest) \/
     Return(p, keyed, t, rest)
  BY <1>1, <1>4, <1>5, <1>9, <1>12
<1>13. QED
  BY <1>2, <1>11, <1>12

LEMMA PeerRespTypes ==
    ASSUME TypeInv, NEW p, NEW e, NEW t, NEW rest, Called(p, e, t, rest),
           NEW m \in FrameType, WaiPeerUcastKeyRespAction(p, e, t, rest, m)
    PROVE  HandlerTypes'
<1>1. ASSUME NEW new \in EntType, Return(p, new, t, rest) PROVE HandlerTypes'
  <2>1. Called(p, new, t, rest)
    BY DEF Called
  <2>2. QED
    BY <1>1, <2>1, ReturnTypes
<1>2. ASSUME NEW new \in EntType, NEW f \in FrameType, NEW n \in 0 .. 1,
             Done(p, new, n, rest, <<f>>), wapi_set_ucast_key_proc(p, new),
             UNCHANGED <<mskid, msk>>
      PROVE  HandlerTypes'
  <2>1. <<f>> \in Seq(FrameType) /\ n \in Nat /\ p \in Ends /\
       rest \in Seq(FrameType)
    BY DEF Called
  <2>2. QED
    BY <1>2, <2>1, DoneTypes, KeyTypes DEF TypeInv, HandlerTypes
<1>3. QED
  BY <1>1, <1>2, PeerRespDoes

\* What a confirmation, a multicast response or a notify leaves.
Settled(e, state, secured, new) ==
    /\ new.WaiKeyState = state /\ new.PortSecured = secured
    /\ new.USKID = e.USKID /\ new.ANONCE = e.ANONCE /\ new.SNONCE = e.SNONCE
    /\ new.PTK = e.PTK /\ new.retry_cnt = e.retry_cnt

LEMMA PeerCfmDoes ==
    ASSUME TypeInv, NEW p, NEW e, NEW t, NEW rest, Called(p, e, t, rest),
           NEW m, WaiPeerUcastKeyCfmAction(p, e, t, rest, m)
    PROVE  \/ Return(p, e, t, rest)
           \/ \E new \in EntType :
                  /\ Done(p, new, 0, rest, <<>>) /\
                       UNCHANGED <<mskid, key, msk>>
                  /\ m.sn = e.SNONCE /\ m.mic = e.PTK
                  /\ Settled(e, "UCAST_KEY_DONE", e.PortSecured, new)
<1> DEFINE new == [e EXCEPT !.WaiKeyState = "UCAST_KEY_DONE"]
<1>1. \/ /\ Done(p, new, 0, rest, <<>>) /\ UNCHANGED <<mskid, key, msk>>
         /\ m.sn = e.SNONCE /\ m.mic = e.PTK
      \/ Return(p, e, t, rest)
  BY DEF WaiPeerUcastKeyCfmAction, ValidMic
<1>2. e \in EntType
  BY DEF Called
<1>3. new \in EntType /\ Settled(e, "UCAST_KEY_DONE", e.PortSecured, new)
  BY <1>2, Ranges DEF EntType, Settled
<1> HIDE DEF new
<1>4. QED
  BY <1>1, <1>3

LEMMA PeerCfmTypes ==
    ASSUME TypeInv, NEW p, NEW e, NEW t, NEW rest, Called(p, e, t, rest),
           NEW m, WaiPeerUcastKeyCfmAction(p, e, t, rest, m)
    PROVE  HandlerTypes'
<1>1. ASSUME NEW new \in EntType, Done(p, new, 0, rest, <<>>),
             UNCHANGED <<mskid, key, msk>>
      PROVE  HandlerTypes'
  <2>1. p \in Ends /\ rest \in Seq(FrameType) /\ <<>> \in Seq(FrameType)
    BY DEF Called
  <2>2. QED
    BY <1>1, <2>1, DoneTypes DEF TypeInv, HandlerTypes
<1>2. QED
  BY <1>1, PeerCfmDoes, ReturnTypes

\* What the start of a multicast handshake leaves.
Notified(e, new, f) ==
    /\ new.WaiKeyState = "WAIT_MCAST_RESP" /\ new.PortSecured = e.PortSecured
    /\ new.USKID = e.USKID /\ new.ANONCE = e.ANONCE /\ new.PTK = e.PTK
    /\ f.type = "NOTIFY"

LEMMA MlmeNotifyDoes ==
    ASSUME TypeInv, NEW p, NEW e, NEW t, NEW rest, Called(p, e, t, rest),
           WaiMlmeMcastKeyNotifyAction(p, e, t, rest)
    PROVE  \E new \in EntType, f \in FrameType :
               /\ Done(p, new, t + 1, rest, <<f>>)
               /\ mskid' = [mskid EXCEPT ![p] = msk[p] % 2]
               /\ UNCHANGED <<key, msk>>
               /\ Notified(e, new, f)
<1> DEFINE r == IF e.WaiKeyState # "WAIT_MCAST_RESP" THEN MCAST_WAIT_RESP_CTR
                                                     ELSE e.retry_cnt
           new == [e EXCEPT !.retry_cnt = r, !.WaiKeyState = "WAIT_MCAST_RESP"]
           f == [Frame EXCEPT !.type = "NOTIFY", !.mskid = msk[p] % 2,
                              !.uskid = e.USKID, !.msk = msk[p], !.mic = e.PTK]
<1>1. /\ msk[p] \in Nat /\ msk[p] % 2 \in 0 .. 1
      /\ r \in 0 .. 255 /\ e.PTK \in Challenges /\ e.USKID \in 0 .. 1
      /\ e \in EntType
  <2>1. p \in Ends /\ msk[p] \in Nat
    BY DEF Called, TypeInv, HandlerTypes
  <2>2. msk[p] % 2 \in 0 .. 1
    BY <2>1
  <2>3. QED
    BY <2>1, <2>2 DEF Called, EntType, MCAST_WAIT_RESP_CTR
<1>2. /\ Done(p, new, t + 1, rest, <<f>>)
      /\ mskid' = [mskid EXCEPT ![p] = msk[p] % 2]
      /\ UNCHANGED <<key, msk>>
  BY DEF WaiMlmeMcastKeyNotifyAction
<1> HIDE DEF r
<1>3. new \in EntType
  BY <1>1, Ranges DEF EntType
<1>4. f \in FrameType
  BY <1>1, FrameFields DEF FrameType, PeerTypes
<1>5. Notified(e, new, f)
  BY <1>1, FrameFields DEF Notified, EntType, FrameType
<1> HIDE DEF new, f
<1>6. QED
  BY <1>2, <1>3, <1>4, <1>5

LEMMA MlmeNotifyTypes ==
    ASSUME TypeInv, NEW p, NEW e, NEW t, NEW rest, Called(p, e, t, rest),
           WaiMlmeMcastKeyNotifyAction(p, e, t, rest)
    PROVE  HandlerTypes'
<1>1. PICK new \in EntType, f \in FrameType :
          /\ Done(p, new, t + 1, rest, <<f>>)
          /\ mskid' = [mskid EXCEPT ![p] = msk[p] % 2]
          /\ UNCHANGED <<key, msk>>
  BY MlmeNotifyDoes
<1>2. /\ p \in Ends /\ t + 1 \in Nat /\ rest \in Seq(FrameType)
      /\ <<f>> \in Seq(FrameType) /\ msk[p] \in Nat
  BY DEF Called, TypeInv, HandlerTypes
<1>3. msk[p] % 2 \in 0 .. 1
  BY <1>2
<1>4. mskid' \in [Ends -> 0 .. 1]
  BY <1>1, <1>2, <1>3 DEF TypeInv, HandlerTypes
<1>5. QED
  BY <1>1, <1>2, <1>4, DoneTypes DEF TypeInv, HandlerTypes

LEMMA PeerMcastRespDoes ==
    ASSUME TypeInv, NEW p, NEW e, NEW t, NEW rest, Called(p, e, t, rest),
           NEW m, WaiPeerMcastKeyRespAction(p, e, t, rest, m)
    PROVE  \/ Return(p, e, t, rest)
           \/ \E new \in EntType :
                  /\ Done(p, new, 0, rest, <<>>) /\
                       UNCHANGED <<mskid, key, msk>>
                  /\ Settled(e, "MCAST_KEY_DONE", TRUE, new)
<1> DEFINE new == [e EXCEPT !.WaiKeyState = "MCAST_KEY_DONE",
                            !.PortSecured = TRUE]
<1>1. \/ Done(p, new, 0, rest, <<>>) /\ UNCHANGED <<mskid, key, msk>>
      \/ Return(p, e, t, rest)
  BY DEF WaiPeerMcastKeyRespAction
<1>2. e \in EntType
  BY DEF Called
<1>3. new \in EntType /\ Settled(e, "MCAST_KEY_DONE", TRUE, new)
  <2>1. new \in EntType
    BY <1>2, Ranges DEF EntType
  <2>2. Settled(e, "MCAST_KEY_DONE", TRUE, new)
    BY <1>2 DEF EntType, Settled
  <2>3. QED
    BY <2>1, <2>2
<1> HIDE DEF new
<1>4. QED
  BY <1>1, <1>3

LEMMA PeerMcastRespTypes ==
    ASSUME TypeInv, NEW p, NEW e, NEW t, NEW rest, Called(p, e, t, rest),
           NEW m, WaiPeerMcastKeyRespAction(p, e, t, rest, m)
    PROVE  HandlerTypes'
<1>1. ASSUME NEW new \in EntType, Done(p, new, 0, rest, <<>>),
             UNCHANGED <<mskid, key, msk>>
      PROVE  HandlerTypes'
  <2>1. p \in Ends /\ rest \in Seq(FrameType) /\ <<>> \in Seq(FrameType)
    BY DEF Called
  <2>2. QED
    BY <1>1, <2>1, DoneTypes DEF TypeInv, HandlerTypes
<1>2. QED
  BY <1>1, PeerMcastRespDoes, ReturnTypes

LEMMA PeerNotifyDoes ==
    ASSUME TypeInv, NEW p, NEW e, NEW t, NEW rest, Called(p, e, t, rest),
           NEW m \in FrameType, WaiPeerMcastKeyNotifyAction(p, e, t, rest, m)
    PROVE  \/ Return(p, e, t, rest)
           \/ \E new \in EntType, f \in FrameType :
                  /\ Done(p, new, t, rest, <<f>>)
                  /\ mskid' = [mskid EXCEPT ![p] = m.mskid]
                  /\ msk' = [msk EXCEPT ![p] = m.msk]
                  /\ UNCHANGED key
                  /\ Settled(e, "MCAST_KEY_DONE", TRUE, new)
                  /\ f.type = "MCAST_RESP"
<1> DEFINE new == [e EXCEPT !.WaiKeyState = "MCAST_KEY_DONE",
                            !.PortSecured = TRUE]
           f == [Frame EXCEPT !.type = "MCAST_RESP", !.mskid = m.mskid,
                              !.uskid = m.uskid, !.mic = e.PTK]
<1>1. \/ /\ Done(p, new, t, rest, <<f>>)
         /\ mskid' = [mskid EXCEPT ![p] = m.mskid]
         /\ msk' = [msk EXCEPT ![p] = m.msk]
         /\ UNCHANGED key
      \/ Return(p, e, t, rest)
  BY DEF WaiPeerMcastKeyNotifyAction
<1>2. e \in EntType /\ e.PTK \in Challenges /\ m.mskid \in 0 .. 1 /\
     m.uskid \in 0 .. 1
  BY DEF Called, EntType, FrameType
<1>3. new \in EntType /\ Settled(e, "MCAST_KEY_DONE", TRUE, new)
  <2>1. new \in EntType
    BY <1>2, Ranges DEF EntType
  <2>2. Settled(e, "MCAST_KEY_DONE", TRUE, new)
    BY <1>2 DEF EntType, Settled
  <2>3. QED
    BY <2>1, <2>2
<1>4. f \in FrameType /\ f.type = "MCAST_RESP"
  BY <1>2, FrameFields DEF FrameType, PeerTypes
<1> HIDE DEF new, f
<1>5. QED
  BY <1>1, <1>3, <1>4

LEMMA PeerNotifySettles ==
    ASSUME TypeInv, NEW p, NEW e, NEW t, NEW rest, Called(p, e, t, rest),
           NEW m \in FrameType, WaiPeerMcastKeyNotifyAction(p, e, t, rest, m)
    PROVE  \/ Return(p, e, t, rest)
           \/ \E new \in EntType, f \in FrameType :
                  /\ Done(p, new, t, rest, <<f>>)
                  /\ UNCHANGED key
                  /\ Settled(e, "MCAST_KEY_DONE", TRUE, new)
                  /\ f.type = "MCAST_RESP"
<1>1. CASE Return(p, e, t, rest)
  BY <1>1
<1>2. CASE ~Return(p, e, t, rest)
  <2>1. PICK new \in EntType, f \in FrameType :
            /\ Done(p, new, t, rest, <<f>>)
            /\ mskid' = [mskid EXCEPT ![p] = m.mskid]
            /\ msk' = [msk EXCEPT ![p] = m.msk]
            /\ UNCHANGED key
            /\ Settled(e, "MCAST_KEY_DONE", TRUE, new)
            /\ f.type = "MCAST_RESP"
    BY <1>2, PeerNotifyDoes, Zenon
  <2>2. QED
    BY <2>1
<1>3. QED
  BY <1>1, <1>2

LEMMA PeerNotifyTypes ==
    ASSUME TypeInv, NEW p, NEW e, NEW t, NEW rest, Called(p, e, t, rest),
           NEW m \in FrameType, WaiPeerMcastKeyNotifyAction(p, e, t, rest, m)
    PROVE  HandlerTypes'
<1>1. ASSUME NEW new \in EntType, NEW f \in FrameType,
             Done(p, new, t, rest, <<f>>),
             mskid' = [mskid EXCEPT ![p] = m.mskid],
             msk' = [msk EXCEPT ![p] = m.msk], UNCHANGED key
      PROVE  HandlerTypes'
  <2>1. /\ p \in Ends /\ t \in Nat /\ rest \in Seq(FrameType)
        /\ <<f>> \in Seq(FrameType) /\ m.mskid \in 0 .. 1 /\ m.msk \in Nat
    BY DEF Called, FrameType
  <2>2. mskid' \in [Ends -> 0 .. 1] /\ msk' \in [Ends -> Nat]
    BY <1>1, <2>1 DEF TypeInv, HandlerTypes
  <2>3. QED
    BY <1>1, <2>1, <2>2, DoneTypes DEF TypeInv, HandlerTypes
<1>2. CASE Return(p, e, t, rest)
  BY <1>2, ReturnTypes
<1>3. CASE ~Return(p, e, t, rest)
  <2>1. PICK new \in EntType, f \in FrameType :
            /\ Done(p, new, t, rest, <<f>>)
            /\ mskid' = [mskid EXCEPT ![p] = m.mskid]
            /\ msk' = [msk EXCEPT ![p] = m.msk]
            /\ UNCHANGED key
            /\ Settled(e, "MCAST_KEY_DONE", TRUE, new)
            /\ f.type = "MCAST_RESP"
    BY <1>3, PeerNotifyDoes, Zenon
  <2>2. QED
    BY <1>1, <2>1
<1>4. QED
  BY <1>2, <1>3

LEMMA MlmeTypes ==
    ASSUME TypeInv, NEW p, NEW e, NEW t, NEW rest, Called(p, e, t, rest),
           NEW type \in {"MLME_REQ", "MLME_RESP", "MLME_NOTIFY"},
           Mlme(p, type, e, t, rest)
    PROVE  HandlerTypes'
<1>1. \/ Return(p, e, t, rest)
      \/ WaiMlmeUcastKeyReqAction(p, e, t, rest)
      \/ WaiMlmeUcastKeyRespAction(p, e, t, rest)
      \/ WaiMlmeMcastKeyNotifyAction(p, e, t, rest)
  BY DEF Mlme
<1>2. QED
  BY <1>1, ReturnTypes, MlmeReqTypes, MlmeRespTypes, MlmeNotifyTypes

\* A handler of the socket is called with the head of the inbox.
LEMMA ReceiveCalls ==
    ASSUME TypeInv, NEW p \in Ends, inbox[p] # <<>>
    PROVE  /\ Called(p, Entry(p), timer[p], Tail(inbox[p]))
           /\ Head(inbox[p]) \in FrameType
<1>1. inbox[p] \in Seq(FrameType) /\ ent[p] \in EntType /\ timer[p] \in Nat
  BY DEF TypeInv, HandlerTypes
<1>2. Head(inbox[p]) \in FrameType /\ Tail(inbox[p]) \in Seq(FrameType)
  BY <1>1, HeadTailProperties
<1>3. Entry(p) \in EntType
  BY <1>1 DEF Entry, EntType
<1>4. QED
  BY <1>1, <1>2, <1>3 DEF Called

LEMMA SocketTypes ==
    ASSUME TypeInv, NEW p \in Ends, Socket(p)
    PROVE  TypeInv'
<1> DEFINE e == Entry(p)
           t == timer[p]
           rest == Tail(inbox[p])
           m == Head(inbox[p])
<1>1. inbox[p] # <<>> /\ UNCHANGED <<link, spent>>
  BY DEF Socket, PeerUcastKeyReq, PeerUcastKeyResp, PeerUcastKeyCfm,
         PeerMcastKeyNotify, PeerMcastKeyResp, Drop, KeyHsStart, UpdateUsk,
         UpdateMsk, StaTableDeleteEntry, Taken, Receive
<1>2. trigger' \in [Ends -> BOOLEAN]
  BY DEF TypeInv, Socket, PeerUcastKeyReq, PeerUcastKeyResp, PeerUcastKeyCfm,
         PeerMcastKeyNotify, PeerMcastKeyResp, Drop, KeyHsStart, UpdateUsk,
         UpdateMsk, StaTableDeleteEntry, Taken
<1>3. Called(p, e, t, rest) /\ m \in FrameType
  BY <1>1, ReceiveCalls
<1>4. /\ \A r \in 0 .. 255 : Called(p, [e EXCEPT !.retry_cnt = r], t, rest)
      /\ Called(p, Free, t, rest)
  <2>1. \A r \in 0 .. 255 : [e EXCEPT !.retry_cnt = r] \in EntType
    <3> HIDE DEF e
    <3>1. QED
      BY <1>3 DEF Called, EntType
  <2>2. Free \in EntType
    BY FrameFields, Ranges DEF Free, EntType, States
  <2>3. QED
    BY <1>3, <2>1, <2>2 DEF Called
<1> HIDE DEF e, t, rest, m
<1>5. HandlerTypes'
  <2>1. CASE PeerUcastKeyReq(p)
    BY <1>3, <2>1, PeerReqTypes DEF PeerUcastKeyReq, e, t, rest, m
  <2>2. CASE PeerUcastKeyResp(p)
    BY <1>3, <2>2, PeerRespTypes DEF PeerUcastKeyResp, e, t, rest, m
  <2>3. CASE PeerUcastKeyCfm(p)
    BY <1>3, <2>3, PeerCfmTypes DEF PeerUcastKeyCfm, e, t, rest, m
  <2>4. CASE PeerMcastKeyNotify(p)
    BY <1>3, <2>4, PeerNotifyTypes DEF PeerMcastKeyNotify, e, t, rest, m
  <2>5. CASE PeerMcastKeyResp(p)
    BY <1>3, <2>5, PeerMcastRespTypes DEF PeerMcastKeyResp, e, t, rest, m
  <2>6. CASE Drop(p)
    BY <1>3, <2>6, ReturnTypes DEF Drop, e, t, rest, m
  <2>7. CASE KeyHsStart(p)
    BY <1>4, <2>7, Ranges, ReturnTypes DEF KeyHsStart, e, t, rest, m
  <2>8. CASE UpdateUsk(p)
    <3>1. \/ Mlme(p, "MLME_REQ", [e EXCEPT !.retry_cnt = UCAST_IDLE_CTR], t,
               rest)
          \/ Mlme(p, "MLME_RESP", [e EXCEPT !.retry_cnt = UCAST_IDLE_CTR], t,
               rest)
          \/ Return(p, e, t, rest)
      BY <2>8 DEF UpdateUsk, e, t, rest
    <3>2. Called(p, [e EXCEPT !.retry_cnt = UCAST_IDLE_CTR], t, rest)
      BY <1>4, Ranges
    <3>3. QED
      BY <1>3, <3>1, <3>2, ReturnTypes, MlmeTypes
  <2>9. CASE UpdateMsk(p)
    <3>1. \/ Mlme(p, "MLME_NOTIFY", [e EXCEPT !.retry_cnt = UCAST_DONE_CTR], t,
               rest)
          \/ Return(p, e, t, rest)
      BY <2>9 DEF UpdateMsk, e, t, rest
    <3>2. Called(p, [e EXCEPT !.retry_cnt = UCAST_DONE_CTR], t, rest)
      BY <1>4, Ranges
    <3>3. QED
      BY <1>3, <3>1, <3>2, ReturnTypes, MlmeTypes
  <2>10. CASE StaTableDeleteEntry(p)
    BY <1>4, <2>10, ReturnTypes DEF StaTableDeleteEntry, t, rest
  <2>11. QED
    BY <2>1, <2>2, <2>3, <2>4, <2>5, <2>6, <2>7, <2>8, <2>9, <2>10 DEF Socket
<1>6. QED
  BY <1>1, <1>2, <1>5 DEF TypeInv

LEMMA TriggerTypes ==
    ASSUME TypeInv, NEW p \in Ends, wapi_trigger_timer_handler(p)
    PROVE  TypeInv'
<1> DEFINE e == [ent[p] EXCEPT !.retry_cnt = UCAST_IDLE_CTR]
<1>1. /\ ent[p] \in EntType /\ timer[p] \in Nat /\ inbox[p] \in Seq(FrameType)
      /\ trigger \in [Ends -> BOOLEAN]
  BY DEF TypeInv, HandlerTypes
<1>2. \/ Mlme(p, "MLME_REQ", e, timer[p], inbox[p])
      \/ Return(p, ent[p], timer[p], inbox[p])
  BY DEF wapi_trigger_timer_handler
<1>3. e \in EntType
  BY <1>1, Ranges DEF EntType
<1> HIDE DEF e
<1>4. Called(p, e, timer[p], inbox[p]) /\ Called(p, ent[p], timer[p], inbox[p])
  BY <1>1, <1>3 DEF Called
<1>5. HandlerTypes'
  BY <1>2, <1>4, MlmeTypes, ReturnTypes
<1>6. QED
  BY <1>1, <1>5 DEF TypeInv, wapi_trigger_timer_handler

LEMMA TimerTypes ==
    ASSUME TypeInv, NEW p \in Ends, WaiKeyHSTimerProc(p)
    PROVE  TypeInv'
<1> DEFINE e == [ent[p] EXCEPT !.retry_cnt = (ent[p].retry_cnt + 1) % 256]
           left == timer[p] - 1
           todo == Resend((ent[p].retry_cnt + 1) % 256)
<1>1. /\ ent[p] \in EntType /\ timer[p] \in Nat /\ inbox[p] \in Seq(FrameType)
      /\ ent[p].retry_cnt \in 0 .. 255
  BY DEF TypeInv, HandlerTypes, EntType
<1>2. timer[p] > 0
  BY DEF WaiKeyHSTimerProc
<1>3. left \in Nat /\ (ent[p].retry_cnt + 1) % 256 \in 0 .. 255
  <2>1. left \in Nat
    BY <1>1, <1>2
  <2>2. \A n \in 0 .. 255 : (n + 1) % 256 \in 0 .. 255
    OBVIOUS
  <2>3. QED
    BY <1>1, <2>1, <2>2
<1>4. e.retry_cnt = (ent[p].retry_cnt + 1) % 256
  BY <1>1 DEF EntType
<1>5. e \in EntType
  BY <1>1, <1>3 DEF EntType
<1>6. todo \in {"MLME_REQ", "MLME_RESP", "MLME_NOTIFY", "NOTHING", "DISCONNECT"}
  BY DEF Resend
<1>7. /\ UNCHANGED <<trigger, spent>>
      /\ \/ Return(p, ent[p], left, inbox[p]) /\ UNCHANGED link
         \/ Return(p, e, left, inbox[p]) /\ UNCHANGED link
         \/ /\ ent' = [ent EXCEPT ![p] = e]
            /\ timer' = [timer EXCEPT ![p] = left]
            /\ DisconnectStaLink(p)
            /\ UNCHANGED <<mskid, msk>>
         \/ /\ todo \notin {"NOTHING", "DISCONNECT"}
            /\ Mlme(p, todo, e, left, inbox[p])
            /\ UNCHANGED link
  BY <1>4 DEF WaiKeyHSTimerProc
<1> HIDE DEF e, left, todo
<1>8. Called(p, e, left, inbox[p]) /\ Called(p, ent[p], left, inbox[p])
  BY <1>1, <1>3, <1>5 DEF Called
<1>9. CASE /\ ent' = [ent EXCEPT ![p] = e]
           /\ timer' = [timer EXCEPT ![p] = left]
           /\ DisconnectStaLink(p)
           /\ UNCHANGED <<mskid, msk>>
  <2> DEFINE delete ==
       IF link THEN <<[Frame EXCEPT !.type = "DELETE"]>> ELSE <<>>
  <2>1. [Frame EXCEPT !.type = "DELETE"] \in FrameType
    BY FrameFields DEF FrameType, DriverTypes
  <2>2. delete \in Seq(FrameType)
    BY <2>1
  <2>3. inbox' = [q \in Ends |-> inbox[q] \o delete]
    BY <1>9 DEF DisconnectStaLink
  <2> HIDE DEF delete
  <2>4. inbox' \in [Ends -> Seq(FrameType)]
    <3>1. \A q \in Ends : inbox[q] \in Seq(FrameType)
      BY DEF TypeInv, HandlerTypes
    <3>2. \A q \in Ends : inbox[q] \o delete \in Seq(FrameType)
      BY <2>2, <3>1, ConcatProperties
    <3>3. QED
      BY <2>3, <3>2
  <2>5. NoKey \in KeyType
    BY FrameFields DEF NoKey, KeyType
  <2>6. key' \in [Ends -> KeyType] /\ link' = FALSE
    BY <1>9, <2>5 DEF DisconnectStaLink
  <2>7. ent' \in [Ends -> EntType] /\ timer' \in [Ends -> Nat]
    BY <1>3, <1>5, <1>9 DEF TypeInv, HandlerTypes
  <2>8. QED
    BY <1>7, <1>9, <2>4, <2>6, <2>7 DEF TypeInv, HandlerTypes
<1>10. CASE HandlerTypes' /\ UNCHANGED link
  BY <1>7, <1>10 DEF TypeInv
<1>11. QED
  BY <1>6, <1>7, <1>8, <1>9, <1>10, MlmeTypes, ReturnTypes

\* A frame that arrives.
LEMMA AppendTypes ==
    ASSUME TypeInv, NEW p \in Ends, NEW type \in DriverTypes,
           inbox' = [inbox EXCEPT ![p] =
                Append(@, [Frame EXCEPT !.type = type])]
    PROVE  inbox' \in [Ends -> Seq(FrameType)]
<1>1. inbox[p] \in Seq(FrameType) /\ inbox \in [Ends -> Seq(FrameType)]
  BY DEF TypeInv, HandlerTypes
<1> DEFINE f == [Frame EXCEPT !.type = type]
<1>2. f \in FrameType
  BY FrameFields DEF FrameType
<1> HIDE DEF f
<1>3. Append(inbox[p], f) \in Seq(FrameType)
  BY <1>1, <1>2
<1>4. inbox' = [inbox EXCEPT ![p] = Append(inbox[p], f)]
  BY DEF f
<1>5. QED
  BY <1>1, <1>3, <1>4

\* A frame of the driver.
LEMMA MadeFrames ==
    \A x \in DriverTypes : /\ [Frame EXCEPT !.type = x] \in FrameType
                           /\ [Frame EXCEPT !.type = x].type = x
<1> SUFFICES ASSUME NEW x \in DriverTypes
             PROVE  /\ [Frame EXCEPT !.type = x] \in FrameType
                    /\ [Frame EXCEPT !.type = x].type = x
  OBVIOUS
<1>1. [Frame EXCEPT !.type = x] \in FrameType
  BY FrameFields DEF FrameType
<1>2. [Frame EXCEPT !.type = x].type = x
  BY FrameFields DEF FrameType
<1>3. QED
  BY <1>1, <1>2

\* What is left when a frame is lost.
LEMMA RemoveAtProperties ==
    ASSUME NEW T, NEW s \in Seq(T), NEW i \in 1 .. Len(s)
    PROVE  /\ RemoveAt(s, i) \in Seq(T)
           /\ Len(RemoveAt(s, i)) = Len(s) - 1
           /\ \A j \in 1 .. Len(s) - 1 :
                  RemoveAt(s, i)[j] = IF j < i THEN s[j] ELSE s[j + 1]
<1> DEFINE a == SubSeq(s, 1, i - 1)
           b == SubSeq(s, i + 1, Len(s))
<1>1. /\ a \in Seq(T) /\ Len(a) = i - 1
      /\ \A j \in 1 .. i - 1 : a[j] = s[j]
  OBVIOUS
<1>2. /\ b \in Seq(T) /\ Len(b) = Len(s) - i
      /\ \A j \in 1 .. Len(s) - i : b[j] = s[i + j]
  OBVIOUS
<1>3. RemoveAt(s, i) = a \o b
  BY DEF RemoveAt
<1> HIDE DEF a, b
<1>4. /\ a \o b \in Seq(T) /\ Len(a \o b) = Len(s) - 1
  <2>1. a \o b \in Seq(T) /\ Len(a \o b) = Len(a) + Len(b)
    BY <1>1, <1>2, ConcatProperties
  <2>2. Len(s) \in Nat
    OBVIOUS
  <2>3. QED
    BY <1>1, <1>2, <2>1, <2>2
<1>5. ASSUME NEW j \in 1 .. Len(s) - 1
      PROVE  (a \o b)[j] = IF j < i THEN s[j] ELSE s[j + 1]
  <2>1. CASE j < i
    BY <1>1, <1>2, <2>1
  <2>2. CASE ~(j < i)
    <3>1. j - (i - 1) \in 1 .. Len(s) - i /\ i + (j - (i - 1)) = j + 1
      BY <2>2
    <3>2. (a \o b)[j] = b[j - (i - 1)]
      BY <1>1, <1>2, <2>2
    <3>3. QED
      BY <1>2, <2>2, <3>1, <3>2
  <2>3. QED
    BY <2>1, <2>2
<1>6. QED
  BY <1>3, <1>4, <1>5

\* The drivers and the air keep the types.
LEMMA AirTypes ==
    ASSUME TypeInv,
           \/ Associate
           \/ \E p \in UPDATERS : RenewUsk(p)
           \/ RenewMsk
           \/ \E p \in Ends : Lose(p)
    PROVE  TypeInv'
<1>1. \A k \in {"assocs", "usks", "msks", "losses"} : Spend(k) =>
     spent' \in SpentType
  <2>1. spent \in SpentType
    BY DEF TypeInv
  <2>2. Spend("assocs") => spent' \in SpentType
    BY <2>1 DEF Spend, SpentType
  <2>3. Spend("usks") => spent' \in SpentType
    BY <2>1 DEF Spend, SpentType
  <2>4. Spend("msks") => spent' \in SpentType
    BY <2>1 DEF Spend, SpentType
  <2>5. Spend("losses") => spent' \in SpentType
    BY <2>1 DEF Spend, SpentType
  <2>6. QED
    BY <2>2, <2>3, <2>4, <2>5
<1>2. CASE Associate
  <2>1. inbox' \in [Ends -> Seq(FrameType)]
    BY <1>2, AppendTypes DEF Associate, DriverTypes, Ends
  <2>2. spent' \in SpentType /\ link' = TRUE
    BY <1>1, <1>2 DEF Associate
  <2>3. QED
    BY <1>2, <2>1, <2>2 DEF Associate, daemon, TypeInv, HandlerTypes
<1>3. ASSUME NEW p \in UPDATERS, RenewUsk(p) PROVE TypeInv'
  <2>1. p \in Ends
    BY UpdatersAssumption DEF Ends
  <2>2. inbox' \in [Ends -> Seq(FrameType)]
    BY <1>3, <2>1, AppendTypes DEF RenewUsk, DriverTypes
  <2>3. spent' \in SpentType
    BY <1>1, <1>3 DEF RenewUsk
  <2>4. QED
    BY <1>3, <2>2, <2>3 DEF RenewUsk, daemon, TypeInv, HandlerTypes
<1>4. CASE RenewMsk
  <2>1. inbox' \in [Ends -> Seq(FrameType)]
    BY <1>4, AppendTypes DEF RenewMsk, DriverTypes, Ends
  <2>2. spent' \in SpentType
    BY <1>1, <1>4 DEF RenewMsk
  <2>3. msk' \in [Ends -> Nat]
    BY <1>4 DEF RenewMsk, TypeInv, HandlerTypes, Ends
  <2>4. QED
    BY <1>4, <2>1, <2>2, <2>3 DEF RenewMsk, daemon, TypeInv, HandlerTypes
<1>5. ASSUME NEW p \in Ends, Lose(p) PROVE TypeInv'
  <2>1. PICK i \in 1 .. Len(inbox[p]) :
            inbox' = [inbox EXCEPT ![p] = RemoveAt(inbox[p], i)]
    BY <1>5 DEF Lose
  <2>2. inbox[p] \in Seq(FrameType) /\ inbox \in [Ends -> Seq(FrameType)]
    BY DEF TypeInv, HandlerTypes
  <2>3. RemoveAt(inbox[p], i) \in Seq(FrameType)
    BY <2>2, RemoveAtProperties
  <2>4. inbox' \in [Ends -> Seq(FrameType)]
    BY <2>1, <2>2, <2>3
  <2>5. spent' \in SpentType
    BY <1>1, <1>5 DEF Lose
  <2>6. QED
    BY <1>5, <2>4, <2>5 DEF Lose, daemon, TypeInv, HandlerTypes
<1>6. QED
  BY <1>2, <1>3, <1>4, <1>5

LEMMA InitTypes == Init => TypeInv
<1>1. Free \in EntType /\ <<>> \in Seq(FrameType) /\ NoKey \in KeyType
  <2>1. Free \in EntType
    BY FrameFields, Ranges DEF Free, EntType, States
  <2>2. <<>> \in Seq(FrameType)
    OBVIOUS
  <2>3. QED
    BY <2>1, <2>2, FrameFields DEF NoKey, KeyType
<1>2. ASSUME Init PROVE HandlerTypes
  BY <1>1, <1>2 DEF Init, HandlerTypes
<1>3. ASSUME Init PROVE spent \in SpentType
  BY <1>3 DEF Init, SpentType
<1>4. ASSUME Init PROVE trigger \in [Ends -> BOOLEAN] /\ link \in BOOLEAN
  BY <1>4 DEF Init
<1>5. QED
  BY <1>2, <1>3, <1>4 DEF TypeInv

LEMMA NextTypes == TypeInv /\ [Next]_vars => TypeInv'
<1> SUFFICES ASSUME TypeInv, [Next]_vars PROVE TypeInv'
  OBVIOUS
<1>1. ASSUME NEW p \in Ends, Callback(p) PROVE TypeInv'
  BY <1>1, SocketTypes, TimerTypes, TriggerTypes DEF Callback
<1>2. CASE \/ Associate
           \/ \E p \in UPDATERS : RenewUsk(p)
           \/ RenewMsk
           \/ \E p \in Ends : Lose(p)
  BY <1>2, AirTypes
<1>3. CASE UNCHANGED vars
  BY <1>3 DEF vars, TypeInv, HandlerTypes
<1>4. QED
  BY <1>1, <1>2, <1>3 DEF Next

\* States, key indices, counters and the number of timeouts stay in their
\* ranges at both ends, whatever the frames carry (the assignments of wapi.c's
\* handlers, and Rotated, retry_cnt++ and os_get_random among them).
THEOREM TypeCorrect == Spec => []TypeOK
<1>1. Init => TypeInv
  BY InitTypes
<1>2. TypeInv /\ [Next]_vars => TypeInv'
  BY NextTypes
<1>3. TypeInv => TypeOK
  <2>1. DOMAIN WAIKeyStateMachine = States
    BY DEF WAIKeyStateMachine, States
  <2>2. QED
    BY <2>1 DEF TypeInv, HandlerTypes, EntType, TypeOK
<1>4. QED
  BY <1>1, <1>2, <1>3, PTL DEF Spec

-----------------------------------------------------------------------------
(* The keys.  What the state machines and the frames between them keep is a *)
(* relation between values: the entry a of the AE and s of the ASUE, the    *)
(* inboxes ia and is, the keys ka and ks of the drivers and the number ts   *)
(* of timeouts of the ASUE.                                                 *)

DoneStates == {"UCAST_KEY_DONE", "MCAST_KEY_DONE"}

\* A response whose code was made with the challenges it carries,
Good(m) == m.type = "RESP" /\ m.mic = CalculatePairWiseKey(m.an, m.sn)
GoodFrames == {m \in FrameType : Good(m)}

\* a first request with the present challenge of a, and the answer to it.
Offer(a, m) == m.type = "REQ" /\ ~m.flag /\ m.an = a.ANONCE
OfferFrames(a) == {m \in FrameType : Offer(a, m)}
Answer(a, m) == Good(m) /\ ~m.flag /\ m.an = a.ANONCE

\* At most one place of sequence q holds a member of F.
Lone(q, F) == \A i, j \in DOMAIN q : q[i] \in F /\ q[j] \in F => i = j

\* What is on its way.
FrameKinds(ia, is) ==
    /\ \A m \in ToSet(ia) : m.type \in {"RESP", "MCAST_RESP", "KEY_HS_START",
                                        "UPDATE_USK", "UPDATE_MSK"}
    /\ \A m \in ToSet(is) : m.type \in {"REQ", "CFM", "NOTIFY", "UPDATE_USK"}

\* The ASUE sends nothing again but responses.
Station(s, ts) ==
    /\ s.WaiKeyState \in DoneStates \cup {"UCAST_KEY_IDLE", "WAIT_UCAST_CFM"}
    /\ s.WaiKeyState # "UCAST_KEY_IDLE"
          => s.retry_cnt \in UCAST_WAIT_CFM_CTR .. UCAST_WAIT_CFM_CTR + RETRIES
    /\ s.WaiKeyState = "UCAST_KEY_IDLE"
          => s.retry_cnt + ts <= UCAST_WAIT_RESP_CTR /\ ~s.PortSecured

\* The challenge and the key of the AE, once it has any.
Point(a) ==
    /\ a.WaiKeyState = "MCAST_KEY_DONE" => a.PortSecured
    /\ a.WaiKeyState # "UCAST_KEY_IDLE" => a.ANONCE # <<>>
    /\ a.WaiKeyState \in DoneStates \cup {"WAIT_MCAST_RESP"} \/ a.PortSecured
          => a.PTK # <<>>
    /\ Len(a.PTK) # 1

\* Challenges of first requests are single numbers, those of updates are not.
Lengths(ia, is) ==
    /\ \A m \in ToSet(is) : m.type = "REQ" /\ ~m.flag => Len(m.an) = 1
    /\ \A m \in ToSet(ia) : m.type = "RESP" => Len(m.sn) = 1
    /\ \A m \in ToSet(ia) : Good(m) /\ ~m.flag => Len(m.an) = 1

\* The right to complete the handshake: it is with the ASUE's response, then
\* with the confirmation, then used.
InResponse(s, ia, is, ks) ==
    /\ Lone(ia, GoodFrames)
    /\ \A m \in ToSet(ia) : Good(m) =>
          /\ s.WaiKeyState = "WAIT_UCAST_CFM"
          /\ m.mic = s.PTK
          /\ m.sn = s.SNONCE => ks = [id |-> m.uskid, ptk |-> m.mic]
          /\ \A c \in ToSet(is) : c.type = "CFM" => c.mic # s.PTK

Confirms(s, c) == c.type = "CFM" /\ c.sn = s.SNONCE /\ c.mic = s.PTK

InConfirm(s, is, ka, ks) ==
    s.WaiKeyState = "WAIT_UCAST_CFM"
        => \A c \in ToSet(is) : Confirms(s, c) => ka = ks

Used(s, ka, ks) == s.WaiKeyState \in DoneStates => ka = ks

\* A first request or its answer is on its way only while the AE waits for it.
Offers(a, ia, is) ==
    /\ Lone(is, OfferFrames(a))
    /\ \A m \in ToSet(is) : Offer(a, m) =>
          /\ a.WaiKeyState = "WAIT_UCAST_RESP" /\ ~a.PortSecured
          /\ \A r \in ToSet(ia) : ~Answer(a, r)
    /\ \A r \in ToSet(ia) : Answer(a, r) =>
          /\ a.WaiKeyState = "WAIT_UCAST_RESP" /\ ~a.PortSecured
          /\ r.uskid = a.USKID

\* Before the first multicast handshake the index is 0 on both sides and no
\* frame asks for an update.
Early(a) ==
    /\ ~a.PortSecured
    /\ a.WaiKeyState \in {"UCAST_KEY_IDLE", "WAIT_UCAST_RESP", "UCAST_KEY_DONE"}

First(a, s, ia, is) ==
    Early(a) =>
        /\ a.USKID = 0 /\ s.USKID = 0 /\ ~s.PortSecured
        /\ \A m \in ToSet(is) : m.type # "NOTIFY" /\ (m.type = "REQ" => ~m.flag)
        /\ \A m \in ToSet(ia) : m.type = "RESP" => ~m.flag

Handshake(a, s, ia, is, ka, ks, ts) ==
    /\ FrameKinds(ia, is)
    /\ Station(s, ts)
    /\ Point(a)
    /\ Lengths(ia, is)
    /\ InResponse(s, ia, is, ks)
    /\ InConfirm(s, is, ka, ks)
    /\ Used(s, ka, ks)
    /\ Offers(a, ia, is)
    /\ First(a, s, ia, is)

Values(a, s, ia, is, ka, ks, ts) ==
    /\ a \in EntType /\ s \in EntType
    /\ ia \in Seq(FrameType) /\ is \in Seq(FrameType)
    /\ ka \in KeyType /\ ks \in KeyType
    /\ ts \in Nat

-----------------------------------------------------------------------------
(* Frames that come and go.                                                *)

\* r is what some frames leave of q.
Shrinks(r, q) ==
    /\ ToSet(r) \subseteq ToSet(q)
    /\ \A F \in SUBSET FrameType : Lone(q, F) => Lone(r, F)

LEMMA ShrinksSame == \A q : Shrinks(q, q)
  BY DEF Shrinks

\* The head of an inbox goes.
LEMMA ShrinksTail ==
    ASSUME NEW q \in Seq(FrameType), q # <<>>
    PROVE  /\ Shrinks(Tail(q), q)
           /\ Head(q) \in ToSet(q)
           /\ \A F \in SUBSET FrameType :
                  Lone(q, F) /\ Head(q) \in F =>
                       \A x \in ToSet(Tail(q)) : x \notin F
<1>1. /\ Tail(q) \in Seq(FrameType) /\ Len(Tail(q)) = Len(q) - 1
      /\ \A i \in 1 .. Len(q) - 1 : Tail(q)[i] = q[i + 1]
      /\ Head(q) = q[1] /\ Len(q) \in Nat /\ Len(q) > 0
  OBVIOUS
<1>2. DOMAIN q = 1 .. Len(q) /\ DOMAIN Tail(q) = 1 .. Len(q) - 1
  BY <1>1, ToSetRange
<1>3. /\ ToSet(q) = {q[i] : i \in 1 .. Len(q)}
      /\ ToSet(Tail(q)) = {Tail(q)[i] : i \in 1 .. Len(q) - 1}
  BY <1>1, <1>2, ToSetRange
<1>4. \A i \in 1 .. Len(q) - 1 : i + 1 \in 1 .. Len(q) /\ i + 1 # 1
  BY <1>1
<1>5. 1 \in 1 .. Len(q)
  BY <1>1
<1>6. ToSet(Tail(q)) \subseteq ToSet(q) /\ Head(q) \in ToSet(q)
  BY <1>1, <1>3, <1>4, <1>5
<1>7. ASSUME NEW F \in SUBSET FrameType, Lone(q, F) PROVE Lone(Tail(q), F)
  <2> SUFFICES ASSUME NEW i \in 1 .. Len(q) - 1, NEW j \in 1 .. Len(q) - 1,
                      Tail(q)[i] \in F, Tail(q)[j] \in F
               PROVE  i = j
    BY <1>2 DEF Lone
  <2>1. q[i + 1] \in F /\ q[j + 1] \in F
    BY <1>1
  <2>2. i + 1 = j + 1
    BY <1>2, <1>4, <1>7, <2>1 DEF Lone
  <2>3. QED
    BY <2>2
<1>8. ASSUME NEW F \in SUBSET FrameType, Lone(q, F), Head(q) \in F,
             NEW x \in ToSet(Tail(q)), x \in F
      PROVE  FALSE
  <2>1. PICK i \in 1 .. Len(q) - 1 : x = q[i + 1]
    BY <1>1, <1>3
  <2>2. i + 1 = 1
    BY <1>1, <1>2, <1>4, <1>5, <1>8, <2>1 DEF Lone
  <2>3. QED
    BY <1>4, <2>2
<1>9. QED
  BY <1>6, <1>7, <1>8 DEF Shrinks

\* A frame in the middle goes.
LEMMA ShrinksRemoveAt ==
    ASSUME NEW q \in Seq(FrameType), NEW k \in 1 .. Len(q)
    PROVE  Shrinks(RemoveAt(q, k), q)
<1> DEFINE r == RemoveAt(q, k)
           f(j) == IF j < k THEN j ELSE j + 1
<1>1. /\ r \in Seq(FrameType) /\ Len(r) = Len(q) - 1 /\ Len(q) \in Nat
      /\ \A j \in 1 .. Len(q) - 1 : r[j] = IF j < k THEN q[j] ELSE q[j + 1]
  BY RemoveAtProperties
<1>2. DOMAIN q = 1 .. Len(q) /\ DOMAIN r = 1 .. Len(q) - 1
  BY <1>1, ToSetRange
<1>3. /\ ToSet(q) = {q[i] : i \in 1 .. Len(q)}
      /\ ToSet(r) = {r[i] : i \in 1 .. Len(q) - 1}
  BY <1>1, <1>2, ToSetRange
<1>4. \A j \in 1 .. Len(q) - 1 : f(j) \in 1 .. Len(q) /\ r[j] = q[f(j)]
  BY <1>1
<1>5. \A i, j \in 1 .. Len(q) - 1 : f(i) = f(j) => i = j
  BY <1>1
<1> HIDE DEF f, r
<1>6. ToSet(r) \subseteq ToSet(q)
  BY <1>3, <1>4
<1>7. ASSUME NEW F \in SUBSET FrameType, Lone(q, F) PROVE Lone(r, F)
  BY <1>2, <1>4, <1>5, <1>7 DEF Lone
<1>8. QED
  BY <1>6, <1>7 DEF Shrinks, r

\* A frame comes.
LEMMA FrameComes ==
    ASSUME NEW q \in Seq(FrameType), NEW x \in FrameType
    PROVE  /\ q \o <<x>> \in Seq(FrameType)
           /\ ToSet(q \o <<x>>) = ToSet(q) \cup {x}
           /\ Append(q, x) = q \o <<x>>
           /\ \A F \in SUBSET FrameType :
                  Lone(q, F) /\ (x \in F => \A y \in ToSet(q) : y \notin F)
                      => Lone(q \o <<x>>, F)
<1> DEFINE r == q \o <<x>>
<1>1. /\ r \in Seq(FrameType) /\ Len(r) = Len(q) + 1 /\ Len(q) \in Nat
      /\ \A i \in 1 .. Len(q) : r[i] = q[i]
      /\ r[Len(q) + 1] = x
      /\ Append(q, x) = r
  OBVIOUS
<1> HIDE DEF r
<1>2. DOMAIN q = 1 .. Len(q) /\ DOMAIN r = 1 .. Len(q) + 1
  BY <1>1, ToSetRange
<1>3. /\ ToSet(q) = {q[i] : i \in 1 .. Len(q)}
      /\ ToSet(r) = {r[i] : i \in 1 .. Len(q) + 1}
  BY <1>1, <1>2, ToSetRange
<1>4. \A i \in 1 .. Len(q) + 1 : i \in 1 .. Len(q) \/ i = Len(q) + 1
  BY <1>1
<1>5. \A i \in 1 .. Len(q) : i \in 1 .. Len(q) + 1
  BY <1>1
<1>6. Len(q) + 1 \in 1 .. Len(q) + 1
  BY <1>1
<1>7. ToSet(r) = ToSet(q) \cup {x}
  BY <1>1, <1>3, <1>4, <1>5, <1>6
<1>8. ASSUME NEW F \in SUBSET FrameType, Lone(q, F),
             x \in F => \A y \in ToSet(q) : y \notin F
      PROVE  Lone(r, F)
  <2> SUFFICES ASSUME NEW i \in 1 .. Len(q) + 1, NEW j \in 1 .. Len(q) + 1,
                      r[i] \in F, r[j] \in F
               PROVE  i = j
    BY <1>2 DEF Lone
  <2>1. CASE i \in 1 .. Len(q) /\ j \in 1 .. Len(q)
    BY <1>1, <1>2, <1>8, <2>1 DEF Lone
  <2>2. CASE i \in 1 .. Len(q) /\ j = Len(q) + 1
    BY <1>1, <1>3, <1>8, <2>2
  <2>3. CASE i = Len(q) + 1 /\ j \in 1 .. Len(q)
    BY <1>1, <1>3, <1>8, <2>3
  <2>4. QED
    BY <1>4, <2>1, <2>2, <2>3
<1>9. QED
  BY <1>1, <1>7, <1>8 DEF r

\* The sets of frames that are alone are sets of frames.
LEMMA LoneFrames ==
    /\ GoodFrames \in SUBSET FrameType
    /\ \A a : OfferFrames(a) \in SUBSET FrameType
  BY DEF GoodFrames, OfferFrames

\* Frames may go.
LEMMA FramesGo ==
    ASSUME NEW a, NEW s, NEW ia, NEW is, NEW ka, NEW ks, NEW ts,
           Handshake(a, s, ia, is, ka, ks, ts),
           NEW ja, Shrinks(ja, ia), NEW js, Shrinks(js, is)
    PROVE  Handshake(a, s, ja, js, ka, ks, ts)
<1>1. ToSet(ja) \subseteq ToSet(ia) /\ ToSet(js) \subseteq ToSet(is)
  BY DEF Shrinks
<1>2. /\ Lone(ia, GoodFrames) => Lone(ja, GoodFrames)
      /\ Lone(is, OfferFrames(a)) => Lone(js, OfferFrames(a))
  BY LoneFrames DEF Shrinks
<1>3. FrameKinds(ja, js)
  BY <1>1 DEF Handshake, FrameKinds
<1>4. Lengths(ja, js)
  BY <1>1 DEF Handshake, Lengths
<1>5. InResponse(s, ja, js, ks)
  BY <1>1, <1>2 DEF Handshake, InResponse
<1>6. InConfirm(s, js, ka, ks)
  BY <1>1 DEF Handshake, InConfirm
<1>7. Offers(a, ja, js)
  BY <1>1, <1>2 DEF Handshake, Offers
<1>8. First(a, s, ja, js)
  BY <1>1 DEF Handshake, First
<1>9. QED
  BY <1>3, <1>4, <1>5, <1>6, <1>7, <1>8 DEF Handshake

\* e is a but for the count and the mark of validity.
Like(e, a) ==
    /\ e.WaiKeyState = a.WaiKeyState /\ e.PortSecured = a.PortSecured
    /\ e.USKID = a.USKID /\ e.ANONCE = a.ANONCE /\ e.SNONCE = a.SNONCE
    /\ e.PTK = a.PTK

\* The AE may count.
LEMMA PointCounts ==
    ASSUME NEW a, NEW s, NEW ia, NEW is, NEW ka, NEW ks, NEW ts,
           Handshake(a, s, ia, is, ka, ks, ts), NEW e, Like(e, a)
    PROVE  Handshake(e, s, ia, is, ka, ks, ts)
<1>1. \A m : (Offer(e, m) <=> Offer(a, m)) /\ (Answer(e, m) <=> Answer(a, m))
  BY DEF Like, Offer, Answer
<1>2. OfferFrames(e) = OfferFrames(a)
  BY <1>1 DEF OfferFrames
<1>3. Point(e)
  BY DEF Handshake, Point, Like
<1>4. Offers(e, ia, is)
  BY <1>1, <1>2 DEF Handshake, Offers, Like
<1>5. First(e, s, ia, is)
  BY DEF Handshake, First, Early, Like
<1>6. QED
  BY <1>3, <1>4, <1>5 DEF Handshake

\* The ASUE may count within its range.
LEMMA StationCounts ==
    ASSUME NEW a, NEW s, NEW ia, NEW is, NEW ka, NEW ks, NEW ts,
           Handshake(a, s, ia, is, ka, ks, ts),
           NEW e, NEW tt, Like(e, s), Station(e, tt)
    PROVE  Handshake(a, e, ia, is, ka, ks, tt)
<1>1. InResponse(e, ia, is, ks)
  BY DEF Handshake, InResponse, Like
<1>2. InConfirm(e, is, ka, ks)
  BY DEF Handshake, InConfirm, Confirms, Like
<1>3. Used(e, ka, ks)
  BY DEF Handshake, Used, Like
<1>4. First(a, e, ia, is)
  BY DEF Handshake, First, Like
<1>5. QED
  BY <1>1, <1>2, <1>3, <1>4 DEF Handshake

\* A request of the driver of the AE, or a multicast response, arrives.
LEMMA PointHears ==
    ASSUME NEW a, NEW s, NEW ia, NEW is, NEW ka, NEW ks, NEW ts,
           Values(a, s, ia, is, ka, ks, ts),
                Handshake(a, s, ia, is, ka, ks, ts),
           NEW x \in FrameType,
           x.type \in {"KEY_HS_START", "UPDATE_USK", "UPDATE_MSK", "MCAST_RESP"}
    PROVE  Handshake(a, s, ia \o <<x>>, is, ka, ks, ts)
<1> DEFINE ja == ia \o <<x>>
<1>1. ia \in Seq(FrameType)
  BY DEF Values
<1>2. ToSet(ja) = ToSet(ia) \cup {x} /\ ~Good(x) /\ ~Answer(a, x)
  BY <1>1, FrameComes DEF Good, Answer
<1>3. Lone(ia, GoodFrames) => Lone(ja, GoodFrames)
  BY <1>1, <1>2, FrameComes, LoneFrames DEF GoodFrames
<1> HIDE DEF ja
<1>4. FrameKinds(ja, is)
  BY <1>2 DEF Handshake, FrameKinds
<1>5. Lengths(ja, is)
  BY <1>2 DEF Handshake, Lengths
<1>6. InResponse(s, ja, is, ks)
  BY <1>2, <1>3 DEF Handshake, InResponse
<1>7. Offers(a, ja, is)
  BY <1>2 DEF Handshake, Offers
<1>8. First(a, s, ja, is)
  BY <1>2 DEF Handshake, First
<1>9. QED
  BY <1>4, <1>5, <1>6, <1>7, <1>8 DEF Handshake, ja

\* A request of the driver of the ASUE arrives.
LEMMA StationHears ==
    ASSUME NEW a, NEW s, NEW ia, NEW is, NEW ka, NEW ks, NEW ts,
           Values(a, s, ia, is, ka, ks, ts),
                Handshake(a, s, ia, is, ka, ks, ts),
           NEW x \in FrameType, x.type = "UPDATE_USK"
    PROVE  Handshake(a, s, ia, is \o <<x>>, ka, ks, ts)
<1> DEFINE js == is \o <<x>>
<1>1. is \in Seq(FrameType)
  BY DEF Values
<1>2. ToSet(js) = ToSet(is) \cup {x} /\ ~Offer(a, x)
  BY <1>1, FrameComes DEF Offer
<1>3. Lone(is, OfferFrames(a)) => Lone(js, OfferFrames(a))
  BY <1>1, <1>2, FrameComes, LoneFrames DEF OfferFrames
<1> HIDE DEF js
<1>4. FrameKinds(ia, js)
  BY <1>2 DEF Handshake, FrameKinds
<1>5. Lengths(ia, js)
  BY <1>2 DEF Handshake, Lengths
<1>6. InResponse(s, ia, js, ks)
  BY <1>2 DEF Handshake, InResponse
<1>7. InConfirm(s, js, ka, ks)
  BY <1>2 DEF Handshake, InConfirm, Confirms
<1>8. Offers(a, ia, js)
  BY <1>2, <1>3 DEF Handshake, Offers
<1>9. First(a, s, ia, js)
  BY <1>2 DEF Handshake, First
<1>10. QED
  BY <1>4, <1>5, <1>6, <1>7, <1>8, <1>9 DEF Handshake, js

-----------------------------------------------------------------------------
(* The steps of the AE.                                                    *)

\* r is new to the entries and the frames.
New(r, a, s, ia, is) ==
    /\ r \in Challenges /\ Len(r) = 1
    /\ Apart(r, a.ANONCE) /\ Apart(r, a.SNONCE) /\ Apart(r, a.PTK)
    /\ Apart(r, s.ANONCE) /\ Apart(r, s.SNONCE) /\ Apart(r, s.PTK)
    /\ \A m \in ToSet(ia) : Apart(r, m.an) /\ Apart(r, m.sn) /\ Apart(r, m.mic)
    /\ \A m \in ToSet(is) : Apart(r, m.an) /\ Apart(r, m.sn) /\ Apart(r, m.mic)

\* WaiMlmeUcastKeyReqAction: a new challenge makes an offer that none of the
\* frames on their way can be taken for.
LEMMA RequestKeeps ==
    ASSUME NEW a, NEW s, NEW ia, NEW is, NEW ka, NEW ks, NEW ts,
           Values(a, s, ia, is, ka, ks, ts),
                Handshake(a, s, ia, is, ka, ks, ts),
           NEW r, New(r, a, s, ia, is),
           a.WaiKeyState \in
                DoneStates \cup {"UCAST_KEY_IDLE", "WAIT_UCAST_RESP"},
           NEW e \in EntType, NEW f \in FrameType,
           e.WaiKeyState = "WAIT_UCAST_RESP", e.PortSecured = a.PortSecured,
           e.USKID = a.USKID, e.PTK = a.PTK,
           e.ANONCE = IF a.PortSecured THEN a.PTK ELSE r,
           f.type = "REQ", f.flag = a.PortSecured, f.an = e.ANONCE
    PROVE  Handshake(e, s, ia, is \o <<f>>, ka, ks, ts)
<1> DEFINE js == is \o <<f>>
<1>1. /\ is \in Seq(FrameType) /\ ToSet(ia) \subseteq FrameType
      /\ ToSet(is) \subseteq FrameType
  BY ToSetRange DEF Values
<1>2. ToSet(js) = ToSet(is) \cup {f}
  BY <1>1, FrameComes
<1>3. r # <<>>
  <2>1. Len(<<>>) = 0 /\ Len(r) = 1 /\ 0 # 1
    BY DEF New
  <2>2. QED
    BY <2>1, Zenon
<1>4. FrameKinds(ia, js)
  BY <1>2 DEF Handshake, FrameKinds
<1>5. Point(e)
  BY <1>3 DEF Handshake, Point, DoneStates
<1>6. Lengths(ia, js)
  BY <1>2 DEF Handshake, Lengths, New
<1>7. InResponse(s, ia, js, ks)
  BY <1>2 DEF Handshake, InResponse
<1>8. InConfirm(s, js, ka, ks)
  BY <1>2 DEF Handshake, InConfirm, Confirms
<1>9. (\A m \in ToSet(is) : ~Offer(e, m)) /\
     (\A m \in ToSet(ia) : ~Answer(e, m))
  <2>1. CASE a.PortSecured
    BY <2>1 DEF Handshake, Lengths, Point, Offer, Answer
  <2>2. CASE ~a.PortSecured
    BY <2>2 DEF New, Apart, Offer, Answer
  <2>3. QED
    BY <2>1, <2>2
<1>10. Lone(is, OfferFrames(e))
  <2>1. \A m \in ToSet(is) : m \notin OfferFrames(e)
    BY <1>9 DEF OfferFrames
  <2>2. \A i \in DOMAIN is : is[i] \in ToSet(is)
    BY DEF ToSet
  <2>3. QED
    BY <2>1, <2>2 DEF Lone
<1>11. Lone(js, OfferFrames(e))
  BY <1>1, <1>9, <1>10, FrameComes, LoneFrames DEF OfferFrames
<1>12. Offers(e, ia, js)
  BY <1>2, <1>9, <1>11 DEF Offers, Offer
<1>13. First(e, s, ia, js)
  <2>1. Early(e) => Early(a)
    BY DEF Early, DoneStates, Handshake, Point
  <2>2. QED
    BY <1>2, <2>1 DEF Handshake, First, Early
<1>14. QED
  BY <1>4, <1>5, <1>6, <1>7, <1>8, <1>12, <1>13 DEF Handshake

\* WaiPeerUcastKeyRespAction, when it returns early: what it has overwritten by
\* then is not used before it is written again.
LEMMA ResponseFailsKeeps ==
    ASSUME NEW a, NEW s, NEW ia, NEW is, NEW ka, NEW ks, NEW ts,
           Values(a, s, ia, is, ka, ks, ts),
                Handshake(a, s, ia, is, ka, ks, ts),
           NEW m \in ToSet(ia), m.type = "RESP",
           a.WaiKeyState \in DoneStates \cup {"WAIT_UCAST_RESP"},
           NEW e \in EntType, e.WaiKeyState = a.WaiKeyState,
           e.PortSecured = a.PortSecured, e.ANONCE = a.ANONCE,
           m.flag \/ e.USKID = a.USKID,
           e.PTK \in {a.PTK, CalculatePairWiseKey(a.ANONCE, m.sn)}
    PROVE  Handshake(e, s, ia, is, ka, ks, ts)
<1>1. m \in FrameType /\ a.ANONCE \in Challenges /\ a.PTK \in Challenges
  BY ToSetRange DEF Values, EntType
<1>2. m.sn \in Challenges /\ Len(m.sn) = 1 /\ Len(a.ANONCE) \in Nat
  <2>1. m.sn \in Challenges
    BY <1>1 DEF FrameType
  <2>2. Len(m.sn) = 1
    BY DEF Handshake, Lengths
  <2>3. Len(a.ANONCE) \in Nat
    BY <1>1, LenProperties DEF Challenges
  <2>4. QED
    BY <2>1, <2>2, <2>3
<1>3. a.ANONCE # <<>> /\ Len(a.ANONCE) # 0
  <2>1. a.ANONCE # <<>>
    BY DEF Handshake, Point, DoneStates
  <2>2. QED
    BY <1>1, <2>1, EmptySeq DEF Challenges
<1>4. CalculatePairWiseKey(a.ANONCE, m.sn) # <<>>
      /\ Len(CalculatePairWiseKey(a.ANONCE, m.sn)) # 1
  <2>1. Len(CalculatePairWiseKey(a.ANONCE, m.sn)) = Len(a.ANONCE) + 1
    BY <1>1, <1>2, PairWiseKey
  <2>2. Len(a.ANONCE) + 1 # 0 /\ Len(a.ANONCE) + 1 # 1 /\ Len(<<>>) = 0
    BY <1>2, <1>3
  <2>3. QED
    BY <2>1, <2>2, Zenon
<1>5. Point(e)
  BY <1>4 DEF Handshake, Point, DoneStates
<1>6. Early(e) <=> Early(a)
  BY DEF Early
<1>7. Early(a) => e.USKID = a.USKID
  BY DEF Handshake, First
<1>8. First(e, s, ia, is)
  BY <1>6, <1>7 DEF Handshake, First
<1>9. \A x : (Offer(e, x) <=> Offer(a, x)) /\ (Answer(e, x) <=> Answer(a, x))
  BY DEF Offer, Answer
<1>10. OfferFrames(e) = OfferFrames(a)
  BY <1>9 DEF OfferFrames
<1>11. Offers(e, ia, is)
  BY <1>7, <1>9, <1>10 DEF Handshake, Offers, Early
<1>12. QED
  BY <1>5, <1>8, <1>11 DEF Handshake

\* WaiPeerUcastKeyRespAction, when the response is accepted: it is the only good
\* one, so the confirmation finds the ASUE with this very key or not at all.
LEMMA ResponseKeeps ==
    ASSUME NEW a, NEW s, NEW ia, NEW is, NEW ka, NEW ks, NEW ts,
           Values(a, s, ia, is, ka, ks, ts),
                Handshake(a, s, ia, is, ka, ks, ts),
           NEW m \in ToSet(ia), Good(m), m.an = a.ANONCE,
           a.WaiKeyState \in DoneStates \cup {"WAIT_UCAST_RESP"},
           NEW ja, Shrinks(ja, ia), \A x \in ToSet(ja) : ~Good(x),
           NEW e \in EntType, e.WaiKeyState = "UCAST_KEY_DONE",
           e.PortSecured = a.PortSecured, e.ANONCE = a.ANONCE,
           e.USKID = IF m.flag THEN m.uskid ELSE a.USKID, e.PTK = m.mic,
           NEW f \in FrameType, f.type = "CFM", f.sn = m.sn, f.mic = m.mic,
           NEW kk, kk = [id |-> e.USKID, ptk |-> e.PTK]
    PROVE  Handshake(e, s, ja, is \o <<f>>, kk, ks, ts)
<1> DEFINE js == is \o <<f>>
<1>1. /\ is \in Seq(FrameType) /\ m \in FrameType /\ a.ANONCE \in Challenges
      /\ ToSet(is) \subseteq FrameType /\ ToSet(ja) \subseteq ToSet(ia)
  BY ToSetRange DEF Values, EntType, Shrinks
<1>2. ToSet(js) = ToSet(is) \cup {f}
  BY <1>1, FrameComes
<1>3. /\ s.WaiKeyState = "WAIT_UCAST_CFM" /\ m.mic = s.PTK
      /\ m.sn = s.SNONCE => ks = [id |-> m.uskid, ptk |-> m.mic]
      /\ \A c \in ToSet(is) : c.type = "CFM" => c.mic # s.PTK
  BY DEF Handshake, InResponse
<1>4. m.uskid = e.USKID /\ (~m.flag => Answer(a, m))
  <2>1. ~m.flag => Answer(a, m)
    BY DEF Answer
  <2>2. ~m.flag => m.uskid = a.USKID
    BY <2>1 DEF Handshake, Offers
  <2>3. QED
    BY <2>1, <2>2
<1>5. FrameKinds(ja, js)
  BY <1>1, <1>2 DEF Handshake, FrameKinds
<1>6. Point(e)
  <2>1. m.sn \in Challenges /\ Len(m.sn) = 1 /\ Len(a.ANONCE) \in Nat
    <3>1. m.sn \in Challenges
      BY <1>1 DEF FrameType
    <3>2. Len(m.sn) = 1
      BY DEF Handshake, Lengths, Good
    <3>3. Len(a.ANONCE) \in Nat
      BY <1>1, LenProperties DEF Challenges
    <3>4. QED
      BY <3>1, <3>2, <3>3
  <2>2. a.ANONCE # <<>> /\ Len(a.ANONCE) # 0
    <3>1. a.ANONCE # <<>>
      BY DEF Handshake, Point, DoneStates
    <3>2. QED
      BY <1>1, <3>1, EmptySeq DEF Challenges
  <2>3. Len(e.PTK) = Len(a.ANONCE) + 1
    <3>1. e.PTK = CalculatePairWiseKey(a.ANONCE, m.sn)
      BY DEF Good
    <3>2. QED
      BY <1>1, <2>1, <3>1, PairWiseKey
  <2>4. Len(a.ANONCE) + 1 # 0 /\ Len(a.ANONCE) + 1 # 1 /\ Len(<<>>) = 0
    BY <2>1, <2>2
  <2>5. e.PTK # <<>> /\ Len(e.PTK) # 1
    BY <2>3, <2>4, Zenon
  <2>6. QED
    BY <2>2, <2>5 DEF Point
<1>7. Lengths(ja, js)
  BY <1>1, <1>2 DEF Handshake, Lengths
<1>8. InResponse(s, ja, js, ks)
  <2>1. Lone(ja, GoodFrames)
    BY LoneFrames DEF Handshake, InResponse, Shrinks
  <2>2. QED
    BY <2>1 DEF InResponse
<1>9. InConfirm(s, js, kk, ks)
  BY <1>2, <1>3, <1>4 DEF InConfirm, Confirms
<1>10. Used(s, kk, ks)
  BY <1>3 DEF Used, DoneStates
<1>11. Early(e) => Early(a) /\ ~m.flag
  <2>1. Early(e) => Early(a)
    BY DEF Early, DoneStates, Handshake, Point
  <2>2. Early(a) => ~m.flag
    BY DEF Handshake, First, Good
  <2>3. QED
    BY <2>1, <2>2
<1>12. \A x \in ToSet(is) : ~Offer(a, x)
  <2> SUFFICES ASSUME NEW x \in ToSet(is), Offer(a, x) PROVE FALSE
    OBVIOUS
  <2>1. a.WaiKeyState = "WAIT_UCAST_RESP" /\ ~a.PortSecured /\ ~Answer(a, m)
    BY DEF Handshake, Offers
  <2>2. Early(a) /\ m.flag
    BY <1>4, <2>1 DEF Early
  <2>3. QED
    BY <2>2 DEF Handshake, First, Good
<1>13. \A x : Offer(e, x) <=> Offer(a, x)
  BY DEF Offer
<1>14. Offers(e, ja, js)
  <2>1. \A x \in ToSet(js) : ~Offer(e, x)
    BY <1>2, <1>12, <1>13 DEF Offer
  <2>2. \A i \in DOMAIN js : js[i] \in ToSet(js)
    BY DEF ToSet
  <2>3. Lone(js, OfferFrames(e))
    <3> HIDE DEF js
    <3>1. QED
      BY <2>1, <2>2 DEF Lone, OfferFrames
  <2>4. \A r \in ToSet(ja) : ~Answer(e, r)
    BY DEF Answer
  <2>5. QED
    BY <2>1, <2>3, <2>4 DEF Offers
<1>15. First(e, s, ja, js)
  BY <1>1, <1>2, <1>11 DEF Handshake, First
<1>16. QED
  BY <1>5, <1>6, <1>7, <1>8, <1>9, <1>10, <1>14, <1>15 DEF Handshake

\* WaiMlmeMcastKeyNotifyAction.
LEMMA NotifyKeeps ==
    ASSUME NEW a, NEW s, NEW ia, NEW is, NEW ka, NEW ks, NEW ts,
           Values(a, s, ia, is, ka, ks, ts),
                Handshake(a, s, ia, is, ka, ks, ts),
           a.WaiKeyState \in DoneStates \cup {"WAIT_MCAST_RESP"},
           NEW e \in EntType, e.WaiKeyState = "WAIT_MCAST_RESP",
           e.PortSecured = a.PortSecured, e.ANONCE = a.ANONCE, e.PTK = a.PTK,
           NEW f \in FrameType, f.type = "NOTIFY"
    PROVE  Handshake(e, s, ia, is \o <<f>>, ka, ks, ts)
<1> DEFINE js == is \o <<f>>
<1>1. is \in Seq(FrameType)
  BY DEF Values
<1>2. ToSet(js) = ToSet(is) \cup {f} /\ ~Offer(e, f)
  BY <1>1, FrameComes DEF Offer
<1>3. \A x : (Offer(e, x) <=> Offer(a, x)) /\ (Answer(e, x) <=> Answer(a, x))
  BY DEF Offer, Answer
<1>4. OfferFrames(e) = OfferFrames(a)
  BY <1>3 DEF OfferFrames
<1>5. Lone(js, OfferFrames(e))
  <2>1. f \notin OfferFrames(e)
    BY <1>2 DEF OfferFrames
  <2>2. Lone(is, OfferFrames(e))
    BY <1>4 DEF Handshake, Offers
  <2>3. QED
    BY <1>1, <2>1, <2>2, FrameComes, LoneFrames
<1> HIDE DEF js
<1>6. FrameKinds(ia, js)
  BY <1>2 DEF Handshake, FrameKinds
<1>7. Point(e)
  BY DEF Handshake, Point, DoneStates
<1>8. Lengths(ia, js)
  BY <1>2 DEF Handshake, Lengths
<1>9. InResponse(s, ia, js, ks)
  BY <1>2 DEF Handshake, InResponse
<1>10. InConfirm(s, js, ka, ks)
  BY <1>2 DEF Handshake, InConfirm, Confirms
<1>11. Offers(e, ia, js)
  BY <1>2, <1>3, <1>5 DEF Handshake, Offers, DoneStates
<1>12. First(e, s, ia, js)
  BY DEF First, Early
<1>13. QED
  BY <1>6, <1>7, <1>8, <1>9, <1>10, <1>11, <1>12 DEF Handshake, js

\* WaiPeerMcastKeyRespAction.
LEMMA McastResponseKeeps ==
    ASSUME NEW a, NEW s, NEW ia, NEW is, NEW ka, NEW ks, NEW ts,
           Handshake(a, s, ia, is, ka, ks, ts),
           a.WaiKeyState = "WAIT_MCAST_RESP",
           NEW e, e.WaiKeyState = "MCAST_KEY_DONE", e.PortSecured = TRUE,
           e.ANONCE = a.ANONCE, e.PTK = a.PTK
    PROVE  Handshake(e, s, ia, is, ka, ks, ts)
<1>1. \A x : (Offer(e, x) <=> Offer(a, x)) /\ (Answer(e, x) <=> Answer(a, x))
  BY DEF Offer, Answer
<1>2. OfferFrames(e) = OfferFrames(a)
  BY <1>1 DEF OfferFrames
<1>3. Point(e)
  BY DEF Handshake, Point
<1>4. Offers(e, ia, is)
  BY <1>1, <1>2 DEF Handshake, Offers
<1>5. First(e, s, ia, is)
  BY DEF First, Early
<1>6. QED
  BY <1>3, <1>4, <1>5 DEF Handshake

-----------------------------------------------------------------------------
(* The steps of the ASUE.                                                  *)

\* WaiPeerUcastKeyReqAction: the response has a key of its own, and answers an
\* offer at most once.
LEMMA RequestAnswered ==
    ASSUME NEW a, NEW s, NEW ia, NEW is, NEW ka, NEW ks, NEW ts,
           Values(a, s, ia, is, ka, ks, ts),
                Handshake(a, s, ia, is, ka, ks, ts),
           NEW r, New(r, a, s, ia, is),
           s.WaiKeyState \in DoneStates \cup {"UCAST_KEY_IDLE"},
           NEW m \in ToSet(is), m.type = "REQ",
           NEW js, Shrinks(js, is),
           Offer(a, m) => \A x \in ToSet(js) : ~Offer(a, x),
           NEW e, NEW tt, Station(e, tt), e.WaiKeyState = "WAIT_UCAST_CFM",
           e.PortSecured = s.PortSecured, e.SNONCE = r,
           e.USKID = IF m.flag THEN m.uskid ELSE s.USKID,
           e.PTK = CalculatePairWiseKey(m.an, r),
           NEW f \in FrameType, f.type = "RESP", f.flag = m.flag,
           f.uskid = e.USKID, f.sn = r, f.an = m.an, f.mic = e.PTK,
           NEW kk, kk = [id |-> e.USKID, ptk |-> e.PTK]
    PROVE  Handshake(a, e, ia \o <<f>>, js, ka, kk, tt)
<1> DEFINE ja == ia \o <<f>>
<1>1. /\ ia \in Seq(FrameType) /\ ToSet(js) \subseteq ToSet(is)
      /\ m \in FrameType /\ m.an \in Challenges
  BY ToSetRange DEF Values, Shrinks, FrameType
<1>2. ToSet(ja) = ToSet(ia) \cup {f}
  BY <1>1, FrameComes
<1>3. \A x \in ToSet(ia) : ~Good(x)
  BY DEF Handshake, InResponse, DoneStates
<1>4. Lone(ja, GoodFrames)
  <2>1. \A x \in ToSet(ia) : x \notin GoodFrames
    BY <1>3 DEF GoodFrames
  <2>2. Lone(ia, GoodFrames)
    BY DEF Handshake, InResponse
  <2>3. QED
    BY <1>1, <2>1, <2>2, FrameComes, LoneFrames
<1>5. \A c \in ToSet(js) : c.mic # e.PTK
  BY <1>1 DEF New, Apart
<1>6. Answer(a, f) <=> Offer(a, m)
  BY DEF Answer, Offer, Good
<1>7. Early(a) => ~m.flag
  BY DEF Handshake, First
<1> HIDE DEF ja
<1>8. FrameKinds(ja, js)
  BY <1>1, <1>2 DEF Handshake, FrameKinds
<1>9. Lengths(ja, js)
  <2>1. Good(f) /\ ~f.flag => Len(f.an) = 1
    BY DEF Handshake, Lengths
  <2>2. Len(f.sn) = 1
    BY DEF New
  <2>3. QED
    BY <1>1, <1>2, <2>1, <2>2 DEF Handshake, Lengths
<1>10. InResponse(e, ja, js, kk)
  <2>1. \A x \in ToSet(ja) : Good(x) => x = f
    BY <1>2, <1>3
  <2>2. QED
    BY <1>4, <1>5, <2>1 DEF InResponse
<1>11. InConfirm(e, js, ka, kk)
  BY <1>5 DEF InConfirm, Confirms
<1>12. Used(e, ka, kk)
  BY DEF Used, DoneStates
<1>13. First(a, e, ja, js)
  BY <1>1, <1>2, <1>7 DEF Handshake, First
<1>14. Offers(a, ja, js)
  <2>1. Lone(js, OfferFrames(a))
    BY LoneFrames DEF Handshake, Offers, Shrinks
  <2>2. ASSUME NEW x \in ToSet(js), Offer(a, x)
        PROVE  /\ a.WaiKeyState = "WAIT_UCAST_RESP" /\ ~a.PortSecured
               /\ \A y \in ToSet(ja) : ~Answer(a, y)
    <3>1. x \in ToSet(is) /\ ~Offer(a, m)
      BY <1>1, <2>2
    <3>2. QED
      BY <1>2, <1>6, <2>2, <3>1 DEF Handshake, Offers
  <2>3. ASSUME Answer(a, f)
        PROVE  /\ a.WaiKeyState = "WAIT_UCAST_RESP" /\ ~a.PortSecured
               /\ f.uskid = a.USKID
    <3>1. a.WaiKeyState = "WAIT_UCAST_RESP" /\ ~a.PortSecured
      BY <1>6, <2>3 DEF Handshake, Offers
    <3>2. Early(a)
      BY <3>1 DEF Early
    <3>3. a.USKID = 0 /\ s.USKID = 0 /\ ~m.flag
      BY <1>7, <3>2 DEF Handshake, First
    <3>4. QED
      BY <3>1, <3>3
  <2>4. \A y \in ToSet(ja) : Answer(a, y) => y \in ToSet(ia) \/ y = f
    BY <1>2
  <2>5. QED
    BY <2>1, <2>2, <2>3, <2>4 DEF Handshake, Offers
<1>15. QED
  BY <1>8, <1>9, <1>10, <1>11, <1>12, <1>13, <1>14 DEF Handshake, ja

\* WaiMlmeUcastKeyRespAction: the response sent again is not good.
LEMMA ResponseSentAgain ==
    ASSUME NEW a, NEW s, NEW ia, NEW is, NEW ka, NEW ks, NEW ts,
           Values(a, s, ia, is, ka, ks, ts),
                Handshake(a, s, ia, is, ka, ks, ts),
           NEW r, New(r, a, s, ia, is),
           s.WaiKeyState \in DoneStates \cup {"WAIT_UCAST_CFM"},
           NEW e, NEW tt, Station(e, tt), e.WaiKeyState = "WAIT_UCAST_CFM",
           e.PortSecured = s.PortSecured, e.SNONCE = r, e.PTK = s.PTK,
           s.PortSecured \/ e.USKID = s.USKID,
           NEW f \in FrameType, f.type = "RESP", f.flag = s.PortSecured,
           f.sn = r, f.mic = s.PTK,
           NEW kk
    PROVE  Handshake(a, e, ia \o <<f>>, is, ka, kk, tt)
<1> DEFINE ja == ia \o <<f>>
<1>1. ia \in Seq(FrameType) /\ f.an \in Challenges
  BY DEF Values, FrameType
<1>2. ToSet(ja) = ToSet(ia) \cup {f}
  BY <1>1, FrameComes
<1>3. ~Good(f) /\ ~Answer(a, f)
  BY <1>1 DEF Good, Answer, New, Apart
<1>4. Lone(ja, GoodFrames)
  <2>1. f \notin GoodFrames
    BY <1>3 DEF GoodFrames
  <2>2. Lone(ia, GoodFrames)
    BY DEF Handshake, InResponse
  <2>3. QED
    BY <1>1, <2>1, <2>2, FrameComes, LoneFrames
<1> HIDE DEF ja
<1>5. FrameKinds(ja, is)
  BY <1>2 DEF Handshake, FrameKinds
<1>6. Lengths(ja, is)
  BY <1>2, <1>3 DEF Handshake, Lengths, New
<1>7. InResponse(e, ja, is, kk)
  <2>1. \A m \in ToSet(ja) : Good(m) => m \in ToSet(ia) /\ m.sn # r
    BY <1>2, <1>3 DEF New, Apart
  <2>2. QED
    BY <1>4, <2>1 DEF Handshake, InResponse
<1>8. InConfirm(e, is, ka, kk)
  BY DEF InConfirm, Confirms, New, Apart
<1>9. Used(e, ka, kk)
  BY DEF Used, DoneStates
<1>10. Offers(a, ja, is)
  BY <1>2, <1>3 DEF Handshake, Offers
<1>11. First(a, e, ja, is)
  BY <1>2 DEF Handshake, First
<1>12. QED
  BY <1>5, <1>6, <1>7, <1>8, <1>9, <1>10, <1>11 DEF Handshake, ja

\* WaiPeerUcastKeyCfmAction: the right to complete the handshake is used.
LEMMA ConfirmationKeeps ==
    ASSUME NEW a, NEW s, NEW ia, NEW is, NEW ka, NEW ks, NEW ts,
           Handshake(a, s, ia, is, ka, ks, ts),
           s.WaiKeyState = "WAIT_UCAST_CFM",
           NEW c \in ToSet(is), Confirms(s, c),
           NEW e, NEW tt, Station(e, tt), e.WaiKeyState = "UCAST_KEY_DONE",
           e.PortSecured = s.PortSecured, e.USKID = s.USKID
    PROVE  Handshake(a, e, ia, is, ka, ks, tt)
<1>1. ka = ks
  BY DEF Handshake, InConfirm
<1>2. \A m \in ToSet(ia) : ~Good(m)
  BY DEF Handshake, InResponse, Confirms
<1>3. InResponse(e, ia, is, ks)
  BY <1>2 DEF Handshake, InResponse
<1>4. InConfirm(e, is, ka, ks) /\ Used(e, ka, ks)
  BY <1>1 DEF InConfirm, Used
<1>5. First(a, e, ia, is)
  BY DEF Handshake, First
<1>6. QED
  BY <1>3, <1>4, <1>5 DEF Handshake

\* WaiPeerMcastKeyNotifyAction.
LEMMA NotifyAnswered ==
    ASSUME NEW a, NEW s, NEW ia, NEW is, NEW ka, NEW ks, NEW ts,
           Handshake(a, s, ia, is, ka, ks, ts),
           s.WaiKeyState \in DoneStates,
           NEW n \in ToSet(is), n.type = "NOTIFY",
           NEW e, NEW tt, Station(e, tt), e.WaiKeyState = "MCAST_KEY_DONE"
    PROVE  Handshake(a, e, ia, is, ka, ks, tt)
<1>1. \A m \in ToSet(ia) : ~Good(m)
  BY DEF Handshake, InResponse, DoneStates
<1>2. InResponse(e, ia, is, ks)
  BY <1>1 DEF Handshake, InResponse
<1>3. InConfirm(e, is, ka, ks) /\ Used(e, ka, ks)
  BY DEF Handshake, InConfirm, Used
<1>4. First(a, e, ia, is)
  BY DEF Handshake, First
<1>5. QED
  BY <1>2, <1>3, <1>4 DEF Handshake

-----------------------------------------------------------------------------
(* The handlers while the station is associated.                           *)

\* The state of the handshake.
NowHandshake ==
    Handshake(ent["AE"], ent["ASUE"], inbox["AE"], inbox["ASUE"],
              key["AE"], key["ASUE"], timer["ASUE"])

\* No end is told to delete its entry, the ASUE gets no good response and the
\* AE no confirmation.
Quiet ==
    /\ \A m \in ToSet(inbox["AE"]) : m.type \notin {"CFM", "DELETE"}
    /\ \A m \in ToSet(inbox["ASUE"]) : m.type # "DELETE" /\ ~Good(m)

\* While the station is associated, the AE is in the handshake or has sent a
\* response of its own; then it waits for a confirmation that nobody sends.
Live ==
    link => /\ Quiet
            /\ ent["AE"].WaiKeyState # "WAIT_UCAST_CFM" => NowHandshake

\* Of the rest of the inboxes nothing has the next random number.
LEMMA RandomNew ==
    ASSUME TypeInv,
           NEW a, a.ANONCE \in Strings, a.SNONCE \in Strings, a.PTK \in Strings,
           NEW s, s.ANONCE \in Strings, s.SNONCE \in Strings, s.PTK \in Strings,
           NEW ia, ToSet(ia) \subseteq ToSet(inbox["AE"]),
           NEW is, ToSet(is) \subseteq ToSet(inbox["ASUE"])
    PROVE  New(os_get_random, a, s, ia, is)
<1>1. "AE" \in Ends /\ "ASUE" \in Ends
  BY DEF Ends
<1>2. \A m \in ToSet(ia) :
     m.an \in Strings /\ m.sn \in Strings /\ m.mic \in Strings
  BY <1>1, SentInUse
<1>3. \A m \in ToSet(is) :
     m.an \in Strings /\ m.sn \in Strings /\ m.mic \in Strings
  BY <1>1, SentInUse
<1>4. QED
  BY <1>2, <1>3, RandomApart DEF New

\* What a handler of p leaves at both ends.
LEMMA DoneValues ==
    ASSUME TypeInv, link, NEW p \in Ends, NEW e, NEW t, NEW rest, NEW out,
           Done(p, e, t, rest, out)
    PROVE  /\ ent'[p] = e /\ ent'[Peer(p)] = ent[Peer(p)]
           /\ timer'[p] = t /\ timer'[Peer(p)] = timer[Peer(p)]
           /\ inbox'[p] = rest /\ inbox'[Peer(p)] = inbox[Peer(p)] \o out
<1>1. Peer(p) \in Ends /\ Peer(p) # p
  BY DEF Ends, Peer
<1>2. /\ ent \in [Ends -> EntType] /\ timer \in [Ends -> Nat]
      /\ inbox \in [Ends -> Seq(FrameType)]
  BY DEF TypeInv, HandlerTypes
<1>3. inbox' = [inbox EXCEPT ![p] = rest, ![Peer(p)] = inbox[Peer(p)] \o out]
  BY <1>1, <1>2 DEF Done, wapi_handle_l2_send
<1>4. QED
  BY <1>1, <1>2, <1>3 DEF Done

\* The values are of their types.
LEMMA NowValues ==
    ASSUME TypeInv
    PROVE  Values(ent["AE"], ent["ASUE"], inbox["AE"], inbox["ASUE"],
                  key["AE"], key["ASUE"], timer["ASUE"])
  BY DEF TypeInv, HandlerTypes, Ends, Values

\* An end that is like another has nothing new.
LEMMA LikeInUse ==
    ASSUME NEW p \in Ends, NEW e, Like(e, ent[p])
    PROVE  e.ANONCE \in Strings /\ e.SNONCE \in Strings /\ e.PTK \in Strings
  BY HeldInUse DEF Like

\* What the AE sends is not for an end to delete its entry by, nor good.
LEMMA PointQuiet ==
    ASSUME TypeInv, link, Quiet, NEW e, NEW t, NEW rest,
           ToSet(rest) \subseteq ToSet(inbox["AE"]), NEW out,
           Done("AE", e, t, rest, out),
           \/ out = <<>>
           \/ \E f \in FrameType : out = <<f>> /\ f.type # "DELETE" /\ ~Good(f)
    PROVE  Quiet'
<1>1. inbox["ASUE"] \in Seq(FrameType)
  BY DEF TypeInv, HandlerTypes, Ends
<1>2. inbox'["AE"] = rest /\ inbox'["ASUE"] = inbox["ASUE"] \o out
  BY DoneValues, EndsAre
<1>3. \A m \in ToSet(inbox'["ASUE"]) : m.type # "DELETE" /\ ~Good(m)
  <2>1. CASE out = <<>>
    <3>1. inbox'["ASUE"] = inbox["ASUE"]
      BY <1>1, <1>2, <2>1
    <3>2. QED
      BY <3>1 DEF Quiet
  <2>2. ASSUME NEW f \in FrameType, out = <<f>>, f.type # "DELETE", ~Good(f)
        PROVE  \A m \in ToSet(inbox'["ASUE"]) : m.type # "DELETE" /\ ~Good(m)
    <3>1. ToSet(inbox'["ASUE"]) = ToSet(inbox["ASUE"]) \cup {f}
      BY <1>1, <1>2, <2>2, FrameComes
    <3>2. QED
      BY <2>2, <3>1 DEF Quiet
  <2>3. QED
    BY <2>1, <2>2
<1>4. QED
  BY <1>2, <1>3 DEF Quiet

\* What the ASUE sends is no confirmation.
LEMMA StationQuiet ==
    ASSUME TypeInv, link, Quiet, NEW e, NEW t, NEW rest,
           ToSet(rest) \subseteq ToSet(inbox["ASUE"]), NEW out,
           Done("ASUE", e, t, rest, out),
           \/ out = <<>>
           \/ \E f \in FrameType :
                out = <<f>> /\ f.type \notin {"CFM", "DELETE"}
    PROVE  Quiet'
<1>1. inbox["AE"] \in Seq(FrameType)
  BY DEF TypeInv, HandlerTypes, Ends
<1>2. inbox'["ASUE"] = rest /\ inbox'["AE"] = inbox["AE"] \o out
  BY DoneValues, EndsAre
<1>3. \A m \in ToSet(inbox'["AE"]) : m.type \notin {"CFM", "DELETE"}
  <2>1. CASE out = <<>>
    <3>1. inbox'["AE"] = inbox["AE"]
      BY <1>1, <1>2, <2>1
    <3>2. QED
      BY <3>1 DEF Quiet
  <2>2. ASSUME NEW f \in FrameType, out = <<f>>, f.type \notin {"CFM", "DELETE"}
        PROVE  \A m \in ToSet(inbox'["AE"]) : m.type \notin {"CFM", "DELETE"}
    <3>1. ToSet(inbox'["AE"]) = ToSet(inbox["AE"]) \cup {f}
      BY <1>1, <1>2, <2>2, FrameComes
    <3>2. QED
      BY <2>2, <3>1 DEF Quiet
  <2>3. QED
    BY <2>1, <2>2
<1>4. QED
  BY <1>2, <1>3 DEF Quiet

\* A handler of the AE starts with the handshake as it is.
LEMMA PointStarts ==
    ASSUME TypeInv, NEW e \in EntType, Like(e, ent["AE"]),
           NEW rest \in Seq(FrameType), Shrinks(rest, inbox["AE"])
    PROVE  /\ NowHandshake => Handshake(e, ent["ASUE"], rest, inbox["ASUE"],
                                        key["AE"], key["ASUE"], timer["ASUE"])
           /\ Values(e, ent["ASUE"], rest, inbox["ASUE"],
                     key["AE"], key["ASUE"], timer["ASUE"])
           /\ New(os_get_random, e, ent["ASUE"], rest, inbox["ASUE"])
<1>1. NowHandshake => Handshake(e, ent["ASUE"], inbox["AE"], inbox["ASUE"],
                                key["AE"], key["ASUE"], timer["ASUE"])
  BY PointCounts DEF NowHandshake
<1>2. NowHandshake => Handshake(e, ent["ASUE"], rest, inbox["ASUE"],
                                key["AE"], key["ASUE"], timer["ASUE"])
  BY <1>1, FramesGo, ShrinksSame
<1>3. Values(e, ent["ASUE"], rest, inbox["ASUE"],
             key["AE"], key["ASUE"], timer["ASUE"])
  BY NowValues DEF Values
<1>4. "AE" \in Ends /\ "ASUE" \in Ends /\
     ToSet(rest) \subseteq ToSet(inbox["AE"])
  BY DEF Ends, Shrinks
<1>5. New(os_get_random, e, ent["ASUE"], rest, inbox["ASUE"])
  BY <1>4, LikeInUse, HeldInUse, RandomNew
<1>6. QED
  BY <1>2, <1>3, <1>5

LEMMA PointReturns ==
    ASSUME TypeInv, link, Live, NEW e \in EntType, Like(e, ent["AE"]),
           NEW t, NEW rest \in Seq(FrameType), Shrinks(rest, inbox["AE"]),
           Return("AE", e, t, rest)
    PROVE  Live'
<1>1. Done("AE", e, t, rest, <<>>) /\ UNCHANGED key
  BY DEF Return
<1>2. Quiet'
  BY <1>1, PointQuiet DEF Live, Shrinks
<1>3. inbox["ASUE"] \in Seq(FrameType)
  BY DEF TypeInv, HandlerTypes, Ends
<1>4. /\ ent'["AE"] = e /\ ent'["ASUE"] = ent["ASUE"]
      /\ timer'["ASUE"] = timer["ASUE"]
      /\ inbox'["AE"] = rest /\ inbox'["ASUE"] = inbox["ASUE"]
      /\ key' = key
  BY <1>1, <1>3, DoneValues, EndsAre
<1>5. NowHandshake => NowHandshake'
  BY <1>4, PointStarts DEF NowHandshake
<1>6. e.WaiKeyState = ent["AE"].WaiKeyState
  BY DEF Like
<1>7. QED
  BY <1>2, <1>4, <1>5, <1>6 DEF Live

\* The state machine of the AE on a message of the daemon itself.
LEMMA PointMlme ==
    ASSUME TypeInv, link, Live, NEW e \in EntType, Like(e, ent["AE"]),
           NEW t \in Nat, NEW rest \in Seq(FrameType),
           Shrinks(rest, inbox["AE"]),
           NEW type \in {"MLME_REQ", "MLME_RESP", "MLME_NOTIFY"},
           Mlme("AE", type, e, t, rest)
    PROVE  Live'
<1> DEFINE s == ent["ASUE"]
           is == inbox["ASUE"]
<1>1. Called("AE", e, t, rest)
  BY DEF Called, Ends
<1>2. is \in Seq(FrameType) /\ ToSet(rest) \subseteq ToSet(inbox["AE"])
  BY DEF TypeInv, HandlerTypes, Ends, Shrinks
<1>3. e.WaiKeyState = ent["AE"].WaiKeyState
  BY DEF Like
<1>4. Quiet /\ (e.WaiKeyState # "WAIT_UCAST_CFM" => NowHandshake)
  BY <1>3 DEF Live
<1>5. /\ NowHandshake =>
           Handshake(e, s, rest, is, key["AE"], key["ASUE"], timer["ASUE"])
      /\ Values(e, s, rest, is, key["AE"], key["ASUE"], timer["ASUE"])
      /\ New(os_get_random, e, s, rest, is)
  BY PointStarts
<1>6. CASE type \notin WAIKeyStateMachine[e.WaiKeyState]
  BY <1>6, PointReturns DEF Mlme
<1>7. CASE type \in WAIKeyStateMachine[e.WaiKeyState] /\ type = "MLME_REQ"
  <2>1. WaiMlmeUcastKeyReqAction("AE", e, t, rest)
    BY <1>7 DEF Mlme
  <2>2. PICK new \in EntType, f \in FrameType :
            /\ Done("AE", new, t + 1, rest, <<f>>)
            /\ UNCHANGED <<mskid, key, msk>>
            /\ Requested(e, new, f)
    BY <1>1, <2>1, MlmeReqDoes
  <2>3. e.WaiKeyState \in DoneStates \cup {"UCAST_KEY_IDLE", "WAIT_UCAST_RESP"}
    BY <1>7 DEF WAIKeyStateMachine, EntType, States, DoneStates
  <2>4. NowHandshake /\ e.WaiKeyState # "WAIT_UCAST_CFM"
    BY <1>4, <2>3 DEF DoneStates
  <2>5. Handshake(new, s, rest, is \o <<f>>, key["AE"], key["ASUE"],
       timer["ASUE"])
    BY <1>5, <2>2, <2>3, <2>4, RequestKeeps DEF Requested
  <2>6. /\ ent'["AE"] = new /\ ent'["ASUE"] = s
        /\ timer'["ASUE"] = timer["ASUE"]
        /\ inbox'["AE"] = rest /\ inbox'["ASUE"] = is \o <<f>>
    BY <2>2, DoneValues, EndsAre
  <2>7. NowHandshake'
    BY <2>2, <2>5, <2>6 DEF NowHandshake
  <2>8. Quiet'
    BY <1>2, <1>4, <2>2, PointQuiet DEF Requested, Good
  <2>9. QED
    BY <2>7, <2>8 DEF Live
<1>8. CASE type \in WAIKeyStateMachine[e.WaiKeyState] /\ type = "MLME_RESP"
  <2>1. WaiMlmeUcastKeyRespAction("AE", e, t, rest)
    BY <1>8 DEF Mlme
  <2>2. PICK new \in EntType, f \in FrameType :
            /\ Done("AE", new, t + 1, rest, <<f>>)
            /\ wapi_set_ucast_key_proc("AE", new)
            /\ UNCHANGED <<mskid, msk>>
            /\ SentResponse(e, new, f)
    BY <1>1, <2>1, MlmeRespDoes
  <2>3. ~Good(f) /\ f.type # "DELETE"
    <3>1. f.an \in Challenges
      BY DEF FrameType
    <3>2. QED
      BY <1>5, <2>2, <3>1 DEF SentResponse, New, Apart, Good
  <2>4. Quiet'
    BY <1>2, <1>4, <2>2, <2>3, PointQuiet
  <2>5. ent'["AE"].WaiKeyState = "WAIT_UCAST_CFM"
    <3>1. ent'["AE"] = new
      BY <2>2, DoneValues, EndsAre
    <3>2. QED
      BY <2>2, <3>1 DEF SentResponse
  <2>6. QED
    BY <2>4, <2>5 DEF Live
<1>9. CASE type \in WAIKeyStateMachine[e.WaiKeyState] /\ type = "MLME_NOTIFY"
  <2>1. WaiMlmeMcastKeyNotifyAction("AE", e, t, rest)
    BY <1>9 DEF Mlme
  <2>2. PICK new \in EntType, f \in FrameType :
            /\ Done("AE", new, t + 1, rest, <<f>>)
            /\ mskid' = [mskid EXCEPT !["AE"] = msk["AE"] % 2]
            /\ UNCHANGED <<key, msk>>
            /\ Notified(e, new, f)
    BY <1>1, <2>1, MlmeNotifyDoes
  <2>3. e.WaiKeyState \in DoneStates \cup {"WAIT_MCAST_RESP"}
    BY <1>9 DEF WAIKeyStateMachine, EntType, States, DoneStates
  <2>4. NowHandshake
    BY <1>4, <2>3 DEF DoneStates
  <2>5. Handshake(new, s, rest, is \o <<f>>, key["AE"], key["ASUE"],
       timer["ASUE"])
    BY <1>5, <2>2, <2>3, <2>4, NotifyKeeps DEF Notified
  <2>6. /\ ent'["AE"] = new /\ ent'["ASUE"] = s
        /\ timer'["ASUE"] = timer["ASUE"]
        /\ inbox'["AE"] = rest /\ inbox'["ASUE"] = is \o <<f>>
    BY <2>2, DoneValues, EndsAre
  <2>7. NowHandshake'
    BY <2>2, <2>5, <2>6 DEF NowHandshake
  <2>8. Quiet'
    BY <1>2, <1>4, <2>2, PointQuiet DEF Notified, Good
  <2>9. QED
    BY <2>7, <2>8 DEF Live
<1>10. QED
  BY <1>6, <1>7, <1>8, <1>9

\* The state machine of the AE on a frame of the ASUE.
LEMMA PointPeer ==
    ASSUME TypeInv, link, Live, inbox["AE"] # <<>>,
           \/ PeerUcastKeyReq("AE") \/ PeerUcastKeyResp("AE")
           \/ PeerUcastKeyCfm("AE") \/ PeerMcastKeyNotify("AE")
           \/ PeerMcastKeyResp("AE")
    PROVE  Live'
<1> DEFINE e == Entry("AE")
           t == timer["AE"]
           rest == Tail(inbox["AE"])
           m == Head(inbox["AE"])
           s == ent["ASUE"]
           is == inbox["ASUE"]
<1>1. Called("AE", e, t, rest) /\ m \in FrameType /\
     inbox["AE"] \in Seq(FrameType)
  BY ReceiveCalls DEF Ends, TypeInv, HandlerTypes
<1>2. e \in EntType /\ t \in Nat /\ rest \in Seq(FrameType)
  BY <1>1 DEF Called
<1>3. Like(e, ent["AE"])
  BY DEF Entry, Like, TypeInv, HandlerTypes, EntType, Ends
<1>4. /\ Shrinks(rest, inbox["AE"]) /\ m \in ToSet(inbox["AE"])
      /\ ToSet(rest) \subseteq ToSet(inbox["AE"])
      /\ \A F \in SUBSET FrameType :
             Lone(inbox["AE"], F) /\ m \in F =>
                  \A x \in ToSet(rest) : x \notin F
  BY <1>1, ShrinksTail DEF Shrinks
<1>5. e.WaiKeyState = ent["AE"].WaiKeyState /\ Quiet
  BY <1>3 DEF Like, Live
<1>6. is \in Seq(FrameType) /\ ToSet(rest) \subseteq FrameType
  BY <1>2, ToSetRange DEF TypeInv, HandlerTypes, Ends
<1>7. /\ NowHandshake =>
           Handshake(e, s, inbox["AE"], is, key["AE"], key["ASUE"],
                                   timer["ASUE"])
      /\ NowHandshake =>
           Handshake(e, s, rest, is, key["AE"], key["ASUE"], timer["ASUE"])
      /\ Values(e, s, rest, is, key["AE"], key["ASUE"], timer["ASUE"])
      /\ Values(e, s, inbox["AE"], is, key["AE"], key["ASUE"], timer["ASUE"])
  BY <1>1, <1>2, <1>3, <1>4, PointStarts, ShrinksSame
<1> HIDE DEF e, t, rest, m, s, is
<1>8. ASSUME NEW new \in EntType,
             Return("AE", new, t, rest), Like(new, e)
      PROVE  Live'
  <2>1. Like(new, ent["AE"])
    BY <1>3, <1>8 DEF Like
  <2>2. QED
    BY <1>2, <1>4, <1>8, <2>1, PointReturns
<1>9. Like(e, e)
  BY DEF Like
<1>10. CASE PeerUcastKeyResp("AE")
  <2>1. m.type = "RESP" /\ "RESP" \in WAIKeyStateMachine[e.WaiKeyState]
    BY <1>10 DEF PeerUcastKeyResp, Taken, Receive, m, e
  <2>2. e.WaiKeyState \in DoneStates \cup {"WAIT_UCAST_RESP"}
    BY <1>2, <2>1 DEF WAIKeyStateMachine, EntType, States, DoneStates
  <2>3. NowHandshake
    BY <1>5, <2>2 DEF Live, DoneStates
  <2>4. WaiPeerUcastKeyRespAction("AE", e, t, rest, m)
    BY <1>10 DEF PeerUcastKeyResp, m, e, t, rest
  <2>5. ASSUME NEW new \in EntType, Return("AE", new, t, rest),
               Refused(e, m, new)
        PROVE  Live'
    <3>1. Done("AE", new, t, rest, <<>>) /\ UNCHANGED key
      BY <2>5 DEF Return
    <3>2. Quiet'
      BY <1>4, <1>5, <3>1, PointQuiet
    <3>3. Handshake(new, s, inbox["AE"], is, key["AE"], key["ASUE"],
         timer["ASUE"])
      BY <1>4, <1>7, <2>1, <2>2, <2>3, <2>5, ResponseFailsKeeps DEF Refused
    <3>4. Handshake(new, s, rest, is, key["AE"], key["ASUE"], timer["ASUE"])
      BY <1>4, <3>3, FramesGo, ShrinksSame
    <3>5. is \o <<>> = is
      BY <1>6
    <3>6. /\ ent'["AE"] = new /\ ent'["ASUE"] = s
          /\ timer'["ASUE"] = timer["ASUE"]
          /\ inbox'["AE"] = rest /\ inbox'["ASUE"] = is
      <4>1. /\ ent'["AE"] = new /\ ent'["ASUE"] = s
            /\ timer'["ASUE"] = timer["ASUE"]
            /\ inbox'["AE"] = rest /\ inbox'["ASUE"] = is \o <<>>
        BY <3>1, DoneValues, EndsAre DEF s, is
      <4>2. QED
        BY <3>5, <4>1
    <3>7. NowHandshake'
      BY <3>1, <3>4, <3>6 DEF NowHandshake
    <3>8. QED
      BY <3>2, <3>7 DEF Live
  <2>6. ASSUME NEW new \in EntType, NEW f \in FrameType, NEW n \in 0 .. 1,
               Done("AE", new, n, rest, <<f>>),
                    wapi_set_ucast_key_proc("AE", new),
               Accepted(e, m, new, f)
        PROVE  Live'
    <3>1. Quiet'
      BY <1>4, <1>5, <2>6, PointQuiet DEF Accepted, Good
    <3>2. Good(m)
      BY <2>1, <2>6 DEF Accepted, Good
    <3>3. \A x \in ToSet(rest) : ~Good(x)
      <4>1. Lone(inbox["AE"], GoodFrames)
        BY <1>7, <2>3 DEF Handshake, InResponse
      <4>2. \A x \in ToSet(rest) : x \notin GoodFrames
        BY <1>1, <1>4, <3>2, <4>1, LoneFrames DEF GoodFrames
      <4>3. QED
        BY <1>6, <4>2 DEF GoodFrames
    <3> DEFINE kk == [id |-> new.USKID, ptk |-> new.PTK]
    <3>4. Handshake(new, s, rest, is \o <<f>>, kk, key["ASUE"], timer["ASUE"])
      BY <1>4, <1>7, <2>2, <2>3, <2>6, <3>2, <3>3, ResponseKeeps DEF Accepted
    <3>5. key'["AE"] = kk /\ key'["ASUE"] = key["ASUE"]
      BY <2>6 DEF wapi_set_ucast_key_proc, TypeInv, HandlerTypes, Ends
    <3>6. /\ ent'["AE"] = new /\ ent'["ASUE"] = s
          /\ timer'["ASUE"] = timer["ASUE"]
          /\ inbox'["AE"] = rest /\ inbox'["ASUE"] = is \o <<f>>
      BY <2>6, DoneValues, EndsAre DEF s, is
    <3>7. NowHandshake'
      BY <3>4, <3>5, <3>6 DEF NowHandshake
    <3>8. QED
      BY <3>1, <3>7 DEF Live
  <2>7. QED
    BY <1>1, <2>4, <2>5, <2>6, PeerRespDoes
<1>11. CASE PeerMcastKeyResp("AE")
  <2>1. "MCAST_RESP" \in WAIKeyStateMachine[e.WaiKeyState]
    BY <1>11 DEF PeerMcastKeyResp, Taken, e
  <2>2. e.WaiKeyState = "WAIT_MCAST_RESP"
    BY <1>2, <2>1 DEF WAIKeyStateMachine, EntType, States
  <2>3. NowHandshake
    BY <1>5, <2>2 DEF Live
  <2>4. WaiPeerMcastKeyRespAction("AE", e, t, rest, m)
    BY <1>11 DEF PeerMcastKeyResp, m, e, t, rest
  <2>5. ASSUME NEW new \in EntType, Done("AE", new, 0, rest, <<>>),
               UNCHANGED key,
               Settled(e, "MCAST_KEY_DONE", TRUE, new)
        PROVE  Live'
    <3>1. Quiet'
      BY <1>4, <1>5, <2>5, PointQuiet
    <3>2. Handshake(new, s, rest, is, key["AE"], key["ASUE"], timer["ASUE"])
      BY <1>7, <2>2, <2>3, <2>5, McastResponseKeeps DEF Settled
    <3>3. is \o <<>> = is
      BY <1>6
    <3>4. /\ ent'["AE"] = new /\ ent'["ASUE"] = s
          /\ timer'["ASUE"] = timer["ASUE"]
          /\ inbox'["AE"] = rest /\ inbox'["ASUE"] = is
      <4>1. /\ ent'["AE"] = new /\ ent'["ASUE"] = s
            /\ timer'["ASUE"] = timer["ASUE"]
            /\ inbox'["AE"] = rest /\ inbox'["ASUE"] = is \o <<>>
        BY <2>5, DoneValues, EndsAre DEF s, is
      <4>2. QED
        BY <3>3, <4>1
    <3>5. NowHandshake'
      BY <2>5, <3>2, <3>4 DEF NowHandshake
    <3>6. QED
      BY <3>1, <3>5 DEF Live
  <2>6. QED
    BY <1>1, <1>2, <1>8, <1>9, <2>4, <2>5, PeerMcastRespDoes
<1>12. CASE PeerUcastKeyCfm("AE")
  <2>1. m.type = "CFM"
    BY <1>12 DEF PeerUcastKeyCfm, Taken, Receive, m
  <2>2. QED
    BY <1>4, <1>5, <2>1 DEF Quiet
<1>13. CASE PeerUcastKeyReq("AE") \/ PeerMcastKeyNotify("AE")
  <2>1. m.type \in {"REQ", "NOTIFY"} /\
       m.type \in WAIKeyStateMachine[e.WaiKeyState]
    BY <1>13 DEF PeerUcastKeyReq, PeerMcastKeyNotify, Taken, Receive, m, e
  <2>2. e.WaiKeyState # "WAIT_UCAST_CFM"
    BY <2>1 DEF WAIKeyStateMachine
  <2>3. NowHandshake
    BY <1>5, <2>2 DEF Live
  <2>4. QED
    BY <1>4, <2>1, <2>3 DEF NowHandshake, Handshake, FrameKinds
<1>14. QED
  BY <1>10, <1>11, <1>12, <1>13

\* Counting does not change what an end holds.
LEMMA CountedLike ==
    ASSUME TypeInv, NEW p \in Ends
    PROVE  /\ Entry(p) \in EntType /\ Like(Entry(p), ent[p])
           /\ Entry(p).retry_cnt = ent[p].retry_cnt
           /\ \A r \in 0 .. 255 :
                  /\ [Entry(p) EXCEPT !.retry_cnt = r] \in EntType
                  /\ Like([Entry(p) EXCEPT !.retry_cnt = r], ent[p])
                  /\ [ent[p] EXCEPT !.retry_cnt = r] \in EntType
                  /\ Like([ent[p] EXCEPT !.retry_cnt = r], ent[p])
           /\ ent[p] \in EntType /\ Like(ent[p], ent[p])
<1>1. ent[p] \in EntType
  BY DEF TypeInv, HandlerTypes
<1>2. /\ Entry(p) \in EntType /\ Like(Entry(p), ent[p])
      /\ Entry(p).retry_cnt = ent[p].retry_cnt
  BY <1>1 DEF Entry, EntType, Like
<1>3. ASSUME NEW x \in EntType, NEW r \in 0 .. 255
      PROVE  [x EXCEPT !.retry_cnt = r] \in EntType /\
             Like([x EXCEPT !.retry_cnt = r], x)
  BY <1>3 DEF EntType, Like
<1>4. \A x, y, z : Like(x, y) /\ Like(y, z) => Like(x, z)
  BY DEF Like
<1>5. Like(ent[p], ent[p])
  BY DEF Like
<1>6. QED
  BY <1>1, <1>2, <1>3, <1>4, <1>5

\* The count of a timeout.
LEMMA NextCount == \A r \in 0 .. 255 : (r + 1) % 256 \in 0 .. 255
  OBVIOUS

LEMMA NextCountSmall == \A r \in 0 .. 254 : (r + 1) % 256 = r + 1
  OBVIOUS

\* A handler of the socket has a frame.
LEMMA SocketReads == \A p : Socket(p) => inbox[p] # <<>>
<1> SUFFICES ASSUME NEW p, Socket(p) PROVE inbox[p] # <<>>
  OBVIOUS
<1>1. CASE \/ PeerUcastKeyReq(p) \/ PeerUcastKeyResp(p) \/ PeerUcastKeyCfm(p)
           \/ PeerMcastKeyNotify(p) \/ PeerMcastKeyResp(p)
  <2>1. \E type : Taken(p, type)
    BY <1>1 DEF PeerUcastKeyReq, PeerUcastKeyResp, PeerUcastKeyCfm,
         PeerMcastKeyNotify, PeerMcastKeyResp
  <2>2. QED
    BY <2>1 DEF Taken, Receive
<1>2. CASE Drop(p) \/ KeyHsStart(p)
  BY <1>2 DEF Drop, KeyHsStart, Receive
<1>3. CASE UpdateUsk(p) \/ UpdateMsk(p) \/ StaTableDeleteEntry(p)
  BY <1>3 DEF UpdateUsk, UpdateMsk, StaTableDeleteEntry, Receive
<1>4. QED
  BY <1>1, <1>2, <1>3 DEF Socket

\* The AE does a step.
LEMMA PointStep ==
    ASSUME TypeInv, Live, Callback("AE")
    PROVE  Live'
<1> DEFINE q == inbox["AE"]
           t == timer["AE"]
           e == Entry("AE")
<1>1. "AE" \in Ends /\ q \in Seq(FrameType) /\ t \in Nat
  BY DEF TypeInv, HandlerTypes, Ends
<1>2. CASE ~link
  <2>1. link' = FALSE
    BY <1>2
       DEF Callback, Socket, PeerUcastKeyReq, PeerUcastKeyResp, PeerUcastKeyCfm,
         PeerMcastKeyNotify, PeerMcastKeyResp, Drop, KeyHsStart, UpdateUsk,
         UpdateMsk, StaTableDeleteEntry, Taken, Receive, WaiKeyHSTimerProc,
         wapi_trigger_timer_handler, DisconnectStaLink
  <2>2. QED
    BY <2>1 DEF Live
<1>3. CASE link /\ Socket("AE")
  <2> DEFINE rest == Tail(q)
             m == Head(q)
  <2>1. q # <<>>
    BY <1>3, SocketReads
  <2>2. rest \in Seq(FrameType) /\ Shrinks(rest, q) /\ m \in ToSet(q)
    BY <1>1, <2>1, ShrinksTail
  <2>3. /\ e \in EntType /\ Like(e, ent["AE"])
        /\ \A r \in 0 .. 255 : /\ [e EXCEPT !.retry_cnt = r] \in EntType
                               /\ Like([e EXCEPT !.retry_cnt = r], ent["AE"])
    BY <1>1, CountedLike
  <2> DEFINE zero == [e EXCEPT !.retry_cnt = UCAST_IDLE_CTR]
             done == [e EXCEPT !.retry_cnt = UCAST_DONE_CTR]
  <2>4. /\ zero \in EntType /\ Like(zero, ent["AE"])
        /\ done \in EntType /\ Like(done, ent["AE"])
    BY <2>3, Ranges
  <2>5. CASE \/ PeerUcastKeyReq("AE") \/ PeerUcastKeyResp("AE")
             \/ PeerUcastKeyCfm("AE") \/ PeerMcastKeyNotify("AE")
             \/ PeerMcastKeyResp("AE")
    BY <1>3, <2>1, <2>5, PointPeer
  <2>6. CASE Return("AE", e, t, rest)
    BY <1>3, <2>2, <2>3, <2>6, PointReturns
  <2>7. CASE Return("AE", zero, t, rest)
    BY <1>3, <2>2, <2>4, <2>7, PointReturns
  <2>8. CASE Mlme("AE", "MLME_REQ", zero, t, rest)
    BY <1>1, <1>3, <2>2, <2>4, <2>8, PointMlme
  <2>9. CASE Mlme("AE", "MLME_NOTIFY", done, t, rest)
    BY <1>1, <1>3, <2>2, <2>4, <2>9, PointMlme
  <2>10. CASE StaTableDeleteEntry("AE")
    <3>1. m.type = "DELETE"
      BY <2>10 DEF StaTableDeleteEntry, Receive
    <3>2. QED
      BY <1>3, <2>2, <3>1 DEF Live, Quiet
  <2>11. \/ PeerUcastKeyReq("AE") \/ PeerUcastKeyResp("AE")
         \/ PeerUcastKeyCfm("AE") \/ PeerMcastKeyNotify("AE")
         \/ PeerMcastKeyResp("AE") \/ StaTableDeleteEntry("AE")
         \/ Return("AE", e, t, rest) \/ Return("AE", zero, t, rest)
         \/ Mlme("AE", "MLME_REQ", zero, t, rest)
         \/ Mlme("AE", "MLME_NOTIFY", done, t, rest)
    BY <1>3 DEF Socket, Drop, KeyHsStart, UpdateUsk, UpdateMsk
  <2>12. QED
    BY <2>5, <2>6, <2>7, <2>8, <2>9, <2>10, <2>11
<1>4. CASE link /\ WaiKeyHSTimerProc("AE")
  <2> DEFINE r == (ent["AE"].retry_cnt + 1) % 256
             x == [ent["AE"] EXCEPT !.retry_cnt = r]
             todo == Resend(r)
             left == t - 1
  <2>1. left \in Nat
    BY <1>1, <1>4 DEF WaiKeyHSTimerProc
  <2>2. ent["AE"].retry_cnt \in 0 .. 255
    BY <1>1 DEF TypeInv, HandlerTypes, EntType
  <2>3. r \in 0 .. 255
    BY <2>2, NextCount
  <2> HIDE DEF r
  <2>4. /\ x \in EntType /\ Like(x, ent["AE"])
        /\ ent["AE"] \in EntType /\ Like(ent["AE"], ent["AE"])
    BY <1>1, <2>3, CountedLike
  <2>5. x.retry_cnt = r
    BY <2>4 DEF EntType
  <2>6. todo \in
       {"MLME_REQ", "MLME_RESP", "MLME_NOTIFY", "NOTHING", "DISCONNECT"}
    BY DEF Resend
  <2>7. \/ Return("AE", ent["AE"], left, q)
        \/ Return("AE", x, left, q)
        \/ link' = FALSE
        \/ todo \notin {"NOTHING", "DISCONNECT"} /\ Mlme("AE", todo, x, left, q)
    BY <1>4, <2>5 DEF WaiKeyHSTimerProc, DisconnectStaLink, r
  <2>8. Shrinks(q, q)
    BY ShrinksSame
  <2> HIDE DEF x, todo, left
  <2>9. CASE link' = FALSE
    BY <2>9 DEF Live
  <2>10. CASE Return("AE", ent["AE"], left, q) \/ Return("AE", x, left, q)
    BY <1>1, <1>4, <2>4, <2>8, <2>10, PointReturns
  <2>11. CASE todo \notin {"NOTHING", "DISCONNECT"} /\
       Mlme("AE", todo, x, left, q)
    BY <1>1, <1>4, <2>1, <2>4, <2>6, <2>8, <2>11, PointMlme
  <2>12. QED
    BY <2>7, <2>9, <2>10, <2>11
<1>5. CASE link /\ wapi_trigger_timer_handler("AE")
  <2> DEFINE x == [ent["AE"] EXCEPT !.retry_cnt = UCAST_IDLE_CTR]
  <2>1. /\ x \in EntType /\ Like(x, ent["AE"])
        /\ ent["AE"] \in EntType /\ Like(ent["AE"], ent["AE"])
    BY <1>1, CountedLike, Ranges
  <2>2. Shrinks(q, q)
    BY ShrinksSame
  <2>3. Mlme("AE", "MLME_REQ", x, t, q) \/ Return("AE", ent["AE"], t, q)
    BY <1>5 DEF wapi_trigger_timer_handler
  <2> HIDE DEF x
  <2>4. QED
    BY <1>1, <1>5, <2>1, <2>2, <2>3, PointMlme, PointReturns
<1>6. QED
  BY <1>2, <1>3, <1>4, <1>5 DEF Callback

\* Is the handshake still to be completed.
Open == ent["AE"].WaiKeyState # "WAIT_UCAST_CFM"

\* A handler of the ASUE starts with the handshake as it is.
LEMMA StationStarts ==
    ASSUME TypeInv, NEW rest \in Seq(FrameType), Shrinks(rest, inbox["ASUE"])
    PROVE  /\ NowHandshake =>
                Handshake(ent["AE"], ent["ASUE"], inbox["AE"], rest,
                                        key["AE"], key["ASUE"], timer["ASUE"])
           /\ Values(ent["AE"], ent["ASUE"], inbox["AE"], rest,
                     key["AE"], key["ASUE"], timer["ASUE"])
           /\ New(os_get_random, ent["AE"], ent["ASUE"], inbox["AE"], rest)
           /\ New(os_get_random, ent["AE"], ent["ASUE"], inbox["AE"],
                inbox["ASUE"])
<1>1. NowHandshake => Handshake(ent["AE"], ent["ASUE"], inbox["AE"], rest,
                                key["AE"], key["ASUE"], timer["ASUE"])
  BY FramesGo, ShrinksSame DEF NowHandshake
<1>2. Values(ent["AE"], ent["ASUE"], inbox["AE"], rest,
             key["AE"], key["ASUE"], timer["ASUE"])
  BY NowValues DEF Values
<1>3. "AE" \in Ends /\ "ASUE" \in Ends /\
     ToSet(rest) \subseteq ToSet(inbox["ASUE"])
  BY DEF Ends, Shrinks
<1>4. /\ New(os_get_random, ent["AE"], ent["ASUE"], inbox["AE"], rest)
      /\ New(os_get_random, ent["AE"], ent["ASUE"], inbox["AE"], inbox["ASUE"])
  BY <1>3, HeldInUse, RandomNew
<1>5. QED
  BY <1>1, <1>2, <1>4

\* What a handler of the ASUE that sends nothing leaves.
LEMMA StationSilent ==
    ASSUME TypeInv, link, Live, NEW e, NEW t, NEW rest \in Seq(FrameType),
           Shrinks(rest, inbox["ASUE"]),
           Done("ASUE", e, t, rest, <<>>), UNCHANGED key,
           Open => Handshake(ent["AE"], e, inbox["AE"], rest,
                             key["AE"], key["ASUE"], t)
    PROVE  Live'
<1>1. Quiet'
  BY StationQuiet DEF Live, Shrinks
<1>2. inbox["AE"] \in Seq(FrameType)
  BY DEF TypeInv, HandlerTypes, Ends
<1>3. /\ ent'["ASUE"] = e /\ ent'["AE"] = ent["AE"] /\ timer'["ASUE"] = t
      /\ inbox'["ASUE"] = rest /\ inbox'["AE"] = inbox["AE"] \o <<>>
  BY DoneValues, EndsAre
<1>4. inbox'["AE"] = inbox["AE"]
  BY <1>2, <1>3
<1>5. Open => NowHandshake'
  BY <1>3, <1>4 DEF NowHandshake
<1>6. QED
  BY <1>1, <1>3, <1>5 DEF Live, Open

LEMMA StationReturns ==
    ASSUME TypeInv, link, Live, NEW e, Like(e, ent["ASUE"]),
           NEW t, NEW rest \in Seq(FrameType), Shrinks(rest, inbox["ASUE"]),
           Return("ASUE", e, t, rest), Open => Station(e, t)
    PROVE  Live'
<1>1. Done("ASUE", e, t, rest, <<>>) /\ UNCHANGED key
  BY DEF Return
<1>2. Open => Handshake(ent["AE"], ent["ASUE"], inbox["AE"], rest,
                        key["AE"], key["ASUE"], timer["ASUE"])
  BY StationStarts DEF Live, Open
<1>3. Open =>
     Handshake(ent["AE"], e, inbox["AE"], rest, key["AE"], key["ASUE"], t)
  BY <1>2, StationCounts
<1>4. QED
  BY <1>1, <1>3, StationSilent

\* The state machine of the ASUE on a message of the daemon itself.
LEMMA StationMlme ==
    ASSUME TypeInv, link, Live, NEW e \in EntType, Like(e, ent["ASUE"]),
           NEW t \in Nat, NEW rest \in Seq(FrameType),
           Shrinks(rest, inbox["ASUE"]),
           NEW type \in {"MLME_REQ", "MLME_RESP", "MLME_NOTIFY"},
           Mlme("ASUE", type, e, t, rest),
           Open => /\ type = "MLME_RESP"
                   /\ e.WaiKeyState \in DoneStates \cup {"WAIT_UCAST_CFM"}
                   /\ \/ e.retry_cnt = UCAST_IDLE_CTR
                      \/ e.retry_cnt \in UCAST_WAIT_CFM_CTR ..
                                             UCAST_WAIT_CFM_CTR + RETRIES
    PROVE  Live'
<1> DEFINE a == ent["AE"]
           ia == inbox["AE"]
<1>1. Called("ASUE", e, t, rest)
  BY DEF Called, Ends
<1>2. ToSet(rest) \subseteq ToSet(inbox["ASUE"]) /\ Quiet /\
     (Open => NowHandshake)
  BY DEF Shrinks, Live, Open
<1>3. "MLME_RESP" \in WAIKeyStateMachine["UCAST_KEY_DONE"]
      /\ "MLME_RESP" \in WAIKeyStateMachine["MCAST_KEY_DONE"]
      /\ "MLME_RESP" \in WAIKeyStateMachine["WAIT_UCAST_CFM"]
  BY DEF WAIKeyStateMachine
<1>4. CASE type \notin WAIKeyStateMachine[e.WaiKeyState]
  <2>1. Return("ASUE", e, t, rest)
    BY <1>4 DEF Mlme
  <2>2. ~Open
    BY <1>3, <1>4 DEF DoneStates
  <2>3. QED
    BY <2>1, <2>2, StationReturns
<1>5. CASE type \in WAIKeyStateMachine[e.WaiKeyState] /\ type = "MLME_REQ"
  <2>1. WaiMlmeUcastKeyReqAction("ASUE", e, t, rest)
    BY <1>5 DEF Mlme
  <2>2. PICK new \in EntType, f \in FrameType :
            /\ Done("ASUE", new, t + 1, rest, <<f>>)
            /\ UNCHANGED <<mskid, key, msk>>
            /\ Requested(e, new, f)
    BY <1>1, <2>1, MlmeReqDoes
  <2>3. Quiet'
    BY <1>2, <2>2, StationQuiet DEF Requested
  <2>4. ent'["AE"] = ent["AE"] /\ ~Open
    BY <1>5, <2>2, DoneValues, EndsAre
  <2>5. QED
    BY <2>3, <2>4 DEF Live, Open
<1>6. CASE type \in WAIKeyStateMachine[e.WaiKeyState] /\ type = "MLME_NOTIFY"
  <2>1. WaiMlmeMcastKeyNotifyAction("ASUE", e, t, rest)
    BY <1>6 DEF Mlme
  <2>2. PICK new \in EntType, f \in FrameType :
            /\ Done("ASUE", new, t + 1, rest, <<f>>)
            /\ mskid' = [mskid EXCEPT !["ASUE"] = msk["ASUE"] % 2]
            /\ UNCHANGED <<key, msk>>
            /\ Notified(e, new, f)
    BY <1>1, <2>1, MlmeNotifyDoes
  <2>3. Quiet'
    BY <1>2, <2>2, StationQuiet DEF Notified
  <2>4. ent'["AE"] = ent["AE"] /\ ~Open
    BY <1>6, <2>2, DoneValues, EndsAre
  <2>5. QED
    BY <2>3, <2>4 DEF Live, Open
<1>7. CASE type \in WAIKeyStateMachine[e.WaiKeyState] /\ type = "MLME_RESP"
  <2>1. WaiMlmeUcastKeyRespAction("ASUE", e, t, rest)
    BY <1>7 DEF Mlme
  <2>2. PICK new \in EntType, f \in FrameType :
            /\ Done("ASUE", new, t + 1, rest, <<f>>)
            /\ wapi_set_ucast_key_proc("ASUE", new)
            /\ UNCHANGED <<mskid, msk>>
            /\ SentResponse(e, new, f)
    BY <1>1, <2>1, MlmeRespDoes
  <2>3. Quiet'
    BY <1>2, <2>2, StationQuiet DEF SentResponse
  <2>4. /\ ent'["ASUE"] = new /\ ent'["AE"] = a
        /\ timer'["ASUE"] = t + 1
        /\ inbox'["ASUE"] = rest /\ inbox'["AE"] = ia \o <<f>>
    BY <2>2, DoneValues, EndsAre
  <2>5. key'["ASUE"] = [id |-> new.USKID, ptk |-> new.PTK] /\
       key'["AE"] = key["AE"]
    BY <2>2 DEF wapi_set_ucast_key_proc, TypeInv, HandlerTypes, Ends
  <2>6. ASSUME Open PROVE NowHandshake'
    <3>1. Station(new, t + 1)
      <4>1. UCAST_WAIT_CFM_CTR \in
           UCAST_WAIT_CFM_CTR .. UCAST_WAIT_CFM_CTR + RETRIES
        BY RetriesAssumption DEF UCAST_WAIT_CFM_CTR
      <4>2. QED
        BY <2>2, <2>6, <4>1 DEF SentResponse, Station
    <3>2. e.WaiKeyState = ent["ASUE"].WaiKeyState /\
         e.PortSecured = ent["ASUE"].PortSecured
          /\ e.USKID = ent["ASUE"].USKID /\ e.PTK = ent["ASUE"].PTK
      BY DEF Like
    <3>3. /\ Handshake(a, ent["ASUE"], ia, rest, key["AE"], key["ASUE"],
               timer["ASUE"])
          /\ Values(a, ent["ASUE"], ia, rest, key["AE"], key["ASUE"],
               timer["ASUE"])
          /\ New(os_get_random, a, ent["ASUE"], ia, rest)
      BY <1>2, <2>6, StationStarts
    <3>4. Handshake(a, new, ia \o <<f>>, rest, key["AE"], key'["ASUE"], t + 1)
      BY <2>2, <2>6, <3>1, <3>2, <3>3, ResponseSentAgain DEF SentResponse
    <3>5. QED
      BY <2>4, <2>5, <3>4 DEF NowHandshake
  <2>7. QED
    BY <2>3, <2>4, <2>6 DEF Live, Open
<1>8. QED
  BY <1>4, <1>5, <1>6, <1>7

\* The state machine of the ASUE on a frame of the AE.
LEMMA StationPeer ==
    ASSUME TypeInv, link, Live, inbox["ASUE"] # <<>>,
           \/ PeerUcastKeyReq("ASUE") \/ PeerUcastKeyResp("ASUE")
           \/ PeerUcastKeyCfm("ASUE") \/ PeerMcastKeyNotify("ASUE")
           \/ PeerMcastKeyResp("ASUE")
    PROVE  Live'
<1> DEFINE e == Entry("ASUE")
           t == timer["ASUE"]
           is == inbox["ASUE"]
           rest == Tail(is)
           m == Head(is)
           a == ent["AE"]
           s == ent["ASUE"]
           ia == inbox["AE"]
<1>1. Called("ASUE", e, t, rest) /\ m \in FrameType /\ is \in Seq(FrameType)
  BY ReceiveCalls DEF Ends, TypeInv, HandlerTypes
<1>2. e \in EntType /\ t \in Nat /\ rest \in Seq(FrameType)
  BY <1>1 DEF Called
<1>3. Like(e, s) /\ e.retry_cnt = s.retry_cnt
  BY CountedLike DEF Ends
<1>4. /\ Shrinks(rest, is) /\ m \in ToSet(is) /\ ToSet(rest) \subseteq ToSet(is)
      /\ \A F \in SUBSET FrameType :
             Lone(is, F) /\ m \in F => \A x \in ToSet(rest) : x \notin F
  BY <1>1, ShrinksTail DEF Shrinks
<1>5. Quiet /\ (Open => NowHandshake) /\ ~Good(m) /\ m.type # "DELETE"
  BY <1>4 DEF Live, Open, Quiet
<1>6. ia \in Seq(FrameType) /\ ToSet(rest) \subseteq FrameType
  BY <1>2, ToSetRange DEF TypeInv, HandlerTypes, Ends
<1>7. /\ Open => Handshake(a, s, ia, is, key["AE"], key["ASUE"], t)
      /\ Open => Handshake(a, s, ia, rest, key["AE"], key["ASUE"], t)
      /\ Values(a, s, ia, is, key["AE"], key["ASUE"], t)
      /\ New(os_get_random, a, s, ia, is)
  BY <1>1, <1>2, <1>4, <1>5, StationStarts, ShrinksSame DEF NowHandshake
<1>8. /\ e.WaiKeyState = s.WaiKeyState /\ e.PortSecured = s.PortSecured
      /\ e.USKID = s.USKID /\ e.PTK = s.PTK /\ e.SNONCE = s.SNONCE
  BY <1>3 DEF Like
<1>9. Open => Station(s, t)
  BY <1>7 DEF Handshake
<1>10. Open => Station(e, t)
  BY <1>3, <1>8, <1>9 DEF Station
<1> HIDE DEF e, t, rest, m, s, is, a, ia
<1>11. ASSUME Return("ASUE", e, t, rest) PROVE Live'
  BY <1>2, <1>3, <1>4, <1>10, <1>11, StationReturns DEF is, s
<1>12. CASE PeerUcastKeyReq("ASUE")
  <2>1. m.type = "REQ" /\ "REQ" \in WAIKeyStateMachine[e.WaiKeyState]
    BY <1>12 DEF PeerUcastKeyReq, Taken, Receive, m, e, is
  <2>2. s.WaiKeyState \in DoneStates \cup {"UCAST_KEY_IDLE"}
    <3>1. e.WaiKeyState \in States
      BY <1>2 DEF EntType
    <3>2. QED
      BY <1>8, <2>1, <3>1 DEF WAIKeyStateMachine, States, DoneStates
  <2>3. WaiPeerUcastKeyReqAction("ASUE", e, t, rest, m)
    BY <1>12 DEF PeerUcastKeyReq, m, e, t, rest, is
  <2>4. ASSUME NEW new \in EntType, NEW f \in FrameType,
               Done("ASUE", new, 1, rest, <<f>>),
                    wapi_set_ucast_key_proc("ASUE", new),
               Responded(e, m, new, f)
        PROVE  Live'
    <3>1. Quiet'
      BY <1>4, <1>5, <2>4, StationQuiet DEF Responded, is
    <3> DEFINE kk == [id |-> new.USKID, ptk |-> new.PTK]
    <3>2. key'["ASUE"] = kk /\ key'["AE"] = key["AE"]
      BY <2>4 DEF wapi_set_ucast_key_proc, TypeInv, HandlerTypes, Ends
    <3>3. /\ ent'["ASUE"] = new /\ ent'["AE"] = a /\ timer'["ASUE"] = 1
          /\ inbox'["ASUE"] = rest /\ inbox'["AE"] = ia \o <<f>>
      BY <2>4, DoneValues, EndsAre DEF a, ia
    <3>4. ASSUME Open PROVE NowHandshake'
      <4>1. Station(new, 1)
        <5>1. UCAST_WAIT_CFM_CTR \in
             UCAST_WAIT_CFM_CTR .. UCAST_WAIT_CFM_CTR + RETRIES
          BY RetriesAssumption DEF UCAST_WAIT_CFM_CTR
        <5>2. QED
          BY <2>4, <5>1 DEF Responded, Station
      <4>2. Offer(a, m) => \A x \in ToSet(rest) : ~Offer(a, x)
        <5>1. Lone(is, OfferFrames(a))
          BY <1>7, <3>4 DEF Handshake, Offers
        <5>2. Offer(a, m) => \A x \in ToSet(rest) : x \notin OfferFrames(a)
          BY <1>1, <1>4, <5>1, LoneFrames DEF OfferFrames
        <5>3. QED
          BY <1>6, <5>2 DEF OfferFrames
      <4>3. Handshake(a, new, ia \o <<f>>, rest, key["AE"], kk, 1)
        BY <1>4, <1>7, <1>8, <2>1, <2>2, <2>4, <3>4, <4>1, <4>2, RequestAnswered
           DEF Responded
      <4>4. QED
        BY <3>2, <3>3, <4>3 DEF NowHandshake
    <3>5. QED
      BY <3>1, <3>3, <3>4 DEF Live, Open, a
  <2>5. QED
    BY <1>1, <1>11, <2>3, <2>4, PeerReqDoes
<1>13. CASE PeerUcastKeyResp("ASUE")
  <2>1. m.type = "RESP"
    BY <1>13 DEF PeerUcastKeyResp, Taken, Receive, m, is
  <2>2. ~Open
    BY <1>4, <1>7, <2>1 DEF Handshake, FrameKinds
  <2>3. WaiPeerUcastKeyRespAction("ASUE", e, t, rest, m)
    BY <1>13 DEF PeerUcastKeyResp, m, e, t, rest, is
  <2>4. ASSUME NEW new \in EntType, Return("ASUE", new, t, rest) PROVE Live'
    <3>1. Done("ASUE", new, t, rest, <<>>) /\ UNCHANGED key
      BY <2>4 DEF Return
    <3>2. QED
      BY <1>2, <1>4, <2>2, <3>1, StationSilent DEF is
  <2>5. ASSUME NEW new, NEW f, Accepted(e, m, new, f) PROVE FALSE
    BY <1>5, <2>1, <2>5 DEF Accepted, Good
  <2>6. QED
    BY <1>1, <2>3, <2>4, <2>5, PeerRespDoes
<1>14. CASE PeerUcastKeyCfm("ASUE")
  <2>1. m.type = "CFM" /\ "CFM" \in WAIKeyStateMachine[e.WaiKeyState]
    BY <1>14 DEF PeerUcastKeyCfm, Taken, Receive, m, e, is
  <2>2. s.WaiKeyState = "WAIT_UCAST_CFM"
    <3>1. e.WaiKeyState \in States
      BY <1>2 DEF EntType
    <3>2. QED
      BY <1>8, <2>1, <3>1 DEF WAIKeyStateMachine, States
  <2>3. WaiPeerUcastKeyCfmAction("ASUE", e, t, rest, m)
    BY <1>14 DEF PeerUcastKeyCfm, m, e, t, rest, is
  <2>4. ASSUME NEW new \in EntType, Done("ASUE", new, 0, rest, <<>>),
               UNCHANGED <<mskid, key, msk>>, m.sn = e.SNONCE, m.mic = e.PTK,
               Settled(e, "UCAST_KEY_DONE", e.PortSecured, new)
        PROVE  Live'
    <3>1. ASSUME Open
          PROVE  Handshake(a, new, ia, rest, key["AE"], key["ASUE"], 0)
      <4>1. Station(new, 0)
        BY <1>3, <1>9, <2>2, <2>4, <3>1 DEF Station, Settled, DoneStates
      <4>2. Confirms(s, m)
        BY <1>8, <2>1, <2>4 DEF Confirms
      <4>3. Handshake(a, new, ia, is, key["AE"], key["ASUE"], 0)
        BY <1>4, <1>7, <1>8, <2>2, <2>4, <3>1, <4>1, <4>2, ConfirmationKeeps
           DEF Settled
      <4>4. QED
        BY <1>4, <4>3, FramesGo, ShrinksSame
    <3>2. UNCHANGED key
      BY <2>4
    <3>3. QED
      BY <1>2, <1>4, <2>4, <3>1, <3>2, StationSilent DEF is, a, ia
  <2>5. QED
    BY <1>1, <1>11, <2>3, <2>4, PeerCfmDoes
<1>15. CASE PeerMcastKeyNotify("ASUE")
  <2>1. m.type = "NOTIFY" /\ "NOTIFY" \in WAIKeyStateMachine[e.WaiKeyState]
    BY <1>15 DEF PeerMcastKeyNotify, Taken, Receive, m, e, is
  <2>2. s.WaiKeyState \in DoneStates
    <3>1. e.WaiKeyState \in States
      BY <1>2 DEF EntType
    <3>2. QED
      BY <1>8, <2>1, <3>1 DEF WAIKeyStateMachine, States, DoneStates
  <2>3. WaiPeerMcastKeyNotifyAction("ASUE", e, t, rest, m)
    BY <1>15 DEF PeerMcastKeyNotify, m, e, t, rest, is
  <2>4. ASSUME NEW new \in EntType, NEW f \in FrameType,
               Done("ASUE", new, t, rest, <<f>>), UNCHANGED key,
               Settled(e, "MCAST_KEY_DONE", TRUE, new), f.type = "MCAST_RESP"
        PROVE  Live'
    <3>1. Quiet'
      BY <1>4, <1>5, <2>4, StationQuiet DEF is
    <3>2. /\ ent'["ASUE"] = new /\ ent'["AE"] = a /\ timer'["ASUE"] = t
          /\ inbox'["ASUE"] = rest /\ inbox'["AE"] = ia \o <<f>>
      BY <2>4, DoneValues, EndsAre DEF a, ia
    <3>3. ASSUME Open PROVE NowHandshake'
      <4>1. Station(new, t)
        BY <1>3, <1>9, <2>2, <2>4, <3>3 DEF Station, Settled, DoneStates
      <4>2. Handshake(a, new, ia, is, key["AE"], key["ASUE"], t)
        BY <1>4, <1>7, <2>1, <2>2, <2>4, <3>3, <4>1, NotifyAnswered DEF Settled
      <4>3. Handshake(a, new, ia, rest, key["AE"], key["ASUE"], t)
        BY <1>4, <4>2, FramesGo, ShrinksSame
      <4>4. Values(a, new, ia, rest, key["AE"], key["ASUE"], t)
        BY <1>2, <1>7, <2>4 DEF Values
      <4>5. Handshake(a, new, ia \o <<f>>, rest, key["AE"], key["ASUE"], t)
        BY <2>4, <4>3, <4>4, PointHears
      <4>6. QED
        BY <2>4, <3>2, <4>5 DEF NowHandshake
    <3>4. QED
      BY <3>1, <3>2, <3>3 DEF Live, Open, a
  <2>5. QED
    BY <1>1, <1>11, <2>3, <2>4, PeerNotifySettles
<1>16. CASE PeerMcastKeyResp("ASUE")
  <2>1. m.type = "MCAST_RESP"
    BY <1>16 DEF PeerMcastKeyResp, Taken, Receive, m, is
  <2>2. ~Open
    BY <1>4, <1>7, <2>1 DEF Handshake, FrameKinds
  <2>3. WaiPeerMcastKeyRespAction("ASUE", e, t, rest, m)
    BY <1>16 DEF PeerMcastKeyResp, m, e, t, rest, is
  <2>4. ASSUME NEW new \in EntType, Done("ASUE", new, 0, rest, <<>>),
               UNCHANGED key
        PROVE  Live'
    BY <1>2, <1>4, <2>2, <2>4, StationSilent DEF is
  <2>5. QED
    BY <1>1, <1>11, <2>3, <2>4, PeerMcastRespDoes
<1>17. QED
  BY <1>12, <1>13, <1>14, <1>15, <1>16

\* An entry that is idle counts the timeouts of former handshakes.
LEMMA IdleCount ==
    \A c \in 0 .. 255, n \in Nat :
        n > 0 /\ c + n <= 10
            => /\ c < 255 /\ c + 1 \in 1 .. 10
               /\ c + (n - 1) <= 10 /\ (c + 1) + (n - 1) <= 10
  OBVIOUS

\* The ASUE does a step.
LEMMA StationStep ==
    ASSUME TypeInv, Live, ~trigger["ASUE"], Callback("ASUE")
    PROVE  Live'
<1> DEFINE q == inbox["ASUE"]
           t == timer["ASUE"]
           s == ent["ASUE"]
           e == Entry("ASUE")
<1>1. "ASUE" \in Ends /\ q \in Seq(FrameType) /\ t \in Nat /\ s \in EntType
  BY DEF TypeInv, HandlerTypes, Ends
<1>2. CASE ~link
  <2>1. link' = FALSE
    BY <1>2
       DEF Callback, Socket, PeerUcastKeyReq, PeerUcastKeyResp, PeerUcastKeyCfm,
         PeerMcastKeyNotify, PeerMcastKeyResp, Drop, KeyHsStart, UpdateUsk,
         UpdateMsk, StaTableDeleteEntry, Taken, Receive, WaiKeyHSTimerProc,
         wapi_trigger_timer_handler, DisconnectStaLink
  <2>2. QED
    BY <2>1 DEF Live
<1>3. ASSUME link, Open
      PROVE  FrameKinds(inbox["AE"], q) /\ Station(s, t)
  BY <1>3 DEF Live, Open, NowHandshake, Handshake
<1>4. /\ e \in EntType /\ Like(e, s) /\ e.retry_cnt = s.retry_cnt
      /\ \A r \in 0 .. 255 : /\ [e EXCEPT !.retry_cnt = r] \in EntType
                             /\ Like([e EXCEPT !.retry_cnt = r], s)
  BY <1>1, CountedLike
<1>5. /\ e.WaiKeyState = s.WaiKeyState /\ e.PortSecured = s.PortSecured
  BY <1>4 DEF Like
<1>6. CASE link /\ Socket("ASUE")
  <2> DEFINE rest == Tail(q)
             m == Head(q)
  <2>1. q # <<>>
    BY <1>6, SocketReads
  <2>2. rest \in Seq(FrameType) /\ Shrinks(rest, q) /\ m \in ToSet(q)
    BY <1>1, <2>1, ShrinksTail
  <2> DEFINE zero == [e EXCEPT !.retry_cnt = UCAST_IDLE_CTR]
             done == [e EXCEPT !.retry_cnt = UCAST_DONE_CTR]
  <2>3. /\ zero \in EntType /\ Like(zero, s)
        /\ done \in EntType /\ Like(done, s)
    BY <1>4, Ranges
  <2>4. /\ zero.WaiKeyState = s.WaiKeyState /\ zero.PortSecured = s.PortSecured
        /\ zero.retry_cnt = UCAST_IDLE_CTR
    BY <1>4, <1>5 DEF EntType
  <2>5. CASE \/ PeerUcastKeyReq("ASUE") \/ PeerUcastKeyResp("ASUE")
             \/ PeerUcastKeyCfm("ASUE") \/ PeerMcastKeyNotify("ASUE")
             \/ PeerMcastKeyResp("ASUE")
    BY <1>6, <2>1, <2>5, StationPeer
  <2>6. CASE Return("ASUE", e, t, rest)
    <3>1. Open => Station(e, t)
      BY <1>3, <1>4, <1>5, <1>6 DEF Station
    <3>2. QED
      BY <1>4, <1>6, <2>2, <2>6, <3>1, StationReturns
  <2>7. CASE KeyHsStart("ASUE")
    <3>1. m.type = "KEY_HS_START" /\ Return("ASUE", zero, t, rest)
      BY <2>7 DEF KeyHsStart, Receive
    <3>2. ~Open
      BY <1>3, <1>6, <2>2, <3>1 DEF FrameKinds
    <3>3. QED
      BY <1>6, <2>2, <2>3, <3>1, <3>2, StationReturns
  <2>8. CASE UpdateMsk("ASUE") /\ ~Return("ASUE", e, t, rest)
    <3>1. m.type = "UPDATE_MSK" /\ Mlme("ASUE", "MLME_NOTIFY", done, t, rest)
      BY <2>8 DEF UpdateMsk, Receive
    <3>2. ~Open
      BY <1>3, <1>6, <2>2, <3>1 DEF FrameKinds
    <3>3. QED
      BY <1>1, <1>6, <2>2, <2>3, <3>1, <3>2, StationMlme
  <2>9. CASE UpdateUsk("ASUE") /\ ~Return("ASUE", e, t, rest)
    <3>1. e.PortSecured /\ Mlme("ASUE", "MLME_RESP", zero, t, rest)
      BY <2>9 DEF UpdateUsk
    <3>2. Open => zero.WaiKeyState \in DoneStates \cup {"WAIT_UCAST_CFM"}
      BY <1>3, <1>5, <1>6, <2>4, <3>1 DEF Station
    <3> HIDE DEF zero
    <3>3. QED
      BY <1>1, <1>6, <2>2, <2>3, <2>4, <3>1, <3>2, StationMlme
  <2>10. CASE StaTableDeleteEntry("ASUE")
    <3>1. m.type = "DELETE"
      BY <2>10 DEF StaTableDeleteEntry, Receive
    <3>2. QED
      BY <1>6, <2>2, <3>1 DEF Live, Quiet
  <2>11. \/ PeerUcastKeyReq("ASUE") \/ PeerUcastKeyResp("ASUE")
         \/ PeerUcastKeyCfm("ASUE") \/ PeerMcastKeyNotify("ASUE")
         \/ PeerMcastKeyResp("ASUE") \/ StaTableDeleteEntry("ASUE")
         \/ Return("ASUE", e, t, rest) \/ KeyHsStart("ASUE")
         \/ UpdateMsk("ASUE") \/ UpdateUsk("ASUE")
    BY <1>6 DEF Socket, Drop
  <2>12. QED
    BY <2>5, <2>6, <2>7, <2>8, <2>9, <2>10, <2>11
<1>7. CASE link /\ WaiKeyHSTimerProc("ASUE")
  <2> DEFINE r == (s.retry_cnt + 1) % 256
             x == [s EXCEPT !.retry_cnt = r]
             todo == Resend(x.retry_cnt)
             left == t - 1
  <2>1. left \in Nat /\ t > 0
    BY <1>1, <1>7 DEF WaiKeyHSTimerProc
  <2>2. s.retry_cnt \in 0 .. 255
    BY <1>1 DEF EntType
  <2>3. r \in 0 .. 255
    BY <2>2, NextCount
  <2>4. s.retry_cnt < 255 => r = s.retry_cnt + 1
    BY <2>2, NextCountSmall
  <2> HIDE DEF r
  <2>5. /\ x \in EntType /\ Like(x, s) /\ Like(s, s)
    BY <1>1, <2>3, CountedLike
  <2>6. x.retry_cnt = r /\ x.WaiKeyState = s.WaiKeyState /\
       x.PortSecured = s.PortSecured
    BY <2>5 DEF EntType, Like
  <2> HIDE DEF x
  <2>7. todo \in
       {"MLME_REQ", "MLME_RESP", "MLME_NOTIFY", "NOTHING", "DISCONNECT"}
    BY DEF Resend
  <2>8. \/ ~s.Valid /\ Return("ASUE", s, left, q)
        \/ todo = "NOTHING" /\ Return("ASUE", x, left, q)
        \/ todo = "DISCONNECT" /\ link' = FALSE
        \/ todo \notin {"NOTHING", "DISCONNECT"} /\
             Mlme("ASUE", todo, x, left, q)
    BY <1>7, Zenon DEF WaiKeyHSTimerProc, DisconnectStaLink, r, x
  <2>9. Shrinks(q, q)
    BY ShrinksSame
  <2>10. ASSUME Open, s.WaiKeyState = "UCAST_KEY_IDLE"
         PROVE  todo = "NOTHING" /\ Station(s, left) /\ Station(x, left)
    <3>1. s.retry_cnt + t <= 10 /\ Station(s, t)
      BY <1>3, <1>7, <2>10 DEF Station, UCAST_WAIT_RESP_CTR
    <3>2. r = s.retry_cnt + 1 /\ r \in 1 .. 10
      BY <1>1, <2>1, <2>2, <2>4, <3>1, IdleCount
    <3>3. todo = "NOTHING"
      BY <2>6, <3>2, RetriesAssumption
         DEF Resend, UCAST_IDLE_CTR, UCAST_WAIT_RESP_CTR, UCAST_WAIT_CFM_CTR,
             UCAST_DONE_CTR, MCAST_WAIT_RESP_CTR
    <3>4. /\ s.retry_cnt + left <= UCAST_WAIT_RESP_CTR
          /\ x.retry_cnt + left <= UCAST_WAIT_RESP_CTR
      BY <1>1, <2>1, <2>2, <2>6, <3>1, <3>2, IdleCount DEF UCAST_WAIT_RESP_CTR
    <3> HIDE DEF left
    <3>5. QED
      BY <2>6, <2>10, <3>1, <3>3, <3>4 DEF Station
  <2>11. ASSUME Open, s.WaiKeyState # "UCAST_KEY_IDLE"
         PROVE  /\ Station(s, left)
                /\ \/ todo = "DISCONNECT"
                   \/ /\ todo = "MLME_RESP"
                      /\ r \in
                           UCAST_WAIT_CFM_CTR .. UCAST_WAIT_CFM_CTR + RETRIES
                      /\ s.WaiKeyState \in DoneStates \cup {"WAIT_UCAST_CFM"}
    <3>1. Station(s, t)
      BY <1>3, <1>7, <2>11
    <3>2. /\ s.retry_cnt \in 20 .. 20 + RETRIES
          /\ s.WaiKeyState \in DoneStates \cup {"WAIT_UCAST_CFM"}
      BY <2>11, <3>1 DEF Station, UCAST_WAIT_CFM_CTR
    <3>3. r \in 21 .. 21 + RETRIES
      BY <2>2, <2>4, <3>2, RetriesAssumption
    <3>4. r \in 21 .. 20 + RETRIES => todo = "MLME_RESP"
      BY <2>6, RetriesAssumption
         DEF Resend, UCAST_IDLE_CTR, UCAST_WAIT_RESP_CTR, UCAST_WAIT_CFM_CTR,
             UCAST_DONE_CTR, MCAST_WAIT_RESP_CTR
    <3>5. r = 21 + RETRIES => todo = "DISCONNECT"
      BY <2>6, RetriesAssumption
         DEF Resend, UCAST_IDLE_CTR, UCAST_WAIT_RESP_CTR, UCAST_WAIT_CFM_CTR,
             UCAST_DONE_CTR, MCAST_WAIT_RESP_CTR
    <3>6. r \in 21 .. 20 + RETRIES \/ r = 21 + RETRIES
      BY <3>3, RetriesAssumption
    <3>7. r \in 21 .. 20 + RETRIES
              => r \in UCAST_WAIT_CFM_CTR .. UCAST_WAIT_CFM_CTR + RETRIES
      BY RetriesAssumption DEF UCAST_WAIT_CFM_CTR
    <3>8. Station(s, left)
      BY <2>11, <3>1 DEF Station
    <3>9. QED
      BY <3>2, <3>4, <3>5, <3>6, <3>7, <3>8
  <2> HIDE DEF x, todo, left
  <2>12. CASE link' = FALSE
    BY <2>12 DEF Live
  <2>13. CASE ~s.Valid /\ Return("ASUE", s, left, q)
    BY <1>1, <1>7, <2>5, <2>9, <2>10, <2>11, <2>13, StationReturns
  <2>14. CASE todo = "NOTHING" /\ Return("ASUE", x, left, q)
    <3>1. Open => Station(x, left)
      BY <2>10, <2>11, <2>14
    <3>2. QED
      BY <1>1, <1>7, <2>5, <2>9, <2>14, <3>1, StationReturns
  <2>15. CASE todo \notin {"NOTHING", "DISCONNECT"} /\
       Mlme("ASUE", todo, x, left, q)
    <3>1. Open => /\ todo = "MLME_RESP"
                  /\ x.WaiKeyState \in DoneStates \cup {"WAIT_UCAST_CFM"}
                  /\ x.retry_cnt \in
                       UCAST_WAIT_CFM_CTR .. UCAST_WAIT_CFM_CTR + RETRIES
      BY <2>6, <2>10, <2>11, <2>15
    <3>2. QED
      BY <1>1, <1>7, <2>1, <2>5, <2>7, <2>9, <2>15, <3>1, StationMlme
  <2>16. QED
    BY <2>8, <2>12, <2>13, <2>14, <2>15
<1>8. ~wapi_trigger_timer_handler("ASUE")
  BY DEF wapi_trigger_timer_handler
<1>9. QED
  BY <1>2, <1>6, <1>7, <1>8 DEF Callback

-----------------------------------------------------------------------------
(* Before the station associates.                                          *)

\* The requests for a new unicast key that wait in q,
Renewals(q) == {i \in 1 .. Len(q) : q[i].type = "UPDATE_USK"}

\* each with a place among n of them, above the ts timeouts the former ones have
\* left.
Ranks(r, q, ts, n) ==
    /\ r \in [1 .. Len(q) -> Nat]
    /\ \A i \in Renewals(q) : 1 <= r[i] /\ ts <= r[i] /\ r[i] <= n
    /\ \A i, j \in Renewals(q) : i < j => r[i] < r[j]

Ranked(q, ts, n) == ts <= n + 1 /\ \E r : Ranks(r, q, ts, n)

LEMMA RankedLess ==
    ASSUME NEW q \in Seq(FrameType), NEW ts \in Nat, NEW n \in Nat,
           NEW u \in Nat,
           Ranked(q, ts, n), u <= 1 \/ u <= ts
    PROVE  Ranked(q, u, n)
<1>1. PICK r : Ranks(r, q, ts, n)
  BY DEF Ranked
<1>2. Ranks(r, q, u, n)
  <2>1. ASSUME NEW i \in Renewals(q) PROVE u <= r[i]
    <3>1. r[i] \in Nat /\ 1 <= r[i] /\ ts <= r[i]
      BY <1>1 DEF Ranks, Renewals
    <3>2. QED
      BY <3>1
  <2>2. QED
    BY <1>1, <2>1 DEF Ranks
<1>3. u <= n + 1
  BY DEF Ranked
<1>4. QED
  BY <1>2, <1>3 DEF Ranked

\* The first request is answered and leaves a timeout at most.
LEMMA RankedTail ==
    ASSUME NEW q \in Seq(FrameType), q # <<>>, NEW ts \in Nat, NEW n \in Nat,
           NEW u \in Nat, Ranked(q, ts, n),
           u <= 1 \/ u <= ts \/ (u = ts + 1 /\ Head(q).type = "UPDATE_USK")
    PROVE  Ranked(Tail(q), u, n)
<1> DEFINE w == Tail(q)
<1>1. PICK r : Ranks(r, q, ts, n)
  BY DEF Ranked
<1>2. /\ Len(w) = Len(q) - 1 /\ Len(q) \in Nat /\ Len(q) > 0 /\ Head(q) = q[1]
      /\ \A i \in 1 .. Len(w) : w[i] = q[i + 1]
  BY HeadTailProperties
<1> HIDE DEF w
<1>3. \A i \in Renewals(w) : i \in 1 .. Len(w) /\ i + 1 \in Renewals(q)
  BY <1>2 DEF Renewals
<1>4. 1 \in 1 .. Len(q) /\ \A i \in 1 .. Len(w) : i + 1 \in 1 .. Len(q)
  BY <1>2
<1>5. \A i \in 1 .. Len(q) : r[i] \in Nat
  BY <1>1 DEF Ranks
<1>6. Head(q).type = "UPDATE_USK" => 1 \in Renewals(q)
  BY <1>2, <1>4 DEF Renewals
<1> DEFINE x == [i \in 1 .. Len(w) |-> r[i + 1]]
<1>7. x \in [1 .. Len(w) -> Nat]
  BY <1>4, <1>5
<1>8. ASSUME NEW i \in Renewals(w)
      PROVE  1 <= x[i] /\ u <= x[i] /\ x[i] <= n
  <2>1. x[i] = r[i + 1] /\ i + 1 \in Renewals(q) /\ r[i + 1] \in Nat /\
       i \in Nat /\ i > 0
    BY <1>2, <1>3, <1>4, <1>5
  <2>2. 1 <= r[i + 1] /\ ts <= r[i + 1] /\ r[i + 1] <= n
    BY <1>1, <2>1 DEF Ranks
  <2>3. CASE u <= 1 \/ u <= ts
    BY <2>1, <2>2, <2>3
  <2>4. CASE u = ts + 1 /\ Head(q).type = "UPDATE_USK"
    <3>1. 1 \in Renewals(q) /\ r[1] \in Nat /\ ts <= r[1]
      BY <1>1, <1>4, <1>5, <1>6, <2>4 DEF Ranks
    <3>2. r[1] < r[i + 1]
      <4>1. 1 < i + 1
        BY <2>1
      <4>2. QED
        BY <1>1, <2>1, <3>1, <4>1 DEF Ranks
    <3> HIDE DEF x
    <3>3. u <= r[i + 1]
      BY <2>1, <2>4, <3>1, <3>2
    <3>4. QED
      BY <2>1, <2>2, <3>3
  <2>5. QED
    BY <2>3, <2>4
<1>9. ASSUME NEW i \in Renewals(w), NEW j \in Renewals(w), i < j
      PROVE  x[i] < x[j]
  <2>1. /\ x[i] = r[i + 1] /\ x[j] = r[j + 1] /\ i \in Nat /\ j \in Nat
        /\ i + 1 \in Renewals(q) /\ j + 1 \in Renewals(q)
    BY <1>2, <1>3
  <2>2. i + 1 < j + 1
    BY <1>9, <2>1
  <2>3. QED
    BY <1>1, <2>1, <2>2 DEF Ranks
<1>10. u <= n + 1
  <2>1. CASE u <= 1 \/ u <= ts
    BY <2>1 DEF Ranked
  <2>2. CASE u = ts + 1 /\ Head(q).type = "UPDATE_USK"
    <3>1. r[1] \in Nat /\ ts <= r[1] /\ r[1] <= n
      BY <1>1, <1>4, <1>5, <1>6, <2>2 DEF Ranks
    <3>2. QED
      BY <2>2, <3>1
  <2>3. QED
    BY <2>1, <2>2
<1> HIDE DEF x
<1>11. Ranks(x, w, u, n)
  BY <1>7, <1>8, <1>9 DEF Ranks
<1>12. QED
  BY <1>10, <1>11 DEF Ranked, w

\* A request that comes is the last; other frames do not matter.
LEMMA RankedAppend ==
    ASSUME NEW q \in Seq(FrameType), NEW f \in FrameType, NEW ts \in Nat,
           NEW n \in Nat, Ranked(q, ts, n)
    PROVE  /\ Ranked(Append(q, f), ts, n + 1)
           /\ f.type # "UPDATE_USK" => Ranked(Append(q, f), ts, n)
<1> DEFINE w == Append(q, f)
<1>1. PICK r : Ranks(r, q, ts, n)
  BY DEF Ranked
<1>2. /\ Len(w) = Len(q) + 1 /\ Len(q) \in Nat /\ w[Len(q) + 1] = f
      /\ \A i \in 1 .. Len(q) : w[i] = q[i]
  BY AppendProperties
<1> HIDE DEF w
<1>3. \A i \in Renewals(w) : i \in Nat /\ (i \in Renewals(q) \/ i = Len(q) + 1)
  BY <1>2 DEF Renewals
<1>4. f.type # "UPDATE_USK" => Renewals(w) = Renewals(q)
  BY <1>2 DEF Renewals
<1>5. \A i \in Renewals(q) : i \in 1 .. Len(q) /\ r[i] \in Nat
  BY <1>1 DEF Ranks, Renewals
<1> DEFINE x ==
     [i \in 1 .. Len(w) |-> IF i \in 1 .. Len(q) THEN r[i] ELSE n + 1]
<1>6. x \in [1 .. Len(w) -> Nat]
  BY <1>1 DEF Ranks
<1>7. /\ x[Len(q) + 1] = n + 1 /\ \A i \in 1 .. Len(q) : x[i] = r[i]
  BY <1>2
<1> HIDE DEF x
<1>8. Ranks(x, w, ts, n + 1)
  <2>1. ASSUME NEW i \in Renewals(w)
        PROVE  1 <= x[i] /\ ts <= x[i] /\ x[i] <= n + 1
    <3>1. CASE i \in Renewals(q)
      <4>1. x[i] = r[i] /\ r[i] \in Nat /\ 1 <= r[i] /\ ts <= r[i] /\ r[i] <= n
        BY <1>1, <1>5, <1>7, <3>1 DEF Ranks
      <4>2. QED
        BY <4>1
    <3>2. CASE i = Len(q) + 1
      BY <1>7, <3>2 DEF Ranked
    <3>3. QED
      BY <1>3, <3>1, <3>2
  <2>2. ASSUME NEW i \in Renewals(w), NEW j \in Renewals(w), i < j
        PROVE  x[i] < x[j]
    <3>1. CASE i \in Renewals(q) /\ j \in Renewals(q)
      BY <1>1, <1>5, <1>7, <2>2, <3>1 DEF Ranks
    <3>2. CASE i \in Renewals(q) /\ j = Len(q) + 1
      <4>1. x[i] = r[i] /\ r[i] \in Nat /\ r[i] <= n
        BY <1>1, <1>5, <1>7, <3>2 DEF Ranks
      <4>2. QED
        BY <1>7, <3>2, <4>1
    <3>3. i # Len(q) + 1
      <4>1. j <= Len(q) + 1
        <5>1. j \in Nat /\ (j \in 1 .. Len(q) \/ j = Len(q) + 1)
          BY <1>3, <1>5
        <5>2. QED
          BY <1>2, <5>1
      <4>2. QED
        BY <1>2, <1>3, <2>2, <4>1
    <3>4. QED
      BY <1>3, <3>1, <3>2, <3>3
  <2>3. QED
    BY <1>6, <2>1, <2>2 DEF Ranks
<1>9. ASSUME f.type # "UPDATE_USK" PROVE Ranks(x, w, ts, n)
  <2>1. \A i \in Renewals(w) : i \in Renewals(q) /\ x[i] = r[i]
    BY <1>4, <1>5, <1>7, <1>9
  <2>2. QED
    BY <1>1, <1>6, <2>1 DEF Ranks
<1>10. ts <= n + 1 /\ ts <= n + 1 + 1
  BY DEF Ranked
<1>11. QED
  BY <1>8, <1>9, <1>10 DEF Ranked, w

LEMMA RankedRemoveAt ==
    ASSUME NEW q \in Seq(FrameType), NEW k \in 1 .. Len(q), NEW ts \in Nat,
           NEW n \in Nat, Ranked(q, ts, n)
    PROVE  Ranked(RemoveAt(q, k), ts, n)
<1> DEFINE w == RemoveAt(q, k)
           at(i) == IF i < k THEN i ELSE i + 1
<1>1. PICK r : Ranks(r, q, ts, n)
  BY DEF Ranked
<1>2. /\ Len(w) = Len(q) - 1 /\ Len(q) \in Nat /\ k \in Nat
      /\ \A i \in 1 .. Len(q) - 1 : w[i] = IF i < k THEN q[i] ELSE q[i + 1]
  BY RemoveAtProperties
<1> HIDE DEF w
<1>3. \A i \in 1 .. Len(w) : at(i) \in 1 .. Len(q) /\ w[i] = q[at(i)]
  BY <1>2
<1>4. \A i, j \in 1 .. Len(w) : i < j => at(i) < at(j)
  BY <1>2
<1> HIDE DEF at
<1>5. \A i \in Renewals(w) : i \in 1 .. Len(w) /\ at(i) \in Renewals(q)
  BY <1>3 DEF Renewals
<1> DEFINE x == [i \in 1 .. Len(w) |-> r[at(i)]]
<1>6. x \in [1 .. Len(w) -> Nat] /\ \A i \in 1 .. Len(w) : x[i] = r[at(i)]
  BY <1>1, <1>3 DEF Ranks
<1> HIDE DEF x
<1>7. \A i \in Renewals(w) : 1 <= x[i] /\ ts <= x[i] /\ x[i] <= n
  BY <1>1, <1>5, <1>6 DEF Ranks
<1>8. ASSUME NEW i \in Renewals(w), NEW j \in Renewals(w), i < j
      PROVE  x[i] < x[j]
  <2>1. at(i) < at(j)
    BY <1>4, <1>5, <1>8
  <2>2. r[at(i)] < r[at(j)]
    BY <1>1, <1>5, <2>1 DEF Ranks
  <2>3. QED
    BY <1>5, <1>6, <2>2
<1>9. Ranks(x, w, ts, n)
  BY <1>6, <1>7, <1>8 DEF Ranks
<1>10. QED
  BY <1>9 DEF Ranked, w

-----------------------------------------------------------------------------
(* A callback in outline.                                                  *)

\* What a handler sends.
Outs == {<<>>} \cup {<<f>> : f \in {g \in FrameType : g.type \in PeerTypes}}

\* The action of a frame of the peer leaves one timeout, none, or those there
\* were.
LEMMA PeerOutline ==
    ASSUME TypeInv, NEW p \in Ends, inbox[p] # <<>>,
           \/ PeerUcastKeyReq(p) \/ PeerUcastKeyResp(p) \/ PeerUcastKeyCfm(p)
           \/ PeerMcastKeyNotify(p) \/ PeerMcastKeyResp(p) \/ Drop(p)
    PROVE  \E new \in EntType, u \in Nat, out \in Outs :
               Done(p, new, u, Tail(inbox[p]), out) /\ (u <= 1 \/ u = timer[p])
<1> DEFINE e == Entry(p)
           t == timer[p]
           rest == Tail(inbox[p])
           m == Head(inbox[p])
           Outline(new, u, out) ==
                Done(p, new, u, rest, out) /\ (u <= 1 \/ u = t)
<1>1. Called(p, e, t, rest) /\ m \in FrameType
  BY ReceiveCalls
<1>2. e \in EntType /\ t \in Nat
  BY <1>1 DEF Called
<1>3. 0 \in Nat /\ 1 \in Nat
  OBVIOUS
<1>4. <<>> \in Outs /\ \A f \in FrameType : f.type \in PeerTypes =>
     <<f>> \in Outs
  BY DEF Outs
<1>5. /\ "REQ" \in PeerTypes /\ "RESP" \in PeerTypes /\ "CFM" \in PeerTypes
      /\ "NOTIFY" \in PeerTypes /\ "MCAST_RESP" \in PeerTypes
  BY DEF PeerTypes
<1> HIDE DEF e, t, rest, m
<1>6. SUFFICES \E new \in EntType, u \in Nat, out \in Outs :
     Outline(new, u, out)
  BY DEF t, rest
<1>7. ASSUME NEW new \in EntType, NEW u \in Nat, NEW out \in Outs,
             Done(p, new, u, rest, out), u <= 1 \/ u = t
      PROVE  \E x \in EntType, y \in Nat, z \in Outs : Outline(x, y, z)
  <2>1. Outline(new, u, out)
    BY <1>7
  <2> HIDE DEF Outline
  <2>2. QED
    BY <1>7, <2>1
<1> HIDE DEF Outline
<1>8. ASSUME Return(p, e, t, rest)
      PROVE  \E x \in EntType, y \in Nat, z \in Outs : Outline(x, y, z)
  BY <1>2, <1>4, <1>7, <1>8 DEF Return
<1>9. CASE PeerUcastKeyReq(p)
  <2>1. WaiPeerUcastKeyReqAction(p, e, t, rest, m)
    BY <1>9 DEF PeerUcastKeyReq, m, e, t, rest
  <2>2. ASSUME NEW new \in EntType, NEW f \in FrameType,
               Done(p, new, 1, rest, <<f>>), Responded(e, m, new, f)
        PROVE  \E x \in EntType, y \in Nat, z \in Outs : Outline(x, y, z)
    BY <1>3, <1>4, <1>5, <1>7, <2>2 DEF Responded
  <2>3. QED
    BY <1>1, <1>8, <2>1, <2>2, PeerReqDoes
<1>10. CASE PeerUcastKeyResp(p)
  <2>1. WaiPeerUcastKeyRespAction(p, e, t, rest, m)
    BY <1>10 DEF PeerUcastKeyResp, m, e, t, rest
  <2>2. ASSUME NEW new \in EntType, Return(p, new, t, rest)
        PROVE  \E x \in EntType, y \in Nat, z \in Outs : Outline(x, y, z)
    BY <1>2, <1>4, <1>7, <2>2 DEF Return
  <2>3. ASSUME NEW new \in EntType, NEW f \in FrameType, NEW u \in 0 .. 1,
               Done(p, new, u, rest, <<f>>), Accepted(e, m, new, f)
        PROVE  \E x \in EntType, y \in Nat, z \in Outs : Outline(x, y, z)
    <3>1. <<f>> \in Outs
      BY <1>4, <1>5, <2>3 DEF Accepted
    <3>2. u \in Nat /\ u <= 1
      BY <2>3
    <3>3. QED
      BY <1>7, <2>3, <3>1, <3>2
  <2>4. QED
    BY <1>1, <2>1, <2>2, <2>3, PeerRespDoes
<1>11. CASE PeerUcastKeyCfm(p)
  <2>1. WaiPeerUcastKeyCfmAction(p, e, t, rest, m)
    BY <1>11 DEF PeerUcastKeyCfm, m, e, t, rest
  <2>2. ASSUME NEW new \in EntType, Done(p, new, 0, rest, <<>>)
        PROVE  \E x \in EntType, y \in Nat, z \in Outs : Outline(x, y, z)
    BY <1>3, <1>4, <1>7, <2>2
  <2>3. QED
    BY <1>1, <1>8, <2>1, <2>2, PeerCfmDoes
<1>12. CASE PeerMcastKeyNotify(p)
  <2>1. WaiPeerMcastKeyNotifyAction(p, e, t, rest, m)
    BY <1>12 DEF PeerMcastKeyNotify, m, e, t, rest
  <2>2. ASSUME NEW new \in EntType, NEW f \in FrameType,
               Done(p, new, t, rest, <<f>>), f.type = "MCAST_RESP"
        PROVE  \E x \in EntType, y \in Nat, z \in Outs : Outline(x, y, z)
    BY <1>2, <1>4, <1>5, <1>7, <2>2
  <2>3. QED
    BY <1>1, <1>8, <2>1, <2>2, PeerNotifySettles
<1>13. CASE PeerMcastKeyResp(p)
  <2>1. WaiPeerMcastKeyRespAction(p, e, t, rest, m)
    BY <1>13 DEF PeerMcastKeyResp, m, e, t, rest
  <2>2. ASSUME NEW new \in EntType, Done(p, new, 0, rest, <<>>)
        PROVE  \E x \in EntType, y \in Nat, z \in Outs : Outline(x, y, z)
    BY <1>3, <1>4, <1>7, <2>2
  <2>3. QED
    BY <1>1, <1>8, <2>1, <2>2, PeerMcastRespDoes
<1>14. CASE Drop(p)
  BY <1>8, <1>14 DEF Drop, e, t, rest
<1>15. QED
  BY <1>9, <1>10, <1>11, <1>12, <1>13, <1>14

\* A message of the daemon itself leaves one more timeout, or none.
LEMMA MlmeOutline ==
    ASSUME TypeInv, NEW p, NEW e, NEW t, NEW rest, Called(p, e, t, rest),
           NEW type \in {"MLME_REQ", "MLME_RESP", "MLME_NOTIFY"},
           Mlme(p, type, e, t, rest)
    PROVE  \E new \in EntType, u \in Nat, out \in Outs :
               Done(p, new, u, rest, out) /\ (u = t \/ u = t + 1)
<1>1. e \in EntType /\ t \in Nat /\ t + 1 \in Nat
  BY DEF Called
<1>2. <<>> \in Outs /\ \A f \in FrameType : f.type \in PeerTypes =>
     <<f>> \in Outs
  BY DEF Outs
<1>3. "REQ" \in PeerTypes /\ "RESP" \in PeerTypes /\ "NOTIFY" \in PeerTypes
  BY DEF PeerTypes
<1>4. ASSUME NEW new \in EntType, NEW f \in FrameType,
             Done(p, new, t + 1, rest, <<f>>), f.type \in PeerTypes
      PROVE  \E x \in EntType, u \in Nat, out \in Outs :
                 Done(p, x, u, rest, out) /\ (u = t \/ u = t + 1)
  BY <1>1, <1>2, <1>4
<1>5. CASE Return(p, e, t, rest)
  BY <1>1, <1>2, <1>5 DEF Return
<1>6. CASE WaiMlmeUcastKeyReqAction(p, e, t, rest)
  <2>1. PICK new \in EntType, f \in FrameType :
            Done(p, new, t + 1, rest, <<f>>) /\ Requested(e, new, f)
    BY <1>6, MlmeReqDoes
  <2>2. QED
    BY <1>3, <1>4, <2>1 DEF Requested
<1>7. CASE WaiMlmeUcastKeyRespAction(p, e, t, rest)
  <2>1. PICK new \in EntType, f \in FrameType :
            Done(p, new, t + 1, rest, <<f>>) /\ SentResponse(e, new, f)
    BY <1>7, MlmeRespDoes
  <2>2. QED
    BY <1>3, <1>4, <2>1 DEF SentResponse
<1>8. CASE WaiMlmeMcastKeyNotifyAction(p, e, t, rest)
  <2>1. PICK new \in EntType, f \in FrameType :
            Done(p, new, t + 1, rest, <<f>>) /\ Notified(e, new, f)
    BY <1>8, MlmeNotifyDoes
  <2>2. QED
    BY <1>3, <1>4, <2>1 DEF Notified
<1>9. QED
  BY <1>5, <1>6, <1>7, <1>8 DEF Mlme

\* What a callback takes from the socket, the entry and the timeouts it leaves.
Takes(p, e, t, rest) ==
    \/ /\ rest = inbox[p]
       /\ ~ent[p].Valid => e = ent[p]
       /\ t <= timer[p] \/ trigger[p]
    \/ /\ inbox[p] # <<>> /\ rest = Tail(inbox[p])
       /\ Head(inbox[p]).type = "DELETE" => e = Free
       /\ \/ t <= 1
          \/ t <= timer[p]
          \/ t = timer[p] + 1 /\
               Head(inbox[p]).type \in {"UPDATE_USK", "UPDATE_MSK"}

\* It leaves them and goes on, or ends the association.
Leaves(p, e, t, rest) ==
    /\ ent' = [ent EXCEPT ![p] = e]
    /\ timer' = [timer EXCEPT ![p] = t]
    /\ \/ link' = link /\ \E out \in Outs : wapi_handle_l2_send(p, rest, out)
       \/ ent[p].Valid /\ rest = inbox[p] /\ DisconnectStaLink(p)

LEMMA SocketDoes ==
    ASSUME TypeInv, NEW p \in Ends, Socket(p)
    PROVE  /\ spent' = spent
           /\ \A q \in Ends : trigger'[q] =>
                  \/ trigger[q]
                  \/ q = p /\ inbox[p] # <<>> /\
                       Head(inbox[p]).type = "KEY_HS_START"
           /\ \E e \in EntType, t \in Nat, rest \in Seq(FrameType) :
                  Takes(p, e, t, rest) /\ Leaves(p, e, t, rest)
<1> DEFINE x == Entry(p)
           n == timer[p]
           r == Tail(inbox[p])
           m == Head(inbox[p])
           zero == [x EXCEPT !.retry_cnt = UCAST_IDLE_CTR]
           done == [x EXCEPT !.retry_cnt = UCAST_DONE_CTR]
<1>1. inbox[p] # <<>>
  BY SocketReads
<1>2. Called(p, x, n, r) /\ n \in Nat /\ r \in Seq(FrameType)
  BY <1>1, ReceiveCalls DEF Called
<1>3. zero \in EntType /\ done \in EntType
  BY CountedLike, Ranges
<1>4. Called(p, zero, n, r) /\ Called(p, done, n, r)
  BY <1>2, <1>3 DEF Called
<1>5. Free \in EntType
  BY FrameFields, Ranges DEF Free, EntType, States
<1>6. link' = link /\ spent' = spent
  <2>1. CASE \/ PeerUcastKeyReq(p) \/ PeerUcastKeyResp(p) \/ PeerUcastKeyCfm(p)
             \/ PeerMcastKeyNotify(p) \/ PeerMcastKeyResp(p)
    <3>1. \E type : Taken(p, type)
      BY <2>1 DEF PeerUcastKeyReq, PeerUcastKeyResp, PeerUcastKeyCfm,
           PeerMcastKeyNotify, PeerMcastKeyResp
    <3>2. QED
      BY <3>1 DEF Taken, Receive
  <2>2. CASE Drop(p) \/ KeyHsStart(p)
    BY <2>2 DEF Drop, KeyHsStart, Receive
  <2>3. CASE UpdateUsk(p) \/ UpdateMsk(p) \/ StaTableDeleteEntry(p)
    BY <2>3 DEF UpdateUsk, UpdateMsk, StaTableDeleteEntry, Receive
  <2>4. QED
    BY <2>1, <2>2, <2>3 DEF Socket
<1>7. ASSUME NEW new \in EntType, NEW u \in Nat, NEW out \in Outs,
             Done(p, new, u, r, out),
             m.type = "DELETE" => new = Free,
             \/ u <= 1 \/ u <= n
             \/ u = n + 1 /\ m.type \in {"UPDATE_USK", "UPDATE_MSK"}
      PROVE  \E e \in EntType, t \in Nat, rest \in Seq(FrameType) :
                 Takes(p, e, t, rest) /\ Leaves(p, e, t, rest)
  <2>1. Takes(p, new, u, r)
    BY <1>1, <1>7 DEF Takes
  <2>2. Leaves(p, new, u, r)
    BY <1>6, <1>7 DEF Leaves, Done
  <2>3. QED
    BY <1>2, <1>7, <2>1, <2>2
<1> HIDE DEF x, n, r, m, zero, done
<1>8. ASSUME NEW e \in EntType, Return(p, e, n, r), m.type = "DELETE" =>
             e = Free
      PROVE  \E y \in EntType, t \in Nat, rest \in Seq(FrameType) :
                 Takes(p, y, t, rest) /\ Leaves(p, y, t, rest)
  BY <1>2, <1>7, <1>8 DEF Return, Outs
<1>9. ASSUME NEW e \in EntType, Called(p, e, n, r),
             NEW type \in {"MLME_REQ", "MLME_RESP", "MLME_NOTIFY"},
             Mlme(p, type, e, n, r), m.type \in {"UPDATE_USK", "UPDATE_MSK"}
      PROVE  \E y \in EntType, t \in Nat, rest \in Seq(FrameType) :
                 Takes(p, y, t, rest) /\ Leaves(p, y, t, rest)
  <2>1. PICK new \in EntType, u \in Nat, out \in Outs :
            Done(p, new, u, r, out) /\ (u = n \/ u = n + 1)
    BY <1>9, MlmeOutline
  <2>2. m.type # "DELETE"
    BY <1>9
  <2>3. QED
    BY <1>2, <1>7, <1>9, <2>1, <2>2
<1>10. CASE \/ PeerUcastKeyReq(p) \/ PeerUcastKeyResp(p) \/ PeerUcastKeyCfm(p)
            \/ PeerMcastKeyNotify(p) \/ PeerMcastKeyResp(p) \/ Drop(p)
  <2>1. m.type \in PeerTypes /\ trigger' = trigger
    <3>1. CASE Drop(p)
      BY <3>1 DEF Drop, Receive, m
    <3>2. CASE ~Drop(p)
      <4>1. \E type \in PeerTypes : Taken(p, type)
        BY <1>10, <3>2 DEF PeerUcastKeyReq, PeerUcastKeyResp, PeerUcastKeyCfm,
             PeerMcastKeyNotify, PeerMcastKeyResp, PeerTypes
      <4>2. QED
        BY <4>1 DEF Taken, Receive, m
    <3>3. QED
      BY <3>1, <3>2
  <2>2. PICK new \in EntType, u \in Nat, out \in Outs :
            Done(p, new, u, r, out) /\ (u <= 1 \/ u = n)
    BY <1>1, <1>10, PeerOutline DEF r, n
  <2>3. m.type # "DELETE"
    BY <2>1 DEF PeerTypes
  <2>4. QED
    BY <1>2, <1>6, <1>7, <2>1, <2>2, <2>3
<1>11. CASE KeyHsStart(p)
  <2>1. /\ m.type = "KEY_HS_START" /\ Return(p, zero, n, r)
        /\ trigger' = [trigger EXCEPT ![p] = TRUE]
    BY <1>11 DEF KeyHsStart, Receive, m, zero, x, n, r
  <2>2. \A q \in Ends : trigger'[q] => trigger[q] \/ q = p
    BY <2>1 DEF TypeInv
  <2>3. QED
    BY <1>1, <1>3, <1>6, <1>8, <2>1, <2>2 DEF m
<1>12. CASE UpdateUsk(p)
  <2>1. /\ m.type = "UPDATE_USK" /\ trigger' = trigger
        /\ \/ Mlme(p, "MLME_REQ", zero, n, r)
           \/ Mlme(p, "MLME_RESP", zero, n, r)
           \/ Return(p, x, n, r)
    BY <1>12 DEF UpdateUsk, Receive, m, zero, x, n, r
  <2>2. x \in EntType
    BY <1>2 DEF Called
  <2>3. QED
    BY <1>3, <1>4, <1>6, <1>8, <1>9, <2>1, <2>2
<1>13. CASE UpdateMsk(p)
  <2>1. /\ m.type = "UPDATE_MSK" /\ trigger' = trigger
        /\ \/ Mlme(p, "MLME_NOTIFY", done, n, r)
           \/ Return(p, x, n, r)
    BY <1>13 DEF UpdateMsk, Receive, m, done, x, n, r
  <2>2. x \in EntType
    BY <1>2 DEF Called
  <2>3. QED
    BY <1>3, <1>4, <1>6, <1>8, <1>9, <2>1, <2>2
<1>14. CASE StaTableDeleteEntry(p)
  BY <1>5, <1>6, <1>8, <1>14 DEF StaTableDeleteEntry, n, r
<1>15. QED
  BY <1>10, <1>11, <1>12, <1>13, <1>14 DEF Socket

LEMMA CallbackDoes ==
    ASSUME TypeInv, NEW p \in Ends, Callback(p)
    PROVE  /\ spent' = spent
           /\ \A q \in Ends : trigger'[q] =>
                  \/ trigger[q]
                  \/ q = p /\ inbox[p] # <<>> /\
                       Head(inbox[p]).type = "KEY_HS_START"
           /\ \E e \in EntType, t \in Nat, rest \in Seq(FrameType) :
                  Takes(p, e, t, rest) /\ Leaves(p, e, t, rest)
<1> DEFINE q == inbox[p]
           n == timer[p]
           s == ent[p]
<1>1. s \in EntType /\ n \in Nat /\ q \in Seq(FrameType)
  BY DEF TypeInv, HandlerTypes
<1> HIDE DEF q, n, s
<1>2. <<>> \in Outs
  BY DEF Outs
<1>3. ASSUME NEW e \in EntType, NEW t \in Nat, NEW out \in Outs, link' = link,
             Done(p, e, t, q, out), ~s.Valid => e = s, t <= n \/ trigger[p]
      PROVE  \E y \in EntType, u \in Nat, rest \in Seq(FrameType) :
                 Takes(p, y, u, rest) /\ Leaves(p, y, u, rest)
  <2>1. Takes(p, e, t, q)
    BY <1>3 DEF Takes, q, n, s
  <2>2. Leaves(p, e, t, q)
    BY <1>3 DEF Leaves, Done
  <2>3. QED
    BY <1>1, <1>3, <2>1, <2>2
<1>4. ASSUME NEW e \in EntType, NEW t \in Nat,
             NEW type \in {"MLME_REQ", "MLME_RESP", "MLME_NOTIFY"},
             Mlme(p, type, e, t, q), s.Valid, t + 1 <= n \/
                  trigger[p], link' = link
      PROVE  \E y \in EntType, u \in Nat, rest \in Seq(FrameType) :
                 Takes(p, y, u, rest) /\ Leaves(p, y, u, rest)
  <2>1. Called(p, e, t, q)
    BY <1>1 DEF Called
  <2>2. PICK new \in EntType, u \in Nat, out \in Outs :
            Done(p, new, u, q, out) /\ (u = t \/ u = t + 1)
    BY <1>4, <2>1, MlmeOutline
  <2>3. u <= n \/ trigger[p]
    BY <1>1, <1>4, <2>2
  <2>4. QED
    BY <1>3, <1>4, <2>2, <2>3
<1>5. CASE Socket(p)
  BY <1>5, SocketDoes
<1>6. CASE WaiKeyHSTimerProc(p)
  <2> DEFINE r == (s.retry_cnt + 1) % 256
             x == [s EXCEPT !.retry_cnt = r]
             todo == Resend(x.retry_cnt)
             left == n - 1
  <2>1. left \in Nat /\ left <= n /\ left + 1 = n
    BY <1>1, <1>6 DEF WaiKeyHSTimerProc, n
  <2>2. r \in 0 .. 255
    <3>1. s.retry_cnt \in 0 .. 255
      BY <1>1 DEF EntType
    <3>2. QED
      BY <3>1, NextCount
  <2> HIDE DEF r
  <2>3. x \in EntType
    BY <1>1, <2>2 DEF EntType
  <2> HIDE DEF x
  <2>4. todo \in
       {"MLME_REQ", "MLME_RESP", "MLME_NOTIFY", "NOTHING", "DISCONNECT"}
    BY DEF Resend
  <2>5. \/ ~s.Valid /\ Return(p, s, left, q) /\ link' = link
        \/ s.Valid /\ Return(p, x, left, q) /\ link' = link
        \/ /\ s.Valid /\ DisconnectStaLink(p)
           /\ ent' = [ent EXCEPT ![p] = x] /\
                timer' = [timer EXCEPT ![p] = left]
        \/ /\ s.Valid /\ todo \notin {"NOTHING", "DISCONNECT"}
           /\ Mlme(p, todo, x, left, q) /\ link' = link
    BY <1>6, Zenon DEF WaiKeyHSTimerProc, x, r, s, n, q
  <2>6. spent' = spent /\ trigger' = trigger
    BY <1>6 DEF WaiKeyHSTimerProc
  <2> HIDE DEF todo, left
  <2>7. CASE ~s.Valid /\ Return(p, s, left, q) /\ link' = link
    BY <1>1, <1>2, <1>3, <2>1, <2>6, <2>7 DEF Return
  <2>8. CASE s.Valid /\ Return(p, x, left, q) /\ link' = link
    BY <1>2, <1>3, <2>1, <2>3, <2>6, <2>8 DEF Return
  <2>9. CASE /\ s.Valid /\ DisconnectStaLink(p)
             /\ ent' = [ent EXCEPT ![p] = x] /\
                  timer' = [timer EXCEPT ![p] = left]
    <3>1. Takes(p, x, left, q)
      BY <2>1, <2>9 DEF Takes, q, n, s
    <3>2. Leaves(p, x, left, q)
      BY <2>9 DEF Leaves, q, s
    <3>3. QED
      BY <1>1, <2>1, <2>3, <2>6, <3>1, <3>2
  <2>10. CASE /\ s.Valid /\ todo \notin {"NOTHING", "DISCONNECT"}
              /\ Mlme(p, todo, x, left, q) /\ link' = link
    <3>1. todo \in {"MLME_REQ", "MLME_RESP", "MLME_NOTIFY"} /\ left + 1 <= n
      BY <1>1, <2>1, <2>4, <2>10
    <3>2. QED
      BY <1>4, <2>1, <2>3, <2>6, <2>10, <3>1
  <2>11. QED
    BY <2>5, <2>7, <2>8, <2>9, <2>10
<1>7. CASE wapi_trigger_timer_handler(p)
  <2> DEFINE x == [s EXCEPT !.retry_cnt = UCAST_IDLE_CTR]
  <2>1. /\ trigger[p] /\ trigger' = [trigger EXCEPT ![p] = FALSE]
        /\ link' = link /\ spent' = spent
        /\ \/ s.Valid /\ Mlme(p, "MLME_REQ", x, n, q)
           \/ ~s.Valid /\ Return(p, s, n, q)
    BY <1>7 DEF wapi_trigger_timer_handler, s, n, q
  <2>2. x \in EntType
    BY <1>1, Ranges DEF EntType
  <2> HIDE DEF x
  <2>3. \A y \in Ends : trigger'[y] => trigger[y]
    BY <2>1 DEF TypeInv
  <2>4. CASE s.Valid /\ Mlme(p, "MLME_REQ", x, n, q)
    BY <1>1, <1>4, <2>1, <2>2, <2>3, <2>4
  <2>5. CASE ~s.Valid /\ Return(p, s, n, q)
    BY <1>1, <1>2, <1>3, <2>1, <2>3, <2>5 DEF Return
  <2>6. QED
    BY <2>1, <2>4, <2>5
<1>8. QED
  BY <1>5, <1>6, <1>7 DEF Callback

-----------------------------------------------------------------------------
(* What is left of an association.                                         *)

\* Nobody asks the ASUE for a first handshake or a new multicast key.
Untriggered ==
    /\ ~trigger["ASUE"]
    /\ \A m \in ToSet(inbox["ASUE"]) :
         m.type \notin {"KEY_HS_START", "UPDATE_MSK"}

\* The entry is deleted, or will be with the last frame of the socket.
Gone(p) ==
    \/ ent[p] = Free /\ inbox[p] = <<>>
    \/ inbox[p] # <<>> /\ inbox[p][Len(inbox[p])].type = "DELETE"

Leaving == ~link => \A p \in Ends : Gone(p)

Unused ==
    spent.assocs = 0 => /\ ~link /\ timer["ASUE"] = 0
                        /\ \A p \in Ends : ent[p] = Free /\ inbox[p] = <<>>

\* Every request of the driver of the ASUE leaves it one timeout more, at most.
Renewed ==
     spent.usks <= USKS /\ Ranked(inbox["ASUE"], timer["ASUE"], spent.usks)

Away == Untriggered /\ Leaving /\ Unused /\ Renewed

\* What comes to a socket, of which the handler leaves b.
Arrives(b, q) ==
    \/ link' = link /\ inbox'[q] = b
    \/ /\ link /\ link' = link
       /\ \E f \in FrameType : inbox'[q] = b \o <<f>> /\ f.type \in PeerTypes
    \/ /\ link /\ ~link'
       /\ \E f \in FrameType : inbox'[q] = b \o <<f>> /\ f.type = "DELETE"

LEMMA LeavesArrives ==
    ASSUME TypeInv, NEW p \in Ends, NEW e, NEW t, NEW rest \in Seq(FrameType),
           Leaves(p, e, t, rest)
    PROVE  /\ Arrives(rest, p) /\ Arrives(inbox[Peer(p)], Peer(p))
           /\ ent'[p] = e /\ ent'[Peer(p)] = ent[Peer(p)]
           /\ timer'[p] = t /\ timer'[Peer(p)] = timer[Peer(p)]
<1>1. Peer(p) \in Ends /\ Peer(p) # p
  BY DEF Ends, Peer
<1>2. /\ ent \in [Ends -> EntType] /\ timer \in [Ends -> Nat]
      /\ inbox \in [Ends -> Seq(FrameType)] /\ link \in BOOLEAN
  BY DEF TypeInv, HandlerTypes
<1>3. /\ ent'[p] = e /\ ent'[Peer(p)] = ent[Peer(p)]
      /\ timer'[p] = t /\ timer'[Peer(p)] = timer[Peer(p)]
  BY <1>1, <1>2 DEF Leaves
<1>4. \A b \in Seq(FrameType) : b \o <<>> = b
  OBVIOUS
<1>5. ASSUME NEW out \in Outs, link' = link, wapi_handle_l2_send(p, rest, out)
      PROVE  Arrives(rest, p) /\ Arrives(inbox[Peer(p)], Peer(p))
  <2>1. inbox' = [inbox EXCEPT ![p] = rest,
                               ![Peer(p)] = inbox[Peer(p)] \o IF link THEN
                                    out ELSE <<>>]
    BY <1>1, <1>2, <1>5 DEF wapi_handle_l2_send
  <2>2. /\ inbox'[p] = rest
        /\ inbox'[Peer(p)] = inbox[Peer(p)] \o IF link THEN out ELSE <<>>
    BY <1>1, <1>2, <2>1
  <2>3. Arrives(rest, p)
    BY <1>5, <2>2 DEF Arrives
  <2>4. CASE ~link \/ out = <<>>
    <3>1. inbox'[Peer(p)] = inbox[Peer(p)] \o <<>>
      BY <2>2, <2>4
    <3>2. inbox'[Peer(p)] = inbox[Peer(p)]
      BY <1>1, <1>2, <1>4, <3>1
    <3>3. QED
      BY <1>5, <2>3, <3>2 DEF Arrives
  <2>5. CASE link /\ out # <<>>
    <3>1. PICK f \in FrameType : out = <<f>> /\ f.type \in PeerTypes
      BY <1>5, <2>5 DEF Outs
    <3>2. QED
      BY <1>5, <2>2, <2>3, <2>5, <3>1 DEF Arrives
  <2>6. QED
    BY <2>4, <2>5
<1>6. ASSUME rest = inbox[p], DisconnectStaLink(p)
      PROVE  Arrives(rest, p) /\ Arrives(inbox[Peer(p)], Peer(p))
  <2> DEFINE f == [Frame EXCEPT !.type = "DELETE"]
  <2>1. f \in FrameType /\ f.type = "DELETE"
    <3>1. "DELETE" \in DriverTypes
      BY DEF DriverTypes
    <3>2. QED
      BY <3>1, MadeFrames, Zenon
  <2>2. /\ link' = FALSE
        /\ inbox' = [q \in Ends |-> inbox[q] \o IF link THEN <<f>> ELSE <<>>]
    BY <1>6 DEF DisconnectStaLink
  <2> HIDE DEF f
  <2>3. ASSUME NEW q \in Ends PROVE Arrives(inbox[q], q)
    <3>1. inbox'[q] = inbox[q] \o IF link THEN <<f>> ELSE <<>>
      BY <2>2
    <3>2. CASE link
      <4>1. inbox'[q] = inbox[q] \o <<f>> /\ ~link'
        BY <2>2, <3>1, <3>2
      <4>2. QED
        BY <2>1, <3>2, <4>1 DEF Arrives
    <3>3. CASE ~link
      <4>1. inbox'[q] = inbox[q] \o <<>>
        BY <3>1, <3>3
      <4>2. inbox'[q] = inbox[q] /\ link' = link
        BY <1>2, <1>4, <2>2, <3>3, <4>1
      <4>3. QED
        BY <4>2 DEF Arrives
    <3>4. QED
      BY <3>2, <3>3
  <2>4. QED
    BY <1>1, <1>6, <2>3
<1>7. QED
  BY <1>3, <1>5, <1>6 DEF Leaves

\* A callback keeps what is left of an association,
LEMMA CallbackAway ==
    ASSUME TypeInv, Away, NEW p \in Ends, Callback(p)
    PROVE  Away'
<1> DEFINE o == Peer(p)
<1>1. PICK e \in EntType, t \in Nat, rest \in Seq(FrameType) :
          Takes(p, e, t, rest) /\ Leaves(p, e, t, rest)
  BY CallbackDoes
<1>2. /\ Arrives(rest, p) /\ Arrives(inbox[o], o)
      /\ ent'[p] = e /\ ent'[o] = ent[o]
      /\ timer'[p] = t /\ timer'[o] = timer[o]
  BY <1>1, LeavesArrives
<1>3. o \in Ends /\ o # p /\ "ASUE" \in Ends /\ \A q \in Ends : q = p \/ q = o
  BY DEF Ends, Peer
<1> HIDE DEF o
<1>4. /\ \A q \in Ends : inbox[q] \in Seq(FrameType) /\ timer[q] \in Nat
      /\ link \in BOOLEAN /\ spent.usks \in Nat
  BY DEF TypeInv, HandlerTypes, SpentType
<1>5. spent' = spent
  BY CallbackDoes
<1>6. inbox[p] # <<>> => /\ Head(inbox[p]) \in ToSet(inbox[p])
                         /\ ToSet(Tail(inbox[p])) \subseteq ToSet(inbox[p])
  BY <1>4, ShrinksTail DEF Shrinks
<1>7. ToSet(rest) \subseteq ToSet(inbox[p])
  BY <1>1, <1>6 DEF Takes
<1>8. Untriggered'
  <2>1. ~trigger'["ASUE"]
    <3>1. trigger'["ASUE"] => \/ trigger["ASUE"]
                              \/ /\ p = "ASUE" /\ inbox[p] # <<>>
                                 /\ Head(inbox[p]).type = "KEY_HS_START"
      BY <1>3, CallbackDoes
    <3>2. QED
      BY <1>6, <3>1 DEF Away, Untriggered
  <2>2. ASSUME NEW q \in Ends, NEW b \in Seq(FrameType), Arrives(b, q),
               \A m \in ToSet(b) : m.type \notin {"KEY_HS_START", "UPDATE_MSK"}
        PROVE  \A m \in ToSet(inbox'[q]) :
               m.type \notin {"KEY_HS_START", "UPDATE_MSK"}
    <3>1. \/ inbox'[q] = b
          \/ \E f \in FrameType : /\ inbox'[q] = b \o <<f>>
                                  /\ f.type \notin {"KEY_HS_START",
                                       "UPDATE_MSK"}
      BY <2>2 DEF Arrives, PeerTypes
    <3>2. ASSUME NEW f \in FrameType, inbox'[q] = b \o <<f>>,
                 f.type \notin {"KEY_HS_START", "UPDATE_MSK"}
          PROVE  \A m \in ToSet(inbox'[q]) :
                 m.type \notin {"KEY_HS_START", "UPDATE_MSK"}
      <4>1. ToSet(inbox'[q]) = ToSet(b) \cup {f}
        BY <3>2, FrameComes
      <4>2. QED
        BY <2>2, <3>2, <4>1
    <3>3. QED
      BY <2>2, <3>1, <3>2
  <2>3. CASE p = "ASUE"
    <3>1. \A m \in ToSet(rest) : m.type \notin {"KEY_HS_START", "UPDATE_MSK"}
      BY <1>7, <2>3 DEF Away, Untriggered
    <3>2. QED
      BY <1>2, <2>1, <2>2, <2>3, <3>1 DEF Untriggered
  <2>4. CASE o = "ASUE"
    <3>1. \A m \in ToSet(inbox[o]) :
         m.type \notin {"KEY_HS_START", "UPDATE_MSK"}
      BY <2>4 DEF Away, Untriggered
    <3>2. QED
      BY <1>2, <1>3, <1>4, <2>1, <2>2, <2>4, <3>1 DEF Untriggered
  <2>5. QED
    BY <1>3, <2>3, <2>4
<1>9. Leaving'
  <2>1. SUFFICES ASSUME ~link', NEW q \in Ends PROVE Gone(q)'
    BY DEF Leaving
  <2>2. ASSUME NEW b \in Seq(FrameType), Arrives(b, q), link
        PROVE  Gone(q)'
    <3>1. PICK f \in FrameType : inbox'[q] = b \o <<f>> /\ f.type = "DELETE"
      BY <2>1, <2>2 DEF Arrives
    <3>2. /\ Len(b \o <<f>>) = Len(b) + 1 /\ (b \o <<f>>)[Len(b) + 1] = f
          /\ b \o <<f>> # <<>>
      OBVIOUS
    <3>3. QED
      BY <3>1, <3>2 DEF Gone
  <2>3. CASE link
    BY <1>2, <1>3, <1>4, <2>2, <2>3
  <2>4. CASE ~link
    <3>1. inbox'[p] = rest /\ inbox'[o] = inbox[o] /\ Gone(p) /\ Gone(o)
      BY <1>2, <1>3, <2>4 DEF Arrives, Away, Leaving
    <3>2. Gone(o)'
      BY <1>2, <3>1 DEF Gone
    <3>3. CASE inbox[p] = <<>>
      <4>1. rest = <<>> /\ ent[p] = Free /\ (~ent[p].Valid => e = ent[p])
        BY <1>1, <3>1, <3>3 DEF Takes, Gone
      <4>2. e = Free
        BY <4>1 DEF Free
      <4>3. QED
        BY <1>2, <1>3, <3>1, <3>2, <4>1, <4>2 DEF Gone
    <3>4. CASE inbox[p] # <<>> /\ rest = inbox[p]
      <4>1. rest[Len(rest)].type = "DELETE" /\ rest # <<>>
        BY <3>1, <3>4 DEF Gone
      <4>2. Gone(p)'
        BY <3>1, <4>1 DEF Gone
      <4>3. QED
        BY <1>3, <3>2, <4>2
    <3>5. CASE inbox[p] # <<>> /\ rest # inbox[p]
      <4> DEFINE w == inbox[p]
      <4>1. /\ rest = Tail(w) /\ (Head(w).type = "DELETE" => e = Free)
            /\ w[Len(w)].type = "DELETE" /\ w # <<>> /\ w \in Seq(FrameType)
        BY <1>1, <1>4, <3>1, <3>5 DEF Takes, Gone
      <4> HIDE DEF w
      <4>2. /\ Len(rest) = Len(w) - 1 /\ Len(w) \in Nat /\ Len(w) > 0
            /\ Head(w) = w[1] /\ \A i \in 1 .. Len(rest) : rest[i] = w[i + 1]
            /\ Len(rest) = 0 => rest = <<>>
        BY <4>1, HeadTailProperties
      <4>3. CASE Len(w) = 1
        <5>1. rest = <<>> /\ e = Free
          BY <4>1, <4>2, <4>3
        <5>2. QED
          BY <1>2, <1>3, <3>1, <3>2, <5>1 DEF Gone
      <4>4. CASE Len(w) # 1
        <5>1. Len(rest) > 0 /\ Len(rest) \in 1 .. Len(rest) /\
             Len(rest) + 1 = Len(w)
          BY <4>2, <4>4
        <5>2. rest[Len(rest)].type = "DELETE"
          BY <4>1, <4>2, <5>1
        <5>3. rest # <<>>
          BY <5>1
        <5>4. Gone(p)'
          BY <3>1, <5>2, <5>3 DEF Gone
        <5>5. QED
          BY <1>3, <3>2, <5>4
      <4>5. QED
        BY <4>3, <4>4
    <3>6. QED
      BY <3>3, <3>4, <3>5
  <2>5. QED
    BY <1>4, <2>3, <2>4
<1>10. Unused'
  <2>1. SUFFICES ASSUME spent.assocs = 0
                 PROVE  /\ ~link' /\ timer'["ASUE"] = 0
                        /\ \A q \in Ends : ent'[q] = Free /\ inbox'[q] = <<>>
    BY <1>5 DEF Unused
  <2>2. /\ ~link /\ timer["ASUE"] = 0
        /\ \A q \in Ends : ent[q] = Free /\ inbox[q] = <<>>
    BY <2>1 DEF Away, Unused
  <2>3. ~Free.Valid
    BY DEF Free
  <2>4. rest = <<>> /\ e = Free /\ (t <= timer[p] \/ trigger[p])
    BY <1>1, <2>2, <2>3 DEF Takes
  <2>5. ~link' /\ inbox'[p] = rest /\ inbox'[o] = inbox[o]
    <3>1. link' = link
      BY <1>1, <2>2, <2>3 DEF Leaves
    <3>2. QED
      BY <1>2, <2>2, <3>1 DEF Arrives
  <2>6. timer'["ASUE"] = 0
    <3>1. CASE p = "ASUE"
      <4>1. t <= 0
        BY <2>2, <2>4, <3>1 DEF Away, Untriggered
      <4>2. QED
        BY <1>2, <3>1, <4>1
    <3>2. QED
      BY <1>2, <1>3, <2>2, <3>1
  <2>7. QED
    BY <1>2, <1>3, <2>2, <2>4, <2>5, <2>6
<1>11. Renewed'
  <2> DEFINE n == spent.usks
  <2>1. n \in Nat /\ n <= USKS /\ Ranked(inbox["ASUE"], timer["ASUE"], n)
    BY <1>4 DEF Away, Renewed
  <2>2. ASSUME NEW b \in Seq(FrameType), NEW ts \in Nat, Ranked(b, ts, n),
               Arrives(b, "ASUE")
        PROVE  Ranked(inbox'["ASUE"], ts, n)
    <3>1. \/ inbox'["ASUE"] = b
          \/ \E f \in FrameType : /\ inbox'["ASUE"] = b \o <<f>>
                                  /\ f.type # "UPDATE_USK"
      BY <2>2 DEF Arrives, PeerTypes
    <3>2. ASSUME NEW f \in FrameType, f.type # "UPDATE_USK"
          PROVE  Ranked(b \o <<f>>, ts, n)
      <4>1. Append(b, f) = b \o <<f>>
        BY FrameComes
      <4>2. Ranked(Append(b, f), ts, n)
        BY <2>1, <2>2, <3>2, RankedAppend
      <4>3. QED
        BY <4>1, <4>2
    <3>3. QED
      BY <2>2, <3>1, <3>2
  <2> HIDE DEF n
  <2>3. CASE p = "ASUE"
    <3>1. Ranked(rest, t, n)
      <4>1. CASE rest = inbox[p] /\ (t <= timer[p] \/ trigger[p])
        BY <1>4, <2>1, <2>3, <4>1, RankedLess DEF Away, Untriggered
      <4>2. CASE /\ inbox[p] # <<>> /\ rest = Tail(inbox[p])
                 /\ \/ t <= 1
                    \/ t <= timer[p]
                    \/ /\ t = timer[p] + 1
                       /\ Head(inbox[p]).type \in {"UPDATE_USK", "UPDATE_MSK"}
        <5>1. Head(inbox[p]).type # "UPDATE_MSK"
          BY <1>6, <2>3, <4>2 DEF Away, Untriggered
        <5>2. \/ t <= 1 \/ t <= timer[p]
              \/ t = timer[p] + 1 /\ Head(inbox[p]).type = "UPDATE_USK"
          BY <4>2, <5>1
        <5>3. QED
          BY <1>4, <2>1, <2>3, <4>2, <5>2, RankedTail
      <4>3. QED
        BY <1>1, <4>1, <4>2 DEF Takes
    <3>2. Ranked(inbox'["ASUE"], t, n)
      BY <1>2, <2>2, <2>3, <3>1
    <3>3. QED
      BY <1>2, <1>5, <2>1, <2>3, <3>2 DEF Renewed, n
  <2>4. CASE o = "ASUE"
    <3>1. Ranked(inbox'["ASUE"], timer["ASUE"], n)
      BY <1>2, <1>3, <1>4, <2>1, <2>2, <2>4
    <3>2. QED
      BY <1>2, <1>5, <2>1, <2>4, <3>1 DEF Renewed, n
  <2>5. QED
    BY <1>3, <2>3, <2>4
<1>12. QED
  BY <1>8, <1>9, <1>10, <1>11 DEF Away

\* A frame of the driver of p, at the end of its socket.
Asks(p, x) ==
     inbox' = [inbox EXCEPT ![p] = Append(@, [Frame EXCEPT !.type = x])]

LEMMA DriverFrame ==
    ASSUME TypeInv, NEW p \in Ends, NEW x \in DriverTypes, Asks(p, x)
    PROVE  \E f \in FrameType :
               /\ f.type = x
               /\ inbox'[p] = Append(inbox[p], f)
               /\ inbox'[p] = inbox[p] \o <<f>>
               /\ ToSet(inbox'[p]) = ToSet(inbox[p]) \cup {f}
               /\ inbox'[Peer(p)] = inbox[Peer(p)]
<1> DEFINE f == [Frame EXCEPT !.type = x]
<1>1. f \in FrameType /\ f.type = x
  BY MadeFrames
<1>2. inbox \in [Ends -> Seq(FrameType)] /\ Peer(p) \in Ends /\ Peer(p) # p
  BY DEF TypeInv, HandlerTypes, Ends, Peer
<1>3. inbox' = [inbox EXCEPT ![p] = Append(inbox[p], f)]
  BY DEF Asks
<1> HIDE DEF f
<1>4. /\ Append(inbox[p], f) = inbox[p] \o <<f>>
      /\ ToSet(inbox[p] \o <<f>>) = ToSet(inbox[p]) \cup {f}
  BY <1>1, <1>2, FrameComes
<1>5. inbox'[p] = Append(inbox[p], f) /\ inbox'[Peer(p)] = inbox[Peer(p)]
  BY <1>2, <1>3
<1>6. QED
  BY <1>1, <1>4, <1>5

\* and so do the drivers and the air.
LEMMA AirAway ==
    ASSUME TypeInv, Away,
           \/ Associate
           \/ \E p \in UPDATERS : RenewUsk(p)
           \/ RenewMsk
           \/ \E p \in Ends : Lose(p)
    PROVE  Away'
<1>1. /\ inbox \in [Ends -> Seq(FrameType)] /\ spent \in SpentType
      /\ timer["ASUE"] \in Nat /\ link \in BOOLEAN
      /\ "AE" \in Ends /\ "ASUE" \in Ends /\ Peer("AE") = "ASUE" /\
           Peer("ASUE") = "AE"
  BY EndsAre DEF TypeInv, HandlerTypes, Ends
<1>2. spent.assocs \in Nat /\ spent.usks \in Nat
  BY <1>1 DEF SpentType
<1>3. /\ Spend("assocs") =>
           spent'.assocs = spent.assocs + 1 /\ spent'.usks = spent.usks
      /\ Spend("usks") =>
           spent'.assocs = spent.assocs /\ spent'.usks = spent.usks + 1
      /\ Spend("msks") =>
           spent'.assocs = spent.assocs /\ spent'.usks = spent.usks
      /\ Spend("losses") =>
           spent'.assocs = spent.assocs /\ spent'.usks = spent.usks
  BY <1>1 DEF Spend, SpentType
<1>4. Untriggered /\ Leaving /\ Unused /\ Renewed
  BY DEF Away
<1>5. ASSUME inbox'["ASUE"] = inbox["ASUE"], trigger' = trigger
      PROVE  Untriggered'
  BY <1>4, <1>5 DEF Untriggered
<1>6. ASSUME inbox'["ASUE"] = inbox["ASUE"], timer' = timer, spent'.usks =
             spent.usks
      PROVE  Renewed'
  BY <1>4, <1>6 DEF Renewed
<1>7. CASE Associate
  <2>1. inbox'["ASUE"] = inbox["ASUE"]
    <3>1. Asks("AE", "KEY_HS_START") /\ "KEY_HS_START" \in DriverTypes
      BY <1>7 DEF Associate, Asks, DriverTypes
    <3>2. QED
      BY <1>1, <3>1, DriverFrame
  <2>2. Untriggered' /\ Renewed'
    BY <1>3, <1>5, <1>6, <1>7, <2>1 DEF Associate, daemon
  <2>3. Leaving'
    BY <1>7 DEF Associate, Leaving
  <2>4. Unused'
    <3>1. spent'.assocs # 0
      BY <1>2, <1>3, <1>7 DEF Associate
    <3>2. QED
      BY <3>1 DEF Unused
  <2>5. QED
    BY <2>2, <2>3, <2>4 DEF Away
<1>8. ASSUME link, link' = link, spent'.assocs = spent.assocs
      PROVE  Leaving' /\ Unused'
  <2>1. spent'.assocs # 0
    BY <1>4, <1>8 DEF Unused
  <2>2. QED
    BY <1>8, <2>1 DEF Leaving, Unused
<1>9. CASE RenewMsk
  <2>1. inbox'["ASUE"] = inbox["ASUE"]
    <3>1. Asks("AE", "UPDATE_MSK") /\ "UPDATE_MSK" \in DriverTypes
      BY <1>9 DEF RenewMsk, Asks, DriverTypes
    <3>2. QED
      BY <1>1, <3>1, DriverFrame
  <2>2. Untriggered' /\ Renewed'
    BY <1>3, <1>5, <1>6, <1>9, <2>1 DEF RenewMsk, daemon
  <2>3. Leaving' /\ Unused'
    BY <1>3, <1>8, <1>9 DEF RenewMsk
  <2>4. QED
    BY <2>2, <2>3 DEF Away
<1>10. ASSUME NEW p \in UPDATERS, RenewUsk(p) PROVE Away'
  <2>1. p \in Ends /\ (p = "ASUE" \/ Peer(p) = "ASUE")
    BY UpdatersAssumption DEF Ends, Peer
  <2>2. /\ Asks(p, "UPDATE_USK") /\ "UPDATE_USK" \in DriverTypes
        /\ Spend("usks") /\ spent.usks < USKS /\ link /\ link' = link
        /\ timer' = timer /\ trigger' = trigger
    BY <1>10 DEF RenewUsk, daemon, Asks, DriverTypes
  <2>3. PICK f \in FrameType :
            /\ f.type = "UPDATE_USK"
            /\ inbox'[p] = Append(inbox[p], f)
            /\ ToSet(inbox'[p]) = ToSet(inbox[p]) \cup {f}
            /\ inbox'[Peer(p)] = inbox[Peer(p)]
    BY <2>1, <2>2, DriverFrame
  <2>4. Untriggered'
    BY <1>4, <1>5, <2>1, <2>2, <2>3 DEF Untriggered
  <2>5. USKS \in Nat
    BY BoundsAssumption
  <2>6. spent'.usks = spent.usks + 1 /\ spent'.usks <= USKS /\
       spent.usks <= USKS
    BY <1>2, <1>3, <2>2, <2>5
  <2>7. Renewed'
    <3>1. Ranked(inbox["ASUE"], timer["ASUE"], spent.usks)
      BY <1>4 DEF Renewed
    <3>2. \A x \in FrameType :
              Ranked(Append(inbox["ASUE"], x), timer["ASUE"], spent.usks + 1)
      BY <1>1, <1>2, <3>1, RankedAppend
    <3>3. Ranked(inbox["ASUE"], timer["ASUE"], spent.usks + 1)
      <4>1. timer["ASUE"] <= spent.usks + 1 + 1
        BY <1>1, <1>2, <3>1 DEF Ranked
      <4>2. PICK r : Ranks(r, inbox["ASUE"], timer["ASUE"], spent.usks)
        BY <3>1 DEF Ranked
      <4>3. Ranks(r, inbox["ASUE"], timer["ASUE"], spent.usks + 1)
        <5>1. ASSUME NEW i \in Renewals(inbox["ASUE"]) PROVE
                     r[i] <= spent.usks + 1
          <6>1. r[i] \in Nat /\ r[i] <= spent.usks
            BY <4>2 DEF Ranks, Renewals
          <6>2. QED
            BY <1>2, <6>1
        <5>2. QED
          BY <4>2, <5>1 DEF Ranks
      <4>4. QED
        BY <4>1, <4>3 DEF Ranked
    <3>4. QED
      BY <2>1, <2>2, <2>3, <2>6, <3>2, <3>3 DEF Renewed
  <2>8. Leaving' /\ Unused'
    BY <1>3, <1>8, <2>2
  <2>9. QED
    BY <2>4, <2>7, <2>8 DEF Away
<1>11. ASSUME NEW p \in Ends, Lose(p) PROVE Away'
  <2> DEFINE q == inbox[p]
  <2>1. PICK i \in 1 .. Len(q) :
            /\ q[i].type \in PeerTypes
            /\ inbox' = [inbox EXCEPT ![p] = RemoveAt(q, i)]
    BY <1>11 DEF Lose
  <2>2. q \in Seq(FrameType) /\ Len(q) \in Nat /\ q # <<>>
    BY <1>1, <2>1
  <2>3. /\ inbox'[p] = RemoveAt(q, i) /\ Peer(p) \in Ends /\ Peer(p) # p
        /\ inbox'[Peer(p)] = inbox[Peer(p)] /\ (p = "ASUE" \/ Peer(p) = "ASUE")
        /\ \A x \in Ends : x = p \/ x = Peer(p)
    BY <1>1, <2>1 DEF Ends, Peer
  <2>4. /\ link' = link /\ timer' = timer /\ trigger' = trigger /\ ent' = ent
        /\ spent'.assocs = spent.assocs /\ spent'.usks = spent.usks
    BY <1>3, <1>11 DEF Lose, daemon
  <2>5. ToSet(RemoveAt(q, i)) \subseteq ToSet(q)
    BY <2>2, ShrinksRemoveAt DEF Shrinks
  <2>6. Untriggered'
    BY <1>4, <1>5, <2>3, <2>4, <2>5 DEF Untriggered
  <2>7. Renewed'
    <3>1. CASE p = "ASUE"
      <4>1. Ranked(RemoveAt(q, i), timer["ASUE"], spent.usks)
        BY <1>1, <1>2, <1>4, <2>2, <3>1, RankedRemoveAt DEF Renewed
      <4>2. QED
        BY <1>4, <2>3, <2>4, <3>1, <4>1 DEF Renewed
    <3>2. CASE Peer(p) = "ASUE"
      BY <1>6, <2>3, <2>4, <3>2
    <3>3. QED
      BY <2>3, <3>1, <3>2
  <2>8. Unused'
    <3>1. spent.assocs # 0
      BY <1>4, <2>2 DEF Unused
    <3>2. QED
      BY <2>4, <3>1 DEF Unused
  <2>9. Leaving'
    <3>1. SUFFICES ASSUME ~link PROVE Gone(p)' /\ Gone(Peer(p))'
      BY <2>3, <2>4 DEF Leaving
    <3>2. Gone(p) /\ Gone(Peer(p))
      BY <1>4, <2>3, <3>1 DEF Leaving
    <3>3. Gone(Peer(p))'
      BY <2>3, <2>4, <3>2 DEF Gone
    <3>4. Gone(p)'
      <4> DEFINE w == RemoveAt(q, i)
                 n == Len(q)
      <4>1. q[n].type = "DELETE"
        BY <2>2, <3>2 DEF Gone
      <4>2. i # n
        BY <2>1, <4>1 DEF PeerTypes
      <4>3. /\ Len(w) = n - 1 /\ w \in Seq(FrameType)
            /\ \A j \in 1 .. n - 1 : w[j] = IF j < i THEN q[j] ELSE q[j + 1]
        BY <2>2, RemoveAtProperties
      <4> HIDE DEF w, n, q
      <4>4. n \in Nat /\ i \in 1 .. n
        BY <2>1, <2>2 DEF n
      <4>5. /\ n - 1 \in 1 .. n - 1 /\ ~(n - 1 < i) /\ (n - 1) + 1 = n
        BY <4>2, <4>4
      <4>6. w[Len(w)].type = "DELETE"
        BY <4>1, <4>3, <4>5
      <4>7. w # <<>>
        <5>1. Len(w) > 0
          BY <4>2, <4>3, <4>4
        <5>2. QED
          BY <5>1
      <4>8. QED
        BY <2>3, <4>6, <4>7 DEF Gone, w, q
    <3>5. QED
      BY <3>3, <3>4
  <2>10. QED
    BY <2>6, <2>7, <2>8, <2>9 DEF Away
<1>12. QED
  BY <1>7, <1>9, <1>10, <1>11

-----------------------------------------------------------------------------
(* The handshake over all steps.                                           *)

\* An association starts with nothing left of the last one, when it is the only
\* one or the daemons have read all there was; not more than ten timeouts are
\* still to come.
Separate == ASSOCS <= 1 \/ (~OVERLAP /\ USKS <= 9)

LEMMA AssociateFresh ==
    ASSUME TypeInv, Away, Separate, Associate
    PROVE  /\ timer["ASUE"] <= 10
           /\ \A p \in Ends : ent[p] = Free /\ inbox[p] = <<>>
<1> DEFINE ts == timer["ASUE"]
<1>1. /\ spent \in SpentType
      /\ ts \in Nat /\ USKS \in Nat /\ ASSOCS \in Nat
  BY BoundsAssumption DEF TypeInv, HandlerTypes, Ends
<1>2. spent.assocs \in Nat /\ spent.usks \in Nat
  BY <1>1 DEF SpentType
<1>3. QED
  <2>1. CASE ASSOCS <= 1
    <3>1. spent.assocs < ASSOCS
      BY DEF Associate
    <3>2. spent.assocs = 0
      BY <1>1, <1>2, <2>1, <3>1
    <3>3. QED
      BY <3>2 DEF Away, Unused
  <2>2. CASE ~OVERLAP /\ USKS <= 9
    <3>1. \A p \in Ends : inbox[p] = <<>> /\ Gone(p)
      BY <2>2 DEF Associate, Away, Leaving
    <3>2. \A p \in Ends : ent[p] = Free
      BY <3>1 DEF Gone
    <3>3. ts <= spent.usks + 1 /\ spent.usks <= USKS
      BY DEF Away, Renewed, Ranked
    <3>4. ts <= 10
      BY <1>1, <1>2, <2>2, <3>3
    <3>5. QED
      BY <3>1, <3>2, <3>4
  <2>3. QED
    BY <2>1, <2>2 DEF Separate

LEMMA AssociateLive ==
    ASSUME TypeInv, Away, Separate, Associate
    PROVE  Live'
<1> DEFINE ts == timer["ASUE"]
           ka == key["AE"]
           ks == key["ASUE"]
<1>1. /\ inbox \in [Ends -> Seq(FrameType)]
      /\ ts \in Nat
      /\ "AE" \in Ends /\ "ASUE" \in Ends /\ Peer("AE") = "ASUE"
  BY EndsAre DEF TypeInv, HandlerTypes, Ends
<1>2. /\ ts <= 10
      /\ \A p \in Ends : ent[p] = Free /\ inbox[p] = <<>>
  BY AssociateFresh
<1>3. PICK f \in FrameType :
          /\ f.type = "KEY_HS_START"
          /\ inbox'["AE"] = inbox["AE"] \o <<f>>
          /\ ToSet(inbox'["AE"]) = ToSet(inbox["AE"]) \cup {f}
          /\ inbox'["ASUE"] = inbox["ASUE"]
  <2>1. Asks("AE", "KEY_HS_START") /\ "KEY_HS_START" \in DriverTypes
    BY DEF Associate, Asks, DriverTypes
  <2>2. QED
    BY <1>1, <2>1, DriverFrame
<1>4. /\ \A x : x \notin ToSet(<<>>)
      /\ \A F : Lone(<<>>, F)
  BY DEF ToSet, Lone
<1>5. /\ ent' = ent /\ timer' = timer /\ key' = key
      /\ ToSet(inbox'["AE"]) = {f} /\ inbox'["ASUE"] = <<>>
      /\ inbox'["AE"] = <<>> \o <<f>>
  <2>1. ToSet(inbox["AE"]) = {}
    BY <1>1, <1>2, <1>4
  <2>2. QED
    BY <1>1, <1>2, <1>3, <2>1 DEF Associate, daemon
<1>6. Quiet'
  BY <1>3, <1>4, <1>5 DEF Quiet, Good
<1>7. Handshake(Free, Free, <<>>, <<>>, ka, ks, ts)
  <2>1. FrameKinds(<<>>, <<>>) /\ Lengths(<<>>, <<>>)
    BY <1>4 DEF FrameKinds, Lengths
  <2>2. Station(Free, ts)
    BY <1>1, <1>2
       DEF Station, Free, UCAST_IDLE_CTR, UCAST_WAIT_RESP_CTR, DoneStates
  <2>3. Point(Free)
    <3>1. Len(<<>>) = 0
      OBVIOUS
    <3>2. QED
      BY <3>1 DEF Point, Free, DoneStates
  <2>4. InResponse(Free, <<>>, <<>>, ks) /\ InConfirm(Free, <<>>, ka, ks)
    BY <1>4 DEF InResponse, InConfirm
  <2>5. Used(Free, ka, ks)
    BY DEF Used, Free, DoneStates
  <2>6. Offers(Free, <<>>, <<>>)
    BY <1>4 DEF Offers
  <2>7. First(Free, Free, <<>>, <<>>)
    BY <1>4 DEF First, Free
  <2>8. QED
    BY <2>1, <2>2, <2>3, <2>4, <2>5, <2>6, <2>7 DEF Handshake
<1>8. Values(Free, Free, <<>>, <<>>, ka, ks, ts)
  <2>1. Values(ent["AE"], ent["ASUE"], inbox["AE"], inbox["ASUE"], ka, ks, ts)
    BY NowValues
  <2>2. QED
    BY <1>1, <1>2, <2>1
<1>9. Handshake(Free, Free, <<>> \o <<f>>, <<>>, ka, ks, ts)
  BY <1>3, <1>7, <1>8, PointHears
<1>10. NowHandshake'
  BY <1>1, <1>2, <1>5, <1>9 DEF NowHandshake
<1>11. QED
  BY <1>6, <1>10 DEF Live

LEMMA RenewalLive ==
    ASSUME TypeInv, Live, NEW p \in Ends,
           NEW x \in {"UPDATE_USK", "UPDATE_MSK"},
           x = "UPDATE_MSK" =>
                p = "AE", link, ent' = ent, timer' = timer, key' = key,
           Asks(p, x)
    PROVE  Live'
<1>1. PICK f \in FrameType :
          /\ f.type = x
          /\ inbox'[p] = inbox[p] \o <<f>>
          /\ ToSet(inbox'[p]) = ToSet(inbox[p]) \cup {f}
          /\ inbox'[Peer(p)] = inbox[Peer(p)]
  <2>1. x \in DriverTypes
    BY Zenon DEF DriverTypes
  <2>2. QED
    BY <2>1, DriverFrame
<1>2. Quiet /\ f.type \notin {"CFM", "DELETE"} /\ ~Good(f)
  BY <1>1 DEF Live, Good
<1>3. Values(ent["AE"], ent["ASUE"], inbox["AE"], inbox["ASUE"],
             key["AE"], key["ASUE"], timer["ASUE"])
  BY NowValues
<1>4. CASE p = "AE"
  <2>1. Quiet'
    BY <1>1, <1>2, <1>4, EndsAre DEF Quiet
  <2>2. ASSUME NowHandshake PROVE NowHandshake'
    <3>1. Handshake(ent["AE"], ent["ASUE"], inbox["AE"] \o <<f>>, inbox["ASUE"],
                    key["AE"], key["ASUE"], timer["ASUE"])
      BY <1>1, <1>3, <2>2, PointHears DEF NowHandshake
    <3>2. inbox'["AE"] = inbox["AE"] \o <<f>> /\ inbox'["ASUE"] = inbox["ASUE"]
      BY <1>1, <1>4, EndsAre
    <3>3. QED
      BY <3>1, <3>2 DEF NowHandshake
  <2>3. QED
    BY <2>1, <2>2 DEF Live
<1>5. CASE p = "ASUE"
  <2>1. Quiet'
    BY <1>1, <1>2, <1>5, EndsAre DEF Quiet
  <2>2. f.type = "UPDATE_USK"
    BY <1>1, <1>5
  <2>3. ASSUME NowHandshake PROVE NowHandshake'
    <3>1. Handshake(ent["AE"], ent["ASUE"], inbox["AE"], inbox["ASUE"] \o <<f>>,
                    key["AE"], key["ASUE"], timer["ASUE"])
      BY <1>3, <2>2, <2>3, StationHears DEF NowHandshake
    <3>2. inbox'["ASUE"] = inbox["ASUE"] \o <<f>> /\ inbox'["AE"] = inbox["AE"]
      BY <1>1, <1>5, EndsAre
    <3>3. QED
      BY <3>1, <3>2 DEF NowHandshake
  <2>4. QED
    BY <2>1, <2>3 DEF Live
<1>6. QED
  BY <1>4, <1>5 DEF Ends

LEMMA LoseLive ==
    ASSUME TypeInv, Live, NEW p \in Ends, Lose(p)
    PROVE  Live'
<1> DEFINE q == inbox[p]
<1>1. PICK i \in 1 .. Len(q) : inbox' = [inbox EXCEPT ![p] = RemoveAt(q, i)]
  BY DEF Lose
<1>2. q \in Seq(FrameType) /\ inbox \in [Ends -> Seq(FrameType)]
  BY DEF TypeInv, HandlerTypes
<1>3. /\ inbox'[p] = RemoveAt(q, i) /\ inbox'[Peer(p)] = inbox[Peer(p)]
      /\ ent' = ent /\ timer' = timer /\ key' = key /\ link' = link
  BY <1>1, <1>2 DEF Lose, daemon, Ends, Peer
<1>4. Shrinks(RemoveAt(q, i), q)
  BY <1>2, ShrinksRemoveAt
<1>5. Shrinks(inbox'["AE"], inbox["AE"]) /\
     Shrinks(inbox'["ASUE"], inbox["ASUE"])
  BY <1>3, <1>4, ShrinksSame DEF Ends, Peer
<1>6. Quiet => Quiet'
  BY <1>5 DEF Quiet, Shrinks
<1>7. NowHandshake => NowHandshake'
  BY <1>3, <1>5, FramesGo DEF NowHandshake
<1>8. QED
  BY <1>3, <1>6, <1>7 DEF Live

\* What the theorem rests on.
KeysInv == TypeInv /\ Live /\ Away

LEMMA KeysInit == Init => KeysInv
<1> SUFFICES ASSUME Init PROVE KeysInv
  OBVIOUS
<1>1. TypeInv
  BY InitTypes
<1>2. ~link /\ \A p \in Ends : ent[p] = Free /\ inbox[p] = <<>> /\ timer[p] = 0
  BY DEF Init
<1>3. "ASUE" \in Ends /\ ~trigger["ASUE"] /\ spent.usks = 0
  BY DEF Init, Ends
<1>4. Untriggered
  BY <1>2, <1>3 DEF Untriggered, ToSet
<1>5. Leaving /\ Unused
  BY <1>2, <1>3 DEF Leaving, Unused, Gone
<1>6. Renewed
  <2>1. 0 <= USKS
    BY BoundsAssumption
  <2>2. Ranks([i \in 1 .. 0 |-> 0], <<>>, 0, 0)
    BY DEF Ranks, Renewals
  <2>3. Ranked(<<>>, 0, 0)
    BY <2>2 DEF Ranked
  <2>4. QED
    BY <1>2, <1>3, <2>1, <2>3 DEF Renewed
<1>7. QED
  BY <1>1, <1>2, <1>4, <1>5, <1>6 DEF KeysInv, Live, Away

LEMMA KeysNext ==
    ASSUME Separate, KeysInv, [Next]_vars
    PROVE  KeysInv'
<1>1. TypeInv /\ Live /\ Away
  BY DEF KeysInv
<1>2. TypeInv'
  BY <1>1, NextTypes
<1>3. ASSUME NEW p \in Ends, Callback(p) PROVE Live' /\ Away'
  <2>1. Away'
    BY <1>1, <1>3, CallbackAway
  <2>2. p = "AE" \/ p = "ASUE"
    BY DEF Ends
  <2>3. ~trigger["ASUE"]
    BY <1>1 DEF Away, Untriggered
  <2>4. QED
    BY <1>1, <1>3, <2>1, <2>2, <2>3, PointStep, StationStep
<1>4. CASE \/ Associate
           \/ \E p \in UPDATERS : RenewUsk(p)
           \/ RenewMsk
           \/ \E p \in Ends : Lose(p)
  <2>1. Away'
    BY <1>1, <1>4, AirAway
  <2>2. ASSUME Associate PROVE Live'
    BY <1>1, <2>2, AssociateLive
  <2>3. ASSUME NEW p \in UPDATERS, RenewUsk(p) PROVE Live'
    <3>1. p \in Ends
      BY UpdatersAssumption DEF Ends
    <3>2. QED
      BY <1>1, <2>3, <3>1, RenewalLive DEF RenewUsk, daemon, Asks
  <2>4. ASSUME RenewMsk PROVE Live'
    BY <1>1, <2>4, RenewalLive DEF RenewMsk, daemon, Ends, Asks
  <2>5. ASSUME NEW p \in Ends, Lose(p) PROVE Live'
    BY <1>1, <2>5, LoseLive
  <2>6. QED
    BY <1>2, <1>4, <2>1, <2>2, <2>3, <2>4, <2>5 DEF KeysInv
<1>5. CASE UNCHANGED vars
  <2>1. Live'
    BY <1>1, <1>5 DEF vars, Live, Quiet, NowHandshake
  <2>2. Away'
    BY <1>1, <1>5 DEF vars, Away, Untriggered, Leaving, Gone, Unused, Renewed
  <2>3. QED
    BY <1>2, <2>1, <2>2 DEF KeysInv
<1>6. QED
  BY <1>2, <1>3, <1>4, <1>5 DEF Next, KeysInv

\* A station that is secured and waits for nothing has used its key.
LEMMA KeysHold == KeysInv => KeysAgree
<1> SUFFICES ASSUME TypeInv, Live, Negotiated PROVE key["AE"] = key["ASUE"]
  BY DEF KeysInv, KeysAgree
<1>1. link /\ \A p \in Ends : ent[p].PortSecured /\ ~Waiting(p)
  BY DEF Negotiated
<1>2. "AE" \in Ends /\ "ASUE" \in Ends
  BY DEF Ends
<1>3. NowHandshake
  BY <1>1, <1>2 DEF Live, Waiting
<1>4. Station(ent["ASUE"], timer["ASUE"]) /\
     Used(ent["ASUE"], key["AE"], key["ASUE"])
  BY <1>3 DEF NowHandshake, Handshake
<1>5. ent["ASUE"].WaiKeyState \in DoneStates
  BY <1>1, <1>2, <1>4 DEF Station, Waiting
<1>6. QED
  BY <1>4, <1>5 DEF Used

\* Once both daemons are done, their drivers use the same unicast key under
\* the same index (WaiPeerUcastKeyRespAction, WaiMlmeUcastKeyRespAction),
\* whatever is lost, updated and sent again, for every number of retries up to
\* nine.  Of two associations the second must find the sockets empty and at
\* most ten timeouts of the first: an idle entry counts those
\* (WaiKeyHSTimerProc), and with more of them a station that nobody has asked
\* would start a handshake of its own.
THEOREM KeysCorrect == ASSUME Separate PROVE Spec => []KeysAgree
<1>1. Init => KeysInv
  BY KeysInit
<1>2. KeysInv /\ [Next]_vars => KeysInv'
  BY KeysNext
<1>3. KeysInv => KeysAgree
  BY KeysHold
<1>4. QED
  BY <1>1, <1>2, <1>3, PTL DEF Spec

-----------------------------------------------------------------------------
(* What a callback does to the entry, the sockets and the multicast keys.  *)

\* The socket of p has a frame that p will take.
Taking(p) ==
    \/ /\ Head(inbox[p]).type = "NOTIFY"
       /\ ent[p].WaiKeyState \in DoneStates
       /\ Head(inbox[p]).mic = ent[p].PTK
    \/ /\ ent[p].WaiKeyState = "WAIT_UCAST_CFM"
       /\ Confirms(ent[p], Head(inbox[p]))

\* p leaves its socket alone or drops the head of it.
Rests(p, rest) ==
    \/ rest = inbox[p]
    \/ inbox[p] # <<>> /\ rest = Tail(inbox[p]) /\ ~Taking(p)

\* What p leaves, and sends if the station is associated.
Moves(p, e, rest, out) ==
    /\ link' = link
    /\ ent'[p] = e /\ ent'[Peer(p)] = ent[Peer(p)]
    /\ inbox'[p] = rest
    /\ inbox'[Peer(p)] = inbox[Peer(p)] \o IF link THEN out ELSE <<>>

\* p takes the frame m from its socket.
Reads(p, m, type, e, out) ==
    /\ inbox[p] # <<>> /\ m = Head(inbox[p]) /\ m.type = type
    /\ Moves(p, e, Tail(inbox[p]), out)

\* p does nothing, or counts,
Kept(p) ==
    \E e \in EntType, rest \in Seq(FrameType) :
        /\ Moves(p, e, rest, <<>>) /\ Rests(p, rest) /\ Like(e, ent[p])
        /\ UNCHANGED <<mskid, msk>>

\* deletes the entry,
Deleted(p) ==
    /\ \E m : Reads(p, m, "DELETE", Free, <<>>)
    /\ UNCHANGED <<mskid, msk>>

\* ends the association,
Cut(p) ==
    /\ Like(ent'[p], ent[p]) /\ ent'[Peer(p)] = ent[Peer(p)]
    /\ DisconnectStaLink(p)
    /\ UNCHANGED <<mskid, msk>>

\* sends a request, a response of its own or a notify,
Asked(p) ==
    /\ ent[p].WaiKeyState \in
           DoneStates \cup {"UCAST_KEY_IDLE", "WAIT_UCAST_RESP"}
    /\ \E e \in EntType, f \in FrameType, rest \in Seq(FrameType) :
           /\ Moves(p, e, rest, <<f>>) /\ Rests(p, rest)
           /\ Requested(ent[p], e, f)
    /\ UNCHANGED <<mskid, msk>>

Repeated(p) ==
    /\ ent[p].WaiKeyState \in DoneStates \cup {"WAIT_UCAST_CFM"}
    /\ \E x \in EntType, e \in EntType, f \in FrameType,
          rest \in Seq(FrameType) :
           /\ Moves(p, e, rest, <<f>>) /\ Rests(p, rest)
           /\ Like(x, ent[p]) /\ SentResponse(x, e, f)
    /\ UNCHANGED <<mskid, msk>>

Announced(p) ==
    /\ ent[p].WaiKeyState \in DoneStates \cup {"WAIT_MCAST_RESP"}
    /\ \E e \in EntType, f \in FrameType, rest \in Seq(FrameType) :
           /\ Moves(p, e, rest, <<f>>) /\ Rests(p, rest)
           /\ Notified(ent[p], e, f)
           /\ f.mic = ent[p].PTK /\ f.msk = msk[p] /\ f.mskid = msk[p] % 2
    /\ mskid' = [mskid EXCEPT ![p] = msk[p] % 2]
    /\ UNCHANGED msk

\* or takes a request,
Answered(p) ==
    /\ ent[p].WaiKeyState \in DoneStates \cup {"UCAST_KEY_IDLE"}
    /\ \E m \in FrameType, e \in EntType, f \in FrameType :
           Reads(p, m, "REQ", e, <<f>>) /\ Responded(ent[p], m, e, f)
    /\ UNCHANGED <<mskid, msk>>

\* a response, which it refuses or accepts,
Rejected(p) ==
    /\ ent[p].WaiKeyState \in DoneStates \cup {"WAIT_UCAST_RESP"}
    /\ \E m \in FrameType, e \in EntType :
           /\ Reads(p, m, "RESP", e, <<>>)
           /\ e.WaiKeyState = ent[p].WaiKeyState
           /\ e.PortSecured = ent[p].PortSecured
    /\ UNCHANGED <<mskid, msk>>

Admitted(p) ==
    /\ ent[p].WaiKeyState \in DoneStates \cup {"WAIT_UCAST_RESP"}
    /\ \E m \in FrameType, e \in EntType, f \in FrameType :
           Reads(p, m, "RESP", e, <<f>>) /\ Accepted(ent[p], m, e, f)
    /\ UNCHANGED <<mskid, msk>>

\* a confirmation,
Confirmed(p) ==
    /\ ent[p].WaiKeyState = "WAIT_UCAST_CFM"
    /\ \E m \in FrameType, e \in EntType :
           /\ Reads(p, m, "CFM", e, <<>>) /\ Confirms(ent[p], m)
           /\ Settled(ent[p], "UCAST_KEY_DONE", ent[p].PortSecured, e)
    /\ UNCHANGED <<mskid, msk>>

\* a notify
Told(p) ==
    /\ ent[p].WaiKeyState \in DoneStates
    /\ \E m \in FrameType, e \in EntType, f \in FrameType :
           /\ Reads(p, m, "NOTIFY", e, <<f>>) /\ m.mic = ent[p].PTK
           /\ Settled(ent[p], "MCAST_KEY_DONE", TRUE, e)
           /\ f.type = "MCAST_RESP" /\ f.mskid = m.mskid
           /\ mskid' = [mskid EXCEPT ![p] = m.mskid]
           /\ msk' = [msk EXCEPT ![p] = m.msk]

\* or the answer to the last notify.
Closed(p) ==
    /\ ent[p].WaiKeyState = "WAIT_MCAST_RESP"
    /\ \E m \in FrameType, e \in EntType :
           /\ Reads(p, m, "MCAST_RESP", e, <<>>) /\ m.mskid = mskid[p]
           /\ Settled(ent[p], "MCAST_KEY_DONE", TRUE, e)
    /\ UNCHANGED <<mskid, msk>>

Turn(p) ==
    \/ Kept(p) \/ Deleted(p) \/ Cut(p)
    \/ Asked(p) \/ Repeated(p) \/ Announced(p)
    \/ Answered(p) \/ Rejected(p) \/ Admitted(p)
    \/ Confirmed(p) \/ Told(p) \/ Closed(p)

LEMMA DoneMoves ==
    ASSUME TypeInv, NEW p \in Ends, NEW e, NEW t, NEW rest, NEW out,
           Done(p, e, t, rest, out), link' = link
    PROVE  Moves(p, e, rest, out)
<1>1. /\ Peer(p) \in Ends /\ Peer(p) # p
      /\ ent \in [Ends -> EntType] /\ inbox \in [Ends -> Seq(FrameType)]
  BY DEF TypeInv, HandlerTypes, Ends, Peer
<1>2. ent'[p] = e /\ ent'[Peer(p)] = ent[Peer(p)]
  BY <1>1 DEF Done
<1>3. inbox' = [inbox EXCEPT ![p] = rest,
                             ![Peer(p)] = inbox[Peer(p)] \o
                                              IF link THEN out ELSE <<>>]
  BY <1>1 DEF Done, wapi_handle_l2_send
<1>4. QED
  BY <1>1, <1>2, <1>3 DEF Moves

\* A handler that returns.
LEMMA ReturnKeeps ==
    ASSUME TypeInv, NEW p \in Ends, NEW e \in EntType, NEW t,
           NEW rest \in Seq(FrameType),
           Return(p, e, t, rest), Like(e, ent[p]), Rests(p, rest), link' = link
    PROVE  Kept(p)
<1>1. Done(p, e, t, rest, <<>>) /\ UNCHANGED <<mskid, msk>>
  BY DEF Return
<1>2. Moves(p, e, rest, <<>>)
  BY <1>1, DoneMoves
<1>3. QED
  BY <1>1, <1>2 DEF Kept

\* A message of the daemon itself.
LEMMA MlmeTurns ==
    ASSUME TypeInv, NEW p, NEW x, NEW t, NEW rest, Called(p, x, t, rest),
           Like(x, ent[p]), Rests(p, rest), link' = link,
           NEW type \in {"MLME_REQ", "MLME_RESP", "MLME_NOTIFY"},
           Mlme(p, type, x, t, rest)
    PROVE  Turn(p)
<1>1. /\ p \in Ends /\ x \in EntType /\ rest \in Seq(FrameType)
      /\ x.WaiKeyState \in States
  BY DEF Called, EntType
<1>2. /\ x.WaiKeyState = ent[p].WaiKeyState
      /\ x.PortSecured = ent[p].PortSecured
      /\ x.USKID = ent[p].USKID /\ x.PTK = ent[p].PTK
      /\ x.ANONCE = ent[p].ANONCE
  BY DEF Like
<1>3. CASE type \notin WAIKeyStateMachine[x.WaiKeyState]
  <2>1. Return(p, x, t, rest)
    BY <1>3 DEF Mlme
  <2>2. QED
    BY <1>1, <2>1, ReturnKeeps DEF Turn
<1>4. CASE type \in WAIKeyStateMachine[x.WaiKeyState] /\ type = "MLME_REQ"
  <2>1. WaiMlmeUcastKeyReqAction(p, x, t, rest)
    BY <1>4 DEF Mlme
  <2>2. PICK e \in EntType, f \in FrameType :
            /\ Done(p, e, t + 1, rest, <<f>>)
            /\ UNCHANGED <<mskid, key, msk>>
            /\ Requested(x, e, f)
    BY <2>1, MlmeReqDoes
  <2>3. ent[p].WaiKeyState \in
            DoneStates \cup {"UCAST_KEY_IDLE", "WAIT_UCAST_RESP"}
    BY <1>1, <1>2, <1>4 DEF WAIKeyStateMachine, States, DoneStates
  <2>4. Moves(p, e, rest, <<f>>)
    BY <1>1, <2>2, DoneMoves
  <2>5. Requested(ent[p], e, f)
    BY <1>2, <2>2 DEF Requested
  <2>6. Asked(p)
    BY <1>1, <2>2, <2>3, <2>4, <2>5 DEF Asked
  <2>7. QED
    BY <2>6 DEF Turn
<1>5. CASE type \in WAIKeyStateMachine[x.WaiKeyState] /\ type = "MLME_RESP"
  <2>1. WaiMlmeUcastKeyRespAction(p, x, t, rest)
    BY <1>5 DEF Mlme
  <2>2. PICK e \in EntType, f \in FrameType :
            /\ Done(p, e, t + 1, rest, <<f>>)
            /\ UNCHANGED <<mskid, msk>>
            /\ SentResponse(x, e, f)
    BY <2>1, MlmeRespDoes
  <2>3. ent[p].WaiKeyState \in DoneStates \cup {"WAIT_UCAST_CFM"}
    BY <1>1, <1>2, <1>5 DEF WAIKeyStateMachine, States, DoneStates
  <2>4. Moves(p, e, rest, <<f>>)
    BY <1>1, <2>2, DoneMoves
  <2>5. Repeated(p)
    BY <1>1, <2>2, <2>3, <2>4 DEF Repeated
  <2>6. QED
    BY <2>5 DEF Turn
<1>6. CASE type \in WAIKeyStateMachine[x.WaiKeyState] /\ type = "MLME_NOTIFY"
  <2> DEFINE f == [Frame EXCEPT !.type = "NOTIFY", !.mskid = msk[p] % 2,
                                !.uskid = x.USKID, !.msk = msk[p],
                                !.mic = x.PTK]
             r == IF x.WaiKeyState # "WAIT_MCAST_RESP" THEN MCAST_WAIT_RESP_CTR
                                                       ELSE x.retry_cnt
             e == [x EXCEPT !.retry_cnt = r, !.WaiKeyState = "WAIT_MCAST_RESP"]
  <2>1. WaiMlmeMcastKeyNotifyAction(p, x, t, rest)
    BY <1>6 DEF Mlme
  <2>2. /\ Done(p, e, t + 1, rest, <<f>>)
        /\ mskid' = [mskid EXCEPT ![p] = msk[p] % 2]
        /\ UNCHANGED <<key, msk>>
    BY <2>1 DEF WaiMlmeMcastKeyNotifyAction
  <2>3. /\ msk[p] \in Nat /\ r \in 0 .. 255
        /\ x.PTK \in Challenges /\ x.USKID \in 0 .. 1
    BY <1>1 DEF EntType, TypeInv, HandlerTypes, MCAST_WAIT_RESP_CTR
  <2>4. msk[p] % 2 \in 0 .. 1
    BY <2>3
  <2> HIDE DEF r
  <2>5. e \in EntType
    <3>1. x \in EntType /\ r \in 0 .. 255
      BY <1>1, <2>3
    <3>2. QED
      BY <3>1 DEF EntType, States
  <2>6. f \in FrameType
    BY <2>3, <2>4, FrameFields DEF FrameType, PeerTypes
  <2>7. Notified(ent[p], e, f)
    <3>1. /\ e.WaiKeyState = "WAIT_MCAST_RESP" /\ e.PortSecured = x.PortSecured
          /\ e.USKID = x.USKID /\ e.ANONCE = x.ANONCE /\ e.PTK = x.PTK
      BY <1>1 DEF EntType
    <3>2. f.type = "NOTIFY"
      BY FrameFields DEF FrameType
    <3>3. QED
      BY <1>2, <3>1, <3>2 DEF Notified
  <2>8. f.mic = ent[p].PTK /\ f.msk = msk[p] /\ f.mskid = msk[p] % 2
    BY <1>2, FrameFields DEF FrameType
  <2> HIDE DEF e, f
  <2>9. ent[p].WaiKeyState \in DoneStates \cup {"WAIT_MCAST_RESP"}
    BY <1>1, <1>2, <1>6 DEF WAIKeyStateMachine, States, DoneStates
  <2>10. Moves(p, e, rest, <<f>>)
    BY <1>1, <2>2, DoneMoves
  <2>11. Announced(p)
    BY <1>1, <2>2, <2>5, <2>6, <2>7, <2>8, <2>9, <2>10 DEF Announced
  <2>12. QED
    BY <2>11 DEF Turn
<1>7. QED
  BY <1>3, <1>4, <1>5, <1>6

\* A frame of the peer.
LEMMA PeerTurns ==
    ASSUME TypeInv, NEW p \in Ends, inbox[p] # <<>>, link' = link,
           \/ PeerUcastKeyReq(p) \/ PeerUcastKeyResp(p) \/ PeerUcastKeyCfm(p)
           \/ PeerMcastKeyNotify(p) \/ PeerMcastKeyResp(p) \/ Drop(p)
    PROVE  Turn(p)
<1> DEFINE x == Entry(p)
           t == timer[p]
           rest == Tail(inbox[p])
           m == Head(inbox[p])
<1>1. Called(p, x, t, rest) /\ m \in FrameType
  BY ReceiveCalls
<1>2. x \in EntType /\ t \in Nat /\ rest \in Seq(FrameType)
  BY <1>1 DEF Called
<1>3. Like(x, ent[p])
  BY CountedLike
<1> HIDE DEF x, t, rest, m
<1>4. /\ x.WaiKeyState = ent[p].WaiKeyState /\ x.WaiKeyState \in States
      /\ x.PortSecured = ent[p].PortSecured
      /\ x.USKID = ent[p].USKID /\ x.PTK = ent[p].PTK
      /\ x.ANONCE = ent[p].ANONCE /\ x.SNONCE = ent[p].SNONCE
  BY <1>2, <1>3 DEF Like, EntType
<1>5. /\ Taking(p) <=>
             \/ /\ m.type = "NOTIFY" /\ x.WaiKeyState \in DoneStates
                /\ m.mic = x.PTK
             \/ x.WaiKeyState = "WAIT_UCAST_CFM" /\ Confirms(x, m)
      /\ ~Taking(p) => Rests(p, rest)
  BY <1>4 DEF Taking, Rests, Confirms, m, rest
<1>6. ASSUME NEW e, NEW n, NEW out, Done(p, e, n, rest, out), m.type \in
             PeerTypes
      PROVE  Reads(p, m, m.type, e, out)
  BY <1>6, DoneMoves DEF Reads, m, rest
<1>7. ASSUME ~Taking(p), Return(p, x, t, rest) PROVE Turn(p)
  BY <1>2, <1>3, <1>5, <1>7, ReturnKeeps DEF Turn
<1>8. CASE PeerUcastKeyReq(p)
  <2>1. /\ m.type = "REQ" /\ "REQ" \in WAIKeyStateMachine[x.WaiKeyState]
        /\ WaiPeerUcastKeyReqAction(p, x, t, rest, m)
    BY <1>8 DEF PeerUcastKeyReq, Taken, Receive, m, x, t, rest
  <2>2. x.WaiKeyState \in DoneStates \cup {"UCAST_KEY_IDLE"}
    BY <1>4, <2>1 DEF WAIKeyStateMachine, States, DoneStates
  <2>3. ASSUME NEW new \in EntType, NEW f \in FrameType,
               Done(p, new, 1, rest, <<f>>), UNCHANGED <<mskid, msk>>,
               Responded(x, m, new, f)
        PROVE  Turn(p)
    <3>1. Reads(p, m, "REQ", new, <<f>>)
      BY <1>6, <2>1, <2>3 DEF PeerTypes
    <3>2. Responded(ent[p], m, new, f)
      BY <1>4, <2>3 DEF Responded
    <3>3. Answered(p)
      BY <1>1, <1>4, <2>2, <2>3, <3>1, <3>2 DEF Answered
    <3>4. QED
      BY <3>3 DEF Turn
  <2>4. ~Taking(p)
    BY <1>5, <2>1 DEF Confirms
  <2>5. QED
    BY <1>1, <1>7, <2>1, <2>3, <2>4, PeerReqDoes
<1>9. CASE PeerUcastKeyResp(p)
  <2>1. /\ m.type = "RESP" /\ "RESP" \in WAIKeyStateMachine[x.WaiKeyState]
        /\ WaiPeerUcastKeyRespAction(p, x, t, rest, m)
    BY <1>9 DEF PeerUcastKeyResp, Taken, Receive, m, x, t, rest
  <2>2. x.WaiKeyState \in DoneStates \cup {"WAIT_UCAST_RESP"}
    BY <1>4, <2>1 DEF WAIKeyStateMachine, States, DoneStates
  <2>3. ASSUME NEW new \in EntType, Return(p, new, t, rest), Refused(x, m, new)
        PROVE  Turn(p)
    <3>1. Done(p, new, t, rest, <<>>) /\ UNCHANGED <<mskid, msk>>
      BY <2>3 DEF Return
    <3>2. Reads(p, m, "RESP", new, <<>>)
      BY <1>6, <2>1, <3>1 DEF PeerTypes
    <3>3. Rejected(p)
      BY <1>1, <1>4, <2>2, <2>3, <3>1, <3>2 DEF Rejected, Refused
    <3>4. QED
      BY <3>3 DEF Turn
  <2>4. ASSUME NEW new \in EntType, NEW f \in FrameType, NEW n \in 0 .. 1,
               Done(p, new, n, rest, <<f>>), UNCHANGED <<mskid, msk>>,
               Accepted(x, m, new, f)
        PROVE  Turn(p)
    <3>1. Reads(p, m, "RESP", new, <<f>>)
      BY <1>6, <2>1, <2>4 DEF PeerTypes
    <3>2. Accepted(ent[p], m, new, f)
      BY <1>4, <2>4 DEF Accepted
    <3>3. Admitted(p)
      BY <1>1, <1>4, <2>2, <2>4, <3>1, <3>2 DEF Admitted
    <3>4. QED
      BY <3>3 DEF Turn
  <2>5. QED
    BY <1>1, <2>1, <2>3, <2>4, PeerRespDoes
<1>10. CASE PeerUcastKeyCfm(p)
  <2>1. /\ m.type = "CFM" /\ "CFM" \in WAIKeyStateMachine[x.WaiKeyState]
        /\ WaiPeerUcastKeyCfmAction(p, x, t, rest, m)
    BY <1>10 DEF PeerUcastKeyCfm, Taken, Receive, m, x, t, rest
  <2>2. x.WaiKeyState = "WAIT_UCAST_CFM"
    BY <1>4, <2>1 DEF WAIKeyStateMachine, States
  <2>3. CASE Taking(p)
    <3>1. m.sn = x.SNONCE /\ m.mic = x.PTK
      BY <1>5, <2>1, <2>3 DEF Confirms
    <3> DEFINE new == [x EXCEPT !.WaiKeyState = "UCAST_KEY_DONE"]
    <3>2. Done(p, new, 0, rest, <<>>) /\ UNCHANGED <<mskid, key, msk>>
      BY <2>1, <3>1 DEF WaiPeerUcastKeyCfmAction, ValidMic
    <3>3. new \in EntType /\ Settled(x, "UCAST_KEY_DONE", x.PortSecured, new)
      <4>1. new \in EntType
        BY <1>2 DEF EntType, States
      <4>2. Settled(x, "UCAST_KEY_DONE", x.PortSecured, new)
        BY <1>2 DEF EntType, Settled
      <4>3. QED
        BY <4>1, <4>2
    <3> HIDE DEF new
    <3>4. Reads(p, m, "CFM", new, <<>>)
      BY <1>6, <2>1, <3>2 DEF PeerTypes
    <3>5. /\ Settled(ent[p], "UCAST_KEY_DONE", ent[p].PortSecured, new)
          /\ Confirms(ent[p], m)
      <4>1. new.retry_cnt = x.retry_cnt /\ x.retry_cnt = ent[p].retry_cnt
        BY <3>3, CountedLike DEF Settled, x
      <4>2. QED
        BY <1>4, <2>1, <3>1, <3>3, <4>1 DEF Settled, Confirms
    <3>6. Confirmed(p)
      BY <1>1, <1>4, <2>2, <3>2, <3>3, <3>4, <3>5 DEF Confirmed
    <3>7. QED
      BY <3>6 DEF Turn
  <2>4. CASE ~Taking(p)
    <3>1. m.sn # x.SNONCE \/ m.mic # x.PTK
      BY <1>5, <2>1, <2>2, <2>4 DEF Confirms
    <3>2. Return(p, x, t, rest)
      BY <2>1, <3>1 DEF WaiPeerUcastKeyCfmAction, ValidMic
    <3>3. QED
      BY <1>7, <2>4, <3>2
  <2>5. QED
    BY <2>3, <2>4
<1>11. CASE PeerMcastKeyNotify(p)
  <2>1. /\ m.type = "NOTIFY" /\ "NOTIFY" \in WAIKeyStateMachine[x.WaiKeyState]
        /\ WaiPeerMcastKeyNotifyAction(p, x, t, rest, m)
    BY <1>11 DEF PeerMcastKeyNotify, Taken, Receive, m, x, t, rest
  <2>2. x.WaiKeyState \in DoneStates
    BY <1>4, <2>1 DEF WAIKeyStateMachine, States, DoneStates
  <2>3. CASE Taking(p)
    <3>1. m.mic = x.PTK
      BY <1>5, <2>2, <2>3 DEF DoneStates
    <3> DEFINE new == [x EXCEPT !.WaiKeyState = "MCAST_KEY_DONE",
                                !.PortSecured = TRUE]
               f == [Frame EXCEPT !.type = "MCAST_RESP", !.mskid = m.mskid,
                                  !.uskid = m.uskid, !.mic = x.PTK]
    <3>2. /\ mskid' = [mskid EXCEPT ![p] = m.mskid]
          /\ msk' = [msk EXCEPT ![p] = m.msk]
          /\ Done(p, new, t, rest, <<f>>)
      BY <2>1, <3>1 DEF WaiPeerMcastKeyNotifyAction, ValidMic
    <3>3. new \in EntType /\ Settled(x, "MCAST_KEY_DONE", TRUE, new)
      BY <1>2 DEF EntType, States, Settled
    <3>4. f \in FrameType /\ f.type = "MCAST_RESP" /\ f.mskid = m.mskid
      <4>1. x.PTK \in Challenges /\ m.mskid \in 0 .. 1 /\ m.uskid \in 0 .. 1
        BY <1>1, <1>2 DEF EntType, FrameType
      <4>2. QED
        BY <4>1, FrameFields DEF FrameType, PeerTypes
    <3> HIDE DEF new, f
    <3>5. Reads(p, m, "NOTIFY", new, <<f>>)
      BY <1>6, <2>1, <3>2 DEF PeerTypes
    <3>6. Settled(ent[p], "MCAST_KEY_DONE", TRUE, new)
      <4>1. new.retry_cnt = x.retry_cnt /\ x.retry_cnt = ent[p].retry_cnt
        BY <3>3, CountedLike DEF Settled, x
      <4>2. QED
        BY <1>4, <3>3, <4>1 DEF Settled
    <3>7. Told(p)
      BY <1>1, <1>4, <2>2, <3>1, <3>2, <3>3, <3>4, <3>5, <3>6 DEF Told
    <3>8. QED
      BY <3>7 DEF Turn
  <2>4. CASE ~Taking(p)
    <3>1. m.mic # x.PTK
      BY <1>5, <2>1, <2>2, <2>4
    <3>2. Return(p, x, t, rest)
      BY <2>1, <3>1 DEF WaiPeerMcastKeyNotifyAction, ValidMic
    <3>3. QED
      BY <1>7, <2>4, <3>2
  <2>5. QED
    BY <2>3, <2>4
<1>12. CASE PeerMcastKeyResp(p)
  <2>1. /\ m.type = "MCAST_RESP"
        /\ "MCAST_RESP" \in WAIKeyStateMachine[x.WaiKeyState]
        /\ WaiPeerMcastKeyRespAction(p, x, t, rest, m)
    BY <1>12 DEF PeerMcastKeyResp, Taken, Receive, m, x, t, rest
  <2>2. x.WaiKeyState = "WAIT_MCAST_RESP"
    BY <1>4, <2>1 DEF WAIKeyStateMachine, States
  <2>3. ~Taking(p)
    BY <1>5, <2>1 DEF Confirms
  <2>4. CASE ValidMic(m, x.PTK) /\ SameKeys(p, x, m)
    <3> DEFINE new == [x EXCEPT !.WaiKeyState = "MCAST_KEY_DONE",
                                !.PortSecured = TRUE]
    <3>1. Done(p, new, 0, rest, <<>>) /\ UNCHANGED <<mskid, key, msk>>
      BY <2>1, <2>4 DEF WaiPeerMcastKeyRespAction
    <3>2. new \in EntType /\ Settled(x, "MCAST_KEY_DONE", TRUE, new)
      BY <1>2 DEF EntType, States, Settled
    <3> HIDE DEF new
    <3>3. Reads(p, m, "MCAST_RESP", new, <<>>)
      BY <1>6, <2>1, <3>1 DEF PeerTypes
    <3>4. Settled(ent[p], "MCAST_KEY_DONE", TRUE, new)
      <4>1. new.retry_cnt = x.retry_cnt /\ x.retry_cnt = ent[p].retry_cnt
        BY <3>2, CountedLike DEF Settled, x
      <4>2. QED
        BY <1>4, <3>2, <4>1 DEF Settled
    <3>5. m.mskid = mskid[p]
      BY <2>4 DEF SameKeys
    <3>6. Closed(p)
      BY <1>1, <1>4, <2>2, <3>1, <3>2, <3>3, <3>4, <3>5 DEF Closed
    <3>7. QED
      BY <3>6 DEF Turn
  <2>5. CASE ~(ValidMic(m, x.PTK) /\ SameKeys(p, x, m))
    <3>1. Return(p, x, t, rest)
      BY <2>1, <2>5 DEF WaiPeerMcastKeyRespAction
    <3>2. QED
      BY <1>7, <2>3, <3>1
  <2>6. QED
    BY <2>4, <2>5
<1>13. CASE Drop(p)
  <2>1. /\ m.type \notin WAIKeyStateMachine[x.WaiKeyState]
        /\ Return(p, x, t, rest)
    BY <1>13 DEF Drop, Receive, m, x, t, rest
  <2>2. ~Taking(p)
    <3>1. x.WaiKeyState \in DoneStates
              => "NOTIFY" \in WAIKeyStateMachine[x.WaiKeyState]
      BY DEF WAIKeyStateMachine, DoneStates
    <3>2. x.WaiKeyState = "WAIT_UCAST_CFM"
              => "CFM" \in WAIKeyStateMachine[x.WaiKeyState]
      BY DEF WAIKeyStateMachine
    <3>3. QED
      BY <1>5, <2>1, <3>1, <3>2 DEF Confirms
  <2>3. QED
    BY <1>7, <2>1, <2>2
<1>14. QED
  BY <1>8, <1>9, <1>10, <1>11, <1>12, <1>13

\* The steps that Turn leaves out are none.
LEMMA CallbackTurns ==
    ASSUME TypeInv, NEW p \in Ends, Callback(p)
    PROVE  Turn(p)
<1> DEFINE q == inbox[p]
           n == timer[p]
<1>1. q \in Seq(FrameType) /\ n \in Nat /\ ent \in [Ends -> EntType]
  BY DEF TypeInv, HandlerTypes
<1>2. CASE Socket(p)
  <2> DEFINE x == Entry(p)
             r == Tail(q)
             m == Head(q)
             zero == [x EXCEPT !.retry_cnt = UCAST_IDLE_CTR]
             done == [x EXCEPT !.retry_cnt = UCAST_DONE_CTR]
  <2>1. q # <<>>
    BY <1>2, SocketReads
  <2>2. Called(p, x, n, r) /\ r \in Seq(FrameType)
    BY <2>1, ReceiveCalls DEF Called
  <2>3. x \in EntType /\ Like(x, ent[p])
    BY CountedLike, Zenon
  <2>4. /\ zero \in EntType /\ Like(zero, ent[p])
        /\ done \in EntType /\ Like(done, ent[p])
    <3>1. UCAST_IDLE_CTR \in 0 .. 255 /\ UCAST_DONE_CTR \in 0 .. 255
      BY Ranges
    <3>2. QED
      BY <3>1, CountedLike, Zenon
  <2> HIDE DEF x
  <2>5. Called(p, zero, n, r) /\ Called(p, done, n, r)
    BY <2>2, <2>4 DEF Called
  <2>6. m.type \in {"KEY_HS_START", "UPDATE_USK", "UPDATE_MSK"} => Rests(p, r)
    BY <2>1 DEF Rests, Taking, Confirms
  <2> HIDE DEF zero, done
  <2>7. CASE \/ PeerUcastKeyReq(p) \/ PeerUcastKeyResp(p) \/ PeerUcastKeyCfm(p)
             \/ PeerMcastKeyNotify(p) \/ PeerMcastKeyResp(p) \/ Drop(p)
    <3>1. CASE Drop(p)
      BY <2>1, <3>1, PeerTurns DEF Drop, Receive
    <3>2. CASE ~Drop(p)
      <4>1. \E type : Taken(p, type)
        BY <2>7, <3>2 DEF PeerUcastKeyReq, PeerUcastKeyResp, PeerUcastKeyCfm,
             PeerMcastKeyNotify, PeerMcastKeyResp
      <4>2. link' = link
        BY <4>1 DEF Taken, Receive
      <4>3. QED
        BY <2>1, <2>7, <4>2, PeerTurns
    <3>3. QED
      BY <3>1, <3>2
  <2>8. CASE KeyHsStart(p)
    <3>1. /\ m.type = "KEY_HS_START" /\ link' = link
          /\ Return(p, zero, n, r)
      BY <2>8 DEF KeyHsStart, Receive, zero, x
    <3>2. QED
      BY <2>2, <2>4, <2>6, <3>1, ReturnKeeps DEF Turn
  <2>9. CASE UpdateUsk(p)
    <3>1. /\ m.type = "UPDATE_USK" /\ link' = link
          /\ \/ Mlme(p, "MLME_REQ", zero, n, r)
             \/ Mlme(p, "MLME_RESP", zero, n, r)
             \/ Return(p, x, n, r)
      BY <2>9 DEF UpdateUsk, Receive, zero, x
    <3>2. Rests(p, r)
      BY <2>6, <3>1
    <3>3. CASE Return(p, x, n, r)
      BY <2>2, <2>3, <3>1, <3>2, <3>3, ReturnKeeps DEF Turn
    <3>4. QED
      BY <2>4, <2>5, <3>1, <3>2, <3>3, MlmeTurns
  <2>10. CASE UpdateMsk(p)
    <3>1. /\ m.type = "UPDATE_MSK" /\ link' = link
          /\ \/ Mlme(p, "MLME_NOTIFY", done, n, r)
             \/ Return(p, x, n, r)
      BY <2>10 DEF UpdateMsk, Receive, done, x
    <3>2. Rests(p, r)
      BY <2>6, <3>1
    <3>3. CASE Return(p, x, n, r)
      BY <2>2, <2>3, <3>1, <3>2, <3>3, ReturnKeeps DEF Turn
    <3>4. QED
      BY <2>4, <2>5, <3>1, <3>2, <3>3, MlmeTurns
  <2>11. CASE StaTableDeleteEntry(p)
    <3>1. /\ m.type = "DELETE" /\ link' = link
          /\ Done(p, Free, n, r, <<>>) /\ UNCHANGED <<mskid, msk>>
      BY <2>11 DEF StaTableDeleteEntry, Receive, Return
    <3>2. Reads(p, m, "DELETE", Free, <<>>)
      BY <2>1, <3>1, DoneMoves DEF Reads
    <3>3. QED
      BY <3>1, <3>2 DEF Deleted, Turn
  <2>12. QED
    BY <1>2, <2>7, <2>8, <2>9, <2>10, <2>11 DEF Socket
<1>3. Rests(p, q)
  BY DEF Rests
<1>4. CASE WaiKeyHSTimerProc(p)
  <2> DEFINE r == (ent[p].retry_cnt + 1) % 256
             x == [ent[p] EXCEPT !.retry_cnt = r]
             todo == Resend(x.retry_cnt)
             left == n - 1
  <2>1. left \in Nat
    BY <1>1, <1>4 DEF WaiKeyHSTimerProc
  <2>2. r \in 0 .. 255
    <3>1. ent[p].retry_cnt \in 0 .. 255
      BY <1>1 DEF EntType
    <3>2. QED
      BY <3>1, NextCount
  <2> HIDE DEF r
  <2>3. /\ x \in EntType /\ Like(x, ent[p])
        /\ ent[p] \in EntType /\ Like(ent[p], ent[p])
    BY <2>2, CountedLike, Zenon
  <2>4. todo \in
       {"MLME_REQ", "MLME_RESP", "MLME_NOTIFY", "NOTHING", "DISCONNECT"}
    BY DEF Resend
  <2>5. \/ Return(p, ent[p], left, q) /\ link' = link
        \/ Return(p, x, left, q) /\ link' = link
        \/ /\ ent' = [ent EXCEPT ![p] = x] /\ DisconnectStaLink(p)
           /\ UNCHANGED <<mskid, msk>>
        \/ /\ todo \notin {"NOTHING", "DISCONNECT"} /\ link' = link
           /\ Mlme(p, todo, x, left, q)
    BY <1>4, Zenon DEF WaiKeyHSTimerProc, r
  <2> HIDE DEF x, todo, left
  <2>6. CASE /\ ent' = [ent EXCEPT ![p] = x] /\ DisconnectStaLink(p)
             /\ UNCHANGED <<mskid, msk>>
    <3>1. ent'[p] = x /\ ent'[Peer(p)] = ent[Peer(p)]
      BY <1>1, <2>6 DEF Ends, Peer
    <3>2. QED
      BY <2>3, <2>6, <3>1 DEF Cut, Turn
  <2>7. CASE /\ todo \notin {"NOTHING", "DISCONNECT"} /\ link' = link
             /\ Mlme(p, todo, x, left, q)
    <3>1. Called(p, x, left, q)
      BY <1>1, <2>1, <2>3 DEF Called
    <3>2. QED
      BY <1>3, <2>3, <2>4, <2>7, <3>1, MlmeTurns
  <2>8. QED
    BY <1>1, <1>3, <2>3, <2>5, <2>6, <2>7, ReturnKeeps DEF Turn
<1>5. CASE wapi_trigger_timer_handler(p)
  <2> DEFINE x == [ent[p] EXCEPT !.retry_cnt = UCAST_IDLE_CTR]
  <2>1. /\ x \in EntType /\ Like(x, ent[p])
        /\ ent[p] \in EntType /\ Like(ent[p], ent[p])
    <3>1. UCAST_IDLE_CTR \in 0 .. 255
      BY Ranges
    <3>2. QED
      BY <3>1, CountedLike, Zenon
  <2>2. /\ link' = link
        /\ Mlme(p, "MLME_REQ", x, n, q) \/ Return(p, ent[p], n, q)
    BY <1>5 DEF wapi_trigger_timer_handler
  <2> HIDE DEF x
  <2>3. Called(p, x, n, q)
    BY <1>1, <2>1 DEF Called
  <2>4. CASE Return(p, ent[p], n, q)
    BY <1>1, <1>3, <2>1, <2>2, <2>4, ReturnKeeps DEF Turn
  <2>5. QED
    BY <1>3, <2>1, <2>2, <2>3, <2>4, MlmeTurns
<1>6. QED
  BY <1>2, <1>4, <1>5 DEF Callback

-----------------------------------------------------------------------------
(* The multicast keys.  As long as nothing is lost, the relation between the *)
(* entry a of the AE and s of the ASUE, the inboxes ia and is and the key    *)
(* indices ma and ms tells where the last notify is.                         *)

None(q, type) == \A m \in ToSet(q) : m.type # type

\* From place k of the socket on, a notify comes under the key of s and before
\* any request, and a has sent no other.
Follows(a, s, q, k) ==
    /\ \A i \in DOMAIN q : q[i].type = "NOTIFY" =>
          /\ i > k /\ q[i].mic = s.PTK
          /\ \A j \in k + 1 .. i - 1 : q[j].type # "REQ"
    /\ (\E i \in DOMAIN q : i > k /\ q[i].type = "REQ")
          => a.WaiKeyState = "WAIT_UCAST_RESP"
    /\ a.WaiKeyState \in DoneStates \cup {"WAIT_MCAST_RESP"} => a.PTK = s.PTK

\* The ASUE has not been asked yet,
Unasked(a, s, ia, is) ==
    /\ s.WaiKeyState = "UCAST_KEY_IDLE"
    /\ None(is, "NOTIFY") /\ None(ia, "RESP")
    /\ a.WaiKeyState \in {"UCAST_KEY_IDLE", "WAIT_UCAST_RESP"}
    /\ ~a.PortSecured
    /\ ~None(is, "REQ") => a.WaiKeyState = "WAIT_UCAST_RESP"

\* has responded,
Responding(a, s, ia, is) ==
    /\ s.WaiKeyState = "WAIT_UCAST_CFM"
    /\ a.WaiKeyState = "WAIT_UCAST_RESP"
    /\ \A m \in ToSet(ia) : m.type = "RESP" => Good(m) /\ m.sn = s.SNONCE
    /\ None(is, "NOTIFY")
    /\ \A c \in ToSet(is) : ~Confirms(s, c)

\* finds the confirmation at place k of its socket,
Confirming(a, s, ia, is) ==
    /\ s.WaiKeyState = "WAIT_UCAST_CFM"
    /\ None(ia, "RESP")
    /\ \E k \in DOMAIN is :
          /\ Confirms(s, is[k])
          /\ \A i \in 1 .. k - 1 : ~Confirms(s, is[i])
          /\ Follows(a, s, is, k)

\* is done,
Level(a, s, ia, is) ==
    /\ s.WaiKeyState \in DoneStates
    /\ None(ia, "RESP")
    /\ Follows(a, s, is, 0)

\* or waits for a confirmation that nobody sends.
Stuck(s, ia, is) ==
    /\ s.WaiKeyState = "WAIT_UCAST_CFM"
    /\ \A m \in ToSet(ia) : Good(m) => m.sn # s.SNONCE
    /\ \A c \in ToSet(is) : ~Confirms(s, c)

\* The ASUE has the last key or finds it in its socket.
Latest(is, ms, ma) ==
    \/ None(is, "NOTIFY") /\ ms = ma
    \/ \E i \in DOMAIN is :
          /\ is[i].type = "NOTIFY" /\ is[i].mskid = ma
          /\ \A j \in i + 1 .. Len(is) : is[j].type # "NOTIFY"

Group(a, s, ia, is, ma, ms) ==
    \/ Stuck(s, ia, is)
    \/ /\ \/ Unasked(a, s, ia, is)
          \/ Responding(a, s, ia, is)
          \/ Confirming(a, s, ia, is)
          \/ Level(a, s, ia, is)
       /\ a.PortSecured \/ a.WaiKeyState = "WAIT_MCAST_RESP"
             => Latest(is, ms, ma)

\* The places of a socket without its head,
LEMMA TailPlaces ==
    ASSUME NEW q \in Seq(FrameType), q # <<>>
    PROVE  /\ Tail(q) \in Seq(FrameType) /\ Len(q) \in Nat /\ Len(q) > 0
           /\ Len(Tail(q)) = Len(q) - 1
           /\ DOMAIN q = 1 .. Len(q) /\ DOMAIN Tail(q) = 1 .. Len(q) - 1
           /\ \A i \in 1 .. Len(q) - 1 : Tail(q)[i] = q[i + 1]
           /\ Head(q) = q[1]
           /\ ToSet(q) = {q[i] : i \in 1 .. Len(q)}
           /\ ToSet(Tail(q)) = {Tail(q)[i] : i \in 1 .. Len(q) - 1}
<1>1. /\ Tail(q) \in Seq(FrameType) /\ Len(Tail(q)) = Len(q) - 1
      /\ \A i \in 1 .. Len(q) - 1 : Tail(q)[i] = q[i + 1]
      /\ Head(q) = q[1] /\ Len(q) \in Nat /\ Len(q) > 0
  OBVIOUS
<1>2. DOMAIN q = 1 .. Len(q) /\ DOMAIN Tail(q) = 1 .. Len(q) - 1
  BY <1>1, ToSetRange
<1>3. QED
  BY <1>1, <1>2, ToSetRange

\* and with one frame more.
LEMMA MorePlaces ==
    ASSUME NEW q \in Seq(FrameType), NEW x \in FrameType
    PROVE  /\ q \o <<x>> \in Seq(FrameType) /\ Len(q) \in Nat
           /\ Len(q \o <<x>>) = Len(q) + 1
           /\ DOMAIN q = 1 .. Len(q) /\ DOMAIN (q \o <<x>>) = 1 .. Len(q) + 1
           /\ \A i \in 1 .. Len(q) : (q \o <<x>>)[i] = q[i]
           /\ (q \o <<x>>)[Len(q) + 1] = x
           /\ ToSet(q) = {q[i] : i \in 1 .. Len(q)}
           /\ ToSet(q \o <<x>>) = ToSet(q) \cup {x}
<1> DEFINE r == q \o <<x>>
<1>1. /\ r \in Seq(FrameType) /\ Len(r) = Len(q) + 1 /\ Len(q) \in Nat
      /\ \A i \in 1 .. Len(q) : r[i] = q[i]
      /\ r[Len(q) + 1] = x
  OBVIOUS
<1>2. DOMAIN q = 1 .. Len(q) /\ DOMAIN r = 1 .. Len(q) + 1
  BY <1>1, ToSetRange
<1>3. ToSet(q) = {q[i] : i \in 1 .. Len(q)} /\ ToSet(r) = ToSet(q) \cup {x}
  BY <1>2, ToSetRange, FrameComes
<1>4. QED
  BY <1>1, <1>2, <1>3

\* The head goes: the places move up.
LEMMA FollowsTail ==
    ASSUME NEW q \in Seq(FrameType), q # <<>>, NEW a, NEW s, NEW k \in Nat,
           NEW l \in Nat, l = k - 1 \/ (k = 0 /\ l = 0), Follows(a, s, q, k)
    PROVE  Follows(a, s, Tail(q), l)
<1> DEFINE r == Tail(q)
           n == Len(q) - 1
<1>1. /\ DOMAIN q = 1 .. n + 1 /\ DOMAIN r = 1 .. n /\ n \in Nat
      /\ \A i \in 1 .. n : r[i] = q[i + 1]
  BY TailPlaces
<1> HIDE DEF r, n
<1>2. ASSUME NEW i \in 1 .. n, r[i].type = "NOTIFY"
      PROVE  /\ i > l /\ r[i].mic = s.PTK
             /\ \A j \in l + 1 .. i - 1 : r[j].type # "REQ"
  <2>1. i + 1 \in 1 .. n + 1 /\ r[i] = q[i + 1]
    BY <1>1
  <2>2. /\ i + 1 > k /\ q[i + 1].mic = s.PTK
        /\ \A j \in k + 1 .. i : q[j].type # "REQ"
    <3>1. \A j \in k + 1 .. (i + 1) - 1 : q[j].type # "REQ"
      BY <1>1, <1>2, <2>1 DEF Follows
    <3>2. (i + 1) - 1 = i
      OBVIOUS
    <3>3. QED
      BY <1>1, <1>2, <2>1, <3>1, <3>2 DEF Follows
  <2>3. ASSUME NEW j \in l + 1 .. i - 1 PROVE r[j].type # "REQ"
    <3>1. j \in 1 .. n /\ j + 1 \in k + 1 .. i
      BY <1>1
    <3>2. QED
      BY <1>1, <2>2, <3>1
  <2>4. QED
    BY <2>1, <2>2, <2>3
<1>3. ASSUME NEW i \in 1 .. n, i > l, r[i].type = "REQ"
      PROVE  a.WaiKeyState = "WAIT_UCAST_RESP"
  <2>1. i + 1 \in 1 .. n + 1 /\ i + 1 > k /\ q[i + 1].type = "REQ"
    BY <1>1, <1>3
  <2>2. QED
    BY <1>1, <2>1 DEF Follows
<1>4. QED
  BY <1>1, <1>2, <1>3 DEF Follows, r

\* A frame of the AE comes, which becomes b.
LEMMA FollowsMore ==
    ASSUME NEW q \in Seq(FrameType), NEW a, NEW s, NEW k \in 0 .. Len(q),
           Follows(a, s, q, k), NEW x \in FrameType, NEW b,
           x.type = "NOTIFY"
               => x.mic = s.PTK /\ a.WaiKeyState # "WAIT_UCAST_RESP",
           x.type = "REQ" \/ a.WaiKeyState = "WAIT_UCAST_RESP"
               => b.WaiKeyState = "WAIT_UCAST_RESP",
           b.WaiKeyState \in DoneStates \cup {"WAIT_MCAST_RESP"}
               => b.PTK = s.PTK
    PROVE  Follows(b, s, q \o <<x>>, k)
<1> DEFINE r == q \o <<x>>
           n == Len(q)
<1>1. /\ DOMAIN q = 1 .. n /\ DOMAIN r = 1 .. n + 1 /\ n \in Nat
      /\ \A i \in 1 .. n : r[i] = q[i]
      /\ r[n + 1] = x /\ k \in 0 .. n
  BY MorePlaces
<1> HIDE DEF r, n
<1>2. \A i \in 1 .. n + 1 : i \in 1 .. n \/ i = n + 1
  BY <1>1
<1>3. ASSUME NEW i \in 1 .. n + 1, r[i].type = "NOTIFY"
      PROVE  /\ i > k /\ r[i].mic = s.PTK
             /\ \A j \in k + 1 .. i - 1 : r[j].type # "REQ"
  <2>1. \A j \in k + 1 .. i - 1 : j \in 1 .. n
    BY <1>1
  <2>2. CASE i \in 1 .. n
    <3>1. /\ i > k /\ q[i].mic = s.PTK
          /\ \A j \in k + 1 .. i - 1 : q[j].type # "REQ"
      BY <1>1, <1>3, <2>2 DEF Follows
    <3>2. QED
      BY <1>1, <2>1, <2>2, <3>1
  <2>3. CASE i = n + 1
    <3>1. x.mic = s.PTK /\ a.WaiKeyState # "WAIT_UCAST_RESP" /\ i > k
      BY <1>1, <1>3, <2>3
    <3>2. ASSUME NEW j \in k + 1 .. i - 1 PROVE r[j].type # "REQ"
      <4>1. j \in 1 .. n /\ j > k
        BY <1>1, <2>1
      <4>2. q[j].type # "REQ"
        BY <1>1, <3>1, <4>1 DEF Follows
      <4>3. QED
        BY <1>1, <4>1, <4>2
    <3>3. QED
      BY <1>1, <2>3, <3>1, <3>2
  <2>4. QED
    BY <1>2, <2>2, <2>3
<1>4. ASSUME NEW i \in 1 .. n + 1, i > k, r[i].type = "REQ"
      PROVE  b.WaiKeyState = "WAIT_UCAST_RESP"
  <2>1. CASE i \in 1 .. n
    BY <1>1, <1>4, <2>1 DEF Follows
  <2>2. CASE i = n + 1
    BY <1>1, <1>4, <2>2
  <2>3. QED
    BY <1>2, <2>1, <2>2
<1>5. QED
  BY <1>1, <1>3, <1>4 DEF Follows, r

\* The head goes, and may be the notify that has the last key.
LEMMA LatestTail ==
    ASSUME NEW q \in Seq(FrameType), q # <<>>, NEW ms, NEW ma,
           Latest(q, ms, ma), NEW ns,
           ns = IF Head(q).type = "NOTIFY" THEN Head(q).mskid ELSE ms
    PROVE  Latest(Tail(q), ns, ma)
<1> DEFINE r == Tail(q)
           n == Len(q) - 1
<1>1. /\ DOMAIN q = 1 .. n + 1 /\ DOMAIN r = 1 .. n /\ n \in Nat
      /\ Len(q) = n + 1 /\ Len(r) = n /\ Head(q) = q[1]
      /\ \A i \in 1 .. n : r[i] = q[i + 1]
      /\ ToSet(q) = {q[i] : i \in 1 .. n + 1}
      /\ ToSet(r) = {r[i] : i \in 1 .. n}
  BY TailPlaces
<1> HIDE DEF r, n
<1>2. CASE None(q, "NOTIFY") /\ ms = ma
  <2>1. q[1].type # "NOTIFY"
    BY <1>1, <1>2 DEF None
  <2>2. ASSUME NEW i \in 1 .. n PROVE r[i].type # "NOTIFY"
    <3>1. i + 1 \in 1 .. n + 1
      BY <1>1
    <3>2. QED
      BY <1>1, <1>2, <3>1 DEF None
  <2>3. None(r, "NOTIFY")
    BY <1>1, <2>2 DEF None
  <2>4. QED
    BY <1>1, <1>2, <2>1, <2>3 DEF Latest, r
<1>3. ASSUME NEW i \in 1 .. n + 1, q[i].type = "NOTIFY", q[i].mskid = ma,
             \A j \in i + 1 .. n + 1 : q[j].type # "NOTIFY"
      PROVE  Latest(r, ns, ma)
  <2>1. CASE i = 1
    <3>1. ASSUME NEW j \in 1 .. n PROVE r[j].type # "NOTIFY"
      <4>1. j + 1 \in i + 1 .. n + 1
        BY <1>1, <2>1
      <4>2. QED
        BY <1>1, <1>3, <4>1
    <3>2. None(r, "NOTIFY")
      BY <1>1, <3>1 DEF None
    <3>3. ns = ma
      BY <1>1, <1>3, <2>1
    <3>4. QED
      BY <3>2, <3>3 DEF Latest
  <2>2. CASE i # 1
    <3> DEFINE h == i - 1
    <3>1. h \in 1 .. n /\ h + 1 = i
      BY <2>2, <1>1
    <3> HIDE DEF h
    <3>2. r[h].type = "NOTIFY" /\ r[h].mskid = ma
      BY <1>1, <1>3, <3>1
    <3>3. ASSUME NEW j \in h + 1 .. n PROVE r[j].type # "NOTIFY"
      <4>1. j \in 1 .. n /\ j + 1 \in i + 1 .. n + 1
        BY <1>1, <3>1
      <4>2. QED
        BY <1>1, <1>3, <4>1
    <3>4. QED
      BY <1>1, <3>1, <3>2, <3>3 DEF Latest
  <2>3. QED
    BY <2>1, <2>2
<1>4. QED
  BY <1>1, <1>2, <1>3 DEF Latest, r

\* A frame comes, and may be a notify with a newer key.
LEMMA LatestMore ==
    ASSUME NEW q \in Seq(FrameType), NEW ms, NEW ma, NEW x \in FrameType,
           NEW na,
           \/ x.type # "NOTIFY" /\ na = ma /\ Latest(q, ms, ma)
           \/ x.type = "NOTIFY" /\ na = x.mskid
    PROVE  Latest(q \o <<x>>, ms, na)
<1> DEFINE r == q \o <<x>>
           n == Len(q)
<1>1. /\ DOMAIN q = 1 .. n /\ DOMAIN r = 1 .. n + 1 /\ n \in Nat
      /\ Len(r) = n + 1
      /\ \A i \in 1 .. n : r[i] = q[i]
      /\ r[n + 1] = x
      /\ ToSet(r) = ToSet(q) \cup {x}
  BY MorePlaces
<1>2. Len(q) = n
  OBVIOUS
<1> HIDE DEF r, n
<1>3. CASE x.type = "NOTIFY" /\ na = x.mskid
  <2>1. n + 1 \in DOMAIN r /\ \A j \in (n + 1) + 1 .. Len(r) : FALSE
    BY <1>1
  <2>2. QED
    BY <1>1, <1>3, <2>1 DEF Latest, r
<1>4. CASE x.type # "NOTIFY" /\ na = ma /\ None(q, "NOTIFY") /\ ms = ma
  <2>1. None(r, "NOTIFY")
    BY <1>1, <1>4 DEF None
  <2>2. QED
    BY <1>4, <2>1 DEF Latest, r
<1>5. ASSUME x.type # "NOTIFY", na = ma, NEW i \in 1 .. n,
             q[i].type = "NOTIFY", q[i].mskid = ma,
             \A j \in i + 1 .. n : q[j].type # "NOTIFY"
      PROVE  Latest(r, ms, na)
  <2>1. i \in 1 .. n + 1 /\ r[i].type = "NOTIFY" /\ r[i].mskid = na
    BY <1>1, <1>5
  <2>2. ASSUME NEW j \in i + 1 .. n + 1 PROVE r[j].type # "NOTIFY"
    <3>1. (j \in i + 1 .. n /\ j \in 1 .. n) \/ j = n + 1
      BY <1>1
    <3>2. QED
      BY <1>1, <1>5, <3>1
  <2>3. QED
    BY <1>1, <2>1, <2>2 DEF Latest
<1>6. QED
  BY <1>1, <1>2, <1>3, <1>4, <1>5 DEF Latest, r

\* What the AE does: it counts, and frames of the ASUE go,
LEMMA GroupKept ==
    ASSUME NEW a, NEW s, NEW ia, NEW is, NEW ma, NEW ms,
           Group(a, s, ia, is, ma, ms), NEW e, Like(e, a),
           NEW ja, ToSet(ja) \subseteq ToSet(ia)
    PROVE  Group(e, s, ja, is, ma, ms)
<1>1. /\ e.WaiKeyState = a.WaiKeyState /\ e.PortSecured = a.PortSecured
      /\ e.PTK = a.PTK
  BY DEF Like
<1>2. \A k : Follows(a, s, is, k) => Follows(e, s, is, k)
  BY <1>1 DEF Follows
<1>3. None(ia, "RESP") => None(ja, "RESP")
  BY DEF None
<1>4. Stuck(s, ia, is) => Stuck(s, ja, is)
  BY DEF Stuck
<1>5. Unasked(a, s, ia, is) => Unasked(e, s, ja, is)
  BY <1>1, <1>3 DEF Unasked
<1>6. Responding(a, s, ia, is) => Responding(e, s, ja, is)
  BY <1>1 DEF Responding
<1>7. Confirming(a, s, ia, is) => Confirming(e, s, ja, is)
  BY <1>2, <1>3 DEF Confirming
<1>8. Level(a, s, ia, is) => Level(e, s, ja, is)
  BY <1>2, <1>3 DEF Level
<1>9. QED
  BY <1>1, <1>4, <1>5, <1>6, <1>7, <1>8 DEF Group

\* it sends a request,
LEMMA GroupAsked ==
    ASSUME NEW a, NEW s, NEW ia, NEW is \in Seq(FrameType), NEW ma, NEW ms,
           Group(a, s, ia, is, ma, ms), NEW e, NEW x \in FrameType,
           x.type \in {"REQ", "UPDATE_USK"},
           IF x.type = "REQ" THEN e.WaiKeyState = "WAIT_UCAST_RESP"
                             ELSE e.WaiKeyState = a.WaiKeyState,
           a.WaiKeyState # "WAIT_MCAST_RESP" \/ x.type # "REQ",
           e.PortSecured = a.PortSecured, e.PTK = a.PTK
    PROVE  Group(e, s, ia, is \o <<x>>, ma, ms)
<1> DEFINE js == is \o <<x>>
<1>1. /\ Len(is) \in Nat
      /\ DOMAIN is = 1 .. Len(is) /\ DOMAIN js = 1 .. Len(is) + 1
      /\ \A i \in 1 .. Len(is) : js[i] = is[i]
      /\ ToSet(js) = ToSet(is) \cup {x}
  BY MorePlaces
<1>2. ASSUME NEW k \in 0 .. Len(is), Follows(a, s, is, k)
      PROVE  Follows(e, s, js, k)
  <2>1. /\ x.type = "REQ" \/ a.WaiKeyState = "WAIT_UCAST_RESP"
              => e.WaiKeyState = "WAIT_UCAST_RESP"
        /\ e.WaiKeyState \in DoneStates \cup {"WAIT_MCAST_RESP"}
              => e.PTK = s.PTK
    BY <1>2 DEF Follows, DoneStates
  <2>2. QED
    BY <1>2, <2>1, FollowsMore
<1>3. Latest(is, ms, ma) => Latest(js, ms, ma)
  BY LatestMore
<1> HIDE DEF js
<1>4. \A c \in ToSet(js) : c \in ToSet(is) \/ ~Confirms(s, c)
  BY <1>1 DEF Confirms
<1>5. /\ None(is, "NOTIFY") => None(js, "NOTIFY")
      /\ None(js, "REQ") => None(is, "REQ") /\ x.type # "REQ"
      /\ None(is, "REQ") /\ x.type # "REQ" => None(js, "REQ")
  BY <1>1 DEF None
<1>6. Stuck(s, ia, is) => Stuck(s, ia, js)
  BY <1>4 DEF Stuck
<1>7. Unasked(a, s, ia, is) => Unasked(e, s, ia, js)
  BY <1>5 DEF Unasked
<1>8. Responding(a, s, ia, is) => Responding(e, s, ia, js)
  BY <1>4, <1>5 DEF Responding
<1>9. ASSUME Confirming(a, s, ia, is) PROVE Confirming(e, s, ia, js)
  <2>1. PICK k \in DOMAIN is :
            /\ Confirms(s, is[k])
            /\ \A i \in 1 .. k - 1 : ~Confirms(s, is[i])
            /\ Follows(a, s, is, k)
    BY <1>9 DEF Confirming
  <2>2. k \in DOMAIN js /\ k \in 0 .. Len(is) /\ js[k] = is[k]
    BY <1>1, <2>1
  <2>3. \A i \in 1 .. k - 1 : js[i] = is[i]
    BY <1>1, <2>1
  <2>4. QED
    BY <1>2, <1>9, <2>1, <2>2, <2>3 DEF Confirming
<1>10. Level(a, s, ia, is) => Level(e, s, ia, js)
  <2>1. 0 \in 0 .. Len(is)
    BY <1>1
  <2>2. QED
    BY <1>2, <2>1 DEF Level
<1>11. QED
  <2>1. e.PortSecured \/ e.WaiKeyState = "WAIT_MCAST_RESP"
            => a.PortSecured \/ a.WaiKeyState = "WAIT_MCAST_RESP"
    OBVIOUS
  <2>2. QED
    BY <1>3, <1>6, <1>7, <1>8, <1>9, <1>10, <2>1 DEF Group, js

\* a notify,
LEMMA GroupAnnounced ==
    ASSUME NEW a, NEW s, NEW ia, NEW is \in Seq(FrameType), NEW ma, NEW ms,
           Group(a, s, ia, is, ma, ms), NEW e, NEW x \in FrameType,
           a.WaiKeyState \in DoneStates \cup {"WAIT_MCAST_RESP"},
           Notified(a, e, x), x.mic = a.PTK
    PROVE  Group(e, s, ia, is \o <<x>>, x.mskid, ms)
<1> DEFINE js == is \o <<x>>
<1>1. /\ Len(is) \in Nat
      /\ DOMAIN is = 1 .. Len(is) /\ DOMAIN js = 1 .. Len(is) + 1
      /\ \A i \in 1 .. Len(is) : js[i] = is[i]
      /\ ToSet(js) = ToSet(is) \cup {x}
  BY MorePlaces
<1>2. /\ x.type = "NOTIFY" /\ e.WaiKeyState = "WAIT_MCAST_RESP"
      /\ e.PTK = a.PTK
  BY DEF Notified
<1>3. a.WaiKeyState \notin {"WAIT_UCAST_RESP", "UCAST_KEY_IDLE"}
  BY DEF DoneStates
<1>4. ASSUME NEW k \in 0 .. Len(is), Follows(a, s, is, k)
      PROVE  Follows(e, s, js, k)
  <2>1. e.PTK = s.PTK /\ x.mic = s.PTK
    BY <1>2, <1>4 DEF Follows
  <2>2. QED
    BY <1>2, <1>3, <1>4, <2>1, FollowsMore
<1>5. Latest(js, ms, x.mskid)
  BY <1>2, LatestMore
<1> HIDE DEF js
<1>6. \A c \in ToSet(js) : c \in ToSet(is) \/ ~Confirms(s, c)
  BY <1>1, <1>2 DEF Confirms
<1>7. Stuck(s, ia, is) => Stuck(s, ia, js)
  BY <1>6 DEF Stuck
<1>8. ~Unasked(a, s, ia, is) /\ ~Responding(a, s, ia, is)
  BY <1>3 DEF Unasked, Responding
<1>9. ASSUME Confirming(a, s, ia, is) PROVE Confirming(e, s, ia, js)
  <2>1. PICK k \in DOMAIN is :
            /\ Confirms(s, is[k])
            /\ \A i \in 1 .. k - 1 : ~Confirms(s, is[i])
            /\ Follows(a, s, is, k)
    BY <1>9 DEF Confirming
  <2>2. k \in DOMAIN js /\ k \in 0 .. Len(is) /\ js[k] = is[k]
    BY <1>1, <2>1
  <2>3. \A i \in 1 .. k - 1 : js[i] = is[i]
    BY <1>1, <2>1
  <2>4. QED
    BY <1>4, <1>9, <2>1, <2>2, <2>3 DEF Confirming
<1>10. Level(a, s, ia, is) => Level(e, s, ia, js)
  <2>1. 0 \in 0 .. Len(is)
    BY <1>1
  <2>2. QED
    BY <1>4, <2>1 DEF Level
<1>11. QED
  BY <1>5, <1>7, <1>8, <1>9, <1>10 DEF Group, js

\* it refuses a response,
LEMMA GroupRejected ==
    ASSUME NEW a, NEW s, NEW ia, NEW is, NEW ma, NEW ms,
           Group(a, s, ia, is, ma, ms), NEW m \in ToSet(ia), m.type = "RESP",
           NEW e, e.WaiKeyState = a.WaiKeyState, e.PortSecured = a.PortSecured,
           NEW ja, ToSet(ja) \subseteq ToSet(ia)
    PROVE  Group(e, s, ja, is, ma, ms)
<1>1. ~None(ia, "RESP")
  BY DEF None
<1>2. Stuck(s, ia, is) => Stuck(s, ja, is)
  BY DEF Stuck
<1>3. Responding(a, s, ia, is) => Responding(e, s, ja, is)
  BY DEF Responding
<1>4. /\ ~Unasked(a, s, ia, is) /\ ~Confirming(a, s, ia, is)
      /\ ~Level(a, s, ia, is)
  BY <1>1 DEF Unasked, Confirming, Level
<1>5. QED
  BY <1>2, <1>3, <1>4 DEF Group

\* takes it and confirms it,
LEMMA GroupAdmitted ==
    ASSUME NEW a, NEW s, NEW ia \in Seq(FrameType), NEW is \in Seq(FrameType),
           NEW ma, NEW ms, Group(a, s, ia, is, ma, ms),
           Lone(ia, GoodFrames),
           \A m \in ToSet(ia) : Good(m) => m.mic = s.PTK,
           a.WaiKeyState \in DoneStates \cup {"WAIT_UCAST_RESP"},
           ia # <<>>, Head(ia).type = "RESP",
           NEW e, NEW x \in FrameType, Accepted(a, Head(ia), e, x)
    PROVE  Group(e, s, Tail(ia), is \o <<x>>, ma, ms)
<1> DEFINE m == Head(ia)
           ja == Tail(ia)
           js == is \o <<x>>
           n == Len(is)
<1>1. /\ n \in Nat /\ Len(is) = n
      /\ DOMAIN is = 1 .. n /\ DOMAIN js = 1 .. n + 1
      /\ \A i \in 1 .. n : js[i] = is[i]
      /\ js[n + 1] = x
      /\ ToSet(is) = {is[i] : i \in 1 .. n}
      /\ ToSet(js) = ToSet(is) \cup {x}
  BY MorePlaces
<1>2. /\ m.mic = CalculatePairWiseKey(m.an, m.sn)
      /\ e.WaiKeyState = "UCAST_KEY_DONE" /\ e.PortSecured = a.PortSecured
      /\ e.PTK = m.mic /\ x.type = "CFM" /\ x.sn = m.sn /\ x.mic = m.mic
  BY DEF Accepted
<1>3. /\ m \in ToSet(ia) /\ m \in FrameType /\ Good(m) /\ m.type = "RESP"
      /\ m.mic = s.PTK
  <2>1. m \in ToSet(ia) /\ ToSet(ia) \subseteq FrameType
    BY ShrinksTail, ToSetRange
  <2>2. Good(m)
    BY <1>2, <2>1 DEF Good
  <2>3. QED
    BY <2>1, <2>2
<1>4. /\ ToSet(ja) \subseteq ToSet(ia) /\ ToSet(ja) \subseteq FrameType
      /\ \A y \in ToSet(ja) : ~Good(y)
  <2>1. /\ Shrinks(ja, ia) /\ GoodFrames \in SUBSET FrameType
        /\ \A F \in SUBSET FrameType :
               Lone(ia, F) /\ Head(ia) \in F =>
                   \A y \in ToSet(ja) : y \notin F
    BY ShrinksTail, LoneFrames
  <2>2. Lone(ia, GoodFrames) /\ Head(ia) \in GoodFrames
    BY <1>3 DEF GoodFrames
  <2>3. \A y \in ToSet(ja) : y \notin GoodFrames
    BY <2>1, <2>2
  <2>4. ToSet(ja) \subseteq ToSet(ia) /\ ToSet(ia) \subseteq FrameType
    BY <2>1, ToSetRange DEF Shrinks
  <2>5. QED
    BY <2>3, <2>4 DEF GoodFrames
<1>5. Latest(is, ms, ma) => Latest(js, ms, ma)
  BY <1>2, LatestMore
<1>6. ~None(ia, "RESP")
  BY <1>3 DEF None
<1>7. /\ ~Unasked(a, s, ia, is) /\ ~Confirming(a, s, ia, is)
      /\ ~Level(a, s, ia, is)
  BY <1>6 DEF Unasked, Confirming, Level
<1> HIDE DEF ja, js, n, m
<1>8. ASSUME Stuck(s, ia, is) PROVE Stuck(s, ja, js)
  <2>1. m.sn # s.SNONCE
    BY <1>3, <1>8 DEF Stuck
  <2>2. \A c \in ToSet(js) : ~Confirms(s, c)
    BY <1>1, <1>2, <1>8, <2>1 DEF Stuck, Confirms
  <2>3. QED
    BY <1>4, <1>8, <2>2 DEF Stuck
<1>9. ASSUME Responding(a, s, ia, is) PROVE Confirming(e, s, ja, js)
  <2>1. m.sn = s.SNONCE /\ m.mic = s.PTK
    BY <1>3, <1>9 DEF Responding
  <2>2. Confirms(s, js[n + 1]) /\ n + 1 \in DOMAIN js
    BY <1>1, <1>2, <2>1 DEF Confirms
  <2>3. \A i \in 1 .. (n + 1) - 1 : ~Confirms(s, js[i])
    BY <1>1, <1>9 DEF Responding
  <2>4. None(ja, "RESP")
    BY <1>4, <1>9 DEF Responding, None
  <2>5. Follows(e, s, js, n + 1)
    <3>1. \A i \in 1 .. n + 1 : js[i].type # "NOTIFY"
      <4>1. \A y \in ToSet(js) : y.type # "NOTIFY"
        BY <1>1, <1>2, <1>9 DEF Responding, None
      <4>2. \A i \in 1 .. n + 1 : i \in 1 .. n \/ i = n + 1
        BY <1>1
      <4>3. \A i \in 1 .. n + 1 : js[i] \in ToSet(js)
        BY <1>1, <4>2
      <4>4. QED
        BY <4>1, <4>3
    <3>2. \A i \in 1 .. n + 1 : ~(i > n + 1)
      BY <1>1
    <3>3. e.PTK = s.PTK
      BY <1>2, <2>1
    <3>4. QED
      BY <1>1, <3>1, <3>2, <3>3 DEF Follows
  <2>6. s.WaiKeyState = "WAIT_UCAST_CFM"
    BY <1>9 DEF Responding
  <2>7. QED
    BY <2>2, <2>3, <2>4, <2>5, <2>6 DEF Confirming
<1>10. e.PortSecured \/ e.WaiKeyState = "WAIT_MCAST_RESP" => a.PortSecured
  BY <1>2
<1>11. QED
  BY <1>5, <1>7, <1>8, <1>9, <1>10 DEF Group, ja, js

\* or the answer to the last notify.
LEMMA GroupClosed ==
    ASSUME NEW a, NEW s, NEW ia, NEW is, NEW ma, NEW ms,
           Group(a, s, ia, is, ma, ms), a.WaiKeyState = "WAIT_MCAST_RESP",
           NEW e, Settled(a, "MCAST_KEY_DONE", TRUE, e),
           NEW ja, ToSet(ja) \subseteq ToSet(ia)
    PROVE  Group(e, s, ja, is, ma, ms)
<1>1. e.WaiKeyState = "MCAST_KEY_DONE" /\ e.PTK = a.PTK
  BY DEF Settled
<1>2. \A k : Follows(a, s, is, k) => Follows(e, s, is, k)
  BY <1>1 DEF Follows, DoneStates
<1>3. None(ia, "RESP") => None(ja, "RESP")
  BY DEF None
<1>4. Stuck(s, ia, is) => Stuck(s, ja, is)
  BY DEF Stuck
<1>5. ~Unasked(a, s, ia, is) /\ ~Responding(a, s, ia, is)
  BY DEF Unasked, Responding
<1>6. Confirming(a, s, ia, is) => Confirming(e, s, ja, is)
  BY <1>2, <1>3 DEF Confirming
<1>7. Level(a, s, ia, is) => Level(e, s, ja, is)
  BY <1>2, <1>3 DEF Level
<1>8. QED
  BY <1>4, <1>5, <1>6, <1>7 DEF Group

\* What the ASUE does: it counts,
LEMMA GroupLike ==
    ASSUME NEW a, NEW s, NEW ia, NEW is, NEW ma, NEW ms,
           Group(a, s, ia, is, ma, ms), NEW e, Like(e, s)
    PROVE  Group(a, e, ia, is, ma, ms)
<1>1. /\ e.WaiKeyState = s.WaiKeyState /\ e.PTK = s.PTK
      /\ e.SNONCE = s.SNONCE
  BY DEF Like
<1>2. \A k : Follows(a, s, is, k) => Follows(a, e, is, k)
  BY <1>1 DEF Follows
<1>3. \A c : Confirms(e, c) <=> Confirms(s, c)
  BY <1>1 DEF Confirms
<1>4. Stuck(s, ia, is) => Stuck(e, ia, is)
  BY <1>1, <1>3 DEF Stuck
<1>5. Unasked(a, s, ia, is) => Unasked(a, e, ia, is)
  BY <1>1 DEF Unasked
<1>6. Responding(a, s, ia, is) => Responding(a, e, ia, is)
  BY <1>1, <1>3 DEF Responding
<1>7. Confirming(a, s, ia, is) => Confirming(a, e, ia, is)
  BY <1>1, <1>2, <1>3 DEF Confirming
<1>8. Level(a, s, ia, is) => Level(a, e, ia, is)
  BY <1>1, <1>2 DEF Level
<1>9. QED
  BY <1>4, <1>5, <1>6, <1>7, <1>8 DEF Group

\* drops a frame that it does not take,
LEMMA GroupDropped ==
    ASSUME NEW a, NEW s, NEW ia, NEW is \in Seq(FrameType), NEW ma, NEW ms,
           Group(a, s, ia, is, ma, ms), is # <<>>,
           ~(/\ Head(is).type = "NOTIFY" /\ s.WaiKeyState \in DoneStates
             /\ Head(is).mic = s.PTK),
           ~(s.WaiKeyState = "WAIT_UCAST_CFM" /\ Confirms(s, Head(is)))
    PROVE  Group(a, s, ia, Tail(is), ma, ms)
<1> DEFINE js == Tail(is)
           n == Len(is) - 1
<1>1. /\ DOMAIN is = 1 .. n + 1 /\ DOMAIN js = 1 .. n /\ n \in Nat
      /\ \A i \in 1 .. n : js[i] = is[i + 1]
      /\ Head(is) = is[1] /\ is[1] \in ToSet(is)
  BY TailPlaces, ShrinksTail
<1>2. ToSet(js) \subseteq ToSet(is)
  BY ShrinksTail DEF Shrinks
<1>3. \A type : None(is, type) => None(js, type)
  BY <1>2 DEF None
<1>4. /\ Latest(is, ms, ma) /\ is[1].type # "NOTIFY" => Latest(js, ms, ma)
      /\ \A k, l \in Nat :
             (l = k - 1 \/ (k = 0 /\ l = 0)) /\ Follows(a, s, is, k)
                 => Follows(a, s, js, l)
  BY <1>1, LatestTail, FollowsTail
<1> HIDE DEF js, n
<1>5. Stuck(s, ia, is) => Stuck(s, ia, js)
  BY <1>2 DEF Stuck
<1>6. ASSUME Unasked(a, s, ia, is)
      PROVE  Unasked(a, s, ia, js) /\ is[1].type # "NOTIFY"
  BY <1>1, <1>3, <1>6 DEF Unasked, None
<1>7. ASSUME Responding(a, s, ia, is)
      PROVE  Responding(a, s, ia, js) /\ is[1].type # "NOTIFY"
  BY <1>1, <1>2, <1>3, <1>7 DEF Responding, None
<1>8. ASSUME Confirming(a, s, ia, is)
      PROVE  Confirming(a, s, ia, js) /\ is[1].type # "NOTIFY"
  <2>1. PICK k \in DOMAIN is :
            /\ Confirms(s, is[k])
            /\ \A i \in 1 .. k - 1 : ~Confirms(s, is[i])
            /\ Follows(a, s, is, k)
    BY <1>8 DEF Confirming
  <2>2. s.WaiKeyState = "WAIT_UCAST_CFM" /\ None(ia, "RESP")
    BY <1>8 DEF Confirming
  <2>3. k # 1 /\ k \in 1 .. n + 1
    BY <1>1, <2>1, <2>2
  <2> DEFINE l == k - 1
  <2>4. l \in 1 .. n /\ l + 1 = k /\ k \in Nat /\ l \in Nat
    BY <1>1, <2>3
  <2> HIDE DEF l
  <2>5. js[l] = is[k]
    BY <1>1, <2>4
  <2>6. ASSUME NEW i \in 1 .. l - 1 PROVE ~Confirms(s, js[i])
    <3>1. i \in 1 .. n /\ i + 1 \in 1 .. k - 1
      BY <1>1, <2>4
    <3>2. QED
      BY <1>1, <2>1, <3>1
  <2>7. Follows(a, s, js, l)
    <3>1. l = k - 1
      BY <2>4
    <3>2. QED
      BY <1>4, <2>1, <2>4, <3>1
  <2>8. is[1].type # "NOTIFY"
    <3>1. 1 \in DOMAIN is /\ ~(1 > k)
      BY <1>1, <2>4
    <3>2. QED
      BY <2>1, <3>1 DEF Follows
  <2>9. l \in DOMAIN js
    BY <1>1, <2>4
  <2>10. QED
    BY <2>1, <2>2, <2>5, <2>6, <2>7, <2>8, <2>9 DEF Confirming
<1>9. ASSUME Level(a, s, ia, is)
      PROVE  Level(a, s, ia, js) /\ is[1].type # "NOTIFY"
  <2>1. Follows(a, s, js, 0)
    BY <1>4, <1>9 DEF Level
  <2>2. 1 \in DOMAIN is
    BY <1>1
  <2>3. is[1].type # "NOTIFY"
    BY <1>1, <1>9, <2>2 DEF Level, Follows
  <2>4. QED
    BY <1>9, <2>1, <2>3 DEF Level
<1>10. QED
  BY <1>4, <1>5, <1>6, <1>7, <1>8, <1>9 DEF Group, js

\* sends a response again with a new challenge: nobody will confirm it,
LEMMA GroupRepeated ==
    ASSUME NEW a, NEW s, NEW ia \in Seq(FrameType), NEW is, NEW ma, NEW ms,
           NEW r, New(r, a, s, ia, is), r = os_get_random,
           NEW x \in EntType, NEW e, NEW f \in FrameType,
           SentResponse(x, e, f), Apart(r, x.PTK),
           NEW js, ToSet(js) \subseteq ToSet(is)
    PROVE  Group(a, e, ia \o <<f>>, js, ma, ms)
<1> DEFINE ja == ia \o <<f>>
<1>1. ToSet(ja) = ToSet(ia) \cup {f}
  BY FrameComes
<1> HIDE DEF ja
<1>2. /\ e.WaiKeyState = "WAIT_UCAST_CFM" /\ e.SNONCE = r
      /\ f.type = "RESP" /\ f.sn = r /\ f.mic = x.PTK
  BY DEF SentResponse
<1>3. ~Good(f)
  <2>1. f.an \in Challenges
    BY DEF FrameType
  <2>2. QED
    BY <1>2, <2>1 DEF Apart, Good
<1>4. \A m \in ToSet(ja) : Good(m) => m.sn # e.SNONCE
  BY <1>1, <1>2, <1>3 DEF New, Apart
<1>5. \A c \in ToSet(js) : ~Confirms(e, c)
  BY <1>2 DEF New, Apart, Confirms
<1>6. QED
  BY <1>2, <1>4, <1>5 DEF Group, Stuck, ja

\* responds to a request,
LEMMA GroupAnswered ==
    ASSUME NEW a, NEW s, NEW ia \in Seq(FrameType), NEW is \in Seq(FrameType),
           NEW ma, NEW ms, Group(a, s, ia, is, ma, ms), is # <<>>,
           s.WaiKeyState \in DoneStates \cup {"UCAST_KEY_IDLE"},
           NEW r, New(r, a, s, ia, is), r = os_get_random,
           NEW m, m = Head(is), m.type = "REQ",
           NEW e, NEW f \in FrameType, Responded(s, m, e, f)
    PROVE  Group(a, e, ia \o <<f>>, Tail(is), ma, ms)
<1> DEFINE ja == ia \o <<f>>
           js == Tail(is)
           n == Len(is) - 1
<1>1. ToSet(ja) = ToSet(ia) \cup {f}
  BY FrameComes
<1>2. /\ DOMAIN is = 1 .. n + 1 /\ n \in Nat
      /\ \A i \in 1 .. n : js[i] = is[i + 1]
      /\ Head(is) = is[1] /\ is[1] \in ToSet(is)
      /\ ToSet(js) = {js[i] : i \in 1 .. n}
      /\ ToSet(js) \subseteq ToSet(is)
  BY TailPlaces, ShrinksTail DEF Shrinks
<1>3. Latest(is, ms, ma) => Latest(js, ms, ma)
  BY LatestTail
<1> HIDE DEF ja, js, n
<1>4. /\ e.WaiKeyState = "WAIT_UCAST_CFM" /\ e.SNONCE = r
      /\ f.type = "RESP" /\ f.sn = r /\ f.an = m.an
      /\ f.mic = CalculatePairWiseKey(m.an, r)
  BY DEF Responded
<1>5. Good(f)
  BY <1>4 DEF Good
<1>6. \A c \in ToSet(js) : ~Confirms(e, c)
  BY <1>2, <1>4 DEF New, Apart, Confirms
<1>7. ~None(is, "REQ")
  BY <1>2 DEF None
<1>8. s.WaiKeyState # "WAIT_UCAST_CFM"
  BY DEF DoneStates
<1>9. /\ ~Stuck(s, ia, is) /\ ~Responding(a, s, ia, is)
      /\ ~Confirming(a, s, ia, is)
  BY <1>8 DEF Stuck, Responding, Confirming
<1>10. ASSUME None(ia, "RESP"), a.WaiKeyState = "WAIT_UCAST_RESP",
              None(js, "NOTIFY")
       PROVE  Responding(a, e, ja, js)
  BY <1>1, <1>4, <1>5, <1>6, <1>10 DEF Responding, None
<1>11. ASSUME Unasked(a, s, ia, is) PROVE Responding(a, e, ja, js)
  <2>1. None(js, "NOTIFY")
    BY <1>2, <1>11 DEF Unasked, None
  <2>2. QED
    BY <1>7, <1>10, <1>11, <2>1 DEF Unasked
<1>12. ASSUME Level(a, s, ia, is) PROVE Responding(a, e, ja, js)
  <2>1. 1 \in DOMAIN is /\ 1 > 0 /\ is[1].type = "REQ"
    BY <1>2
  <2>2. a.WaiKeyState = "WAIT_UCAST_RESP"
    BY <1>12, <2>1 DEF Level, Follows
  <2>3. ASSUME NEW i \in 1 .. n, js[i].type = "NOTIFY" PROVE FALSE
    <3>1. i + 1 \in DOMAIN is /\ is[i + 1].type = "NOTIFY"
      BY <1>2, <2>3
    <3>2. \A j \in 0 + 1 .. (i + 1) - 1 : is[j].type # "REQ"
      BY <1>12, <3>1 DEF Level, Follows
    <3>3. 1 \in 0 + 1 .. (i + 1) - 1
      BY <1>2
    <3>4. QED
      BY <2>1, <3>2, <3>3
  <2>4. None(js, "NOTIFY")
    BY <1>2, <2>3 DEF None
  <2>5. QED
    BY <1>10, <1>12, <2>2, <2>4 DEF Level
<1>13. QED
  BY <1>3, <1>9, <1>11, <1>12 DEF Group, ja, js

\* takes the confirmation,
LEMMA GroupConfirmed ==
    ASSUME NEW a, NEW s, NEW ia, NEW is \in Seq(FrameType),
           NEW ma, NEW ms, Group(a, s, ia, is, ma, ms), is # <<>>,
           s.WaiKeyState = "WAIT_UCAST_CFM", Confirms(s, Head(is)),
           NEW e, NEW secured, Settled(s, "UCAST_KEY_DONE", secured, e)
    PROVE  Group(a, e, ia, Tail(is), ma, ms)
<1> DEFINE js == Tail(is)
<1>1. /\ Head(is) = is[1] /\ is[1] \in ToSet(is)
      /\ Len(is) \in Nat /\ DOMAIN is = 1 .. Len(is)
  BY TailPlaces, ShrinksTail
<1>2. Latest(is, ms, ma) => Latest(js, ms, ma)
  BY LatestTail DEF Confirms
<1>3. ~Stuck(s, ia, is) /\ ~Responding(a, s, ia, is)
  BY <1>1 DEF Stuck, Responding
<1>4. ~Unasked(a, s, ia, is) /\ ~Level(a, s, ia, is)
  BY DEF Unasked, Level, DoneStates
<1>5. e.WaiKeyState = "UCAST_KEY_DONE" /\ e.PTK = s.PTK
  BY DEF Settled
<1>6. ASSUME Confirming(a, s, ia, is) PROVE Level(a, e, ia, js)
  <2>1. PICK k \in DOMAIN is :
            /\ Confirms(s, is[k])
            /\ \A i \in 1 .. k - 1 : ~Confirms(s, is[i])
            /\ Follows(a, s, is, k)
    BY <1>6 DEF Confirming
  <2>2. k = 1
    <3>1. ~(1 \in 1 .. k - 1)
      BY <1>1, <2>1
    <3>2. QED
      BY <1>1, <2>1, <3>1
  <2>3. Follows(a, s, is, 1)
    BY <2>1, <2>2
  <2>4. Follows(a, s, js, 0)
    BY <2>3, FollowsTail
  <2>5. Follows(a, e, js, 0)
    BY <1>5, <2>4 DEF Follows
  <2>6. None(ia, "RESP")
    BY <1>6 DEF Confirming
  <2>7. QED
    BY <1>5, <2>5, <2>6 DEF Level, DoneStates
<1>7. QED
  BY <1>2, <1>3, <1>4, <1>6 DEF Group

\* or a notify.
LEMMA GroupTold ==
    ASSUME NEW a, NEW s, NEW ia \in Seq(FrameType), NEW is \in Seq(FrameType),
           NEW ma, NEW ms, Group(a, s, ia, is, ma, ms), is # <<>>,
           s.WaiKeyState \in DoneStates, Head(is).type = "NOTIFY",
           NEW e, NEW f \in FrameType, f.type = "MCAST_RESP",
           Settled(s, "MCAST_KEY_DONE", TRUE, e)
    PROVE  Group(a, e, ia \o <<f>>, Tail(is), ma, Head(is).mskid)
<1> DEFINE js == Tail(is)
           ja == ia \o <<f>>
<1>1. ToSet(ja) = ToSet(ia) \cup {f}
  BY FrameComes
<1>2. Latest(is, ms, ma) => Latest(js, Head(is).mskid, ma)
  BY LatestTail
<1>3. Follows(a, s, is, 0) => Follows(a, s, js, 0)
  BY FollowsTail
<1> HIDE DEF js, ja
<1>4. /\ ~Stuck(s, ia, is) /\ ~Responding(a, s, ia, is)
      /\ ~Unasked(a, s, ia, is) /\ ~Confirming(a, s, ia, is)
  BY DEF Stuck, Responding, Unasked, Confirming, DoneStates
<1>5. e.WaiKeyState = "MCAST_KEY_DONE" /\ e.PTK = s.PTK
  BY DEF Settled
<1>6. ASSUME Level(a, s, ia, is) PROVE Level(a, e, ja, js)
  <2>1. Follows(a, e, js, 0)
    BY <1>3, <1>5, <1>6 DEF Level, Follows
  <2>2. None(ja, "RESP")
    BY <1>1, <1>6 DEF Level, None
  <2>3. QED
    BY <1>5, <2>1, <2>2 DEF Level, DoneStates
<1>7. QED
  BY <1>2, <1>4, <1>6 DEF Group, ja, js

-----------------------------------------------------------------------------
(* The multicast keys over all steps.                                      *)

NowGroup ==
    Group(ent["AE"], ent["ASUE"], inbox["AE"], inbox["ASUE"],
          mskid["AE"], mskid["ASUE"])

\* Unless a frame is lost, the ASUE has the last key or will find it.
NothingLost == link /\ spent.losses = 0 /\ Open => NowGroup

\* What a handler leaves while the station is associated.
LEMMA LinkedMoves ==
    ASSUME TypeInv, link, NEW p \in Ends, NEW e, NEW rest, NEW out,
           Moves(p, e, rest, out)
    PROVE  /\ ent'[p] = e /\ ent'[Peer(p)] = ent[Peer(p)]
           /\ inbox'[p] = rest /\ inbox'[Peer(p)] = inbox[Peer(p)] \o out
           /\ out = <<>> => inbox'[Peer(p)] = inbox[Peer(p)]
<1>1. inbox[Peer(p)] \in Seq(FrameType)
  BY DEF TypeInv, HandlerTypes, Ends, Peer
<1>2. inbox[Peer(p)] \o <<>> = inbox[Peer(p)]
  BY <1>1
<1>3. QED
  BY <1>2 DEF Moves

\* The head of a socket is in it, and so is what is left.
LEMMA RestsLess ==
    ASSUME TypeInv, NEW p \in Ends
    PROVE  /\ inbox[p] \in Seq(FrameType)
           /\ inbox[p] # <<>> => /\ Head(inbox[p]) \in ToSet(inbox[p])
                                 /\ ToSet(Tail(inbox[p])) \subseteq
                                        ToSet(inbox[p])
           /\ \A rest : Rests(p, rest) => ToSet(rest) \subseteq ToSet(inbox[p])
<1>1. inbox[p] \in Seq(FrameType)
  BY DEF TypeInv, HandlerTypes
<1>2. inbox[p] # <<>> => /\ Head(inbox[p]) \in ToSet(inbox[p])
                         /\ ToSet(Tail(inbox[p])) \subseteq ToSet(inbox[p])
  BY <1>1, ShrinksTail DEF Shrinks
<1>3. QED
  BY <1>1, <1>2 DEF Rests

\* The AE does a step.
LEMMA PointGroup ==
    ASSUME TypeInv, Live, link, link', Open, Open', NowGroup, Callback("AE")
    PROVE  NowGroup'
<1> DEFINE a == ent["AE"]
           s == ent["ASUE"]
           ia == inbox["AE"]
           is == inbox["ASUE"]
           ma == mskid["AE"]
           ms == mskid["ASUE"]
<1>1. "AE" \in Ends /\ Peer("AE") = "ASUE"
  BY EndsAre
<1>2. /\ ia \in Seq(FrameType) /\ is \in Seq(FrameType)
      /\ mskid \in [Ends -> 0 .. 1]
  BY DEF TypeInv, HandlerTypes, Ends
<1>3. /\ Group(a, s, ia, is, ma, ms) /\ Quiet
      /\ FrameKinds(ia, is) /\ InResponse(s, ia, is, key["ASUE"])
      /\ a.WaiKeyState # "WAIT_UCAST_CFM"
  BY DEF NowGroup, Live, Open, NowHandshake, Handshake
<1>4. \A m \in ToSet(ia) : m.type \notin {"REQ", "CFM", "NOTIFY", "DELETE"}
  BY <1>3 DEF FrameKinds
<1>5. ASSUME NEW e, NEW rest, NEW out, Moves("AE", e, rest, out)
      PROVE  /\ ent'["AE"] = e /\ ent'["ASUE"] = s
             /\ inbox'["AE"] = rest /\ inbox'["ASUE"] = is \o out
             /\ out = <<>> => inbox'["ASUE"] = is
  <2>1. /\ ent'["AE"] = e /\ ent'[Peer("AE")] = ent[Peer("AE")]
        /\ inbox'["AE"] = rest /\ inbox'[Peer("AE")] = inbox[Peer("AE")] \o out
        /\ out = <<>> => inbox'[Peer("AE")] = inbox[Peer("AE")]
    BY <1>1, <1>5, LinkedMoves, Zenon
  <2>2. QED
    BY <1>1, <2>1
<1>6. /\ ia # <<>> => Head(ia) \in ToSet(ia) /\
                      ToSet(Tail(ia)) \subseteq ToSet(ia)
      /\ \A rest : Rests("AE", rest) => ToSet(rest) \subseteq ToSet(ia)
  BY <1>1, RestsLess
<1>7. ASSUME NEW m, NEW type, NEW e, NEW out, Reads("AE", m, type, e, out)
      PROVE  /\ m \in ToSet(ia) /\ m.type = type /\ ia # <<>> /\ m = Head(ia)
             /\ ToSet(Tail(ia)) \subseteq ToSet(ia)
             /\ Moves("AE", e, Tail(ia), out)
  BY <1>6, <1>7 DEF Reads
<1>8. ASSUME NEW e, NEW rest, NEW js, NEW na, ent'["AE"] = e,
             ent'["ASUE"] = s, inbox'["AE"] = rest, inbox'["ASUE"] = js,
             mskid'["AE"] = na, mskid'["ASUE"] = ms,
             Group(e, s, rest, js, na, ms)
      PROVE  NowGroup'
  BY <1>8 DEF NowGroup
<1> HIDE DEF a, s, ia, is, ma, ms
<1>9. ASSUME mskid' = mskid PROVE mskid'["AE"] = ma /\ mskid'["ASUE"] = ms
  BY <1>9 DEF ma, ms
<1>10. CASE Kept("AE")
  <2>1. PICK e \in EntType, rest \in Seq(FrameType) :
            /\ Moves("AE", e, rest, <<>>) /\ Rests("AE", rest) /\ Like(e, a)
            /\ UNCHANGED <<mskid, msk>>
    BY <1>10 DEF Kept, a
  <2>2. Group(e, s, rest, is, ma, ms)
    BY <1>3, <1>6, <2>1, GroupKept
  <2>3. QED
    BY <1>5, <1>8, <1>9, <2>1, <2>2
<1>11. CASE Deleted("AE") \/ Cut("AE")
  BY <1>4, <1>7, <1>11 DEF Deleted, Cut, DisconnectStaLink
<1>12. CASE Asked("AE")
  <2>1. PICK e \in EntType, f \in FrameType, rest \in Seq(FrameType) :
            /\ Moves("AE", e, rest, <<f>>) /\ Rests("AE", rest)
            /\ Requested(a, e, f)
    BY <1>12 DEF Asked, a
  <2>2. mskid' = mskid /\ a.WaiKeyState # "WAIT_MCAST_RESP"
    BY <1>12 DEF Asked, a, DoneStates
  <2>3. Group(a, s, rest, is, ma, ms)
    BY <1>3, <1>6, <2>1, GroupKept DEF Like
  <2>4. Group(e, s, rest, is \o <<f>>, ma, ms)
    BY <1>2, <2>1, <2>2, <2>3, GroupAsked DEF Requested
  <2>5. QED
    BY <1>5, <1>8, <1>9, <2>1, <2>2, <2>4
<1>13. CASE Repeated("AE")
  <2>1. PICK x \in EntType, e \in EntType, f \in FrameType,
             rest \in Seq(FrameType) :
            Moves("AE", e, rest, <<f>>) /\ SentResponse(x, e, f)
    BY <1>13 DEF Repeated
  <2>2. ent'["AE"].WaiKeyState = "WAIT_UCAST_CFM"
    BY <1>5, <2>1 DEF SentResponse
  <2>3. QED
    BY <2>2 DEF Open
<1>14. CASE Announced("AE")
  <2>1. PICK e \in EntType, f \in FrameType, rest \in Seq(FrameType) :
            /\ Moves("AE", e, rest, <<f>>) /\ Rests("AE", rest)
            /\ Notified(a, e, f)
            /\ f.mic = a.PTK /\ f.mskid = msk["AE"] % 2
    BY <1>14 DEF Announced, a
  <2>2. /\ a.WaiKeyState \in DoneStates \cup {"WAIT_MCAST_RESP"}
        /\ mskid' = [mskid EXCEPT !["AE"] = msk["AE"] % 2]
    BY <1>14 DEF Announced, a
  <2>3. mskid'["AE"] = f.mskid /\ mskid'["ASUE"] = ms
    BY <1>1, <1>2, <2>1, <2>2 DEF Ends, ms
  <2>4. Group(a, s, rest, is, ma, ms)
    BY <1>3, <1>6, <2>1, GroupKept DEF Like
  <2>5. Group(e, s, rest, is \o <<f>>, f.mskid, ms)
    BY <1>2, <2>1, <2>2, <2>4, GroupAnnounced
  <2>6. QED
    BY <1>5, <1>8, <2>1, <2>3, <2>5
<1>15. CASE Answered("AE") \/ Confirmed("AE") \/ Told("AE")
  BY <1>4, <1>7, <1>15 DEF Answered, Confirmed, Told
<1>16. CASE Rejected("AE")
  <2>1. PICK m \in FrameType, e \in EntType :
            /\ Reads("AE", m, "RESP", e, <<>>)
            /\ e.WaiKeyState = a.WaiKeyState /\ e.PortSecured = a.PortSecured
    BY <1>16 DEF Rejected, a
  <2>2. Group(e, s, Tail(ia), is, ma, ms)
    BY <1>3, <1>7, <2>1, GroupRejected
  <2>3. QED
    BY <1>5, <1>7, <1>8, <1>9, <1>16, <2>1, <2>2 DEF Rejected
<1>17. CASE Admitted("AE")
  <2>1. PICK m \in FrameType, e \in EntType, f \in FrameType :
            Reads("AE", m, "RESP", e, <<f>>) /\ Accepted(a, m, e, f)
    BY <1>17 DEF Admitted, a
  <2>2. /\ a.WaiKeyState \in DoneStates \cup {"WAIT_UCAST_RESP"}
        /\ mskid' = mskid
    BY <1>17 DEF Admitted, a
  <2>3. /\ ia # <<>> /\ Head(ia).type = "RESP"
        /\ Accepted(a, Head(ia), e, f) /\ Group(a, s, ia, is, ma, ms)
        /\ ia \in Seq(FrameType) /\ is \in Seq(FrameType)
        /\ Lone(ia, GoodFrames)
        /\ \A y \in ToSet(ia) : Good(y) => y.mic = s.PTK
    BY <1>2, <1>3, <1>7, <2>1 DEF InResponse
  <2>4. Group(e, s, Tail(ia), is \o <<f>>, ma, ms)
    BY <2>1, <2>2, <2>3, GroupAdmitted
  <2>5. Moves("AE", e, Tail(ia), <<f>>)
    BY <1>7, <2>1
  <2>6. QED
    BY <1>5, <1>8, <1>9, <2>2, <2>4, <2>5
<1>18. CASE Closed("AE")
  <2>1. PICK m \in FrameType, e \in EntType :
            /\ Reads("AE", m, "MCAST_RESP", e, <<>>)
            /\ Settled(a, "MCAST_KEY_DONE", TRUE, e)
    BY <1>18 DEF Closed, a
  <2>2. a.WaiKeyState = "WAIT_MCAST_RESP" /\ mskid' = mskid
    BY <1>18 DEF Closed, a
  <2>3. Group(e, s, Tail(ia), is, ma, ms)
    BY <1>3, <1>7, <2>1, <2>2, GroupClosed
  <2>4. QED
    BY <1>5, <1>7, <1>8, <1>9, <2>1, <2>2, <2>3
<1>19. QED
  BY <1>1, <1>10, <1>11, <1>12, <1>13, <1>14, <1>15, <1>16, <1>17, <1>18,
     CallbackTurns DEF Turn

\* The ASUE does a step.
LEMMA StationGroup ==
    ASSUME TypeInv, Live, Live', link, link', Open, NowGroup, Callback("ASUE")
    PROVE  NowGroup'
<1> DEFINE a == ent["AE"]
           s == ent["ASUE"]
           ia == inbox["AE"]
           is == inbox["ASUE"]
           ma == mskid["AE"]
           ms == mskid["ASUE"]
           r == os_get_random
<1>1. "ASUE" \in Ends /\ Peer("ASUE") = "AE"
  BY EndsAre
<1>2. /\ ia \in Seq(FrameType) /\ is \in Seq(FrameType)
      /\ mskid \in [Ends -> 0 .. 1] /\ "AE" \in Ends
  BY DEF TypeInv, HandlerTypes, Ends
<1>3. /\ Group(a, s, ia, is, ma, ms)
      /\ FrameKinds(ia, is) /\ Station(s, timer["ASUE"])
  BY DEF NowGroup, Live, Open, NowHandshake, Handshake
<1>4. \A m \in ToSet(is) : m.type \notin {"RESP", "MCAST_RESP", "DELETE"}
  BY <1>3 DEF FrameKinds
<1>5. ASSUME NEW e, NEW rest, NEW out, Moves("ASUE", e, rest, out)
      PROVE  /\ ent'["ASUE"] = e /\ ent'["AE"] = a
             /\ inbox'["ASUE"] = rest /\ inbox'["AE"] = ia \o out
             /\ out = <<>> => inbox'["AE"] = ia
  <2>1. /\ ent'["ASUE"] = e /\ ent'[Peer("ASUE")] = ent[Peer("ASUE")]
        /\ inbox'["ASUE"] = rest
        /\ inbox'[Peer("ASUE")] = inbox[Peer("ASUE")] \o out
        /\ out = <<>> => inbox'[Peer("ASUE")] = inbox[Peer("ASUE")]
    BY <1>1, <1>5, LinkedMoves, Zenon
  <2>2. QED
    BY <1>1, <2>1
<1>6. \A e, rest, out : Moves("ASUE", e, rest, out) =>
          e.WaiKeyState \notin {"WAIT_UCAST_RESP", "WAIT_MCAST_RESP"}
  <2>1. SUFFICES ASSUME NEW e, NEW rest, NEW out, Moves("ASUE", e, rest, out)
                 PROVE  e.WaiKeyState \notin
                            {"WAIT_UCAST_RESP", "WAIT_MCAST_RESP"}
    OBVIOUS
  <2>2. ent'["ASUE"] = e /\ ent'["AE"] = a
    BY <1>5, <2>1
  <2>3. Open' /\ NowHandshake'
    BY <2>2 DEF Open, Live
  <2>4. Station(ent'["ASUE"], timer'["ASUE"])
    BY <2>3 DEF NowHandshake, Handshake
  <2>5. QED
    BY <2>2, <2>4 DEF Station, DoneStates
<1>7. /\ is # <<>> => Head(is) \in ToSet(is)
      /\ \A rest : Rests("ASUE", rest) => ToSet(rest) \subseteq ToSet(is)
  BY <1>1, RestsLess
<1>8. ASSUME NEW m, NEW type, NEW e, NEW out, Reads("ASUE", m, type, e, out)
      PROVE  /\ m \in ToSet(is) /\ m.type = type /\ is # <<>> /\ m = Head(is)
             /\ Moves("ASUE", e, Tail(is), out)
  BY <1>7, <1>8 DEF Reads
<1>9. ASSUME NEW e, NEW js, NEW ja, NEW ns, ent'["ASUE"] = e, ent'["AE"] = a,
             inbox'["ASUE"] = js, inbox'["AE"] = ja,
             mskid'["ASUE"] = ns, mskid'["AE"] = ma,
             Group(a, e, ja, js, ma, ns)
      PROVE  NowGroup'
  BY <1>9 DEF NowGroup
<1>10. New(r, a, s, ia, is)
  BY <1>2, StationStarts, ShrinksSame
<1> HIDE DEF a, s, ia, is, ma, ms, r
<1>11. ASSUME mskid' = mskid PROVE mskid'["AE"] = ma /\ mskid'["ASUE"] = ms
  BY <1>11 DEF ma, ms
<1>12. CASE Kept("ASUE")
  <2>1. PICK e \in EntType, rest \in Seq(FrameType) :
            /\ Moves("ASUE", e, rest, <<>>) /\ Rests("ASUE", rest)
            /\ Like(e, s) /\ UNCHANGED <<mskid, msk>>
    BY <1>12 DEF Kept, s
  <2>2. Group(a, s, ia, rest, ma, ms)
    <3>1. CASE rest = is
      BY <1>3, <3>1
    <3>2. CASE rest # is
      <4>1. is # <<>> /\ rest = Tail(is) /\ ~Taking("ASUE")
        BY <2>1, <3>2 DEF Rests, is
      <4>2. /\ ~(/\ Head(is).type = "NOTIFY" /\ s.WaiKeyState \in DoneStates
                 /\ Head(is).mic = s.PTK)
            /\ ~(s.WaiKeyState = "WAIT_UCAST_CFM" /\ Confirms(s, Head(is)))
        BY <4>1 DEF Taking, is, s
      <4>3. QED
        BY <1>2, <1>3, <4>1, <4>2, GroupDropped
    <3>3. QED
      BY <3>1, <3>2
  <2>3. Group(a, e, ia, rest, ma, ms)
    BY <2>1, <2>2, GroupLike
  <2>4. QED
    BY <1>5, <1>9, <1>11, <2>1, <2>3
<1>13. CASE Deleted("ASUE") \/ Cut("ASUE")
  BY <1>4, <1>8, <1>13 DEF Deleted, Cut, DisconnectStaLink
<1>14. CASE Asked("ASUE")
  BY <1>6, <1>14 DEF Asked, Requested
<1>15. CASE Repeated("ASUE")
  <2>1. PICK x \in EntType, e \in EntType, f \in FrameType,
             rest \in Seq(FrameType) :
            /\ Moves("ASUE", e, rest, <<f>>) /\ Rests("ASUE", rest)
            /\ Like(x, s) /\ SentResponse(x, e, f)
    BY <1>15 DEF Repeated, s
  <2>2. mskid' = mskid
    BY <1>15 DEF Repeated
  <2>3. ToSet(rest) \subseteq ToSet(is) /\ Apart(r, x.PTK)
    BY <1>7, <1>10, <2>1 DEF New, Like
  <2>4. r = os_get_random
    BY DEF r
  <2>5. Group(a, e, ia \o <<f>>, rest, ma, ms)
    BY <1>2, <1>3, <1>10, <2>1, <2>3, <2>4, GroupRepeated
  <2>6. QED
    BY <1>5, <1>9, <1>11, <2>1, <2>2, <2>5
<1>16. CASE Announced("ASUE")
  BY <1>6, <1>16 DEF Announced, Notified
<1>17. CASE Answered("ASUE")
  <2>1. PICK m \in FrameType, e \in EntType, f \in FrameType :
            Reads("ASUE", m, "REQ", e, <<f>>) /\ Responded(s, m, e, f)
    BY <1>17 DEF Answered, s
  <2>2. /\ s.WaiKeyState \in DoneStates \cup {"UCAST_KEY_IDLE"}
        /\ mskid' = mskid /\ r = os_get_random
    BY <1>17 DEF Answered, s, r
  <2>3. /\ is # <<>> /\ m = Head(is) /\ m.type = "REQ"
        /\ Moves("ASUE", e, Tail(is), <<f>>)
    BY <1>8, <2>1
  <2>4. Group(a, e, ia \o <<f>>, Tail(is), ma, ms)
    BY <1>2, <1>3, <1>10, <2>1, <2>2, <2>3, GroupAnswered
  <2>5. QED
    BY <1>5, <1>9, <1>11, <2>2, <2>3, <2>4
<1>18. CASE Rejected("ASUE") \/ Admitted("ASUE") \/ Closed("ASUE")
  BY <1>4, <1>8, <1>18 DEF Rejected, Admitted, Closed
<1>19. CASE Confirmed("ASUE")
  <2>1. PICK m \in FrameType, e \in EntType :
            /\ Reads("ASUE", m, "CFM", e, <<>>) /\ Confirms(s, m)
            /\ Settled(s, "UCAST_KEY_DONE", s.PortSecured, e)
    BY <1>19 DEF Confirmed, s
  <2>2. s.WaiKeyState = "WAIT_UCAST_CFM" /\ mskid' = mskid
    BY <1>19 DEF Confirmed, s
  <2>3. is # <<>> /\ m = Head(is) /\ Moves("ASUE", e, Tail(is), <<>>)
    BY <1>8, <2>1
  <2>4. Group(a, e, ia, Tail(is), ma, ms)
    BY <1>2, <1>3, <2>1, <2>2, <2>3, GroupConfirmed
  <2>5. QED
    BY <1>5, <1>9, <1>11, <2>2, <2>3, <2>4
<1>20. CASE Told("ASUE")
  <2>1. PICK m \in FrameType, e \in EntType, f \in FrameType :
            /\ Reads("ASUE", m, "NOTIFY", e, <<f>>)
            /\ Settled(s, "MCAST_KEY_DONE", TRUE, e)
            /\ f.type = "MCAST_RESP"
            /\ mskid' = [mskid EXCEPT !["ASUE"] = m.mskid]
    BY <1>20 DEF Told, s
  <2>2. s.WaiKeyState \in DoneStates
    BY <1>20 DEF Told, s
  <2>3. is # <<>> /\ m = Head(is) /\ m.type = "NOTIFY"
    BY <1>8, <2>1
  <2>4. Moves("ASUE", e, Tail(is), <<f>>)
    BY <1>8, <2>1
  <2>5. mskid'["AE"] = ma /\ mskid'["ASUE"] = Head(is).mskid
    BY <1>1, <1>2, <2>1, <2>3 DEF ma
  <2>6. Head(is).type = "NOTIFY"
    BY <2>3
  <2>7. Group(a, e, ia \o <<f>>, Tail(is), ma, Head(is).mskid)
    BY <1>2, <1>3, <2>1, <2>2, <2>3, <2>6, GroupTold
  <2>8. QED
    BY <1>5, <1>9, <2>4, <2>5, <2>7
<1>21. QED
  BY <1>1, <1>12, <1>13, <1>14, <1>15, <1>16, <1>17, <1>18, <1>19, <1>20,
     CallbackTurns DEF Turn

\* Once the AE waits for a confirmation it goes on waiting.
LEMMA StaysOpen ==
    ASSUME TypeInv, Live, link, link', NEW p \in Ends, Callback(p), Open'
    PROVE  Open
<1>1. Turn(p) /\ Quiet /\ "AE" \in Ends /\ Peer("ASUE") = "AE"
  BY CallbackTurns, EndsAre DEF Live
<1>2. CASE p = "ASUE"
  <2>1. ent'["AE"] = ent["AE"]
    BY <1>1, <1>2 DEF Turn, Kept, Deleted, Cut, Asked, Repeated, Announced,
       Answered, Rejected, Admitted, Confirmed, Told, Closed, Reads, Moves,
       DisconnectStaLink
  <2>2. QED
    BY <2>1 DEF Open
<1>3. CASE p = "AE"
  <2>1. SUFFICES ASSUME ~Open PROVE FALSE
    OBVIOUS
  <2>2. \A m \in ToSet(inbox["AE"]) : m.type \notin {"CFM", "DELETE"}
    BY <1>1 DEF Quiet
  <2>3. inbox["AE"] # <<>> => Head(inbox["AE"]) \in ToSet(inbox["AE"])
    BY <1>1, RestsLess
  <2>4. ~Deleted("AE") /\ ~Confirmed("AE") /\ ~Cut("AE")
    BY <2>2, <2>3 DEF Deleted, Confirmed, Reads, Cut, DisconnectStaLink
  <2>5. /\ ~Asked("AE") /\ ~Announced("AE") /\ ~Answered("AE")
        /\ ~Rejected("AE") /\ ~Admitted("AE") /\ ~Told("AE") /\ ~Closed("AE")
    BY <2>1 DEF Open, Asked, Announced, Answered, Rejected, Admitted, Told,
       Closed, DoneStates
  <2>6. ~Kept("AE")
    BY <2>1 DEF Kept, Moves, Like, Open
  <2>7. ~Repeated("AE")
    BY DEF Repeated, Moves, SentResponse, Open
  <2>8. QED
    BY <1>1, <1>3, <2>4, <2>5, <2>6, <2>7 DEF Turn
<1>4. QED
  BY <1>2, <1>3 DEF Ends

LEMMA CallbackGroup ==
    ASSUME TypeInv, Live, Live', NothingLost, NEW p \in Ends, Callback(p)
    PROVE  NothingLost'
<1> SUFFICES ASSUME link', spent'.losses = 0, Open'
             PROVE  NowGroup'
  BY DEF NothingLost
<1>1. Turn(p) /\ spent' = spent
  BY CallbackTurns, CallbackDoes
<1>2. link
  <2>1. CASE Cut(p)
    BY <2>1 DEF Cut, DisconnectStaLink
  <2>2. CASE ~Cut(p)
    <3>1. \E e, rest, out : Moves(p, e, rest, out)
      BY <1>1, <2>2, Zenon DEF Turn, Kept, Deleted, Asked, Repeated, Announced,
         Answered, Rejected, Admitted, Confirmed, Told, Closed, Reads
    <3>2. link' = link
      BY <3>1 DEF Moves
    <3>3. QED
      BY <3>2
  <2>3. QED
    BY <2>1, <2>2
<1>3. Open
  BY <1>2, StaysOpen
<1>4. NowGroup
  BY <1>1, <1>2, <1>3 DEF NothingLost
<1>5. QED
  BY <1>2, <1>3, <1>4, PointGroup, StationGroup DEF Ends

\* A frame that is no response comes to the AE.
LEMMA GroupHears ==
    ASSUME NEW a, NEW s, NEW ia, NEW is, NEW ma, NEW ms,
           Group(a, s, ia, is, ma, ms), NEW x, x.type # "RESP",
           NEW ja, ToSet(ja) = ToSet(ia) \cup {x}
    PROVE  Group(a, s, ja, is, ma, ms)
<1>1. ~Good(x)
  BY DEF Good
<1>2. None(ia, "RESP") => None(ja, "RESP")
  BY DEF None
<1>3. Stuck(s, ia, is) => Stuck(s, ja, is)
  BY <1>1 DEF Stuck
<1>4. Unasked(a, s, ia, is) => Unasked(a, s, ja, is)
  BY <1>2 DEF Unasked
<1>5. Responding(a, s, ia, is) => Responding(a, s, ja, is)
  BY DEF Responding
<1>6. Confirming(a, s, ia, is) => Confirming(a, s, ja, is)
  BY <1>2 DEF Confirming
<1>7. Level(a, s, ia, is) => Level(a, s, ja, is)
  BY <1>2 DEF Level
<1>8. QED
  BY <1>3, <1>4, <1>5, <1>6, <1>7 DEF Group

\* A request of the driver.
LEMMA RenewalGroup ==
    ASSUME TypeInv, NothingLost, NEW p \in Ends,
           NEW x \in {"UPDATE_USK", "UPDATE_MSK"},
           x = "UPDATE_MSK" => p = "AE", link,
           ent' = ent, mskid' = mskid, spent'.losses = spent.losses,
           Asks(p, x)
    PROVE  NothingLost'
<1> SUFFICES ASSUME spent'.losses = 0, Open' PROVE NowGroup'
  BY DEF NothingLost
<1>1. NowGroup
  BY DEF NothingLost, Open
<1>2. PICK f \in FrameType :
          /\ f.type = x
          /\ inbox'[p] = inbox[p] \o <<f>>
          /\ ToSet(inbox'[p]) = ToSet(inbox[p]) \cup {f}
          /\ inbox'[Peer(p)] = inbox[Peer(p)]
  <2>1. x \in DriverTypes
    BY Zenon DEF DriverTypes
  <2>2. QED
    BY <2>1, DriverFrame
<1>3. inbox["ASUE"] \in Seq(FrameType)
  BY DEF TypeInv, HandlerTypes, Ends
<1>4. CASE p = "AE"
  <2>1. /\ f.type # "RESP" /\ ToSet(inbox'["AE"]) = ToSet(inbox["AE"]) \cup {f}
        /\ inbox'["ASUE"] = inbox["ASUE"]
    BY <1>2, <1>4, EndsAre
  <2>2. Group(ent["AE"], ent["ASUE"], inbox'["AE"], inbox["ASUE"],
              mskid["AE"], mskid["ASUE"])
    BY <1>1, <2>1, GroupHears DEF NowGroup
  <2>3. QED
    BY <2>1, <2>2 DEF NowGroup
<1>5. CASE p = "ASUE"
  <2>1. /\ f.type = "UPDATE_USK" /\ inbox'["AE"] = inbox["AE"]
        /\ inbox'["ASUE"] = inbox["ASUE"] \o <<f>>
    BY <1>2, <1>5, EndsAre
  <2>2. Group(ent["AE"], ent["ASUE"], inbox["AE"], inbox["ASUE"] \o <<f>>,
              mskid["AE"], mskid["ASUE"])
    BY <1>1, <1>3, <2>1, GroupAsked DEF NowGroup
  <2>3. QED
    BY <2>1, <2>2 DEF NowGroup
<1>6. QED
  BY <1>4, <1>5 DEF Ends

LEMMA AssociateGroup ==
    ASSUME TypeInv, Away, Separate, Associate
    PROVE  NothingLost'
<1>1. "AE" \in Ends /\ "ASUE" \in Ends /\ Peer("AE") = "ASUE"
  BY EndsAre
<1>2. \A p \in Ends : ent[p] = Free /\ inbox[p] = <<>>
  BY AssociateFresh
<1>3. PICK f \in FrameType :
          /\ f.type = "KEY_HS_START"
          /\ ToSet(inbox'["AE"]) = ToSet(inbox["AE"]) \cup {f}
          /\ inbox'["ASUE"] = inbox["ASUE"]
  <2>1. Asks("AE", "KEY_HS_START") /\ "KEY_HS_START" \in DriverTypes
    BY DEF Associate, Asks, DriverTypes
  <2>2. QED
    BY <1>1, <2>1, DriverFrame
<1>4. \A y : y \notin ToSet(<<>>)
  BY DEF ToSet
<1>5. /\ ToSet(inbox'["AE"]) = {f} /\ inbox'["ASUE"] = <<>>
      /\ ent'["AE"] = Free /\ ent'["ASUE"] = Free
  <2>1. ToSet(inbox["AE"]) = {}
    BY <1>1, <1>2, <1>4
  <2>2. QED
    BY <1>1, <1>2, <1>3, <2>1 DEF Associate, daemon
<1>6. Unasked(Free, Free, inbox'["AE"], <<>>)
  BY <1>3, <1>4, <1>5 DEF Unasked, None, Free
<1>7. ~Free.PortSecured /\ Free.WaiKeyState # "WAIT_MCAST_RESP"
  BY DEF Free
<1>8. NowGroup'
  BY <1>5, <1>6, <1>7 DEF NowGroup, Group
<1>9. QED
  BY <1>8 DEF NothingLost

\* Every step keeps it.
LEMMA GroupNext ==
    ASSUME Separate, KeysInv, KeysInv', NothingLost, [Next]_vars
    PROVE  NothingLost'
<1>1. TypeInv /\ Live /\ Live' /\ Away
  BY DEF KeysInv
<1>2. spent \in SpentType
  BY <1>1 DEF TypeInv, HandlerTypes
<1>3. ASSUME NEW p \in Ends, Callback(p) PROVE NothingLost'
  BY <1>1, <1>3, CallbackGroup
<1>4. CASE Associate
  BY <1>1, <1>4, AssociateGroup
<1>5. ASSUME NEW p \in UPDATERS, RenewUsk(p) PROVE NothingLost'
  <2>1. p \in Ends
    BY UpdatersAssumption DEF Ends
  <2>2. spent'.losses = spent.losses
    BY <1>2, <1>5 DEF RenewUsk, Spend, SpentType
  <2>3. QED
    BY <1>1, <1>5, <2>1, <2>2, RenewalGroup DEF RenewUsk, daemon, Asks
<1>6. CASE RenewMsk
  <2>1. spent'.losses = spent.losses
    BY <1>2, <1>6 DEF RenewMsk, Spend, SpentType
  <2>2. QED
    BY <1>1, <1>6, <2>1, RenewalGroup DEF RenewMsk, daemon, Ends, Asks
<1>7. ASSUME NEW p \in Ends, Lose(p) PROVE NothingLost'
  <2>1. spent'.losses = spent.losses + 1 /\ spent.losses \in Nat
    BY <1>2, <1>7 DEF Lose, Spend, SpentType
  <2>2. QED
    BY <2>1 DEF NothingLost
<1>8. CASE UNCHANGED vars
  BY <1>8 DEF vars, NothingLost, Open, NowGroup
<1>9. QED
  BY <1>3, <1>4, <1>5, <1>6, <1>7, <1>8 DEF Next

-----------------------------------------------------------------------------
(* The order of the notifies.  With one update the indices only rise.      *)

Orderly(q) ==
    \A j \in DOMAIN q : \A i \in 1 .. j - 1 :
        q[i].type = "NOTIFY" /\ q[j].type = "NOTIFY"
            => q[i].mskid <= q[j].mskid

LEMMA OrderlyTail ==
    ASSUME NEW q \in Seq(FrameType), q # <<>>, Orderly(q)
    PROVE  /\ Orderly(Tail(q))
           /\ \A m \in ToSet(Tail(q)) :
                  Head(q).type = "NOTIFY" /\ m.type = "NOTIFY"
                      => Head(q).mskid <= m.mskid
<1> DEFINE r == Tail(q)
           n == Len(q) - 1
<1>1. /\ DOMAIN q = 1 .. n + 1 /\ DOMAIN r = 1 .. n /\ n \in Nat
      /\ \A i \in 1 .. n : r[i] = q[i + 1]
      /\ Head(q) = q[1] /\ ToSet(r) = {r[i] : i \in 1 .. n}
  BY TailPlaces
<1> HIDE DEF r, n
<1>2. ASSUME NEW j \in 1 .. n, NEW i \in 1 .. j - 1,
             r[i].type = "NOTIFY", r[j].type = "NOTIFY"
      PROVE  r[i].mskid <= r[j].mskid
  <2>1. /\ i \in 1 .. n /\ j + 1 \in 1 .. n + 1 /\ i + 1 \in 1 .. (j + 1) - 1
        /\ r[i] = q[i + 1] /\ r[j] = q[j + 1]
    BY <1>1
  <2>2. QED
    BY <1>1, <1>2, <2>1 DEF Orderly
<1>3. ASSUME NEW j \in 1 .. n, q[1].type = "NOTIFY", r[j].type = "NOTIFY"
      PROVE  q[1].mskid <= r[j].mskid
  <2>1. j + 1 \in 1 .. n + 1 /\ 1 \in 1 .. (j + 1) - 1 /\ r[j] = q[j + 1]
    BY <1>1
  <2>2. QED
    BY <1>1, <1>3, <2>1 DEF Orderly
<1>4. Orderly(r)
  BY <1>1, <1>2 DEF Orderly
<1>5. \A m \in ToSet(r) : q[1].type = "NOTIFY" /\ m.type = "NOTIFY"
                              => q[1].mskid <= m.mskid
  BY <1>1, <1>3
<1>6. QED
  BY <1>1, <1>4, <1>5 DEF r

LEMMA OrderlyMore ==
    ASSUME NEW q \in Seq(FrameType), Orderly(q), NEW x \in FrameType,
           \A m \in ToSet(q) : m.type = "NOTIFY" /\ x.type = "NOTIFY"
                                   => m.mskid <= x.mskid
    PROVE  Orderly(q \o <<x>>)
<1> DEFINE r == q \o <<x>>
           n == Len(q)
<1>1. /\ DOMAIN q = 1 .. n /\ DOMAIN r = 1 .. n + 1 /\ n \in Nat
      /\ \A i \in 1 .. n : r[i] = q[i]
      /\ r[n + 1] = x /\ ToSet(q) = {q[i] : i \in 1 .. n}
  BY MorePlaces
<1> HIDE DEF r, n
<1>2. ASSUME NEW j \in 1 .. n + 1, NEW i \in 1 .. j - 1,
             r[i].type = "NOTIFY", r[j].type = "NOTIFY"
      PROVE  r[i].mskid <= r[j].mskid
  <2>1. i \in 1 .. n /\ r[i] = q[i]
    BY <1>1
  <2>2. CASE j \in 1 .. n
    BY <1>1, <1>2, <2>1, <2>2 DEF Orderly
  <2>3. CASE j = n + 1
    <3>1. q[i] \in ToSet(q) /\ r[j] = x
      BY <1>1, <2>1, <2>3
    <3>2. QED
      BY <1>2, <2>1, <3>1
  <2>4. QED
    BY <1>1, <2>2, <2>3
<1>3. QED
  BY <1>1, <1>2 DEF Orderly, r

LEMMA OrderlyRemoveAt ==
    ASSUME NEW q \in Seq(FrameType), Orderly(q), NEW k \in 1 .. Len(q)
    PROVE  Orderly(RemoveAt(q, k))
<1> DEFINE r == RemoveAt(q, k)
           n == Len(q) - 1
           P(i) == IF i < k THEN i ELSE i + 1
<1>1. r \in Seq(FrameType) /\ Len(r) = n /\ n \in Nat
  BY RemoveAtProperties
<1>2. /\ DOMAIN q = 1 .. n + 1 /\ DOMAIN r = 1 .. n
      /\ \A i \in 1 .. n : r[i] = q[P(i)]
  <2>1. \A i \in 1 .. n : r[i] = IF i < k THEN q[i] ELSE q[i + 1]
    BY RemoveAtProperties
  <2>2. DOMAIN q = 1 .. n + 1 /\ DOMAIN r = 1 .. n
    BY <1>1, ToSetRange
  <2>3. QED
    BY <2>1, <2>2
<1> HIDE DEF r, n
<1>3. ASSUME NEW j \in 1 .. n, NEW i \in 1 .. j - 1,
             r[i].type = "NOTIFY", r[j].type = "NOTIFY"
      PROVE  r[i].mskid <= r[j].mskid
  <2>1. /\ i \in 1 .. n /\ P(j) \in 1 .. n + 1 /\ P(i) \in 1 .. P(j) - 1
    BY <1>1
  <2>2. r[i] = q[P(i)] /\ r[j] = q[P(j)]
    BY <1>2, <2>1
  <2> HIDE DEF P
  <2>3. QED
    BY <1>2, <1>3, <2>1, <2>2 DEF Orderly
<1>4. QED
  BY <1>2, <1>3 DEF Orderly, r

\* k is the key of the driver of the AE.
Rise(a, ia, is, ma, ms, k) ==
    /\ ms <= ma /\ ma <= k
    /\ \A m \in ToSet(is) : m.type = "NOTIFY" => ms <= m.mskid /\ m.mskid <= ma
    /\ Orderly(is)
    /\ \A m \in ToSet(ia) : m.type = "MCAST_RESP" => m.mskid <= ms
    /\ a.PortSecured /\ a.WaiKeyState # "WAIT_MCAST_RESP" => ms = ma

\* The socket q becomes r: frames of this type go, others may come.
Thins(r, q, type) ==
    /\ \A m \in ToSet(r) : m.type = type => m \in ToSet(q)
    /\ Orderly(q) => Orderly(r)

LEMMA RiseThins ==
    ASSUME NEW a, NEW ia, NEW is, NEW ma, NEW ms, NEW k,
           Rise(a, ia, is, ma, ms, k),
           NEW e, e.PortSecured /\ e.WaiKeyState # "WAIT_MCAST_RESP"
                      => \/ a.PortSecured /\ a.WaiKeyState # "WAIT_MCAST_RESP"
                         \/ ms = ma,
           NEW ja, \A m \in ToSet(ja) : m.type = "MCAST_RESP"
                                            => m \in ToSet(ia),
           NEW js, Thins(js, is, "NOTIFY")
    PROVE  Rise(e, ja, js, ma, ms, k)
  BY DEF Rise, Thins

LEMMA FrameIds == \A m \in FrameType : m.mskid \in 0 .. 1
  BY DEF FrameType

\* The AE sends a notify, or would if the station were associated.
LEMMA RiseAnnounced ==
    ASSUME NEW a, NEW ia, NEW is \in Seq(FrameType), NEW ma \in 0 .. 1,
           NEW ms \in 0 .. 1, NEW k \in 0 .. 1, Rise(a, ia, is, ma, ms, k),
           NEW e, e.WaiKeyState = "WAIT_MCAST_RESP",
           NEW ja, ToSet(ja) \subseteq ToSet(ia),
           NEW f \in FrameType, f.mskid = k
    PROVE  Rise(e, ja, is, k, ms, k) /\ Rise(e, ja, is \o <<f>>, k, ms, k)
<1>1. ToSet(is \o <<f>>) = ToSet(is) \cup {f}
  BY FrameComes
<1>2. \A m \in ToSet(is) : m \in FrameType /\ m.mskid \in 0 .. 1
  BY ToSetRange, FrameIds
<1>3. \A m \in ToSet(is) : m.type = "NOTIFY" => m.mskid <= k
  BY <1>2 DEF Rise
<1>4. Orderly(is) /\ Orderly(is \o <<f>>)
  BY <1>3, OrderlyMore DEF Rise
<1>5. ms <= k
  BY DEF Rise
<1>6. \A m \in ToSet(is \o <<f>>) :
          m.type = "NOTIFY" => ms <= m.mskid /\ m.mskid <= k
  <2>1. \A m \in ToSet(is) : m.type = "NOTIFY" => ms <= m.mskid
    BY DEF Rise
  <2>2. \A m \in ToSet(is \o <<f>>) : m \in ToSet(is) \/ m = f
    BY <1>1
  <2>3. ms <= f.mskid /\ f.mskid <= k
    BY <1>5
  <2>4. QED
    BY <1>3, <2>1, <2>2, <2>3
<1>7. \A m \in ToSet(ja) : m.type = "MCAST_RESP" => m.mskid <= ms
  BY DEF Rise
<1>8. \A m \in ToSet(is) : m.type = "NOTIFY" => ms <= m.mskid /\ m.mskid <= k
  BY <1>1, <1>6
<1>9. QED
  BY <1>4, <1>5, <1>6, <1>7, <1>8 DEF Rise

\* The ASUE takes one.
LEMMA RiseTold ==
    ASSUME NEW a, NEW ia \in Seq(FrameType), NEW is \in Seq(FrameType),
           NEW ma \in 0 .. 1, NEW ms \in 0 .. 1, NEW k,
           Rise(a, ia, is, ma, ms, k), is # <<>>, Head(is).type = "NOTIFY",
           NEW f \in FrameType, f.mskid = Head(is).mskid
    PROVE  /\ Rise(a, ia, Tail(is), ma, Head(is).mskid, k)
           /\ Rise(a, ia \o <<f>>, Tail(is), ma, Head(is).mskid, k)
<1> DEFINE n == Head(is).mskid
           js == Tail(is)
<1>1. ToSet(ia \o <<f>>) = ToSet(ia) \cup {f}
  BY FrameComes
<1>2. Head(is) \in ToSet(is) /\ ToSet(js) \subseteq ToSet(is)
  BY ShrinksTail DEF Shrinks
<1>3. /\ \A m \in ToSet(is) \cup ToSet(ia) :
            m \in FrameType /\ m.mskid \in 0 .. 1
      /\ n \in 0 .. 1
  <2>1. \A m \in ToSet(is) \cup ToSet(ia) : m \in FrameType
    BY ToSetRange
  <2>2. QED
    BY <1>2, <2>1 DEF FrameType
<1>4. ms <= n /\ n <= ma
  BY <1>2 DEF Rise
<1>5. /\ Orderly(js)
      /\ \A m \in ToSet(js) : m.type = "NOTIFY" => n <= m.mskid
  BY OrderlyTail DEF Rise
<1> HIDE DEF n, js
<1>6. \A m \in ToSet(js) : m.type = "NOTIFY" => m.mskid <= ma
  BY <1>2 DEF Rise
<1>7. \A m \in ToSet(ia \o <<f>>) : m.type = "MCAST_RESP" => m.mskid <= n
  <2>1. \A m \in ToSet(ia) : m.type = "MCAST_RESP" => m.mskid <= n
    <3>1. \A m \in ToSet(ia) : m.type = "MCAST_RESP" => m.mskid <= ms
      BY DEF Rise
    <3>2. \A m \in ToSet(ia) : m.mskid \in 0 .. 1
      BY <1>3
    <3>3. QED
      BY <1>3, <1>4, <3>1, <3>2
  <2>2. f.mskid <= n
    BY <1>3 DEF n
  <2>3. QED
    BY <1>1, <2>1, <2>2
<1>8. a.PortSecured /\ a.WaiKeyState # "WAIT_MCAST_RESP" => n = ma
  BY <1>3, <1>4 DEF Rise
<1>9. ma <= k
  BY DEF Rise
<1>10. \A m \in ToSet(ia) : m.type = "MCAST_RESP" => m.mskid <= n
  BY <1>1, <1>7
<1>11. QED
  BY <1>4, <1>5, <1>6, <1>7, <1>8, <1>9, <1>10 DEF Rise, n, js

\* What comes to the peer,
LEMMA MovesFrames ==
    ASSUME TypeInv, NEW p \in Ends, NEW e, NEW rest, NEW out,
           Moves(p, e, rest, out),
           out = <<>> \/ \E f \in FrameType : out = <<f>>
    PROVE  /\ ent'[p] = e /\ ent'[Peer(p)] = ent[Peer(p)]
           /\ inbox'[p] = rest
           /\ \/ inbox'[Peer(p)] = inbox[Peer(p)]
              \/ \E f \in FrameType :
                     out = <<f>> /\ inbox'[Peer(p)] = inbox[Peer(p)] \o <<f>>
<1>1. inbox[Peer(p)] \in Seq(FrameType)
  BY DEF TypeInv, HandlerTypes, Ends, Peer
<1>2. inbox[Peer(p)] \o <<>> = inbox[Peer(p)]
  BY <1>1
<1>3. \/ inbox'[Peer(p)] = inbox[Peer(p)] \o <<>>
      \/ inbox'[Peer(p)] = inbox[Peer(p)] \o out
  BY DEF Moves
<1>4. QED
  BY <1>2, <1>3 DEF Moves

\* and to both ends when the association is ended.
LEMMA CutFrames ==
    ASSUME TypeInv, NEW p, DisconnectStaLink(p), NEW q \in Ends
    PROVE  \/ inbox'[q] = inbox[q]
           \/ \E f \in FrameType :
                  f.type = "DELETE" /\ inbox'[q] = inbox[q] \o <<f>> /\ link
<1> DEFINE f == [Frame EXCEPT !.type = "DELETE"]
<1>1. f \in FrameType /\ f.type = "DELETE"
  <2>1. "DELETE" \in DriverTypes
    BY Zenon DEF DriverTypes
  <2>2. QED
    BY <2>1, MadeFrames
<1>2. inbox[q] \in Seq(FrameType) /\ inbox[q] \o <<>> = inbox[q]
  <2>1. inbox[q] \in Seq(FrameType)
    BY DEF TypeInv, HandlerTypes
  <2>2. QED
    BY <2>1
<1>3. inbox'[q] = inbox[q] \o IF link THEN <<f>> ELSE <<>>
  BY DEF DisconnectStaLink
<1> HIDE DEF f
<1>4. QED
  BY <1>1, <1>2, <1>3

\* A head goes, or a frame comes that is no notify.
LEMMA ThinsLess ==
    ASSUME NEW q \in Seq(FrameType),
           NEW r, r = q \/ (q # <<>> /\ r = Tail(q)), NEW type
    PROVE  Thins(r, q, type) /\ ToSet(r) \subseteq ToSet(q)
<1>1. q # <<>> => ToSet(Tail(q)) \subseteq ToSet(q)
  BY ShrinksTail DEF Shrinks
<1>2. q # <<>> /\ Orderly(q) => Orderly(Tail(q))
  BY OrderlyTail
<1>3. QED
  BY <1>1, <1>2 DEF Thins

LEMMA ThinsMore ==
    ASSUME NEW q \in Seq(FrameType), NEW f \in FrameType, f.type # "NOTIFY",
           NEW r, r = q \/ r = q \o <<f>>
    PROVE  Thins(r, q, "NOTIFY")
<1>1. ToSet(q \o <<f>>) = ToSet(q) \cup {f}
  BY FrameComes
<1>2. Orderly(q) => Orderly(q \o <<f>>)
  BY OrderlyMore
<1>3. QED
  BY <1>1, <1>2 DEF Thins

Rising ==
    spent.msks <= 1 =>
        /\ msk["AE"] <= spent.msks
        /\ Rise(ent["AE"], inbox["AE"], inbox["ASUE"],
                mskid["AE"], mskid["ASUE"], msk["AE"])

\* An index goes with its key,
Indexed ==
    /\ mskid["ASUE"] = msk["ASUE"] % 2
    /\ \A m \in ToSet(inbox["ASUE"]) : m.type = "NOTIFY" => m.mskid = m.msk % 2

\* and the AE takes no notify: one comes only when it waits for a confirmation
\* that nobody sends, until the entry is deleted with the last frame.
Plain ==
    /\ \A m \in ToSet(inbox["AE"]) :
           m.type # "CFM" /\ (m.type = "NOTIFY" => ~Open)
    /\ \A i \in DOMAIN inbox["AE"] :
           inbox["AE"][i].type = "DELETE" => i = Len(inbox["AE"])

LEMMA PointRises ==
    ASSUME TypeInv, Plain, Rising, Callback("AE")
    PROVE  Rising'
<1> DEFINE a == ent["AE"]
           ia == inbox["AE"]
           is == inbox["ASUE"]
           ma == mskid["AE"]
           ms == mskid["ASUE"]
           k == msk["AE"]
<1>1. "AE" \in Ends /\ "ASUE" \in Ends /\ Peer("AE") = "ASUE"
  BY EndsAre
<1>2. spent' = spent /\ Turn("AE")
  BY <1>1, CallbackTurns, CallbackDoes
<1> SUFFICES ASSUME spent.msks <= 1 PROVE Rising'
  BY <1>2 DEF Rising
<1>3. /\ ia \in Seq(FrameType) /\ is \in Seq(FrameType)
      /\ mskid \in [Ends -> 0 .. 1] /\ k \in Nat /\ spent.msks \in Nat
  BY DEF TypeInv, HandlerTypes, Ends, SpentType
<1>4. k <= spent.msks /\ Rise(a, ia, is, ma, ms, k)
  BY DEF Rising
<1>5. k \in 0 .. 1 /\ k % 2 = k /\ ma \in 0 .. 1 /\ ms \in 0 .. 1
  <2>1. ma \in 0 .. 1 /\ ms \in 0 .. 1
    BY <1>1, <1>3
  <2> HIDE DEF ma, ms, k
  <2>2. k \in 0 .. 1
    BY <1>3, <1>4
  <2>3. \A i \in 0 .. 1 : i % 2 = i
    OBVIOUS
  <2>4. QED
    BY <2>1, <2>2, <2>3
<1>6. ASSUME NEW e, NEW ja, NEW js, NEW na, ent'["AE"] = e,
             inbox'["AE"] = ja, inbox'["ASUE"] = js,
             mskid'["AE"] = na, mskid'["ASUE"] = ms, msk'["AE"] = k,
             Rise(e, ja, js, na, ms, k)
      PROVE  Rising'
  BY <1>2, <1>4, <1>6 DEF Rising
<1>7. \A r : Rests("AE", r) => r = ia \/ (ia # <<>> /\ r = Tail(ia))
  BY DEF Rests
<1>8. ASSUME NEW e, NEW rest, NEW out, Moves("AE", e, rest, out),
             out = <<>> \/ \E f \in FrameType : out = <<f>>
      PROVE  /\ ent'["AE"] = e /\ inbox'["AE"] = rest
             /\ \/ inbox'["ASUE"] = is
                \/ \E f \in FrameType :
                       out = <<f>> /\ inbox'["ASUE"] = is \o <<f>>
  <2>1. /\ ent'["AE"] = e /\ inbox'["AE"] = rest
        /\ \/ inbox'[Peer("AE")] = inbox[Peer("AE")]
           \/ \E f \in FrameType : out = <<f>> /\
                  inbox'[Peer("AE")] = inbox[Peer("AE")] \o <<f>>
    BY <1>1, <1>8, MovesFrames, Zenon
  <2>2. QED
    BY <1>1, <2>1
<1> HIDE DEF a, ia, is, ma, ms, k
<1>9. UNCHANGED <<mskid, msk>> =>
          mskid'["AE"] = ma /\ mskid'["ASUE"] = ms /\ msk'["AE"] = k
  BY DEF ma, ms, k
<1>10. ASSUME NEW e, NEW rest, NEW out, Moves("AE", e, rest, out),
              rest = ia \/ (ia # <<>> /\ rest = Tail(ia)),
              \/ out = <<>>
              \/ \E f \in FrameType : out = <<f>> /\ f.type # "NOTIFY",
              UNCHANGED <<mskid, msk>>,
              e.PortSecured /\ e.WaiKeyState # "WAIT_MCAST_RESP"
                  => \/ a.PortSecured /\ a.WaiKeyState # "WAIT_MCAST_RESP"
                     \/ ms = ma
       PROVE  Rising'
  <2>1. ToSet(rest) \subseteq ToSet(ia)
    BY <1>3, <1>10, ThinsLess
  <2>2. PICK js : js = inbox'["ASUE"]
    OBVIOUS
  <2>3. js = is \/ \E f \in FrameType : f.type # "NOTIFY" /\ js = is \o <<f>>
    BY <1>8, <1>10, <2>2
  <2>4. Thins(js, is, "NOTIFY")
    BY <1>3, <2>3, ThinsMore DEF Thins
  <2>5. Rise(e, rest, js, ma, ms, k)
    BY <1>4, <1>10, <2>1, <2>4, RiseThins
  <2>6. ent'["AE"] = e /\ inbox'["AE"] = rest
    BY <1>8, <1>10
  <2>7. QED
    BY <1>6, <1>9, <1>10, <2>2, <2>5, <2>6
<1>11. ASSUME NEW m, NEW type, NEW e, NEW out, Reads("AE", m, type, e, out)
       PROVE  /\ m \in ToSet(ia) /\ m.type = type
              /\ ia # <<>> /\ Moves("AE", e, Tail(ia), out)
  <2>1. ia # <<>> => Head(ia) \in ToSet(ia)
    BY <1>1, RestsLess DEF ia
  <2>2. QED
    BY <1>11, <2>1 DEF Reads, ia
<1>12. CASE Kept("AE")
  BY <1>7, <1>10, <1>12 DEF Kept, Like, a
<1>13. CASE Deleted("AE")
  <2>1. ~Free.PortSecured
    BY DEF Free
  <2>2. QED
    BY <1>10, <1>11, <1>13, <2>1 DEF Deleted
<1>14. CASE Cut("AE")
  <2>1. Like(ent'["AE"], a) /\ UNCHANGED <<mskid, msk>>
    BY <1>14 DEF Cut, a
  <2>2. /\ \/ inbox'["AE"] = ia
           \/ \E f \in FrameType :
                  f.type = "DELETE" /\ inbox'["AE"] = ia \o <<f>>
        /\ \/ inbox'["ASUE"] = is
           \/ \E f \in FrameType :
                  f.type = "DELETE" /\ inbox'["ASUE"] = is \o <<f>>
    BY <1>1, <1>14, CutFrames DEF Cut, ia, is
  <2>3. \A m \in ToSet(inbox'["AE"]) : m.type = "MCAST_RESP" => m \in ToSet(ia)
    <3>1. \A f \in FrameType : ToSet(ia \o <<f>>) = ToSet(ia) \cup {f}
      BY <1>3, FrameComes
    <3>2. QED
      BY <2>2, <3>1
  <2>4. Thins(inbox'["ASUE"], is, "NOTIFY")
    BY <1>3, <2>2, ThinsMore DEF Thins
  <2>5. Rise(ent'["AE"], inbox'["AE"], inbox'["ASUE"], ma, ms, k)
    BY <1>4, <2>1, <2>3, <2>4, RiseThins DEF Like
  <2>6. QED
    BY <1>6, <1>9, <2>1, <2>5
<1>15. CASE Asked("AE")
  BY <1>7, <1>10, <1>15 DEF Asked, Requested, DoneStates, a
<1>16. CASE Repeated("AE")
  BY <1>7, <1>10, <1>16 DEF Repeated, SentResponse, Like, DoneStates, a
<1>17. CASE Announced("AE")
  <2>1. PICK e \in EntType, f \in FrameType, rest \in Seq(FrameType) :
            /\ Moves("AE", e, rest, <<f>>) /\ Rests("AE", rest)
            /\ e.WaiKeyState = "WAIT_MCAST_RESP" /\ f.mskid = k
    BY <1>5, <1>17 DEF Announced, Notified, k
  <2>2. mskid'["AE"] = k /\ mskid'["ASUE"] = ms /\ msk'["AE"] = k
    <3>1. mskid' = [mskid EXCEPT !["AE"] = k] /\ msk' = msk
      BY <1>5, <1>17 DEF Announced, k
    <3>2. QED
      BY <1>1, <1>3, <3>1 DEF ms, k
  <2>3. ToSet(rest) \subseteq ToSet(ia)
    BY <1>3, <1>7, <2>1, ThinsLess
  <2>4. inbox'["ASUE"] \in {is, is \o <<f>>}
    <3>1. \A g : <<f>> = <<g>> => f = g
      OBVIOUS
    <3>2. QED
      BY <1>8, <2>1, <3>1
  <2>5. Rise(e, rest, inbox'["ASUE"], k, ms, k)
    <3>1. /\ is \in Seq(FrameType) /\ ma \in 0 .. 1 /\ ms \in 0 .. 1
          /\ k \in 0 .. 1 /\ Rise(a, ia, is, ma, ms, k)
          /\ e.WaiKeyState = "WAIT_MCAST_RESP" /\ f \in FrameType
          /\ f.mskid = k /\ ToSet(rest) \subseteq ToSet(ia)
      BY <1>3, <1>4, <1>5, <2>1, <2>3
    <3>2. /\ Rise(e, rest, is, k, ms, k)
          /\ Rise(e, rest, is \o <<f>>, k, ms, k)
      BY <3>1, RiseAnnounced
    <3>3. CASE inbox'["ASUE"] = is
      BY <3>2, <3>3
    <3>4. CASE inbox'["ASUE"] = is \o <<f>>
      BY <3>2, <3>4
    <3>5. QED
      BY <2>4, <3>3, <3>4
  <2>6. ent'["AE"] = e /\ inbox'["AE"] = rest
    BY <1>8, <2>1
  <2>7. QED
    BY <1>6, <2>2, <2>5, <2>6
<1>18. CASE Answered("AE")
  <2>1. PICK m \in FrameType, e \in EntType, f \in FrameType :
            /\ Reads("AE", m, "REQ", e, <<f>>)
            /\ f.type = "RESP" /\ e.PortSecured = a.PortSecured
    BY <1>18 DEF Answered, Responded, a
  <2>2. a.WaiKeyState # "WAIT_MCAST_RESP" /\ UNCHANGED <<mskid, msk>>
    BY <1>18 DEF Answered, DoneStates, a
  <2>3. ia # <<>> /\ Moves("AE", e, Tail(ia), <<f>>)
    BY <1>11, <2>1
  <2>4. QED
    BY <1>10, <2>1, <2>2, <2>3
<1>19. CASE Rejected("AE")
  BY <1>10, <1>11, <1>19 DEF Rejected, a
<1>20. CASE Admitted("AE")
  <2>1. PICK m \in FrameType, e \in EntType, f \in FrameType :
            /\ Reads("AE", m, "RESP", e, <<f>>)
            /\ f.type = "CFM" /\ e.PortSecured = a.PortSecured
    BY <1>20 DEF Admitted, Accepted, a
  <2>2. a.WaiKeyState # "WAIT_MCAST_RESP" /\ UNCHANGED <<mskid, msk>>
    BY <1>20 DEF Admitted, DoneStates, a
  <2>3. ia # <<>> /\ Moves("AE", e, Tail(ia), <<f>>)
    BY <1>11, <2>1
  <2>4. QED
    BY <1>10, <2>1, <2>2, <2>3
<1>21. CASE Confirmed("AE")
  BY <1>11, <1>21 DEF Confirmed, Plain, ia
<1>22. CASE Told("AE")
  BY <1>11, <1>22 DEF Told, Plain, Open, DoneStates, ia
<1>23. CASE Closed("AE")
  <2>1. PICK m \in FrameType, e \in EntType :
            Reads("AE", m, "MCAST_RESP", e, <<>>) /\ m.mskid = ma
    BY <1>23 DEF Closed, ma
  <2>2. ms = ma
    <3>1. m.mskid <= ms /\ ms <= ma
      BY <1>4, <1>11, <2>1 DEF Rise
    <3>2. QED
      BY <1>5, <2>1, <3>1
  <2>3. UNCHANGED <<mskid, msk>>
    BY <1>23 DEF Closed
  <2>4. QED
    BY <1>10, <1>11, <2>1, <2>2, <2>3
<1>24. QED
  BY <1>2, <1>12, <1>13, <1>14, <1>15, <1>16, <1>17, <1>18, <1>19, <1>20,
     <1>21, <1>22, <1>23 DEF Turn

LEMMA StationRises ==
    ASSUME TypeInv, Indexed, Rising, Callback("ASUE")
    PROVE  Rising'
<1> DEFINE a == ent["AE"]
           ia == inbox["AE"]
           is == inbox["ASUE"]
           ma == mskid["AE"]
           ms == mskid["ASUE"]
           k == msk["AE"]
<1>1. "AE" \in Ends /\ "ASUE" \in Ends /\ Peer("ASUE") = "AE"
  BY EndsAre
<1>2. spent' = spent /\ Turn("ASUE")
  BY <1>1, CallbackTurns, CallbackDoes
<1> SUFFICES ASSUME spent.msks <= 1 PROVE Rising'
  BY <1>2 DEF Rising
<1>3. /\ ia \in Seq(FrameType) /\ is \in Seq(FrameType)
      /\ mskid \in [Ends -> 0 .. 1] /\ msk \in [Ends -> Nat]
  BY DEF TypeInv, HandlerTypes, Ends
<1>4. k <= spent.msks /\ Rise(a, ia, is, ma, ms, k)
  BY DEF Rising
<1>5. ma \in 0 .. 1 /\ ms \in 0 .. 1
  BY <1>1, <1>3
<1>6. ASSUME NEW ja, NEW js, NEW ns, ent'["AE"] = a,
             inbox'["AE"] = ja, inbox'["ASUE"] = js,
             mskid'["AE"] = ma, mskid'["ASUE"] = ns, msk'["AE"] = k,
             Rise(a, ja, js, ma, ns, k)
      PROVE  Rising'
  BY <1>2, <1>4, <1>6 DEF Rising
<1>7. \A r : Rests("ASUE", r) => r = is \/ (is # <<>> /\ r = Tail(is))
  BY DEF Rests
<1>8. ASSUME NEW e, NEW rest, NEW out, Moves("ASUE", e, rest, out),
             out = <<>> \/ \E f \in FrameType : out = <<f>>
      PROVE  /\ ent'["AE"] = a /\ inbox'["ASUE"] = rest
             /\ \/ inbox'["AE"] = ia
                \/ \E f \in FrameType :
                       out = <<f>> /\ inbox'["AE"] = ia \o <<f>>
  <2>1. /\ ent'[Peer("ASUE")] = ent[Peer("ASUE")] /\ inbox'["ASUE"] = rest
        /\ \/ inbox'[Peer("ASUE")] = inbox[Peer("ASUE")]
           \/ \E f \in FrameType : out = <<f>> /\
                  inbox'[Peer("ASUE")] = inbox[Peer("ASUE")] \o <<f>>
    BY <1>1, <1>8, MovesFrames, Zenon
  <2>2. QED
    BY <1>1, <2>1
<1>9. ms = msk["ASUE"] % 2
  BY DEF Indexed
<1> HIDE DEF a, ia, is, ma, ms, k
<1>10. ASSUME NEW e, NEW rest, NEW out, Moves("ASUE", e, rest, out),
              rest = is \/ (is # <<>> /\ rest = Tail(is)),
              \/ out = <<>>
              \/ \E f \in FrameType : out = <<f>> /\ f.type # "MCAST_RESP",
              mskid' = mskid, msk' = msk
       PROVE  Rising'
  <2>1. Thins(rest, is, "NOTIFY")
    BY <1>3, <1>10, ThinsLess
  <2>2. PICK ja : ja = inbox'["AE"]
    OBVIOUS
  <2>3. \/ ja = ia
        \/ \E f \in FrameType : f.type # "MCAST_RESP" /\ ja = ia \o <<f>>
    BY <1>8, <1>10, <2>2
  <2>4. \A m \in ToSet(ja) : m.type = "MCAST_RESP" => m \in ToSet(ia)
    <3>1. \A f \in FrameType : ToSet(ia \o <<f>>) = ToSet(ia) \cup {f}
      BY <1>3, FrameComes
    <3>2. QED
      BY <2>3, <3>1
  <2>5. Rise(a, ja, rest, ma, ms, k)
    BY <1>4, <2>1, <2>4, RiseThins
  <2>6. ent'["AE"] = a /\ inbox'["ASUE"] = rest
    BY <1>8, <1>10
  <2>7. mskid'["AE"] = ma /\ mskid'["ASUE"] = ms /\ msk'["AE"] = k
    BY <1>10 DEF ma, ms, k
  <2>8. QED
    BY <1>6, <2>2, <2>5, <2>6, <2>7
<1>11. ASSUME NEW m, NEW type, NEW e, NEW out, Reads("ASUE", m, type, e, out)
       PROVE  /\ m.type = type /\ m = Head(is)
              /\ is # <<>> /\ Moves("ASUE", e, Tail(is), out)
  BY <1>11 DEF Reads, is
<1>12. CASE Kept("ASUE")
  BY <1>7, <1>10, <1>12 DEF Kept
<1>13. CASE Deleted("ASUE")
  BY <1>10, <1>11, <1>13 DEF Deleted
<1>14. CASE Cut("ASUE")
  <2>1. ent'["AE"] = a /\ UNCHANGED <<mskid, msk>>
    BY <1>1, <1>14 DEF Cut, a
  <2>2. /\ \/ inbox'["AE"] = ia
           \/ \E f \in FrameType :
                  f.type = "DELETE" /\ inbox'["AE"] = ia \o <<f>>
        /\ \/ inbox'["ASUE"] = is
           \/ \E f \in FrameType :
                  f.type = "DELETE" /\ inbox'["ASUE"] = is \o <<f>>
    BY <1>1, <1>14, CutFrames DEF Cut, ia, is
  <2>3. \A m \in ToSet(inbox'["AE"]) : m.type = "MCAST_RESP" => m \in ToSet(ia)
    <3>1. \A f \in FrameType : ToSet(ia \o <<f>>) = ToSet(ia) \cup {f}
      BY <1>3, FrameComes
    <3>2. QED
      BY <2>2, <3>1
  <2>4. Thins(inbox'["ASUE"], is, "NOTIFY")
    BY <1>3, <2>2, ThinsMore DEF Thins
  <2>5. Rise(a, inbox'["AE"], inbox'["ASUE"], ma, ms, k)
    BY <1>4, <2>3, <2>4, RiseThins
  <2>6. mskid'["AE"] = ma /\ mskid'["ASUE"] = ms /\ msk'["AE"] = k
    BY <2>1 DEF ma, ms, k
  <2>7. QED
    BY <1>6, <2>1, <2>5, <2>6
<1>15. CASE Asked("ASUE")
  BY <1>7, <1>10, <1>15 DEF Asked, Requested
<1>16. CASE Repeated("ASUE")
  BY <1>7, <1>10, <1>16 DEF Repeated, SentResponse
<1>17. CASE Announced("ASUE")
  <2>1. PICK e \in EntType, f \in FrameType, rest \in Seq(FrameType) :
            /\ Moves("ASUE", e, rest, <<f>>) /\ Rests("ASUE", rest)
            /\ f.type = "NOTIFY"
    BY <1>17 DEF Announced, Notified
  <2>2. mskid' = mskid /\ msk' = msk
    <3>1. mskid' = [mskid EXCEPT !["ASUE"] = ms] /\ msk' = msk
      BY <1>9, <1>17 DEF Announced
    <3>2. QED
      BY <1>1, <1>3, <3>1 DEF ms
  <2>3. QED
    BY <1>7, <1>10, <2>1, <2>2
<1>18. CASE Answered("ASUE")
  BY <1>10, <1>11, <1>18 DEF Answered, Responded
<1>19. CASE Rejected("ASUE")
  BY <1>10, <1>11, <1>19 DEF Rejected
<1>20. CASE Admitted("ASUE")
  BY <1>10, <1>11, <1>20 DEF Admitted, Accepted
<1>21. CASE Confirmed("ASUE")
  BY <1>10, <1>11, <1>21 DEF Confirmed
<1>22. CASE Told("ASUE")
  <2>1. PICK m \in FrameType, e \in EntType, f \in FrameType :
            /\ Reads("ASUE", m, "NOTIFY", e, <<f>>) /\ f.mskid = m.mskid
            /\ mskid' = [mskid EXCEPT !["ASUE"] = m.mskid]
            /\ msk' = [msk EXCEPT !["ASUE"] = m.msk]
    BY <1>22 DEF Told
  <2>2. is # <<>> /\ m = Head(is) /\ Head(is).type = "NOTIFY"
    BY <1>11, <2>1
  <2>3. Moves("ASUE", e, Tail(is), <<f>>)
    BY <1>11, <2>1
  <2>4. /\ mskid'["AE"] = ma /\ mskid'["ASUE"] = Head(is).mskid
        /\ msk'["AE"] = k
    BY <1>1, <1>3, <2>1, <2>2 DEF ma, k
  <2>5. f.mskid = Head(is).mskid
    BY <2>1, <2>2
  <2>6. /\ Rise(a, ia, Tail(is), ma, Head(is).mskid, k)
        /\ Rise(a, ia \o <<f>>, Tail(is), ma, Head(is).mskid, k)
    BY <1>3, <1>4, <1>5, <2>2, <2>5, RiseTold
  <2>7. inbox'["AE"] = ia \/ inbox'["AE"] = ia \o <<f>>
    <3>1. \A g : <<f>> = <<g>> => f = g
      OBVIOUS
    <3>2. QED
      BY <1>8, <2>3, <3>1
  <2>8. Rise(a, inbox'["AE"], Tail(is), ma, Head(is).mskid, k)
    BY <2>6, <2>7
  <2>9. ent'["AE"] = a /\ inbox'["ASUE"] = Tail(is)
    BY <1>8, <2>3
  <2>10. QED
    BY <1>6, <2>4, <2>8, <2>9
<1>23. CASE Closed("ASUE")
  BY <1>10, <1>11, <1>23 DEF Closed
<1>24. QED
  BY <1>2, <1>12, <1>13, <1>14, <1>15, <1>16, <1>17, <1>18, <1>19, <1>20,
     <1>21, <1>22, <1>23 DEF Turn

\* The drivers and the air.
LEMMA AirRises ==
    ASSUME TypeInv, Rising,
           \/ Associate
           \/ \E p \in UPDATERS : RenewUsk(p)
           \/ RenewMsk
           \/ \E p \in Ends : Lose(p)
    PROVE  Rising'
<1>1. /\ inbox \in [Ends -> Seq(FrameType)] /\ spent \in SpentType
      /\ msk \in [Ends -> Nat] /\ mskid \in [Ends -> 0 .. 1]
      /\ "AE" \in Ends /\ "ASUE" \in Ends
  BY DEF TypeInv, HandlerTypes, Ends
<1>2. /\ spent.msks \in Nat /\ msk["AE"] \in Nat
      /\ mskid["AE"] \in 0 .. 1 /\ mskid["ASUE"] \in 0 .. 1
  BY <1>1 DEF SpentType
<1>3. ASSUME ent' = ent, mskid' = mskid,
             \/ msk'["AE"] = msk["AE"] /\ spent'.msks = spent.msks
             \/ /\ msk'["AE"] = msk["AE"] + 1
                /\ spent'.msks = spent.msks + 1,
             \A m \in ToSet(inbox'["AE"]) :
                 m.type = "MCAST_RESP" => m \in ToSet(inbox["AE"]),
             Thins(inbox'["ASUE"], inbox["ASUE"], "NOTIFY")
      PROVE  Rising'
  <2>1. SUFFICES ASSUME spent'.msks <= 1
                 PROVE  /\ msk'["AE"] <= spent'.msks
                        /\ Rise(ent["AE"], inbox'["AE"], inbox'["ASUE"],
                                mskid["AE"], mskid["ASUE"], msk'["AE"])
    BY <1>3 DEF Rising
  <2>2. /\ msk["AE"] <= spent.msks
        /\ Rise(ent["AE"], inbox["AE"], inbox["ASUE"],
                mskid["AE"], mskid["ASUE"], msk["AE"])
    BY <1>2, <1>3, <2>1 DEF Rising
  <2>3. Rise(ent["AE"], inbox'["AE"], inbox'["ASUE"],
             mskid["AE"], mskid["ASUE"], msk["AE"])
    BY <1>3, <2>2, RiseThins
  <2>4. mskid["AE"] <= msk["AE"] => mskid["AE"] <= msk'["AE"]
    BY <1>2, <1>3
  <2>5. Rise(ent["AE"], inbox'["AE"], inbox'["ASUE"],
             mskid["AE"], mskid["ASUE"], msk'["AE"])
    BY <2>3, <2>4 DEF Rise
  <2>6. QED
    BY <1>2, <1>3, <2>2, <2>5
<1>4. ASSUME NEW p \in Ends, NEW x \in {"KEY_HS_START", "UPDATE_USK",
                                        "UPDATE_MSK"},
             Asks(p, x), ent' = ent, mskid' = mskid,
             \/ msk'["AE"] = msk["AE"] /\ spent'.msks = spent.msks
             \/ /\ msk'["AE"] = msk["AE"] + 1
                /\ spent'.msks = spent.msks + 1
      PROVE  Rising'
  <2>1. PICK f \in FrameType :
            /\ f.type = x
            /\ inbox'[p] = inbox[p] \o <<f>>
            /\ ToSet(inbox'[p]) = ToSet(inbox[p]) \cup {f}
            /\ inbox'[Peer(p)] = inbox[Peer(p)]
    <3>1. x \in DriverTypes
      BY Zenon DEF DriverTypes
    <3>2. QED
      BY <1>4, <3>1, DriverFrame
  <2>2. \A m \in ToSet(inbox'["AE"]) :
            m.type = "MCAST_RESP" => m \in ToSet(inbox["AE"])
    BY <2>1 DEF Ends, Peer
  <2>3. inbox'["ASUE"] = inbox["ASUE"]
            \/ inbox'["ASUE"] = inbox["ASUE"] \o <<f>>
    BY <2>1 DEF Ends, Peer
  <2>4. Thins(inbox'["ASUE"], inbox["ASUE"], "NOTIFY")
    BY <1>1, <2>1, <2>3, ThinsMore
  <2>5. QED
    BY <1>3, <1>4, <2>2, <2>4
<1>5. /\ \A x \in {"assocs", "usks", "losses"} :
             Spend(x) => spent'.msks = spent.msks
      /\ Spend("msks") => spent'.msks = spent.msks + 1
  BY <1>1 DEF Spend, SpentType
<1>6. CASE Associate
  BY <1>1, <1>4, <1>5, <1>6 DEF Associate, Asks, daemon
<1>7. ASSUME NEW p \in UPDATERS, RenewUsk(p) PROVE Rising'
  <2>1. p \in Ends
    BY UpdatersAssumption DEF Ends
  <2>2. QED
    BY <1>4, <1>5, <1>7, <2>1 DEF RenewUsk, Asks, daemon
<1>8. CASE RenewMsk
  <2>1. msk'["AE"] = msk["AE"] + 1
    BY <1>1, <1>8 DEF RenewMsk
  <2>2. QED
    BY <1>1, <1>4, <1>5, <1>8, <2>1 DEF RenewMsk, Asks, daemon
<1>9. ASSUME NEW p \in Ends, Lose(p) PROVE Rising'
  <2> DEFINE q == inbox[p]
  <2>1. PICK i \in 1 .. Len(q) : inbox' = [inbox EXCEPT ![p] = RemoveAt(q, i)]
    BY <1>9 DEF Lose
  <2>2. /\ q \in Seq(FrameType)
        /\ inbox'[p] = RemoveAt(q, i) /\ inbox'[Peer(p)] = inbox[Peer(p)]
    BY <1>1, <2>1 DEF Ends, Peer
  <2>3. ToSet(RemoveAt(q, i)) \subseteq ToSet(q)
    BY <2>2, ShrinksRemoveAt DEF Shrinks
  <2>4. Orderly(q) => Orderly(RemoveAt(q, i))
    BY <2>2, OrderlyRemoveAt
  <2>5. /\ ToSet(inbox'["AE"]) \subseteq ToSet(inbox["AE"])
        /\ Thins(inbox'["ASUE"], inbox["ASUE"], "NOTIFY")
    BY <2>2, <2>3, <2>4 DEF Thins, Ends, Peer
  <2>6. QED
    BY <1>3, <1>5, <1>9, <2>5 DEF Lose, daemon
<1>10. QED
  BY <1>6, <1>7, <1>8, <1>9

\* The keys of the notifies.
LEMMA CallbackIndexed ==
    ASSUME TypeInv, Indexed, NEW p \in Ends, Callback(p)
    PROVE  Indexed'
<1> DEFINE is == inbox["ASUE"]
<1>1. /\ "AE" \in Ends /\ "ASUE" \in Ends /\ Turn(p)
      /\ is \in Seq(FrameType)
      /\ mskid \in [Ends -> 0 .. 1] /\ msk \in [Ends -> Nat]
  BY CallbackTurns DEF TypeInv, HandlerTypes, Ends
<1>2. /\ mskid["ASUE"] = msk["ASUE"] % 2
      /\ \A m \in ToSet(is) : m.type = "NOTIFY" => m.mskid = m.msk % 2
  BY DEF Indexed
<1>3. /\ \A f \in FrameType : ToSet(is \o <<f>>) = ToSet(is) \cup {f}
      /\ is # <<>> => /\ Head(is) \in ToSet(is)
                      /\ ToSet(Tail(is)) \subseteq ToSet(is)
  BY <1>1, FrameComes, ShrinksTail DEF Shrinks
<1>4. ASSUME NEW e, NEW rest, NEW out, Moves(p, e, rest, out),
             rest = inbox[p] \/ (inbox[p] # <<>> /\ rest = Tail(inbox[p])),
             \/ out = <<>>
             \/ \E f \in FrameType : /\ out = <<f>>
                                     /\ f.type = "NOTIFY" => f.mskid = f.msk % 2
      PROVE  \A m \in ToSet(inbox'["ASUE"]) :
                 m.type = "NOTIFY" => m.mskid = m.msk % 2
  <2>1. CASE p = "ASUE"
    <3>1. inbox'["ASUE"] = rest
      BY <1>4, <2>1 DEF Moves
    <3>2. ToSet(rest) \subseteq ToSet(is)
      BY <1>3, <1>4, <2>1
    <3>3. QED
      BY <1>2, <3>1, <3>2
  <2>2. CASE p = "AE"
    <3>1. \/ inbox'["ASUE"] = is
          \/ \E f \in FrameType : out = <<f>> /\ inbox'["ASUE"] = is \o <<f>>
      <4>1. out = <<>> \/ \E f \in FrameType : out = <<f>>
        BY <1>4
      <4>2. \/ inbox'[Peer(p)] = inbox[Peer(p)]
            \/ \E f \in FrameType :
                   out = <<f>> /\ inbox'[Peer(p)] = inbox[Peer(p)] \o <<f>>
        <5>1. Moves(p, e, rest, out)
          BY <1>4
        <5>2. QED
          BY <4>1, <5>1, MovesFrames, Zenon
      <4>3. QED
        BY <2>2, <4>2, EndsAre
    <3>2. CASE inbox'["ASUE"] = is
      BY <1>2, <3>2
    <3>3. ASSUME NEW f \in FrameType, out = <<f>>,
                 inbox'["ASUE"] = is \o <<f>>
          PROVE  \A m \in ToSet(inbox'["ASUE"]) :
                     m.type = "NOTIFY" => m.mskid = m.msk % 2
      <4>1. f.type = "NOTIFY" => f.mskid = f.msk % 2
        <5>1. \A g : <<f>> = <<g>> => f = g
          OBVIOUS
        <5>2. out # <<>>
          BY <3>3
        <5>3. QED
          BY <1>4, <3>3, <5>1, <5>2
      <4>2. QED
        BY <1>2, <1>3, <3>3, <4>1
    <3>4. QED
      BY <3>1, <3>2, <3>3
  <2>3. QED
    BY <2>1, <2>2 DEF Ends
<1>5. \A r : Rests(p, r)
          => r = inbox[p] \/ (inbox[p] # <<>> /\ r = Tail(inbox[p]))
  BY DEF Rests
<1>6. ASSUME NEW m, NEW type, NEW e, NEW out, Reads(p, m, type, e, out)
      PROVE  /\ m = Head(inbox[p]) /\ m.type = type
             /\ inbox[p] # <<>> /\ Moves(p, e, Tail(inbox[p]), out)
  BY <1>6 DEF Reads
<1>7. ASSUME UNCHANGED <<mskid, msk>>,
             \A m \in ToSet(inbox'["ASUE"]) :
                 m.type = "NOTIFY" => m.mskid = m.msk % 2
      PROVE  Indexed'
  BY <1>2, <1>7 DEF Indexed
<1>8. CASE Kept(p) \/ Deleted(p) \/ Rejected(p) \/ Confirmed(p) \/ Closed(p)
  <2>1. UNCHANGED <<mskid, msk>>
    BY <1>8 DEF Kept, Deleted, Rejected, Confirmed, Closed
  <2>2. PICK e, rest :
            /\ Moves(p, e, rest, <<>>)
            /\ rest = inbox[p] \/ (inbox[p] # <<>> /\ rest = Tail(inbox[p]))
    BY <1>5, <1>6, <1>8 DEF Kept, Deleted, Rejected, Confirmed, Closed
  <2>3. QED
    BY <1>4, <1>7, <2>1, <2>2
<1>9. CASE Asked(p) \/ Repeated(p) \/ Answered(p) \/ Admitted(p)
  <2>1. UNCHANGED <<mskid, msk>>
    BY <1>9 DEF Asked, Repeated, Answered, Admitted
  <2>2. PICK e, rest, f :
            /\ f \in FrameType /\ f.type # "NOTIFY"
            /\ Moves(p, e, rest, <<f>>)
            /\ rest = inbox[p] \/ (inbox[p] # <<>> /\ rest = Tail(inbox[p]))
    <3>1. CASE Asked(p)
      BY <1>5, <3>1 DEF Asked, Requested
    <3>2. CASE Repeated(p)
      <4>1. PICK x \in EntType, e \in EntType, f \in FrameType,
                 rest \in Seq(FrameType) :
                /\ Moves(p, e, rest, <<f>>) /\ Rests(p, rest)
                /\ SentResponse(x, e, f)
        BY <3>2 DEF Repeated
      <4>2. f.type # "NOTIFY"
        BY <4>1 DEF SentResponse
      <4>3. QED
        BY <1>5, <4>1, <4>2
    <3>3. CASE Answered(p)
      BY <1>6, <3>3 DEF Answered, Responded
    <3>4. CASE Admitted(p)
      BY <1>6, <3>4 DEF Admitted, Accepted
    <3>5. QED
      BY <1>9, <3>1, <3>2, <3>3, <3>4
  <2>3. QED
    BY <1>4, <1>7, <2>1, <2>2
<1>10. CASE Cut(p)
  <2>1. \/ inbox'["ASUE"] = is
        \/ \E f \in FrameType :
               f.type = "DELETE" /\ inbox'["ASUE"] = is \o <<f>>
    BY <1>1, <1>10, CutFrames DEF Cut
  <2>2. UNCHANGED <<mskid, msk>>
    BY <1>10 DEF Cut
  <2>3. QED
    BY <1>2, <1>3, <1>7, <2>1, <2>2
<1>11. CASE Announced(p)
  <2>1. PICK e, rest, f :
            /\ f \in FrameType
            /\ Moves(p, e, rest, <<f>>) /\ Rests(p, rest)
            /\ f.msk = msk[p] /\ f.mskid = msk[p] % 2
    BY <1>11 DEF Announced
  <2>2. \A m \in ToSet(inbox'["ASUE"]) :
            m.type = "NOTIFY" => m.mskid = m.msk % 2
    BY <1>4, <1>5, <2>1
  <2>3. mskid' = [mskid EXCEPT ![p] = msk[p] % 2] /\ msk' = msk
    BY <1>11 DEF Announced
  <2>4. mskid'["ASUE"] = msk'["ASUE"] % 2
    BY <1>1, <1>2, <2>3
  <2>5. QED
    BY <2>2, <2>4 DEF Indexed
<1>12. CASE Told(p)
  <2>1. PICK m, e, f :
            /\ f \in FrameType
            /\ Reads(p, m, "NOTIFY", e, <<f>>) /\ f.type = "MCAST_RESP"
            /\ mskid' = [mskid EXCEPT ![p] = m.mskid]
            /\ msk' = [msk EXCEPT ![p] = m.msk]
    BY <1>12 DEF Told
  <2>2. \A n \in ToSet(inbox'["ASUE"]) :
            n.type = "NOTIFY" => n.mskid = n.msk % 2
    BY <1>4, <1>6, <2>1
  <2>3. mskid'["ASUE"] = msk'["ASUE"] % 2
    <3>1. CASE p = "ASUE"
      <4>1. m.mskid = m.msk % 2
        BY <1>2, <1>3, <1>6, <2>1, <3>1
      <4>2. QED
        BY <1>1, <2>1, <3>1, <4>1
    <3>2. CASE p = "AE"
      BY <1>1, <1>2, <2>1, <3>2
    <3>3. QED
      BY <3>1, <3>2 DEF Ends
  <2>4. QED
    BY <2>2, <2>3 DEF Indexed
<1>13. QED
  BY <1>1, <1>8, <1>9, <1>10, <1>11, <1>12 DEF Turn

LEMMA AirIndexed ==
    ASSUME TypeInv, Indexed,
           \/ Associate
           \/ \E p \in UPDATERS : RenewUsk(p)
           \/ RenewMsk
           \/ \E p \in Ends : Lose(p)
    PROVE  Indexed'
<1>1. /\ inbox \in [Ends -> Seq(FrameType)]
      /\ msk \in [Ends -> Nat] /\ "ASUE" \in Ends
  BY DEF TypeInv, HandlerTypes, Ends
<1>2. ASSUME mskid' = mskid, msk'["ASUE"] = msk["ASUE"],
             \A m \in ToSet(inbox'["ASUE"]) :
                 m.type = "NOTIFY" => m \in ToSet(inbox["ASUE"])
      PROVE  Indexed'
  BY <1>2 DEF Indexed
<1>3. ASSUME NEW p \in Ends, NEW x \in {"KEY_HS_START", "UPDATE_USK",
                                        "UPDATE_MSK"},
             Asks(p, x), mskid' = mskid, msk'["ASUE"] = msk["ASUE"]
      PROVE  Indexed'
  <2>1. x \in DriverTypes
    BY Zenon DEF DriverTypes
  <2>2. PICK f \in FrameType :
            /\ f.type = x
            /\ ToSet(inbox'[p]) = ToSet(inbox[p]) \cup {f}
            /\ inbox'[Peer(p)] = inbox[Peer(p)]
    BY <1>3, <2>1, DriverFrame
  <2>3. \A m \in ToSet(inbox'["ASUE"]) :
            m.type = "NOTIFY" => m \in ToSet(inbox["ASUE"])
    BY <2>2 DEF Ends, Peer
  <2>4. QED
    BY <1>2, <1>3, <2>3
<1>4. CASE Associate
  BY <1>1, <1>3, <1>4 DEF Associate, Asks, daemon, Ends
<1>5. ASSUME NEW p \in UPDATERS, RenewUsk(p) PROVE Indexed'
  <2>1. p \in Ends
    BY UpdatersAssumption DEF Ends
  <2>2. QED
    BY <1>3, <1>5, <2>1 DEF RenewUsk, Asks, daemon
<1>6. CASE RenewMsk
  <2>1. msk'["ASUE"] = msk["ASUE"] /\ "AE" \in Ends
    BY <1>1, <1>6 DEF RenewMsk, Ends
  <2>2. QED
    BY <1>3, <1>6, <2>1 DEF RenewMsk, Asks, daemon
<1>7. ASSUME NEW p \in Ends, Lose(p) PROVE Indexed'
  <2> DEFINE q == inbox[p]
  <2>1. PICK i \in 1 .. Len(q) : inbox' = [inbox EXCEPT ![p] = RemoveAt(q, i)]
    BY <1>7 DEF Lose
  <2>2. /\ q \in Seq(FrameType)
        /\ inbox'[p] = RemoveAt(q, i) /\ inbox'[Peer(p)] = inbox[Peer(p)]
    BY <1>1, <2>1 DEF Ends, Peer
  <2>3. ToSet(RemoveAt(q, i)) \subseteq ToSet(q)
    BY <2>2, ShrinksRemoveAt DEF Shrinks
  <2>4. ToSet(inbox'["ASUE"]) \subseteq ToSet(inbox["ASUE"])
    BY <2>2, <2>3 DEF Ends, Peer
  <2>5. QED
    BY <1>2, <1>7, <2>4 DEF Lose, daemon
<1>8. QED
  BY <1>4, <1>5, <1>6, <1>7

\* What comes to the AE while the station is associated,
LEMMA LinkedPlain ==
    ASSUME Live, link
    PROVE  Plain
<1>1. \A m \in ToSet(inbox["AE"]) : m.type \notin {"CFM", "DELETE"}
  BY DEF Live, Quiet
<1>2. Open => \A m \in ToSet(inbox["AE"]) : m.type # "NOTIFY"
  BY DEF Live, Open, NowHandshake, Handshake, FrameKinds
<1>3. \A i \in DOMAIN inbox["AE"] : inbox["AE"][i] \in ToSet(inbox["AE"])
  BY DEF ToSet
<1>4. QED
  BY <1>1, <1>2, <1>3 DEF Plain

\* and afterwards.
LEMMA CallbackPlain ==
    ASSUME TypeInv, Live, Live', Plain, NEW p \in Ends, Callback(p)
    PROVE  Plain'
<1> DEFINE q == inbox["AE"]
<1>1. /\ Turn(p) /\ q \in Seq(FrameType) /\ link \in BOOLEAN
      /\ "AE" \in Ends /\ Peer("ASUE") = "AE" /\ DOMAIN q = 1 .. Len(q)
  <2>1. q \in Seq(FrameType) /\ link \in BOOLEAN
    BY DEF TypeInv, HandlerTypes, Ends
  <2>2. QED
    BY <2>1, CallbackTurns, EndsAre, ToSetRange
<1>2. CASE link'
  BY <1>2, LinkedPlain, PTL
<1>3. CASE Cut(p)
  <2>1. Open' <=> Open
    BY <1>3 DEF Cut, Like, Open, Ends, Peer
  <2>2. CASE inbox'["AE"] = q
    BY <2>1, <2>2 DEF Plain
  <2>3. ASSUME NEW f \in FrameType, f.type = "DELETE", link,
               inbox'["AE"] = q \o <<f>>
        PROVE  Plain'
    <3> DEFINE r == q \o <<f>>
               n == Len(q)
    <3>1. /\ DOMAIN r = 1 .. n + 1 /\ n \in Nat /\ Len(r) = n + 1
          /\ \A i \in 1 .. n : r[i] = q[i]
          /\ ToSet(q) = {q[i] : i \in 1 .. n} /\ ToSet(r) = ToSet(q) \cup {f}
      BY <1>1, MorePlaces
    <3> HIDE DEF r, n
    <3>2. \A m \in ToSet(q) : m.type # "DELETE"
      BY <2>3 DEF Live, Quiet
    <3>3. \A i \in 1 .. n + 1 : r[i].type = "DELETE" => i = n + 1
      <4>1. \A i \in 1 .. n + 1 : i \in 1 .. n \/ i = n + 1
        BY <3>1
      <4>2. QED
        BY <3>1, <3>2, <4>1
    <3>4. \A m \in ToSet(r) : m.type # "CFM" /\ (m.type = "NOTIFY" => ~Open')
      BY <2>1, <2>3, <3>1 DEF Plain
    <3>5. inbox'["AE"] = r
      BY <2>3 DEF r
    <3>6. QED
      BY <3>1, <3>3, <3>4, <3>5 DEF Plain
  <2>4. QED
    BY <1>1, <1>3, <2>2, <2>3, CutFrames DEF Cut
<1>4. CASE ~link' /\ ~Cut(p)
  <2>1. \E e, rest, out : Moves(p, e, rest, out)
    BY <1>1, <1>4, Zenon DEF Turn, Kept, Deleted, Asked, Repeated, Announced,
       Answered, Rejected, Admitted, Confirmed, Told, Closed, Reads
  <2>2. ~link
    BY <1>1, <1>4, <2>1 DEF Moves
  <2>3. CASE p = "ASUE"
    <3>1. ent'["AE"] = ent["AE"] /\ inbox'["AE"] = q \o <<>>
      BY <1>1, <2>1, <2>2, <2>3 DEF Moves
    <3>2. inbox'["AE"] = q
      BY <1>1, <3>1
    <3>3. QED
      BY <3>1, <3>2 DEF Plain, Open
  <2>4. CASE p = "AE"
    <3>1. q # <<>> =>
              /\ Head(q) \in ToSet(q) /\ ToSet(Tail(q)) \subseteq ToSet(q)
              /\ \A i \in DOMAIN Tail(q) :
                     Tail(q)[i].type = "DELETE" => i = Len(Tail(q))
      <4>1. SUFFICES ASSUME q # <<>>
                     PROVE  /\ Head(q) \in ToSet(q)
                            /\ ToSet(Tail(q)) \subseteq ToSet(q)
                            /\ \A i \in DOMAIN Tail(q) :
                                   Tail(q)[i].type = "DELETE"
                                       => i = Len(Tail(q))
        OBVIOUS
      <4>2. Head(q) \in ToSet(q) /\ ToSet(Tail(q)) \subseteq ToSet(q)
        BY <1>1, <4>1, ShrinksTail DEF Shrinks
      <4> DEFINE r == Tail(q)
                 n == Len(q) - 1
      <4>3. /\ DOMAIN q = 1 .. n + 1 /\ DOMAIN r = 1 .. n /\ n \in Nat
            /\ Len(r) = n /\ Len(q) = n + 1
            /\ \A i \in 1 .. n : r[i] = q[i + 1]
        BY <1>1, <4>1, TailPlaces
      <4> HIDE DEF r, n
      <4>4. ASSUME NEW i \in 1 .. n, r[i].type = "DELETE" PROVE i = n
        <5>1. i + 1 \in 1 .. n + 1 /\ q[i + 1].type = "DELETE"
          BY <4>3, <4>4
        <5>2. i + 1 = n + 1
          BY <4>3, <5>1 DEF Plain
        <5>3. QED
          BY <4>3, <5>2
      <4>5. QED
        BY <4>2, <4>3, <4>4 DEF r
    <3>2. ASSUME NEW e, NEW rest, NEW out, Moves("AE", e, rest, out),
                 rest = q \/ (q # <<>> /\ rest = Tail(q)),
                 e.WaiKeyState # "WAIT_UCAST_CFM" =>
                     Open \/ \A m \in ToSet(rest) : m.type # "NOTIFY"
          PROVE  Plain'
      <4>1. inbox'["AE"] = rest /\ ent'["AE"] = e
        BY <3>2 DEF Moves
      <4>2. ToSet(rest) \subseteq ToSet(q)
        BY <3>1, <3>2
      <4>3. \A i \in DOMAIN rest : rest[i].type = "DELETE" => i = Len(rest)
        BY <3>1, <3>2 DEF Plain
      <4>4. \A m \in ToSet(rest) :
                m.type # "CFM" /\ (m.type = "NOTIFY" => ~Open')
        BY <3>2, <4>1, <4>2 DEF Plain, Open
      <4>5. QED
        BY <4>1, <4>3, <4>4 DEF Plain
    <3>3. ASSUME NEW m, NEW type, NEW e, NEW out, Reads("AE", m, type, e, out)
          PROVE  /\ m = Head(q) /\ m.type = type /\ m \in ToSet(q)
                 /\ q # <<>> /\ Moves("AE", e, Tail(q), out)
      BY <3>1, <3>3 DEF Reads
    <3>4. \A r : Rests("AE", r) => r = q \/ (q # <<>> /\ r = Tail(q))
      BY DEF Rests
    <3>5. CASE Kept("AE")
      BY <3>2, <3>4, <3>5 DEF Kept, Like, Open
    <3>6. CASE Deleted("AE")
      <4>1. PICK m : Reads("AE", m, "DELETE", Free, <<>>)
        BY <3>6 DEF Deleted
      <4>2. q # <<>> /\ q[1].type = "DELETE"
        BY <1>1, <3>3, <4>1
      <4>3. Len(q) = 1
        <5>1. 1 \in DOMAIN q
          BY <1>1, <4>2, TailPlaces
        <5>2. QED
          BY <4>2, <5>1 DEF Plain
      <4>4. \A x \in ToSet(Tail(q)) : x.type # "NOTIFY"
        BY <1>1, <4>2, <4>3, TailPlaces
      <4>5. q # <<>> /\ Moves("AE", Free, Tail(q), <<>>)
        BY <3>3, <4>1
      <4>6. QED
        BY <3>2, <4>4, <4>5
    <3>7. CASE Repeated("AE")
      <4>1. PICK x \in EntType, e \in EntType, f \in FrameType,
                 rest \in Seq(FrameType) :
                /\ Moves("AE", e, rest, <<f>>) /\ Rests("AE", rest)
                /\ SentResponse(x, e, f)
        BY <3>7 DEF Repeated
      <4>2. e.WaiKeyState = "WAIT_UCAST_CFM"
        BY <4>1 DEF SentResponse
      <4>3. QED
        BY <3>2, <3>4, <4>1, <4>2
    <3>8. CASE Confirmed("AE")
      BY <3>3, <3>8 DEF Confirmed, Plain
    <3>9. CASE Asked("AE") \/ Announced("AE")
      <4>1. Open
        BY <3>9 DEF Asked, Announced, Open, DoneStates
      <4>2. PICK e, rest, out : Moves("AE", e, rest, out) /\ Rests("AE", rest)
        BY <3>9 DEF Asked, Announced
      <4>3. QED
        BY <3>2, <3>4, <4>1, <4>2
    <3>10. CASE \/ Answered("AE") \/ Rejected("AE") \/ Admitted("AE")
                \/ Told("AE") \/ Closed("AE")
      <4>1. Open
        BY <3>10 DEF Answered, Rejected, Admitted, Told, Closed, Open,
           DoneStates
      <4>2. PICK m, type, e, out : Reads("AE", m, type, e, out)
        BY <3>10 DEF Answered, Rejected, Admitted, Told, Closed
      <4>3. q # <<>> /\ Moves("AE", e, Tail(q), out)
        BY <3>3, <4>2
      <4>4. QED
        BY <3>2, <4>1, <4>3
    <3>11. QED
      BY <1>1, <1>4, <2>4, <3>5, <3>6, <3>7, <3>8, <3>9, <3>10 DEF Turn
  <2>5. QED
    BY <2>3, <2>4 DEF Ends
<1>5. QED
  BY <1>2, <1>3, <1>4

LEMMA AirPlain ==
    ASSUME TypeInv, Live', Plain,
           \/ Associate
           \/ \E p \in UPDATERS : RenewUsk(p)
           \/ RenewMsk
           \/ \E p \in Ends : Lose(p)
    PROVE  Plain'
<1>1. CASE link'
  BY <1>1, LinkedPlain, PTL
<1>2. CASE \/ Associate
           \/ \E p \in UPDATERS : RenewUsk(p)
           \/ RenewMsk
  <2>1. link'
    BY <1>2 DEF Associate, RenewUsk, RenewMsk
  <2>2. QED
    BY <1>1, <2>1
<1>3. ASSUME NEW p \in Ends, Lose(p) PROVE Plain'
  <2> DEFINE q == inbox[p]
             n == Len(q) - 1
  <2>1. PICK i \in 1 .. Len(q) : inbox' = [inbox EXCEPT ![p] = RemoveAt(q, i)]
    BY <1>3 DEF Lose
  <2> DEFINE r == RemoveAt(q, i)
  <2>2. /\ q \in Seq(FrameType) /\ inbox'[p] = r
        /\ inbox'[Peer(p)] = inbox[Peer(p)] /\ ent' = ent
    BY <1>3, <2>1 DEF TypeInv, HandlerTypes, Ends, Peer, Lose, daemon
  <2>3. CASE p = "ASUE"
    <3>1. inbox'["AE"] = inbox["AE"]
      BY <2>2, <2>3 DEF Peer
    <3>2. QED
      BY <2>2, <3>1 DEF Plain, Open
  <2>4. CASE p = "AE"
    <3>1. /\ r \in Seq(FrameType) /\ Len(r) = n /\ n \in Nat /\ Len(q) = n + 1
          /\ \A j \in 1 .. n : r[j] = IF j < i THEN q[j] ELSE q[j + 1]
      <4>1. /\ r \in Seq(FrameType) /\ Len(r) = Len(q) - 1
            /\ \A j \in 1 .. Len(q) - 1 :
                   r[j] = IF j < i THEN q[j] ELSE q[j + 1]
        BY <2>2, RemoveAtProperties
      <4>2. Len(q) \in Nat /\ Len(q) > 0
        BY <2>2
      <4>3. QED
        BY <4>1, <4>2
    <3>2. DOMAIN q = 1 .. n + 1 /\ DOMAIN r = 1 .. n
      BY <2>2, <3>1, ToSetRange
    <3>3. ToSet(r) \subseteq ToSet(q)
      BY <2>2, ShrinksRemoveAt DEF Shrinks
    <3> HIDE DEF r, n
    <3>4. ASSUME NEW j \in 1 .. n, r[j].type = "DELETE" PROVE j = n
      <4>1. /\ j \in 1 .. n + 1 /\ j + 1 \in 1 .. n + 1 /\ i \in 1 .. n + 1
        BY <3>1
      <4>2. \A l \in 1 .. n + 1 : q[l].type = "DELETE" => l = n + 1
        BY <2>4, <3>1, <3>2 DEF Plain
      <4>3. CASE j < i
        <5>1. j = n + 1
          BY <3>1, <3>4, <4>1, <4>2, <4>3
        <5>2. QED
          BY <3>1, <5>1
      <4>4. CASE ~(j < i)
        <5>1. j + 1 = n + 1
          BY <3>1, <3>4, <4>1, <4>2, <4>4
        <5>2. QED
          BY <3>1, <5>1
      <4>5. QED
        BY <4>3, <4>4
    <3>5. inbox'["AE"] = r
      BY <2>2, <2>4
    <3>6. QED
      BY <2>2, <2>4, <3>1, <3>2, <3>3, <3>4, <3>5 DEF Plain, Open
  <2>5. QED
    BY <2>3, <2>4 DEF Ends
<1>4. QED
  BY <1>2, <1>3

\* What the theorem rests on: besides KeysInv, where the last notify is.
GroupInv == KeysInv /\ NothingLost /\ Rising /\ Indexed /\ Plain

LEMMA GroupInit == Init => GroupInv
<1> SUFFICES ASSUME Init PROVE GroupInv
  OBVIOUS
<1>1. /\ ~link /\ "AE" \in Ends /\ "ASUE" \in Ends
      /\ ent["AE"] = Free /\ inbox["AE"] = <<>> /\ inbox["ASUE"] = <<>>
      /\ mskid["AE"] = 0 /\ mskid["ASUE"] = 0
      /\ msk["AE"] = 0 /\ msk["ASUE"] = 0 /\ spent.msks = 0
  BY DEF Init, Ends
<1>2. ToSet(<<>>) = {} /\ Orderly(<<>>)
  BY DEF ToSet, Orderly
<1>3. NothingLost
  BY <1>1 DEF NothingLost
<1>4. Rise(Free, <<>>, <<>>, 0, 0, 0)
  BY <1>2 DEF Rise, Free
<1>5. Rising
  BY <1>1, <1>4 DEF Rising
<1>6. Indexed /\ Plain
  <2>1. 0 % 2 = 0
    OBVIOUS
  <2>2. QED
    BY <1>1, <1>2, <2>1 DEF Indexed, Plain
<1>7. QED
  BY <1>3, <1>5, <1>6, KeysInit DEF GroupInv

LEMMA GroupInvNext ==
    ASSUME Separate, GroupInv, [Next]_vars
    PROVE  GroupInv'
<1>1. /\ KeysInv /\ NothingLost /\ Rising /\ Indexed /\ Plain
      /\ TypeInv /\ Live
  BY DEF GroupInv, KeysInv
<1>2. KeysInv' /\ Live'
  BY <1>1, KeysNext DEF KeysInv
<1>3. NothingLost'
  BY <1>1, <1>2, GroupNext
<1>4. ASSUME NEW p \in Ends, Callback(p)
      PROVE  Rising' /\ Indexed' /\ Plain'
  <2>1. Rising'
    BY <1>1, <1>4, PointRises, StationRises DEF Ends
  <2>2. Indexed' /\ Plain'
    BY <1>1, <1>2, <1>4, CallbackIndexed, CallbackPlain
  <2>3. QED
    BY <2>1, <2>2
<1>5. ASSUME \/ Associate
             \/ \E p \in UPDATERS : RenewUsk(p)
             \/ RenewMsk
             \/ \E p \in Ends : Lose(p)
      PROVE  Rising' /\ Indexed' /\ Plain'
  <2>1. Rising'
    BY <1>1, <1>5, AirRises
  <2>2. Indexed'
    BY <1>1, <1>5, AirIndexed
  <2>3. Plain'
    BY <1>1, <1>2, <1>5, AirPlain
  <2>4. QED
    BY <2>1, <2>2, <2>3
<1>6. ASSUME UNCHANGED vars
      PROVE  Rising' /\ Indexed' /\ Plain'
  <2>1. /\ ent' = ent /\ inbox' = inbox /\ mskid' = mskid /\ msk' = msk
        /\ spent' = spent
    BY <1>6 DEF vars
  <2>2. Rising'
    BY <1>1, <2>1 DEF Rising
  <2>3. Indexed' /\ Plain'
    BY <1>1, <2>1 DEF Indexed, Plain, Open
  <2>4. QED
    BY <2>2, <2>3
<1>7. Rising' /\ Indexed' /\ Plain'
  <2>1. Next \/ UNCHANGED vars
    OBVIOUS
  <2>2. QED
    BY <1>4, <1>5, <1>6, <2>1 DEF Next
<1>8. QED
  BY <1>2, <1>3, <1>7 DEF GroupInv

\* With empty sockets the last notify has been read.
LEMMA GroupHolds == GroupInv => GroupIdsAgree
<1> SUFFICES ASSUME GroupInv, spent.msks <= 1 \/ spent.losses = 0, Negotiated
             PROVE  mskid["AE"] = mskid["ASUE"]
  BY DEF GroupIdsAgree
<1>1. /\ link /\ inbox["AE"] = <<>> /\ inbox["ASUE"] = <<>>
      /\ ent["AE"].PortSecured /\ ent["ASUE"].PortSecured
      /\ ent["AE"].WaiKeyState \notin {"WAIT_MCAST_RESP", "WAIT_UCAST_CFM"}
      /\ ent["ASUE"].WaiKeyState # "WAIT_UCAST_CFM"
  BY DEF Negotiated, Waiting, Ends
<1>2. CASE spent.msks <= 1
  BY <1>1, <1>2 DEF GroupInv, Rising, Rise
<1>3. CASE spent.losses = 0
  <2>1. NowGroup
    BY <1>1, <1>3 DEF GroupInv, NothingLost, Open
  <2>2. Latest(<<>>, mskid["ASUE"], mskid["AE"])
    BY <1>1, <2>1 DEF NowGroup, Group, Stuck, Unasked
  <2>3. \A i : i \notin DOMAIN <<>>
    OBVIOUS
  <2>4. QED
    BY <2>2, <2>3 DEF Latest
<1>4. QED
  BY <1>2, <1>3

\* Once both daemons are done, the station has the multicast key the AE last
\* sent (WaiMlmeMcastKeyNotifyAction, WaiPeerMcastKeyNotifyAction,
\* WaiPeerMcastKeyRespAction), as long as there is one update or no loss: with
\* one update the indices of the notifies only rise and a response carries one
\* the station has taken; without a loss the last notify is in the socket of
\* the station, behind the confirmation the station waits for, and under the
\* station's key.
THEOREM GroupIdsCorrect == ASSUME Separate PROVE Spec => []GroupIdsAgree
<1>1. Init => GroupInv
  BY GroupInit
<1>2. GroupInv /\ [Next]_vars => GroupInv'
  BY GroupInvNext
<1>3. GroupInv => GroupIdsAgree
  BY GroupHolds
<1>4. QED
  BY <1>1, <1>2, <1>3, PTL DEF Spec
=============================================================================
