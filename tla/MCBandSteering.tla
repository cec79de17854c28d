--------------------------- MODULE MCBandSteering ---------------------------
(* Small instances of BandSteering for TLC.                                *)
EXTENDS BandSteering

CONSTANTS c1, c2, c3

\* c1 and c2 share a bucket, c3 has its own
Buckets2 == [a \in ADDRS |-> IF a = c3 THEN 1 ELSE 0]

\* A frame as heard with the same signal on all antennas
Heard(b, type, rssi, ht) ==
  [Band |-> b, Type |-> type, Rssi |-> <<rssi, rssi, rssi>>, Ht |-> ht]

\* Signals below, at and above RssiLow
Weak == -80
Edge == -70
Strong == -60

Defaults ==
  [RssiDiff |-> 30, RssiLow |-> -70, AgeTime |-> 3, HoldTime |-> 2, CheckTime_5G |-> 1,
   ConditionCheck |-> {"5G_RSSI"}]
\* The time scale of runs that are about the table and not about the decisions
QuickAging == [Defaults EXCEPT !.AgeTime = 1, !.HoldTime = 0, !.CheckTime_5G = 0]

\* One frame is enough to be in the table
OneFrame == [a \in ADDRS |-> {Heard("5G", "PROBE", Strong, TRUE)}]
\* c1 is heard on both bands with changing signals, c2 on 2.4G only
MixedFrames ==
  [a \in ADDRS |->
    IF a = c1 THEN {Heard("2G", "PROBE", Strong, TRUE), Heard("5G", "PROBE", Weak, FALSE),
                    Heard("5G", "AUTH", Strong, TRUE)}
    ELSE {Heard("2G", "AUTH", Strong, TRUE)}]
EdgeFrames ==
  [a \in ADDRS |-> {Heard("2G", "PROBE", Strong, TRUE), Heard("5G", "PROBE", Edge, TRUE)}]

\* What may wait when the timer fires: anything, or only messages that take no
\* entry away, or only messages that come once steering has started
StatusKinds == {"INF_STATUS_RSP", "INF_STATUS_RSP_DBDC", "BNDSTRG_ONOFF"}
RemovalKinds == {"CLI_AGING_RSP", "CLI_DEL"}
AllKinds == StatusKinds \cup RemovalKinds \cup {"CONNECTION_REQ", "SET"}
KindsOfAddition == AllKinds \ RemovalKinds
KindsWhenOn == AllKinds \ StatusKinds

NoFrames == [a \in ADDRS |-> {}]

NoChanges == {}
Changes == {<<"RssiLow", Weak>>}
\* A command switches all four conditions on
MoreConditions == {<<"ConditionCheck", Conditions>>}
=============================================================================
