--------------------------- MODULE MCRadiusClient ---------------------------
(* Small instances of RadiusClient for TLC.                                *)
EXTENDS RadiusClient, TLC

CONSTANTS b1, b2, s1, s2, k1, k2

\* s1 and s2 on one BSS, or on two
OneBssApIdx == [s \in {s1, s2} |-> b1]
TwoBssApIdx == [s \in {s1, s2} |-> IF s = s1 THEN b1 ELSE b2]

\* A configuration of b1 and b2 each: a BSS with two servers that share a
\* secret, one whose servers have different secrets, one with a single server
SharedSecret == b1 :> <<k1, k1>> @@ b2 :> <<k1>>
MixedSecrets == b1 :> <<k1, k1>> @@ b2 :> <<k1, k2>>
SingleServers == [b \in {b1} |-> <<k1>>]
SharedServers == [b \in {b1} |-> <<k1, k1>>]

FailoverConfigs == {SharedSecret, MixedSecrets}
SingleConfigs == {SingleServers}
SharedConfigs == {SharedServers}
=============================================================================
