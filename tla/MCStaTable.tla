----------------------------- MODULE MCStaTable -----------------------------
(* Instances of StaTable for TLC.                                          *)
EXTENDS StaTable

\* Two addresses share a bucket, a third has its own
MC_HASH == [a \in {"a1", "a2", "a3"} |-> IF a = "a3" THEN 2 ELSE 1]
MC_GRANTS == {NoTimeout, 2}
MC_GRANTS_EDGE == {NoTimeout, 0, 2}
=============================================================================
