--------------------------- MODULE MCIappClients ----------------------------
(* Small instances of IappClients for TLC.                                 *)
EXTENDS IappClients

\* s1 and s2 share a bucket, the others share another
TwoBuckets == [s \in STAS |-> IF s \in {"s1", "s2"} THEN 0 ELSE 1]
=============================================================================
