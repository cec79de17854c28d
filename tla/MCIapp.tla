------------------------------- MODULE MCIapp -------------------------------
(* Small instances of Iapp for TLC.                                        *)
EXTENDS Iapp, TLC

\* Each station in a bucket of its own
OwnBucket == CHOOSE f \in [STAS -> 0 .. Cardinality(STAS) - 1] :
               \A s, r \in STAS : s # r => f[s] # f[r]

\* The access points are alike: none is named in Iapp
ApSymmetry == Permutations(APS)
=============================================================================
