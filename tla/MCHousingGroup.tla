--------------------------- MODULE MCHousingGroup ---------------------------
(* Instances of HousingGroup for TLC.                                      *)
EXTENDS HousingGroup, TLC

CONSTANTS s1, s2, s3

MCRank == s1 :> 1 @@ s2 :> 2 @@ s3 :> 3

\* Requests are interchangeable.
MCSymmetry == Permutations(Txn)
=============================================================================
