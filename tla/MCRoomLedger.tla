---------------------------- MODULE MCRoomLedger ----------------------------
(* Instances of RoomLedger for TLC.                                        *)
EXTENDS RoomLedger, TLC

CONSTANTS s1, s2, s3, r1, r2

MCByRank == <<s1, s2, s3>>
MCState == s1 :> "HOME_STATE" @@ s2 :> "OTHER_STATE" @@ s3 :> "HOME_STATE"
MCBranch == s1 :> "CSE" @@ s2 :> "CSE" @@ s3 :> "ECE"

Node(state, dept) == [state |-> state, branch |-> dept]
MCLayout ==
    {[capacity |-> 1, branchDiversity |-> "ALLOW_SAME", nodes |-> <<Node("OTHER_STATE", "ANY")>>],
     [capacity |-> 2, branchDiversity |-> "MUST_BE_UNIQUE", nodes |-> <<Node("ANY", "ANY"), Node("ANY", "ANY")>>]}
MCTarget == {<<r1, r2>>}

\* Requests are interchangeable.
MCSymmetry == Permutations(Txn)
=============================================================================
