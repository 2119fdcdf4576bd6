------------------------- MODULE MCAllocationEngine -------------------------
(* Instances of AllocationEngine for TLC: two groups, the first of two     *)
(* students and with the better rank, and a double and a single room that  *)
(* cannot hold everybody in the rooms they would like.  A configuration    *)
(* may leave one room, or one group and its student, out.                  *)
EXTENDS AllocationEngine, TLC

CONSTANTS s1, s2, s3, g1, g2, r1, r2

\* The executors are interchangeable.
MCExecutorSymmetry == Permutations(Executor)

MCRank == [g \in Group |-> IF g = g1 THEN 1 ELSE 2]
MCCapacity == [r \in Room |-> IF r = r1 THEN 2 ELSE 1]
MCTriple == [r \in Room |-> 3]

\* Both groups in the first batch.
MCHomeTogether == [g \in Group |-> 1]

MCInitialGroup == [s \in Student |-> IF s = s3 THEN g2 ELSE g1]
MCNobodyInvited == {}

\* s2 is not in a group yet but was invited by the first one.
MCOneInvited == [s \in Student |-> IF s = s1 THEN g1 ELSE IF s = s2 THEN NoGroup ELSE g2]
MCInvitation == {<<s2, g1>>}

\* Nobody lives in a room of the event yet, or one student does.
MCNoResident == [s \in Student |-> NoRoom]
MCSingleTaken == [s \in Student |-> IF s = s3 THEN r2 ELSE NoRoom]
MCSettled == [s \in Student |-> IF s = s1 THEN r1 ELSE NoRoom]
=============================================================================
