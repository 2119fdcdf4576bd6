---------------------------- MODULE MCComplaint ----------------------------
(* Instances of Complaint for TLC.                                         *)
EXTENDS Complaint

\* Everybody lives in the same hostel.
MCHostelOf == [s \in Student |-> CHOOSE h \in Hostel : TRUE]
=============================================================================
