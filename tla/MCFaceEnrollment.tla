-------------------------- MODULE MCFaceEnrollment --------------------------
(* Instances of FaceEnrollment for TLC.                                    *)
EXTENDS FaceEnrollment, TLC
=============================================================================
