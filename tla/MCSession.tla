----------------------------- MODULE MCSession -----------------------------
(* Instances of Session for TLC.                                           *)
EXTENDS Session, TLC

\* Requests, and the guard's machines, are interchangeable.
MCSymmetry == Permutations(Request) \cup Permutations(Machine)
=============================================================================
