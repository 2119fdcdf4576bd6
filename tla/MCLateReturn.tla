---------------------------- MODULE MCLateReturn ----------------------------
(* Instances of Outpass and LateReturn for TLC: a student with an          *)
(* Outstation or a Local pass, and an exit and a return recorded offline.  *)
EXTENDS LateReturn

MCOwner == [o \in Outpass |-> "student"]
MCPassType == [o \in Outpass |-> "Outstation"]
MCLocal == [o \in Outpass |-> "Local"]

MCLogPass == [l \in Log |-> 1]
MCLogAction == [l \in Log |-> IF l = 1 THEN "exit" ELSE "enter"]
=============================================================================
