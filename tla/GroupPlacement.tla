--------------------------- MODULE GroupPlacement ---------------------------
(***************************************************************************)
(* What the room allocation engine promises, with nothing of how it keeps  *)
(* the promise: a housing group is placed as a whole, every student who is *)
(* a member at that moment in one room in one step, or dissolved, and      *)
(* neither outcome is ever taken back; students change beds at no other    *)
(* time, except one at a time where the hostel office was called for this  *)
(* very student; they enter a group only from none and leave one only when *)
(* it is dissolved; and a room never holds more bookings than it has beds. *)
(*                                                                         *)
(* A student has at most one UPCOMING booking (next year's room) and at    *)
(* most one ACTIVE booking (the room the student lives in), and each of    *)
(* the two takes a bed of its room.                                        *)
(***************************************************************************)
EXTENDS Integers, FiniteSets

CONSTANTS
    Student,    \* the students
    Group,      \* the housing groups
    NoGroup,    \* "in no group"
    Room,       \* the rooms of the allocation event
    NoRoom,     \* "no booking"
    Capacity    \* beds of a room

VARIABLES
    upcoming,   \* the room of a student's UPCOMING booking
    active,     \* the room of a student's ACTIVE booking
    group,      \* the group of a student
    outcome,    \* what became of a group
    requests,   \* bookings the office was asked for and has not made yet
    calls       \* calls of the office so far

groupVars == <<group, outcome>>
bedVars == <<upcoming, active>>
officeVars == <<requests, calls>>
vars == <<groupVars, bedVars, officeVars>>

Load(r) ==
    Cardinality({s \in Student : upcoming[s] = r}) +
    Cardinality({s \in Student : active[s] = r})

WithinCapacity == \A r \in Room : Load(r) <= Capacity[r]

Members(g) == {s \in Student : group[s] = g}

Init ==
    /\ upcoming = [s \in Student |-> NoRoom]
    /\ active \in [Student -> Room \cup {NoRoom}]
    /\ group \in [Student -> Group \cup {NoGroup}]
    /\ outcome = [g \in Group |-> "waiting"]
    /\ requests = {} /\ calls = 0
    /\ WithinCapacity

\* All members of the group, none of whom holds an UPCOMING booking, book room r.
Place(g, r) ==
    /\ outcome[g] = "waiting" /\ Members(g) # {}
    /\ \A s \in Members(g) : upcoming[s] = NoRoom
    /\ outcome' = [outcome EXCEPT ![g] = "placed"]
    /\ upcoming' = [s \in Student |-> IF s \in Members(g) THEN r ELSE upcoming[s]]
    /\ UNCHANGED <<group, active, officeVars>>
    /\ WithinCapacity'

\* The group is given up and its members are in no group; nobody's bed changes.
Dissolve(g) ==
    /\ outcome[g] = "waiting"
    /\ outcome' = [outcome EXCEPT ![g] = IF Members(g) = {} THEN "penalized" ELSE "dissolved"]
    /\ group' = [s \in Student |-> IF s \in Members(g) THEN NoGroup ELSE group[s]]
    /\ UNCHANGED <<bedVars, officeVars>>

\* A late member, perhaps of a group that is placed already.
Join(s, g) ==
    /\ group[s] = NoGroup /\ outcome[g] # "dissolved"
    /\ group' = [group EXCEPT ![s] = g]
    /\ UNCHANGED <<outcome, bedVars, officeVars>>

\* The office is asked to book room r for a student without a room ...
Request(s, r) ==
    /\ upcoming[s] = NoRoom /\ active[s] = NoRoom
    /\ requests' = requests \cup {<<s, r>>} /\ calls' = calls + 1
    /\ UNCHANGED <<groupVars, bedVars>>

\* ... and does, moving the student if a group was placed meanwhile, or does not.
Answer(s, r) ==
    /\ <<s, r>> \in requests
    /\ requests' = requests \ {<<s, r>>}
    /\ \/ upcoming' = [upcoming EXCEPT ![s] = r] /\ WithinCapacity'
       \/ UNCHANGED upcoming
    /\ UNCHANGED <<groupVars, active, calls>>

\* The office moves a student in, or out of room r.
Move(s, r) ==
    /\ calls' = calls + 1
    /\ \/ /\ active[s] = NoRoom
          /\ active' = [active EXCEPT ![s] = r] /\ WithinCapacity'
          /\ UNCHANGED upcoming
       \/ /\ upcoming' = [upcoming EXCEPT ![s] = IF @ = r THEN NoRoom ELSE @]
          /\ active' = [active EXCEPT ![s] = IF @ = r THEN NoRoom ELSE @]
    /\ UNCHANGED <<groupVars, requests>>

Next ==
    \/ \E g \in Group : Dissolve(g) \/ \E r \in Room : Place(g, r)
    \/ \E s \in Student, g \in Group : Join(s, g)
    \/ \E s \in Student, r \in Room : Request(s, r) \/ Answer(s, r) \/ Move(s, r)

Spec == Init /\ [][Next]_vars
=============================================================================
