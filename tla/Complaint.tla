----------------------------- MODULE Complaint -----------------------------
(* Complaints, the votes for them (src/working-routes/complaint.js) and    *)
(* the attendants who resolve them (assignAttendent in                     *)
(* student.controller.js), over the connection pool they share.            *)
(*                                                                         *)
(* pool.query is one statement on a connection of the pool, which commits  *)
(* at once; an upvote is a transaction on a connection of its own, and     *)
(* other requests do not see what it wrote before it commits.  The catch   *)
(* block of the upvote has become unreachable text behind its return: a    *)
(* statement that fails escapes, and the connection goes back to the pool  *)
(* in a transaction that is aborted.                                       *)
EXTENDS Integers, Sequences, FiniteSets, FiniteSetsExt

CONSTANTS
    Student,
    Hostel,
    HostelOf,        \* HostelOf[s]: the hostel in the row of student s
    Staff,           \* the numbers of those who work on complaints: rows of attendent or of admin
    Email,
    Client,          \* connections of the pool
    Request,         \* upvotes and assignments of attendants under way at a time
    MaxComplaints    \* bound on the complaints

ASSUME ComplaintAssumption ==
    /\ HostelOf \in [Student -> Hostel]
    /\ Staff \subseteq Nat \ {0} /\ Student \cap Staff = {}
    /\ MaxComplaints \in Nat

VARIABLES
    complaint,          \* the rows of table complaint in the order of their ids,
    old,                \* and those that are more than 7 days old
    complaint_upvotes,  \* rows <<complaint, student>>
    attendent,          \* its rows in the order of their ids
    client,             \* client[k]: in the pool, taken out of it, or in it and aborted
    seen,               \* seen[p]: the complaints on the list that person p looks at
    request             \* request[q]: where a handler is and what it has read

tables == <<complaint, old, complaint_upvotes, attendent>>
vars == <<tables, client, seen, request>>

Idle == [pc |-> "idle", student |-> {}, complaint |-> 0, hostel |-> {}, email |-> {},
         found |-> 0, client |-> {}]

Init ==
    /\ complaint = <<>> /\ old = {} /\ complaint_upvotes = {} /\ attendent = <<>>
    /\ client = [k \in Client |-> "idle"]
    /\ seen = [p \in Student \cup Staff |-> {}]
    /\ request = [q \in Request |-> Idle]

Goto(q, pc) == request' = [request EXCEPT ![q].pc = pc]
Done(q) == request' = [request EXCEPT ![q] = Idle]

\* pool.query finds a connection it can use.
Pool == \E k \in Client : client[k] = "idle"

-----------------------------------------------------------------------------
(* Lists                                                                   *)

all == DOMAIN complaint
hostelComplaints(s) == {c \in all : complaint[c].hostel = HostelOf[s]}
byHostel(h) == {c \in all : complaint[c].hostel = h /\ complaint[c].status = "pending"}
myComplaints(s) == {c \in all : complaint[c].student_id = s}
escalated == {c \in old : complaint[c].status # "resolved"}

Look(p) ==
    /\ Pool
    /\ \/ p \in Student /\ \E L \in {hostelComplaints(p), myComplaints(p)} :
              seen' = [seen EXCEPT ![p] = L]
       \/ p \in Staff /\ \E L \in {all, escalated} \cup {byHostel(h) : h \in Hostel} :
              seen' = [seen EXCEPT ![p] = L]
    /\ UNCHANGED <<tables, client, request>>

-----------------------------------------------------------------------------
(* Complaints                                                              *)

postComplaint(s, h) ==
    /\ Pool /\ Len(complaint) < MaxComplaints
    /\ complaint' = Append(complaint,
           [student_id |-> s, hostel |-> h, status |-> "pending", upvotes |-> 0])
    /\ UNCHANGED <<old, complaint_upvotes, attendent, client, seen, request>>

GrowsOld(c) ==
    /\ old' = old \cup {c}
    /\ UNCHANGED <<complaint, complaint_upvotes, attendent, client, seen, request>>

\* An upvote that has not committed holds the key of its vote, and the row it has counted.
HoldsVote(q, c, s) ==
    request[q].pc \in {"count", "commit"} /\ request[q].complaint = c /\ request[q].student = {s}
HoldsRow(q, c) == request[q].pc = "commit" /\ request[q].complaint = c

\* One UPDATE, which waits for the row; its column resolved_by refers to attendent, and the statement
\* fails for the number of somebody who is not in there.
updateComplaint(a, c, status) ==
    /\ Pool /\ c \in seen[a] /\ a \in DOMAIN attendent
    /\ \A q \in Request : ~ HoldsRow(q, c)
    /\ complaint[c].status # "resolved"
    /\ complaint' = [complaint EXCEPT ![c].status = status]
    /\ UNCHANGED <<old, complaint_upvotes, attendent, client, seen, request>>

-----------------------------------------------------------------------------
(* Upvotes                                                                 *)

\* BEGIN on a connection that is aborted fails, which changes nothing.
Upvote(q, s, c) ==
    /\ c \in seen[s] /\ request[q] = Idle
    /\ \E k \in Client :
          /\ client[k] = "idle"
          /\ client' = [client EXCEPT ![k] = "out"]
          /\ request' = [request EXCEPT ![q] =
                [Idle EXCEPT !.pc = "check", !.student = {s}, !.complaint = c, !.client = {k}]]
    /\ UNCHANGED <<tables, seen>>

\* The transaction ends one way or another, and finally the connection goes back.
Release(q, state) ==
    /\ client' = [k \in Client |-> IF k \in request[q].client THEN state ELSE client[k]]
    /\ Done(q)

Voted(q) == \E s \in request[q].student : <<request[q].complaint, s>> \in complaint_upvotes

UpvoteCheck(q) ==
    /\ request[q].pc = "check"
    /\ \/ Voted(q) /\ Release(q, "idle")
       \/ ~ Voted(q) /\ Goto(q, "insert") /\ UNCHANGED client
    /\ UNCHANGED <<tables, seen>>

\* Faulty variant of UpvoteInsert: pool.query instead of client.query, which commits the
\* vote at once (used by a mutant).
UpvoteInsertAtOnce(q) ==
    /\ request[q].pc = "insert" /\ ~ Voted(q)
    /\ Goto(q, "count")
    /\ complaint_upvotes' =
           complaint_upvotes \cup {<<request[q].complaint, s>> : s \in request[q].student}
    /\ UNCHANGED <<complaint, old, attendent, client, seen>>

\* The INSERT waits for one of the same vote, and fails if that one has committed.
UpvoteInsert(q) ==
    /\ request[q].pc = "insert" /\ ~ Voted(q)
    /\ \A p \in Request, s \in request[q].student : ~ HoldsVote(p, request[q].complaint, s)
    /\ Goto(q, "count")
    /\ UNCHANGED <<tables, client, seen>>

\* Faulty variant of UpvoteEscapes: nothing releases the connection (used by a mutant).
UpvoteEscapesWithIt(q) ==
    /\ request[q].pc = "insert" /\ Voted(q)
    /\ Done(q)
    /\ UNCHANGED <<tables, client, seen>>

\* ... and the failure escapes.
UpvoteEscapes(q) ==
    /\ request[q].pc = "insert" /\ Voted(q)
    /\ Release(q, "aborted")
    /\ UNCHANGED <<tables, seen>>

\* The UPDATE waits for the row and looks at its status then; without a pending complaint
\* the vote is rolled back.
UpvoteCount(q) ==
    LET c == request[q].complaint IN
    /\ request[q].pc = "count"
    /\ \A p \in Request : ~ HoldsRow(p, c)
    /\ \/ complaint[c].status = "pending" /\ Goto(q, "commit") /\ UNCHANGED client
       \/ complaint[c].status # "pending" /\ Release(q, "idle")
    /\ UNCHANGED <<tables, seen>>

UpvoteCommit(q) ==
    LET c == request[q].complaint IN
    /\ request[q].pc = "commit"
    /\ complaint' = [complaint EXCEPT ![c].upvotes = @ + 1]
    /\ complaint_upvotes' = complaint_upvotes \cup {<<c, s>> : s \in request[q].student}
    /\ Release(q, "idle")
    /\ UNCHANGED <<old, attendent, seen>>

\* The connection of an upvote breaks: the server rolls back, the pool opens another.
ConnectionLost(q) ==
    /\ request[q].client # {}
    /\ Release(q, "idle")
    /\ UNCHANGED <<tables, seen>>

\* A connection that is aborted is of use again after somebody else's pool.query has failed
\* on it, after a handler that catches has failed to begin on it, or 10 s unused.
Recycle(k) ==
    /\ client[k] = "aborted"
    /\ client' = [client EXCEPT ![k] = "idle"]
    /\ UNCHANGED <<tables, seen, request>>

-----------------------------------------------------------------------------
(* Attendants: four statements that commit one by one                      *)

UsesEmail(i, e) == attendent[i].email = e

\* The warden of hostel h names somebody with address e.
assignAttendent(q, h, e) ==
    /\ Pool /\ request[q] = Idle
    /\ request' = [request EXCEPT ![q] =
          [Idle EXCEPT !.pc = "existing", !.hostel = {h}, !.email = {e}]]
    /\ UNCHANGED <<tables, client, seen>>

Existing(q) ==
    LET there == {i \in DOMAIN attendent : attendent[i].hostel \in request[q].hostel} IN
    /\ Pool /\ request[q].pc = "existing"
    /\ \E i \in IF there = {} THEN {0} ELSE there :
          request' = [request EXCEPT ![q].found = i, ![q].pc = "duplicate"]
    /\ UNCHANGED <<tables, client, seen>>

DuplicateEmail(q) ==
    /\ Pool /\ request[q].pc = "duplicate"
    /\ IF \E i \in DOMAIN attendent \ {request[q].found}, e \in request[q].email : UsesEmail(i, e)
       THEN Done(q)
       ELSE Goto(q, IF request[q].found = 0 THEN "create" ELSE "update")
    /\ UNCHANGED <<tables, client, seen>>

\* The unique index on email refuses what the check came too early for.
Taken(q) ==
    \E i \in DOMAIN attendent \ {request[q].found}, e \in request[q].email : UsesEmail(i, e)

UpdateAttendant(q) ==
    /\ Pool /\ request[q].pc = "update"
    /\ IF Taken(q) THEN UNCHANGED attendent
       ELSE \E e \in request[q].email :
                attendent' = [attendent EXCEPT ![request[q].found].email = e]
    /\ Done(q)
    /\ UNCHANGED <<complaint, old, complaint_upvotes, client, seen>>

CreateAttendant(q) ==
    /\ Pool /\ request[q].pc = "create"
    /\ IF Taken(q) THEN UNCHANGED attendent
       ELSE \E h \in request[q].hostel, e \in request[q].email :
                attendent' = Append(attendent, [hostel |-> h, email |-> e])
    /\ Done(q)
    /\ UNCHANGED <<complaint, old, complaint_upvotes, client, seen>>

\* A statement finds a connection that is aborted: the request is answered with 500.
AssignRefused(q) ==
    /\ request[q].pc \in {"existing", "duplicate", "create", "update"}
    /\ \E k \in Client :
          client[k] = "aborted" /\ client' = [client EXCEPT ![k] = "idle"]
    /\ Done(q)
    /\ UNCHANGED <<tables, seen>>

-----------------------------------------------------------------------------
Proceed(q) ==
    \/ UpvoteCheck(q) \/ UpvoteInsert(q) \/ UpvoteEscapes(q) \/ UpvoteCount(q) \/ UpvoteCommit(q)
    \/ Existing(q) \/ DuplicateEmail(q) \/ UpdateAttendant(q) \/ CreateAttendant(q)
    \/ AssignRefused(q)

Next ==
    \/ \E q \in Request :
          \/ Proceed(q) \/ ConnectionLost(q)
          \/ \E s \in Student : \E c \in seen[s] : Upvote(q, s, c)
          \/ \E h \in Hostel, e \in Email : assignAttendent(q, h, e)
    \/ \E p \in Student \cup Staff : Look(p)
    \/ \E s \in Student, h \in Hostel : postComplaint(s, h)
    \/ \E a \in Staff : \E c \in seen[a], t \in {"pending", "in_progress", "resolved"} :
          updateComplaint(a, c, t)
    \/ \E c \in all : GrowsOld(c)
    \/ \E k \in Client : Recycle(k)

Spec == Init /\ [][Next]_vars

\* PostgreSQL queues those who wait for a row or a key and pg those who wait for a
\* connection, hence strong fairness.
FairSpec == Spec /\ \A q \in Request : SF_vars(Proceed(q))

-----------------------------------------------------------------------------
(* Properties                                                              *)

\* complaint_upvotes and the column upvotes are written by two statements: the column
\* counts the votes there are, whatever fails or is resolved in between and however often
\* a student taps.
UpvotesCounted ==
    \A c \in all : complaint[c].upvotes = Cardinality({s \in Student : <<c, s>> \in complaint_upvotes})

\* Every path of the upvote gives its connection back, and nobody waits for ever for a
\* row, a key or a connection.
EveryRequestEnds ==
    /\ \A q \in Request : request[q].pc # "idle" ~> request[q].pc = "idle"
    /\ \A k \in Client : client[k] = "out" ~> client[k] # "out"

-----------------------------------------------------------------------------
(* Claims that the code does not keep: see README.md                       *)

\* complaint.js:488-501, unreachable, would roll back: a connection in the pool is in no
\* transaction.
PoolIsClean == \A k \in Client : client[k] # "aborted"

\* student.controller.js, "EXISTING ATTENDANT FOR THIS HOSTEL?": a hostel has one.
OneAttendantPerHostel ==
    \A i, j \in DOMAIN attendent : attendent[i].hostel = attendent[j].hostel => i = j
=============================================================================
