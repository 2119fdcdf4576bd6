-------------------------- MODULE Complaint_proofs --------------------------
(***************************************************************************)
(* Proofs about Complaint: type correctness, and the column upvotes counts *)
(* the rows of complaint_upvotes.  The count and the rows are written by   *)
(* two statements of one transaction, so what is needed of the others is   *)
(* that two of them never hold the same vote, or the same row.             *)
(***************************************************************************)
EXTENDS Complaint, FiniteSetTheorems, SequenceTheorems, TLAPS

-----------------------------------------------------------------------------
(* The inductive invariant                                                 *)

Row == [student_id : Student, hostel : Hostel,
        status : {"pending", "in_progress", "resolved"}, upvotes : Nat]

Upvoting == {"check", "insert", "count", "commit"}
Assigning == {"existing", "duplicate", "update", "create"}

Handler == [pc : {"idle"} \cup Upvoting \cup Assigning, student : SUBSET Student,
            complaint : Nat, hostel : SUBSET Hostel, email : SUBSET Email, found : Nat,
            client : SUBSET Client]

TypeOK ==
    /\ complaint \in Seq(Row)
    /\ old \subseteq all
    /\ complaint_upvotes \subseteq all \X Student
    /\ attendent \in Seq([hostel : Hostel, email : Email])
    /\ client \in [Client -> {"idle", "out", "aborted"}]
    /\ seen \in [Student \cup Staff -> SUBSET all]
    /\ request \in [Request -> Handler]

\* What the assignment of an attendant has found is a row.
FoundInv ==
    \A q \in Request :
        /\ request[q].found \in {0} \cup DOMAIN attendent
        /\ request[q].pc = "update" => request[q].found # 0

Votes(c) == {s \in Student : <<c, s>> \in complaint_upvotes}

\* An upvote is one student's, for a complaint there is.
UpvoteInv ==
    \A q \in Request :
        request[q].pc \in Upvoting =>
            /\ request[q].complaint \in all
            /\ \E s \in Student : request[q].student = {s}

\* A vote that an upvote holds has not been counted, and nobody else holds it; the row of
\* a complaint is held by one upvote.
HoldInv ==
    /\ \A q \in Request : request[q].pc \in {"count", "commit"} => ~ Voted(q)
    /\ \A p, q \in Request, c \in all, s \in Student :
           HoldsVote(p, c, s) /\ HoldsVote(q, c, s) => p = q
    /\ \A p, q \in Request, c \in all : HoldsRow(p, c) /\ HoldsRow(q, c) => p = q

CountInv == UpvotesCounted /\ \A c \in all : IsFiniteSet(Votes(c))

Inv == TypeOK /\ FoundInv /\ UpvoteInv /\ HoldInv /\ CountInv

-----------------------------------------------------------------------------
(* Lemmas                                                                  *)

\* An UPDATE of one row of complaint changes that row only.
LEMMA RowWritten ==
    ASSUME TypeOK, NEW c \in all, NEW r \in Row,
           complaint' = [complaint EXCEPT ![c] = r]
    PROVE  /\ complaint' \in Seq(Row) /\ all' = all
           /\ complaint'[c] = r
           /\ \A d \in all : d # c => complaint'[d] = complaint[d]
<1>1. complaint \in Seq(Row) /\ c \in 1..Len(complaint) /\ all = 1..Len(complaint)
  BY LenProperties DEF TypeOK, all
<1>2. complaint' \in Seq(Row) /\ Len(complaint') = Len(complaint)
  BY <1>1, ExceptSeq
<1>3. all' = all BY <1>1, <1>2, LenProperties DEF all
<1> QED BY <1>1, <1>2, <1>3 DEF all

\* A complaint is filed after all others.
LEMMA RowInserted ==
    ASSUME TypeOK, NEW r \in Row, complaint' = Append(complaint, r)
    PROVE  /\ complaint' \in Seq(Row)
           /\ all' = all \cup {Len(complaint) + 1} /\ Len(complaint) + 1 \notin all
           /\ complaint'[Len(complaint) + 1] = r
           /\ \A d \in all : complaint'[d] = complaint[d]
<1>1. complaint \in Seq(Row) /\ Len(complaint) \in Nat /\ all = 1..Len(complaint)
  BY LenProperties DEF TypeOK, all
<1>2. /\ complaint' \in Seq(Row) /\ Len(complaint') = Len(complaint) + 1
      /\ complaint'[Len(complaint) + 1] = r
      /\ \A d \in 1..Len(complaint) : complaint'[d] = complaint[d]
  BY <1>1, AppendProperties
<1>3. all' = 1..(Len(complaint) + 1) BY <1>2, LenProperties DEF all
<1> QED BY <1>1, <1>2, <1>3

\* A complaint that is looked at, or upvoted, has a row.
LEMMA RowType ==
    ASSUME TypeOK, NEW c \in all
    PROVE  complaint[c] \in Row /\ c \in Nat
BY LenProperties, ElementOfSeq DEF TypeOK, all

\* Giving the connection back ends the request, and no other.
LEMMA ReleaseType ==
    ASSUME TypeOK, NEW q \in Request, NEW state \in {"idle", "aborted"}, Release(q, state)
    PROVE  /\ client' \in [Client -> {"idle", "out", "aborted"}]
           /\ request' \in [Request -> Handler]
           /\ request'[q] = Idle
           /\ \A p \in Request : p # q => request'[p] = request[p]
<1>1. Idle \in Handler BY DEF Idle, Handler
<1> QED BY <1>1 DEF TypeOK, Release, Done

\* So does an answer to a request that holds no connection.
LEMMA DoneType ==
    ASSUME TypeOK, NEW q \in Request, Done(q)
    PROVE  /\ request' \in [Request -> Handler]
           /\ request'[q] = Idle
           /\ \A p \in Request : p # q => request'[p] = request[p]
<1>1. Idle \in Handler BY DEF Idle, Handler
<1> QED BY <1>1 DEF TypeOK, Done

\* A handler goes on with what it has read.
LEMMA GotoType ==
    ASSUME TypeOK, NEW q \in Request, NEW pc \in Upvoting \cup Assigning, Goto(q, pc)
    PROVE  /\ request' \in [Request -> Handler]
           /\ request'[q] = [request[q] EXCEPT !.pc = pc]
           /\ \A p \in Request : p # q => request'[p] = request[p]
BY ZenonT(40) DEF TypeOK, Goto, Handler

\* Initially the invariant holds.
LEMMA InitInv == Init => Inv
<1> SUFFICES ASSUME Init PROVE Inv OBVIOUS
<1> USE DEF Init, Idle
<1>1. complaint = <<>> /\ all = {} /\ attendent = <<>> BY DEF all
<1>2. Idle \in Handler BY DEF Handler
<1>3. TypeOK BY <1>1, <1>2 DEF TypeOK
<1>4. FoundInv BY DEF FoundInv
<1>5. UpvoteInv BY DEF UpvoteInv, Upvoting
<1>6. HoldInv BY <1>1 DEF HoldInv, HoldsVote, HoldsRow
<1>7. CountInv BY <1>1 DEF CountInv, UpvotesCounted
<1> QED BY <1>3, <1>4, <1>5, <1>6, <1>7 DEF Inv

-----------------------------------------------------------------------------
(* Type correctness                                                        *)

\* An attendant is one of the rows, or is added to them.
LEMMA AttendantWritten ==
    ASSUME Inv, NEW q \in Request, UpdateAttendant(q) \/ CreateAttendant(q)
    PROVE  /\ attendent' \in Seq([hostel : Hostel, email : Email])
           /\ DOMAIN attendent \subseteq DOMAIN attendent'
<1> DEFINE A == [hostel : Hostel, email : Email]
<1> USE DEF Inv, TypeOK
<1>1. attendent \in Seq(A) OBVIOUS
<1>2. CASE UNCHANGED attendent BY <1>1, <1>2
<1>3. CASE /\ request[q].pc = "update"
           /\ \E e \in request[q].email :
                 attendent' = [attendent EXCEPT ![request[q].found].email = e]
  <2> DEFINE i == request[q].found
  <2>1. i \in 1..Len(attendent) BY <1>1, <1>3, LenProperties DEF FoundInv
  <2>2. attendent[i] \in A BY <1>1, <2>1, ElementOfSeq
  <2>3. PICK e \in request[q].email : attendent' = [attendent EXCEPT ![i].email = e]
    BY <1>3
  <2>4. e \in Email BY DEF Handler
  <2> DEFINE r == [attendent[i] EXCEPT !.email = e]
  <2>5. r \in A BY <2>2, <2>4
  <2>6. attendent' = [attendent EXCEPT ![i] = r] BY <2>3
  <2> HIDE DEF r, i
  <2>7. attendent' \in Seq(A) /\ Len(attendent') = Len(attendent)
    BY <1>1, <2>1, <2>5, <2>6, ExceptSeq
  <2> QED BY <1>1, <2>7, LenProperties
<1>4. CASE \E h \in request[q].hostel, e \in request[q].email :
              attendent' = Append(attendent, [hostel |-> h, email |-> e])
  <2>1. PICK h \in request[q].hostel, e \in request[q].email :
              attendent' = Append(attendent, [hostel |-> h, email |-> e])
    BY <1>4
  <2>2. [hostel |-> h, email |-> e] \in A BY DEF Handler
  <2> HIDE DEF A
  <2>3. attendent' \in Seq(A) /\ Len(attendent') = Len(attendent) + 1
    BY <1>1, <2>1, <2>2, AppendProperties
  <2> QED BY <1>1, <2>3, LenProperties DEF A
<1> QED BY <1>2, <1>3, <1>4 DEF UpdateAttendant, CreateAttendant

\* The vote of an upvote is a vote of a student for a complaint.
LEMMA CommitWrites ==
    ASSUME Inv, NEW q \in Request, UpvoteCommit(q)
    PROVE  \E c \in all, s \in Student :
              /\ request[q].complaint = c /\ request[q].student = {s}
              /\ complaint' = [complaint EXCEPT ![c].upvotes = @ + 1]
              /\ complaint_upvotes' = complaint_upvotes \cup {<<c, s>>}
              /\ complaint' \in Seq(Row) /\ all' = all
              /\ complaint'[c].upvotes = complaint[c].upvotes + 1
              /\ \A d \in all : d # c => complaint'[d] = complaint[d]
<1>1. request[q].complaint \in all /\ \E s \in Student : request[q].student = {s}
  BY DEF Inv, UpvoteInv, UpvoteCommit, Upvoting
<1> DEFINE c == request[q].complaint
           r == [complaint[c] EXCEPT !.upvotes = @ + 1]
<1>2. PICK s \in Student : request[q].student = {s} BY <1>1
<1>3. complaint' = [complaint EXCEPT ![c].upvotes = @ + 1] BY DEF UpvoteCommit
<1>4. complaint' = [complaint EXCEPT ![c] = r] BY <1>3
<1>5. complaint[c] \in Row BY <1>1, RowType DEF Inv
<1>6. r \in Row /\ r.upvotes = complaint[c].upvotes + 1 BY <1>5 DEF Row
<1>7. complaint_upvotes' = complaint_upvotes \cup {<<c, s>>} BY <1>2 DEF UpvoteCommit
<1>8. c \in all BY <1>1
<1> HIDE DEF r, c
<1>9. /\ complaint' \in Seq(Row) /\ all' = all /\ complaint'[c] = r
      /\ \A d \in all : d # c => complaint'[d] = complaint[d]
  BY <1>4, <1>6, <1>8, RowWritten DEF Inv
<1> QED BY <1>2, <1>3, <1>6, <1>7, <1>8, <1>9 DEF c

\* Every step leaves every variable well typed.
LEMMA TypeStep ==
    ASSUME Inv, [Next]_vars
    PROVE  TypeOK'
<1> USE DEF Inv, TypeOK, tables
<1>1. ASSUME NEW p \in Student \cup Staff, Look(p) PROVE TypeOK'
  <2>1. \A s, h : hostelComplaints(s) \subseteq all /\ myComplaints(s) \subseteq all
                    /\ byHostel(h) \subseteq all
    BY DEF hostelComplaints, myComplaints, byHostel
  <2>2. escalated \subseteq all BY DEF escalated
  <2>3. PICK L \in SUBSET all : seen' = [seen EXCEPT ![p] = L]
    BY <1>1, <2>1, <2>2 DEF Look
  <2>4. seen' \in [Student \cup Staff -> SUBSET all] BY <2>3
  <2> QED BY <1>1, <2>4 DEF Look, all
<1>2. ASSUME NEW s \in Student, NEW h \in Hostel, postComplaint(s, h) PROVE TypeOK'
  <2> DEFINE r == [student_id |-> s, hostel |-> h, status |-> "pending", upvotes |-> 0]
  <2>1. r \in Row BY DEF Row
  <2>2. complaint' = Append(complaint, r) BY <1>2 DEF postComplaint
  <2> HIDE DEF r
  <2>3. complaint' \in Seq(Row) /\ all \subseteq all' BY <2>1, <2>2, RowInserted
  <2> QED BY <1>2, <2>3 DEF postComplaint
<1>3. ASSUME NEW a \in Staff, NEW c \in seen[a],
             NEW t \in {"pending", "in_progress", "resolved"}, updateComplaint(a, c, t)
      PROVE  TypeOK'
  <2> DEFINE r == [complaint[c] EXCEPT !.status = t]
  <2>1. c \in all OBVIOUS
  <2>2. r \in Row BY <2>1, RowType DEF Row
  <2>3. complaint' = [complaint EXCEPT ![c] = r] BY <1>3 DEF updateComplaint
  <2> HIDE DEF r
  <2>4. complaint' \in Seq(Row) /\ all' = all BY <2>1, <2>2, <2>3, RowWritten
  <2> QED BY <1>3, <2>4 DEF updateComplaint
<1>4. ASSUME NEW c \in all, GrowsOld(c) PROVE TypeOK' BY <1>4 DEF GrowsOld, all
<1>5. ASSUME NEW k \in Client, Recycle(k) PROVE TypeOK' BY <1>5 DEF Recycle, all
<1>6. ASSUME NEW q \in Request, NEW s \in Student, NEW c \in seen[s], Upvote(q, s, c)
      PROVE  TypeOK'
  <2>1. c \in Nat BY RowType
  <2>2. \A k \in Client :
           [Idle EXCEPT !.pc = "check", !.student = {s}, !.complaint = c, !.client = {k}]
               \in Handler
    BY <2>1 DEF Idle, Handler, Upvoting
  <2> QED BY <1>6, <2>2 DEF Upvote, all
<1>7. ASSUME NEW q \in Request, UpvoteCheck(q) PROVE TypeOK'
  BY <1>7, ReleaseType, GotoType DEF UpvoteCheck, all, Upvoting
<1>8. ASSUME NEW q \in Request, UpvoteInsert(q) PROVE TypeOK'
  BY <1>8, GotoType DEF UpvoteInsert, all, Upvoting
<1>9. ASSUME NEW q \in Request, UpvoteEscapes(q) \/ ConnectionLost(q) PROVE TypeOK'
  BY <1>9, ReleaseType DEF UpvoteEscapes, ConnectionLost, all
<1>10. ASSUME NEW q \in Request, UpvoteCount(q) PROVE TypeOK'
  BY <1>10, ReleaseType, GotoType DEF UpvoteCount, all, Upvoting
<1>11. ASSUME NEW q \in Request, UpvoteCommit(q) PROVE TypeOK'
  <2>1. complaint' \in Seq(Row) /\ all' = all /\ complaint_upvotes' \subseteq all \X Student
    BY <1>11, CommitWrites
  <2> QED BY <1>11, <2>1, ReleaseType DEF UpvoteCommit
<1>12. ASSUME NEW q \in Request, NEW h \in Hostel, NEW e \in Email, assignAttendent(q, h, e)
       PROVE  TypeOK'
  <2>1. [Idle EXCEPT !.pc = "existing", !.hostel = {h}, !.email = {e}] \in Handler
    BY DEF Idle, Handler, Assigning
  <2> QED BY <1>12, <2>1 DEF assignAttendent, all
<1>13. ASSUME NEW q \in Request, Existing(q) PROVE TypeOK'
  <2>1. DOMAIN attendent \subseteq Nat BY LenProperties
  <2>2. PICK i \in Nat : request' = [request EXCEPT ![q].found = i, ![q].pc = "duplicate"]
    BY <1>13, <2>1 DEF Existing
  <2> DEFINE r == [request[q] EXCEPT !.found = i, !.pc = "duplicate"]
  <2>3. r \in Handler BY DEF Handler, Assigning
  <2>4. request' = [request EXCEPT ![q] = r] BY <2>2 DEF Handler
  <2> HIDE DEF r
  <2>5. request' \in [Request -> Handler] BY <2>3, <2>4
  <2> QED BY <1>13, <2>5 DEF Existing, all
<1>14. ASSUME NEW q \in Request, DuplicateEmail(q) PROVE TypeOK'
  BY <1>14, GotoType, DoneType DEF DuplicateEmail, all, Assigning
<1>15. ASSUME NEW q \in Request, UpdateAttendant(q) \/ CreateAttendant(q) PROVE TypeOK'
  BY <1>15, AttendantWritten, DoneType DEF UpdateAttendant, CreateAttendant, all
<1>16. ASSUME NEW q \in Request, AssignRefused(q) PROVE TypeOK'
  BY <1>16, DoneType DEF AssignRefused, all
<1>17. ASSUME UNCHANGED vars PROVE TypeOK' BY <1>17 DEF vars, all
<1> HIDE DEF Inv, TypeOK
<1> QED
  BY <1>1, <1>2, <1>3, <1>4, <1>5, <1>6, <1>7, <1>8, <1>9, <1>10, <1>11, <1>12, <1>13,
     <1>14, <1>15, <1>16, <1>17
  DEF Next, Proceed

-----------------------------------------------------------------------------
(* The votes                                                               *)

\* What the assignment of an attendant has found stays a row.
LEMMA FoundStep ==
    ASSUME Inv, [Next]_vars
    PROVE  FoundInv'
<1> USE DEF Inv, FoundInv, tables
<1>1. ASSUME NEW q \in Request,
             /\ request'[q].found \in {0} \cup DOMAIN attendent
             /\ request'[q].pc = "update" => request'[q].found # 0,
             \A p \in Request : p # q => request'[p] = request[p],
             DOMAIN attendent \subseteq DOMAIN attendent'
      PROVE  FoundInv'
  BY <1>1
<1>2. Idle.found = 0 /\ Idle.pc = "idle" BY DEF Idle
<1>3. ASSUME UNCHANGED <<request, attendent>> PROVE FoundInv' BY <1>3
<1>4. ASSUME NEW q \in Request, Done(q) \/ Release(q, "idle") \/ Release(q, "aborted"),
             DOMAIN attendent \subseteq DOMAIN attendent'
      PROVE  FoundInv'
  <2>1. request'[q] = Idle /\ \A p \in Request : p # q => request'[p] = request[p]
    BY <1>4, DoneType DEF Release
  <2> QED BY <1>1, <1>2, <1>4, <2>1
<1>5. ASSUME NEW q \in Request, NEW pc \in Upvoting \cup Assigning, Goto(q, pc),
             pc = "update" => request[q].found # 0, UNCHANGED attendent
      PROVE  FoundInv'
  <2>1. /\ request'[q] = [request[q] EXCEPT !.pc = pc]
        /\ \A p \in Request : p # q => request'[p] = request[p]
    BY <1>5, GotoType
  <2>2. request[q] \in Handler BY DEF TypeOK
  <2>3. request'[q].found = request[q].found /\ request'[q].pc = pc
    BY <2>1, <2>2 DEF Handler
  <2> QED BY <1>1, <1>5, <2>1, <2>3
<1>6. ASSUME NEW q \in Request, NEW s \in Student, NEW c \in seen[s], Upvote(q, s, c)
      PROVE  FoundInv'
  BY <1>1, <1>6 DEF Upvote, Idle, TypeOK
<1>7. ASSUME NEW q \in Request, NEW h \in Hostel, NEW e \in Email, assignAttendent(q, h, e)
      PROVE  FoundInv'
  BY <1>1, <1>7 DEF assignAttendent, Idle, TypeOK
<1>8. ASSUME NEW q \in Request, Existing(q) PROVE FoundInv'
  <2>1. PICK i \in {0} \cup DOMAIN attendent :
            request' = [request EXCEPT ![q].found = i, ![q].pc = "duplicate"]
    BY <1>8 DEF Existing
  <2>2. request \in [Request -> Handler] BY DEF TypeOK
  <2>3. /\ request'[q].found = i /\ request'[q].pc = "duplicate"
        /\ \A p \in Request : p # q => request'[p] = request[p]
    BY <2>1, <2>2 DEF Handler
  <2> QED BY <1>1, <1>8, <2>3 DEF Existing
<1>9. ASSUME NEW q \in Request, DuplicateEmail(q) PROVE FoundInv'
  BY <1>4, <1>5, <1>9 DEF DuplicateEmail, Assigning
<1>10. ASSUME NEW q \in Request, UpdateAttendant(q) \/ CreateAttendant(q) PROVE FoundInv'
  BY <1>4, <1>10, AttendantWritten DEF UpdateAttendant, CreateAttendant
<1>11. ASSUME NEW q \in Request, UpvoteCheck(q) \/ UpvoteInsert(q) \/ UpvoteCount(q)
       PROVE  FoundInv'
  BY <1>4, <1>5, <1>11 DEF UpvoteCheck, UpvoteInsert, UpvoteCount, Upvoting
<1>12. ASSUME NEW q \in Request,
              \/ UpvoteEscapes(q) \/ UpvoteCommit(q) \/ ConnectionLost(q) \/ AssignRefused(q)
       PROVE  FoundInv'
  BY <1>4, <1>12 DEF UpvoteEscapes, UpvoteCommit, ConnectionLost, AssignRefused
<1> HIDE DEF Inv, FoundInv
<1> QED
  BY <1>3, <1>6, <1>7, <1>8, <1>9, <1>10, <1>11, <1>12
  DEF Next, Proceed, vars, Look, postComplaint, updateComplaint, GrowsOld, Recycle

\* A request that holds no vote after the step, which counts none.
NoVoteStep(q) ==
    /\ UNCHANGED <<complaint, complaint_upvotes>>
    /\ request'[q].pc \notin {"count", "commit"}
    /\ request'[q].pc \in Upvoting =>
           /\ request'[q].complaint \in all
           /\ \E s \in Student : request'[q].student = {s}
    /\ \A p \in Request : p # q => request'[p] = request[p]

\* A step of no request, which counts no vote either.
NoRequestStep ==
    /\ UNCHANGED <<request, complaint_upvotes>>
    /\ all \subseteq all'
    /\ \A c \in all : complaint'[c].upvotes = complaint[c].upvotes
    /\ \A c \in all' \ all : complaint'[c].upvotes = 0

\* UpvoteCount finds the complaint pending.
CountStep(q) ==
    /\ request[q].pc = "count" /\ Goto(q, "commit")
    /\ \A p \in Request : ~ HoldsRow(p, request[q].complaint)
    /\ UNCHANGED <<complaint, complaint_upvotes>>

\* What a step means for the votes.
LEMMA VoteSteps ==
    ASSUME Inv, [Next]_vars
    PROVE  \/ NoRequestStep
           \/ \E q \in Request :
                 NoVoteStep(q) \/ UpvoteInsert(q) \/ CountStep(q) \/ UpvoteCommit(q)
<1> USE DEF Inv, tables
<1>1. ASSUME NEW q \in Request, Done(q) \/ Release(q, "idle") \/ Release(q, "aborted"),
             UNCHANGED <<complaint, complaint_upvotes>>
      PROVE  NoVoteStep(q)
  <2>1. request'[q] = Idle /\ \A p \in Request : p # q => request'[p] = request[p]
    BY <1>1, DoneType DEF Release
  <2> QED BY <1>1, <2>1 DEF NoVoteStep, Idle, Upvoting
<1>2. ASSUME NEW q \in Request, NEW pc \in {"insert"} \cup Assigning, Goto(q, pc),
             pc = "insert" => request[q].pc = "check",
             UNCHANGED <<complaint, complaint_upvotes>>
      PROVE  NoVoteStep(q)
  <2>1. pc \in Upvoting \cup Assigning BY DEF Upvoting
  <2>2. /\ request'[q] = [request[q] EXCEPT !.pc = pc]
        /\ \A p \in Request : p # q => request'[p] = request[p]
    BY <1>2, <2>1, GotoType
  <2>3. request[q] \in Handler BY DEF TypeOK
  <2>4. /\ request'[q].pc = pc /\ request'[q].student = request[q].student
        /\ request'[q].complaint = request[q].complaint
    BY <2>2, <2>3 DEF Handler
  <2> QED BY <1>2, <2>2, <2>4 DEF NoVoteStep, UpvoteInv, Upvoting, Assigning
<1>3. ASSUME NEW q \in Request, NEW s \in Student, NEW c \in seen[s], Upvote(q, s, c)
      PROVE  NoVoteStep(q)
  BY <1>3 DEF Upvote, NoVoteStep, Idle, TypeOK
<1>4. ASSUME NEW q \in Request, NEW h \in Hostel, NEW e \in Email, assignAttendent(q, h, e)
      PROVE  NoVoteStep(q)
  BY <1>4 DEF assignAttendent, NoVoteStep, Idle, TypeOK, Upvoting
<1>5. ASSUME NEW q \in Request, Existing(q) PROVE NoVoteStep(q)
  <2>1. PICK i \in {0} \cup DOMAIN attendent :
            request' = [request EXCEPT ![q].found = i, ![q].pc = "duplicate"]
    BY <1>5 DEF Existing
  <2>2. request \in [Request -> Handler] BY DEF TypeOK
  <2>3. /\ request'[q].pc = "duplicate"
        /\ \A p \in Request : p # q => request'[p] = request[p]
    BY <2>1, <2>2 DEF Handler
  <2> QED BY <1>5, <2>3 DEF Existing, NoVoteStep, Upvoting
<1>6. ASSUME NEW q \in Request,
             \/ UpvoteCheck(q) \/ UpvoteEscapes(q) \/ ConnectionLost(q) \/ DuplicateEmail(q)
             \/ UpdateAttendant(q) \/ CreateAttendant(q) \/ AssignRefused(q)
      PROVE  NoVoteStep(q)
  BY <1>1, <1>2, <1>6 DEF UpvoteCheck, UpvoteEscapes, ConnectionLost, DuplicateEmail,
                          UpdateAttendant, CreateAttendant, AssignRefused, Assigning
<1>7. ASSUME NEW q \in Request, UpvoteCount(q) PROVE NoVoteStep(q) \/ CountStep(q)
  BY <1>1, <1>7 DEF UpvoteCount, CountStep
<1>8. ASSUME UNCHANGED <<request, complaint, complaint_upvotes>> PROVE NoRequestStep
  BY <1>8 DEF NoRequestStep, all
<1>9. ASSUME NEW s \in Student, NEW h \in Hostel, postComplaint(s, h) PROVE NoRequestStep
  <2> DEFINE r == [student_id |-> s, hostel |-> h, status |-> "pending", upvotes |-> 0]
  <2>1. r \in Row /\ r.upvotes = 0 BY DEF Row
  <2>2. complaint' = Append(complaint, r) BY <1>9 DEF postComplaint
  <2> HIDE DEF r
  <2> QED BY <1>9, <2>1, <2>2, RowInserted DEF postComplaint, NoRequestStep
<1>10. ASSUME NEW a \in Staff, NEW c \in seen[a],
              NEW t \in {"pending", "in_progress", "resolved"}, updateComplaint(a, c, t)
       PROVE  NoRequestStep
  <2> DEFINE r == [complaint[c] EXCEPT !.status = t]
  <2>1. c \in all BY DEF TypeOK
  <2>2. r \in Row /\ r.upvotes = complaint[c].upvotes BY <2>1, RowType DEF Row
  <2>3. complaint' = [complaint EXCEPT ![c] = r] BY <1>10 DEF updateComplaint
  <2> HIDE DEF r
  <2> QED BY <1>10, <2>1, <2>2, <2>3, RowWritten, ZenonT(40) DEF updateComplaint, NoRequestStep
<1> HIDE DEF Inv
<1> QED
  BY <1>3, <1>4, <1>5, <1>6, <1>7, <1>8, <1>9, <1>10
  DEF Next, Proceed, vars, Look, GrowsOld, Recycle

\* What UpvoteInsert and UpvoteCount leave of a request.
LEMMA GotoKeeps ==
    ASSUME Inv, NEW q \in Request, NEW pc \in Upvoting, Goto(q, pc)
    PROVE  /\ request'[q].pc = pc /\ request'[q].student = request[q].student
           /\ request'[q].complaint = request[q].complaint
           /\ \A p \in Request : p # q => request'[p] = request[p]
<1>1. /\ request'[q] = [request[q] EXCEPT !.pc = pc]
      /\ \A p \in Request : p # q => request'[p] = request[p]
  BY GotoType DEF Inv
<1>2. request[q] \in Handler BY DEF Inv, TypeOK
<1> QED BY <1>1, <1>2 DEF Handler

\* A commit ends its request and leaves the others.
LEMMA CommitEnds ==
    ASSUME Inv, NEW q \in Request, UpvoteCommit(q)
    PROVE  request'[q].pc = "idle" /\ \A p \in Request : p # q => request'[p] = request[p]
BY ReleaseType DEF Inv, UpvoteCommit, Idle

\* Upvotes stay upvotes of a student for a complaint there is.
LEMMA UpvoteStep ==
    ASSUME Inv, [Next]_vars
    PROVE  UpvoteInv'
<1> USE DEF UpvoteInv
<1>1. CASE NoRequestStep BY <1>1 DEF NoRequestStep, Inv
<1>2. ASSUME NEW q \in Request, NoVoteStep(q) PROVE UpvoteInv'
  BY <1>2 DEF NoVoteStep, Inv, all
<1>3. ASSUME NEW q \in Request, UpvoteInsert(q) PROVE UpvoteInv'
  BY <1>3, GotoKeeps DEF UpvoteInsert, Upvoting, Inv, all, tables
<1>4. ASSUME NEW q \in Request, CountStep(q) PROVE UpvoteInv'
  BY <1>4, GotoKeeps DEF CountStep, Upvoting, Inv, all
<1>5. ASSUME NEW q \in Request, UpvoteCommit(q) PROVE UpvoteInv'
  BY <1>5, CommitEnds, CommitWrites DEF Upvoting, Inv
<1> QED BY <1>1, <1>2, <1>3, <1>4, <1>5, VoteSteps

\* UpvoteInsert waits for the key of its vote, UpvoteCount for the row: no two upvotes
\* hold the same one.
LEMMA HoldStep ==
    ASSUME Inv, [Next]_vars
    PROVE  HoldInv'
<1> USE DEF HoldsVote, HoldsRow, Voted
<1>1. \A q \in Request : request[q].pc \in {"count", "commit"} =>
          request[q].complaint \in all /\ \E s \in Student : request[q].student = {s}
  BY DEF Inv, UpvoteInv, Upvoting
<1>2. ASSUME UNCHANGED complaint_upvotes,
             \A q \in Request : request'[q].pc \in {"count", "commit"} =>
                 request'[q] = request[q]
      PROVE  HoldInv'
  BY <1>1, <1>2 DEF HoldInv, Inv
<1>3. CASE NoRequestStep BY <1>2, <1>3 DEF NoRequestStep
<1>4. ASSUME NEW q \in Request, NoVoteStep(q) PROVE HoldInv'
  BY <1>2, <1>4 DEF NoVoteStep
<1>5. ASSUME NEW q \in Request, UpvoteInsert(q) PROVE HoldInv'
  <2>1. /\ request[q].pc = "insert" /\ ~ Voted(q)
        /\ \A p \in Request, s \in request[q].student :
              ~ HoldsVote(p, request[q].complaint, s)
        /\ UNCHANGED complaint_upvotes
    BY <1>5 DEF UpvoteInsert, tables
  <2>2. /\ request'[q].pc = "count" /\ request'[q].student = request[q].student
        /\ request'[q].complaint = request[q].complaint
        /\ \A p \in Request : p # q => request'[p] = request[p]
    BY <1>5, GotoKeeps DEF UpvoteInsert, Upvoting
  <2>3. \A p \in Request : request'[p].pc \in {"count", "commit"} => ~ Voted(p)'
    BY <2>1, <2>2 DEF HoldInv, Inv
  <2>4. all' = all BY <1>5 DEF UpvoteInsert, tables, all
  <2>5. ASSUME NEW p \in Request, NEW r \in Request, NEW c \in all', NEW s \in Student,
               HoldsVote(p, c, s)', HoldsVote(r, c, s)'
        PROVE  p = r
    <3>1. \A t \in Request : t # q /\ HoldsVote(t, c, s)' => HoldsVote(t, c, s) BY <2>2
    <3>2. \A t \in Request : t # q => ~ (HoldsVote(t, c, s)' /\ HoldsVote(q, c, s)')
      BY <2>1, <2>2, <3>1
    <3> HIDE DEF HoldsVote
    <3> QED BY <2>4, <2>5, <3>1, <3>2 DEF HoldInv, Inv
  <2>6. ASSUME NEW p \in Request, NEW r \in Request, NEW c \in all',
               HoldsRow(p, c)', HoldsRow(r, c)'
        PROVE  p = r
    BY <2>2, <2>4, <2>6 DEF HoldInv, Inv
  <2> HIDE DEF HoldsVote, HoldsRow, Voted
  <2> QED BY <2>3, <2>5, <2>6 DEF HoldInv
<1>6. ASSUME NEW q \in Request, CountStep(q) PROVE HoldInv'
  <2>1. /\ request'[q].pc = "commit" /\ request'[q].student = request[q].student
        /\ request'[q].complaint = request[q].complaint
        /\ \A p \in Request : p # q => request'[p] = request[p]
    BY <1>6, GotoKeeps DEF CountStep, Upvoting
  <2>2. \A p \in Request : request'[p].pc \in {"count", "commit"} => ~ Voted(p)'
    BY <1>6, <2>1 DEF HoldInv, Inv, CountStep
  <2>3. all' = all BY <1>6 DEF CountStep, all
  <2>4. ASSUME NEW p \in Request, NEW r \in Request, NEW c \in all', NEW s \in Student,
               HoldsVote(p, c, s)', HoldsVote(r, c, s)'
        PROVE  p = r
    <3>1. \A t \in Request : HoldsVote(t, c, s)' => HoldsVote(t, c, s)
      BY <1>6, <2>1 DEF CountStep
    <3> HIDE DEF HoldsVote
    <3> QED BY <2>3, <2>4, <3>1 DEF HoldInv, Inv
  <2>5. ASSUME NEW p \in Request, NEW r \in Request, NEW c \in all',
               HoldsRow(p, c)', HoldsRow(r, c)'
        PROVE  p = r
    <3>1. \A t \in Request : t # q /\ HoldsRow(t, c)' => HoldsRow(t, c) BY <2>1
    <3>2. \A t \in Request : t # q => ~ (HoldsRow(t, c)' /\ HoldsRow(q, c)')
      BY <1>6, <2>1, <3>1 DEF CountStep
    <3> HIDE DEF HoldsRow
    <3> QED BY <2>3, <2>5, <3>1, <3>2 DEF HoldInv, Inv
  <2> HIDE DEF HoldsVote, HoldsRow, Voted
  <2> QED BY <2>2, <2>4, <2>5 DEF HoldInv
<1>7. ASSUME NEW q \in Request, UpvoteCommit(q) PROVE HoldInv'
  <2>1. PICK c \in all, s \in Student :
              /\ request[q].complaint = c /\ request[q].student = {s}
              /\ complaint_upvotes' = complaint_upvotes \cup {<<c, s>>} /\ all' = all
    BY <1>7, CommitWrites
  <2>2. request'[q].pc = "idle" /\ \A p \in Request : p # q => request'[p] = request[p]
    BY <1>7, CommitEnds
  <2>3. HoldsVote(q, c, s) BY <1>7, <2>1 DEF UpvoteCommit
  <2>4. ASSUME NEW p \in Request, request'[p].pc \in {"count", "commit"}
        PROVE  ~ Voted(p)'
    <3>1. p # q /\ request'[p] = request[p] BY <2>2, <2>4
    <3>2. ~ Voted(p) /\ ~ HoldsVote(p, c, s) BY <2>3, <2>4, <3>1 DEF HoldInv, Inv
    <3>3. PICK t \in Student : request[p].student = {t} BY <1>1, <2>4, <3>1
    <3>4. <<request[p].complaint, t>> # <<c, s>> BY <2>4, <3>1, <3>2, <3>3
    <3> QED BY <2>1, <3>1, <3>2, <3>3, <3>4
  <2> QED BY <2>1, <2>2, <2>4, SMTT(30) DEF HoldInv, Inv
<1> QED BY <1>3, <1>4, <1>5, <1>6, <1>7, VoteSteps

\* A commit adds one vote that was not there and counts one; nothing else does either.
LEMMA CountedStep ==
    ASSUME Inv, [Next]_vars
    PROVE  CountInv'
<1> USE DEF CountInv, UpvotesCounted, Votes
<1>1. ASSUME UNCHANGED <<complaint, complaint_upvotes>> PROVE CountInv'
  BY <1>1 DEF Inv, all
<1>2. CASE NoRequestStep
  <2>1. ASSUME NEW c \in all' \ all PROVE Votes(c)' = {} /\ complaint'[c].upvotes = 0
    BY <1>2, <2>1 DEF NoRequestStep, Inv, TypeOK
  <2>2. ASSUME NEW c \in all PROVE Votes(c)' = Votes(c)
    BY <1>2 DEF NoRequestStep
  <2>3. ASSUME NEW c \in all' PROVE
            IsFiniteSet(Votes(c)') /\ complaint'[c].upvotes = Cardinality(Votes(c)')
    <3>1. CASE c \in all BY <1>2, <2>2, <3>1 DEF NoRequestStep, Inv
    <3>2. CASE c \notin all BY <2>1, <3>2, FS_EmptySet
    <3> QED BY <3>1, <3>2
  <2> QED BY <2>3
<1>3. ASSUME NEW q \in Request, UpvoteCommit(q) PROVE CountInv'
  <2>1. PICK c \in all, s \in Student :
              /\ request[q].complaint = c /\ request[q].student = {s}
              /\ complaint_upvotes' = complaint_upvotes \cup {<<c, s>>} /\ all' = all
              /\ complaint'[c].upvotes = complaint[c].upvotes + 1
              /\ \A d \in all : d # c => complaint'[d] = complaint[d]
    BY <1>3, CommitWrites
  <2>2. ~ Voted(q) BY <1>3 DEF UpvoteCommit, HoldInv, Inv
  <2>3. s \notin Votes(c) BY <2>1, <2>2 DEF Voted
  <2>4. Votes(c)' = Votes(c) \cup {s} BY <2>1
  <2>5. IsFiniteSet(Votes(c)) /\ complaint[c].upvotes = Cardinality(Votes(c))
    BY DEF Inv
  <2>6. /\ IsFiniteSet(Votes(c) \cup {s})
        /\ Cardinality(Votes(c) \cup {s}) = Cardinality(Votes(c)) + 1
    BY <2>3, <2>5, FS_AddElement
  <2>7. \A d \in all : d # c => Votes(d)' = Votes(d) BY <2>1
  <2>8. ASSUME NEW d \in all PROVE
            IsFiniteSet(Votes(d)') /\ complaint'[d].upvotes = Cardinality(Votes(d)')
    <3>1. CASE d = c BY <2>1, <2>4, <2>5, <2>6, <3>1
    <3>2. CASE d # c BY <2>1, <2>7, <3>2 DEF Inv
    <3> QED BY <3>1, <3>2
  <2> QED BY <2>1, <2>8
<1> QED BY <1>1, <1>2, <1>3, VoteSteps DEF NoVoteStep, UpvoteInsert, CountStep, tables

\* The invariant is inductive.
LEMMA StepInv == Inv /\ [Next]_vars => Inv'
<1> SUFFICES ASSUME Inv, [Next]_vars PROVE Inv' OBVIOUS
<1> QED BY TypeStep, FoundStep, UpvoteStep, HoldStep, CountedStep DEF Inv

-----------------------------------------------------------------------------
(* The theorems                                                            *)

\* Every state satisfies the invariant.
THEOREM InvHolds == Spec => []Inv
BY InitInv, StepInv, PTL DEF Spec

\* Every variable of the complaints, the votes, the attendants and the pool has its type.
THEOREM TypeCorrect == Spec => []TypeOK
<1>1. Inv => TypeOK BY DEF Inv
<1> QED BY <1>1, InvHolds, PTL

\* PUT /upvote: for any students, complaints, connections and requests, whatever fails or
\* is resolved in between, upvotes is the number of the complaint's votes.
THEOREM UpvotesAreCounted == Spec => []UpvotesCounted
<1>1. Inv => UpvotesCounted BY DEF Inv, CountInv
<1> QED BY <1>1, InvHolds, PTL
=============================================================================
