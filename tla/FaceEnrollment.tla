--------------------------- MODULE FaceEnrollment ---------------------------
(* Face enrollment: src/src/face-auth/services/face.service.js, its client *)
(* of the face service ZepIris (zepiris.service.js) and utils/Mutex.js.    *)
(*                                                                         *)
(* The rows are in the database and the faces in ZepIris, which knows no   *)
(* transactions: a handler keeps the two together by hand.  All calls to   *)
(* ZepIris go through one mutex; a call that gets no answer is aborted     *)
(* after 30 s and may or may not have had its effect.  Deleting a face     *)
(* that is not there may be an error or not.  A face's id is a fresh UUID: *)
(* here a number that nothing refers to.                                   *)
EXTENDS Integers, Sequences, FiniteSets, SequencesExt

CONSTANTS
    Student,
    Request,           \* requests to the server that can be under way
    MAX_FACE_IMAGES,   \* 5 in the code
    MaxFaults          \* bound on calls without an answer, failing statements and restarts

ASSUME FaceAssumption ==
    IsFiniteSet(Request) /\ MAX_FACE_IMAGES \in Nat \ {0} /\ MaxFaults \in Nat

VARIABLES
    face_enrolled,            \* face_enrolled[s]: the column of table student
    student_face_enrollment,  \* its rows <<student, face, photo_index>>
    faces,                    \* the faces ZepIris has
    mutex,                    \* _locked and _queue
    req,                      \* req[r]: what request r is doing
    faults,                   \* faults so far
    lost                      \* history: faces a fault came between

tables == <<face_enrolled, student_face_enrollment>>
vars == <<tables, faces, mutex, req, faults, lost>>

Removing == {"reenroll", "delete"}

\* call: the call to ZepIris, about face; ids: faces this request has enrolled, todo: faces
\* it has to remove.  The rows of an open transaction are those of ids.
Idle == [op |-> "none", pc |-> "idle", student |-> {}, images |-> 0, call |-> "none",
         face |-> 0, ok |-> FALSE, ids |-> <<>>, todo |-> <<>>]

Init ==
    /\ face_enrolled = [s \in Student |-> FALSE]
    /\ student_face_enrollment = {}
    /\ faces = {}
    /\ mutex = [locked |-> FALSE, queue |-> <<>>]
    /\ req = [r \in Request |-> Idle]
    /\ faults = 0
    /\ lost = {}

FacesOf(S) == {row[2] : row \in {x \in student_face_enrollment : x[1] \in S}}

\* A removal has to do with all faces of its student, an enrollment with those it enrolled.
Handles(r) ==
    (ToSet(req[r].ids) \cup {req[r].face} \cup (IF req[r].call = "delete" THEN FacesOf(req[r].student) ELSE {}))
        \ {0}

Known == faces \cup lost \cup FacesOf(Student) \cup UNION {Handles(r) : r \in Request}
Fresh == CHOOSE id \in 1..(Cardinality(Known) + 1) : id \notin Known

\* The student's row is locked from SELECT ... FOR UPDATE to the end of the transaction.
LocksRow(r) ==
    /\ req[r].op \in Removing \cup {"enroll"}
    /\ req[r].pc \notin {"idle", "row"} /\ req[r].call # "cleanup"

Answered(r, call) == req[r].pc = "answered" /\ req[r].call = call

\* Faces nothing refers to any more are forgotten.
Lose(S) == lost' = (lost \cup S) \cap (faces' \cup {row[2] : row \in student_face_enrollment'})
Fault == faults < MaxFaults /\ faults' = faults + 1

-----------------------------------------------------------------------------
(* The mutex: a call waits in request() until lock() resolves, and the     *)
(* finally clause hands the mutex to the first one that waits.             *)

Call(r, work, call, face) ==
    LET waits == mutex.locked IN
    /\ mutex' = IF waits THEN [mutex EXCEPT !.queue = Append(@, r)] ELSE [mutex EXCEPT !.locked = TRUE]
    /\ req' = [req EXCEPT ![r] = [work EXCEPT !.pc = IF waits THEN "queued" ELSE "sent",
                                              !.call = call, !.face = face, !.ok = FALSE]]

unlock(r, ok) ==
    IF mutex.queue # <<>>
    THEN /\ mutex' = [mutex EXCEPT !.queue = Tail(@)]
         /\ req' = [req EXCEPT ![r].pc = "answered", ![r].ok = ok, ![Head(mutex.queue)].pc = "sent"]
    ELSE /\ mutex' = [mutex EXCEPT !.locked = FALSE]
         /\ req' = [req EXCEPT ![r].pc = "answered", ![r].ok = ok]

End(r) == req' = [req EXCEPT ![r] = Idle] /\ UNCHANGED mutex

-----------------------------------------------------------------------------
(* ZepIris.                                                                *)

Effect(r) ==
    IF req[r].call = "insert" THEN faces \cup {req[r].face}
    ELSE IF req[r].call = "search" THEN faces ELSE faces \ {req[r].face}

Accepts(r) ==
    /\ req[r].pc = "sent"
    /\ faces' = Effect(r)
    /\ unlock(r, TRUE)
    /\ UNCHANGED <<tables, faults, lost>>

\* A picture without a good face, or a face that is not there.
Refuses(r) ==
    /\ req[r].pc = "sent"
    /\ req[r].call \in {"insert", "search"} \/ req[r].face \notin faces
    /\ unlock(r, FALSE)
    /\ UNCHANGED <<tables, faces, faults, lost>>

NoAnswer(r) ==
    /\ req[r].pc = "sent" /\ Fault
    /\ faces' \in {faces, Effect(r)}
    /\ unlock(r, FALSE)
    /\ UNCHANGED tables
    /\ Lose({req[r].face})

-----------------------------------------------------------------------------
(* enrollStudentFaces                                                      *)

Arrive(r, op, S, images) ==
    /\ req[r] = Idle
    /\ req' = [req EXCEPT ![r] = [Idle EXCEPT !.op = op, !.pc = "row", !.student = S, !.images = images]]
    /\ UNCHANGED <<tables, faces, mutex, faults, lost>>

\* Faulty variant: the SELECT has no FOR UPDATE (used by a mutant).
getStudentUnlocked(r) == req[r].pc = "row"

\* getStudentForEnrollment has the row: nobody else is changing this student's faces.
getStudentForEnrollment(r) ==
    /\ req[r].pc = "row"
    /\ \A other \in Request \ {r} : LocksRow(other) => req[other].student # req[r].student

IsEnrolled(r) == \A s \in req[r].student : face_enrolled[s]

Enroll(r) ==
    /\ req[r].op = "enroll" /\ getStudentForEnrollment(r)
    /\ IF IsEnrolled(r) THEN End(r) ELSE Call(r, req[r], "insert", Fresh)
    /\ UNCHANGED <<tables, faces, faults, lost>>

\* The face is stored: its row, then the next picture or the COMMIT.
ImageEnrolled(r) ==
    LET ids == Append(req[r].ids, req[r].face) IN
    /\ req[r].op = "enroll" /\ Answered(r, "insert") /\ req[r].ok
    /\ IF Len(ids) < req[r].images
       THEN /\ Call(r, [req[r] EXCEPT !.ids = ids], "insert", Fresh)
            /\ UNCHANGED tables
       ELSE /\ student_face_enrollment' =
                   student_face_enrollment \cup {<<s, ids[i], i>> : s \in req[r].student, i \in DOMAIN ids}
            /\ face_enrolled' = [s \in Student |-> s \in req[r].student \/ face_enrolled[s]]
            /\ End(r)
    /\ UNCHANGED <<faces, faults, lost>>

\* ROLLBACK, then cleanupEnrolledFaces, whatever becomes of its calls.
CleanUp(r, ids) ==
    /\ IF ids = <<>> THEN End(r)
       ELSE Call(r, [req[r] EXCEPT !.ids = Tail(ids)], "cleanup", Head(ids))
    /\ UNCHANGED <<tables, faces>>

ImageFails(r) ==
    /\ req[r].op = "enroll" /\ Answered(r, "insert") /\ ~ req[r].ok
    /\ CleanUp(r, req[r].ids)
    /\ UNCHANGED <<faults, lost>>

\* A statement fails after the face is stored, whose id is on the list already; the ROLLBACK
\* succeeds.
StatementFails(r) ==
    /\ req[r].op = "enroll" /\ Answered(r, "insert") /\ req[r].ok /\ Fault
    /\ CleanUp(r, Append(req[r].ids, req[r].face))
    /\ UNCHANGED lost

\* The ROLLBACK fails as well, or after a refused picture: it throws out of the catch clause
\* before cleanupEnrolledFaces.  PostgreSQL rolls back with the connection.
RollbackFails(r) ==
    /\ req[r].op = "enroll" /\ Answered(r, "insert") /\ Fault
    /\ End(r)
    /\ UNCHANGED <<tables, faces>>
    /\ Lose(Handles(r))

\* Faulty variant: a face that could not be deleted is tried again (used by a mutant).
FaceCleanedUpInTheEnd(r) ==
    /\ Answered(r, "cleanup")
    /\ CleanUp(r, IF req[r].ok THEN req[r].ids ELSE <<req[r].face>> \o req[r].ids)
    /\ UNCHANGED <<faults, lost>>

FaceCleanedUp(r) ==
    /\ Answered(r, "cleanup")
    /\ CleanUp(r, req[r].ids)
    /\ UNCHANGED <<faults, lost>>

-----------------------------------------------------------------------------
(* deleteStudentFaces, reEnrollStudentFaces and removeStudentFaces         *)

\* The removal is committed; a re-enrollment goes on with an enrollment of its own.
Removed(r) ==
    /\ IF req[r].op = "reenroll"
       THEN req' = [req EXCEPT ![r] = [Idle EXCEPT !.op = "enroll", !.pc = "row",
                                                   !.student = req[r].student, !.images = req[r].images]]
       ELSE req' = [req EXCEPT ![r] = Idle]
    /\ UNCHANGED mutex

RemoveFaces(r) ==
    LET todo == SetToSeq(FacesOf(req[r].student)) IN
    /\ req[r].op \in Removing /\ getStudentForEnrollment(r)
    /\ IF IsEnrolled(r) /\ todo # <<>>
       THEN Call(r, [req[r] EXCEPT !.todo = Tail(todo)], "delete", Head(todo)) /\ UNCHANGED face_enrolled
       ELSE /\ face_enrolled' = [s \in Student |-> s \notin req[r].student /\ face_enrolled[s]]
            /\ Removed(r)
    /\ UNCHANGED <<student_face_enrollment, faces, faults, lost>>

\* After the last face: the DELETE of the student's rows and the UPDATE of the student.
FaceRemoved(r) ==
    /\ Answered(r, "delete") /\ req[r].ok
    /\ IF req[r].todo # <<>>
       THEN /\ Call(r, [req[r] EXCEPT !.todo = Tail(@)], "delete", Head(req[r].todo))
            /\ UNCHANGED tables
       ELSE /\ student_face_enrollment' = {x \in student_face_enrollment : x[1] \notin req[r].student}
            /\ face_enrolled' = [s \in Student |-> s \notin req[r].student /\ face_enrolled[s]]
            /\ Removed(r)
    /\ UNCHANGED <<faces, faults, lost>>

\* ROLLBACK: the rows stay, of the faces that are gone too.
RemovalFails(r) ==
    /\ Answered(r, "delete") /\ ~ req[r].ok
    /\ End(r)
    /\ UNCHANGED <<tables, faces, faults>>
    /\ Lose(FacesOf(req[r].student))

\* The DELETE, the UPDATE or the COMMIT fails after the last face is gone from ZepIris: the
\* rows stay, whether or not the ROLLBACK succeeds.
RemovalNotRecorded(r) ==
    /\ Answered(r, "delete") /\ req[r].ok /\ req[r].todo = <<>> /\ Fault
    /\ End(r)
    /\ UNCHANGED <<tables, faces>>
    /\ Lose(FacesOf(req[r].student))

\* A statement fails before any call to ZepIris.  (After Removed this is also the COMMIT of a
\* re-enrollment that took effect without an answer.)
NothingDone(r) ==
    /\ req[r].pc = "row" /\ Fault
    /\ End(r)
    /\ UNCHANGED <<tables, faces, lost>>

-----------------------------------------------------------------------------
(* validateImageQuality and verifyStudentFace, which lock no row           *)

Validate(r) ==
    /\ req[r] = Idle
    /\ Call(r, [Idle EXCEPT !.op = "validate"], "insert", Fresh)
    /\ UNCHANGED <<tables, faces, faults, lost>>

\* The temporary face goes again; how its removal ends is ignored.
Validated(r) ==
    /\ req[r].op = "validate" /\ req[r].pc = "answered"
    /\ IF req[r].call = "insert" /\ req[r].ok
       THEN Call(r, req[r], "tidy", req[r].face) ELSE End(r)
    /\ UNCHANGED <<tables, faces, faults, lost>>

Verify(r) ==
    /\ req[r] = Idle
    /\ Call(r, [Idle EXCEPT !.op = "verify"], "search", 0)
    /\ UNCHANGED <<tables, faces, faults, lost>>

\* The query for the row of the best match changes nothing.
Verified(r) ==
    /\ Answered(r, "search") /\ End(r)
    /\ UNCHANGED <<tables, faces, faults, lost>>

-----------------------------------------------------------------------------

\* The server stops: transactions roll back, the mutex and the lists of faces are gone.
Restart ==
    /\ Fault
    /\ faces' \in {faces} \cup {Effect(r) : r \in {q \in Request : req[q].pc = "sent"}}
    /\ mutex' = [locked |-> FALSE, queue |-> <<>>]
    /\ req' = [r \in Request |-> Idle]
    /\ UNCHANGED tables
    /\ Lose(UNION {Handles(r) : r \in Request})

Proceed(r) ==
    \/ Accepts(r) \/ Refuses(r) \/ NoAnswer(r)
    \/ ImageEnrolled(r) \/ ImageFails(r) \/ StatementFails(r) \/ RollbackFails(r)
    \/ FaceCleanedUp(r) \/ FaceRemoved(r) \/ RemovalFails(r) \/ RemovalNotRecorded(r)
    \/ Validated(r) \/ Verified(r)

Next ==
    \/ \E r \in Request, s \in Student, n \in 1..MAX_FACE_IMAGES :
          Arrive(r, "enroll", {s}, n) \/ Arrive(r, "reenroll", {s}, n)
    \/ \E r \in Request, s \in Student : Arrive(r, "delete", {s}, 0)
    \/ \E r \in Request : Validate(r) \/ Verify(r) \/ Enroll(r) \/ RemoveFaces(r) \/ Proceed(r)
    \/ \E r \in Request : NothingDone(r)
    \/ Restart

Spec == Init /\ [][Next]_vars

\* A call is answered or aborted after 30 s and its handler goes on; PostgreSQL serves those
\* who wait for a row in turn.
FairSpec ==
    /\ Spec
    /\ \A r \in Request : WF_vars(Proceed(r)) /\ SF_vars(Enroll(r) \/ RemoveFaces(r))

-----------------------------------------------------------------------------

\* But for the faces a fault came between (see lost), ZepIris has no face that is neither a
\* student's nor in the hands of a request...
NoStrayFace ==
    faces \ lost \subseteq FacesOf(Student) \cup UNION {Handles(r) : r \in Request}

\* ...and it has every face of a student nobody is removing.
NoMissingFace ==
    \A s \in Student : (\A r \in Request : req[r].call = "delete" => req[r].student # {s})
                          => FacesOf({s}) \ lost \subseteq faces

\* A student is enrolled just when the pictures 1, 2, ... each have a row.
EnrolledWithRows ==
    \A s \in Student :
        LET rows == {x \in student_face_enrollment : x[1] = s} IN
        /\ {x[3] : x \in rows} = 1..Cardinality(rows)
        /\ face_enrolled[s] = (rows # {})

\* The database and ZepIris, which share no transaction, agree on the faces whatever the
\* order of enrollments, removals and validations (enrollStudentFaces, removeStudentFaces),
\* but for those in the hands of a request when its call got no answer, a removal failed
\* half-way, a ROLLBACK failed or the server stopped: of these a face may be left over at
\* ZepIris, or a row without its face.
FacesAgree == NoStrayFace /\ NoMissingFace /\ EnrolledWithRows

\* Every request is answered, though all of them queue for one mutex and some for the row
\* of a student (Mutex.js, zepiris.service.js).
EveryRequestEnds ==
    \A r \in Request : req[r].pc # "idle" ~> req[r].pc = "idle"
=============================================================================
