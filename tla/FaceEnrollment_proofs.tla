------------------------ MODULE FaceEnrollment_proofs ------------------------
(* Proofs about FaceEnrollment: the database and the face service agree    *)
(* on the faces, but for those a fault came between.                       *)
(*                                                                         *)
(* The argument is about who knows of a face.  A face that is not in the   *)
(* database is known to one request, which is the only one to insert or to *)
(* delete it; one that is in the database is its student's, and only the   *)
(* request that holds the student's row deletes it.                        *)
EXTENDS FaceEnrollment, FiniteSetTheorems, FunctionTheorems, SequenceTheorems, TLAPS

-----------------------------------------------------------------------------
(* The inductive invariant.  What it says of a request w is about the      *)
(* faces that ZepIris has, those that are lost and the rows of a state.    *)

\* What a request consists of.
Columns(w) ==
    w = [op |-> w.op, pc |-> w.pc, student |-> w.student, images |-> w.images, call |-> w.call,
         face |-> w.face, ok |-> w.ok, ids |-> w.ids, todo |-> w.todo]

FacesIn(rows, S) == {row[2] : row \in {x \in rows : x[1] \in S}}

\* The faces that only this request knows of.
Own(w) == IF w.call = "delete" THEN {} ELSE (ToSet(w.ids) \cup {w.face}) \ {0}

Under == {"queued", "sent", "answered"}

\* An enrollment inserts and cleans up, a removal deletes, a validation inserts and tidies.
StageInv(w) ==
    \/ w = Idle
    \/ /\ w.op \in Removing \cup {"enroll"} /\ \E s \in Student : w.student = {s}
       /\ \/ w.pc = "row" /\ w.call = "none" /\ w.face = 0 /\ w.ids = <<>>
          \/ w.pc \in Under /\ w.op = "enroll" /\ w.call \in {"insert", "cleanup"}
          \/ w.pc \in Under /\ w.op # "enroll" /\ w.call = "delete"
    \/ /\ w.op = "validate" /\ w.pc \in Under /\ w.call \in {"insert", "tidy"}
       /\ w.student = {} /\ w.ids = <<>>
    \/ /\ w.op = "verify" /\ w.pc \in Under /\ w.call = "search"
       /\ w.student = {} /\ w.ids = <<>> /\ w.face = 0

\* A face that is to be inserted is not there yet, and one that was refused or cleaned up is
\* not there any more; what an enrollment has inserted is there, and nobody else enrolls.
InsertInv(w, have, gone, rows) ==
    /\ w.call = "insert" => w.face # 0 /\ (w.pc # "answered" => w.face \notin have)
    /\ w.op = "enroll" /\ w.call = "insert" =>
          /\ ToSet(w.ids) \subseteq have /\ (w.pc = "answered" /\ w.ok => w.face \in have)
          /\ FacesIn(rows, w.student) = {}
    /\ w.pc = "answered" /\ (w.call \in {"cleanup", "tidy"} \/ (w.call = "insert" /\ ~ w.ok)) =>
          w.face \notin have \ gone

\* A removal has still to delete what is there of its student's faces.
DeleteInv(w, have, rows) ==
    w.call = "delete" =>
        /\ w.face \in FacesIn(rows, w.student) /\ ToSet(w.todo) \subseteq FacesIn(rows, w.student)
        /\ FacesIn(rows, w.student) \cap have \subseteq ToSet(w.todo) \cup {w.face}
        /\ w.pc = "answered" /\ w.ok => w.face \notin have

WorkInv(w, have, gone, rows) ==
    /\ Columns(w) /\ w.face \in Nat /\ w.ids \in Seq(Nat) /\ w.todo \in Seq(Nat)
    /\ StageInv(w) /\ InsertInv(w, have, gone, rows) /\ DeleteInv(w, have, rows)

\* The requests that hold the row of a student.
Locks(w) == w.op \in Removing \cup {"enroll"} /\ w.call \in {"insert", "delete"}

\* Two requests do not hold the same row, and know of no face in common.
ApartInv(w, u) ==
    /\ Locks(w) /\ Locks(u) => w.student # u.student
    /\ Own(w) \cap Own(u) = {}

\* The rows of a student: none, or one for each of the pictures 1, 2, ...
Photos(rows, s, enrolled) ==
    LET his == {x \in rows : x[1] = s} IN
    \/ ~ enrolled /\ his = {}
    \/ enrolled /\ \E n \in Nat \ {0}, ids \in Seq(Nat) : n = Len(ids) /\ his = {<<s, ids[i], i>> : i \in 1..n}

RowsInv(rows, enrolled) ==
    /\ enrolled \in [Student -> BOOLEAN]
    /\ \A x \in rows : x[1] \in Student /\ x[2] \in Nat \ {0}
    /\ \A s \in Student : Photos(rows, s, enrolled[s])
    /\ \A s, u \in Student : s # u => FacesIn(rows, {s}) \cap FacesIn(rows, {u}) = {}

\* Every face has somebody who knows of it.
StrayInv(work, have, gone, rows) ==
    \A f \in have \ gone : f \in FacesIn(rows, Student) \/ \E r \in Request : f \in Own(work[r])

MissingInv(work, have, gone, rows) ==
    \A s \in Student : (\A r \in Request : work[r].call = "delete" => work[r].student # {s})
                          => FacesIn(rows, {s}) \ gone \subseteq have

\* Who waits for the mutex waits once.
QueueInv(m, work) ==
    /\ m = [locked |-> m.locked, queue |-> m.queue] /\ m.queue \in Seq(Request)
    /\ \A i \in DOMAIN m.queue : work[m.queue[i]].pc = "queued"
    /\ \A i, j \in DOMAIN m.queue : m.queue[i] = m.queue[j] => i = j

FiniteInv(have, gone, rows) ==
    /\ have \in SUBSET (Nat \ {0}) /\ gone \in SUBSET Nat
    /\ IsFiniteSet(have) /\ IsFiniteSet(gone) /\ IsFiniteSet(rows)

Inv ==
    /\ req = [r \in Request |-> req[r]]
    /\ \A r \in Request : WorkInv(req[r], faces, lost, student_face_enrollment)
    /\ \A r \in Request : Own(req[r]) \cap FacesIn(student_face_enrollment, Student) = {}
    /\ \A r, o \in Request : r # o => ApartInv(req[r], req[o])
    /\ RowsInv(student_face_enrollment, face_enrolled)
    /\ StrayInv(req, faces, lost, student_face_enrollment)
    /\ MissingInv(req, faces, lost, student_face_enrollment)
    /\ QueueInv(mutex, req)
    /\ FiniteInv(faces, lost, student_face_enrollment)

-----------------------------------------------------------------------------
(* Fresh ids.                                                              *)

\* What a function maps a finite set to is finite.
LEMMA FiniteImage ==
    ASSUME NEW S, IsFiniteSet(S), NEW T, NEW f \in [S -> T], \A t \in T : \E s \in S : f[s] = t
    PROVE  IsFiniteSet(T)
<1>1. f \in Surjection(S, T) BY Fun_IsSurj
<1> QED BY <1>1, FS_Surjection

LEMMA FiniteList ==
    ASSUME NEW S, NEW s \in Seq(S)
    PROVE  IsFiniteSet(ToSet(s)) /\ ToSet(s) \subseteq S
<1>1. Len(s) \in Nat /\ DOMAIN s = 1..Len(s) /\ s \in [1..Len(s) -> S] BY LenProperties
<1>2. IsFiniteSet(1..Len(s)) BY <1>1, FS_Interval
<1>3. s \in [1..Len(s) -> ToSet(s)] /\ \A t \in ToSet(s) : \E i \in 1..Len(s) : s[i] = t
  BY <1>1 DEF ToSet
<1>4. ToSet(s) \subseteq S BY <1>1 DEF ToSet
<1> QED BY <1>2, <1>3, <1>4, FiniteImage

LEMMA FiniteFaces ==
    ASSUME NEW rows, IsFiniteSet(rows), NEW S
    PROVE  IsFiniteSet(FacesIn(rows, S))
<1> DEFINE his == {x \in rows : x[1] \in S}
           f == [x \in his |-> x[2]]
<1>1. IsFiniteSet(his) BY FS_Subset
<1>2. f \in [his -> FacesIn(rows, S)] /\ \A t \in FacesIn(rows, S) : \E x \in his : f[x] = t
  BY DEF FacesIn
<1> HIDE DEF his, f
<1> QED BY <1>1, <1>2, FiniteImage

\* There is a number that nothing refers to, and Fresh is one.
LEMMA FreshIsNew ==
    ASSUME FaceAssumption, FiniteInv(faces, lost, student_face_enrollment),
           \A r \in Request : req[r].ids \in Seq(Nat)
    PROVE  Fresh \in Nat \ {0} /\ Fresh \notin Known
<1> DEFINE parts == {Handles(r) : r \in Request}
           handles == [r \in Request |-> Handles(r)]
           n == Cardinality(Known)
           left == (1..(n + 1)) \ Known
<1>1. \A S : FacesOf(S) = FacesIn(student_face_enrollment, S) BY DEF FacesOf, FacesIn
<1>2. \A S : IsFiniteSet(FacesOf(S)) BY <1>1, FiniteFaces DEF FiniteInv
<1>3. ASSUME NEW r \in Request PROVE IsFiniteSet(Handles(r))
  <2>1. IsFiniteSet(ToSet(req[r].ids) \cup {req[r].face}) BY FiniteList, FS_AddElement
  <2>2. IsFiniteSet(IF req[r].call = "delete" THEN FacesOf(req[r].student) ELSE {})
    BY <1>2, FS_EmptySet
  <2> QED BY <2>1, <2>2, FS_Union, FS_Difference DEF Handles
<1>4. IsFiniteSet(parts)
  <2>1. handles \in [Request -> parts] /\ \A t \in parts : \E r \in Request : handles[r] = t
    OBVIOUS
  <2> HIDE DEF handles, parts
  <2> QED BY <2>1, FiniteImage DEF FaceAssumption
<1>5. IsFiniteSet(UNION parts) BY <1>3, <1>4, FS_UNION
<1>6. IsFiniteSet(Known) BY <1>2, <1>5, FS_Union DEF Known, FiniteInv
<1>7. n \in Nat BY <1>6, FS_CardinalityType
<1>8. left # {}
  <2>1. ASSUME 1..(n + 1) \subseteq Known PROVE FALSE
    <3>1. Cardinality(1..(n + 1)) <= n BY <1>6, <2>1, FS_Subset
    <3>2. Cardinality(1..(n + 1)) = n + 1 BY <1>7, FS_Interval
    <3> QED BY <1>7, <3>1, <3>2
  <2> QED BY <2>1
<1>9. \E id \in 1..(n + 1) : id \notin Known BY <1>8
<1>10. Fresh \in 1..(n + 1) /\ Fresh \notin Known BY <1>9 DEF Fresh
<1> QED BY <1>7, <1>10

\* The faces of a removal, each at least once.
LEMMA FacesInOrder ==
    ASSUME NEW S, IsFiniteSet(S), S \in SUBSET Nat
    PROVE  SetToSeq(S) \in Seq(Nat) /\ ToSet(SetToSeq(S)) = S
<1>1. Cardinality(S) \in Nat /\ ExistsBijection(1..Cardinality(S), S) BY FS_CardinalityType
<1>2. PICK n, D, s : n = Cardinality(S) /\ D = 1..n /\ s = SetToSeq(S) OBVIOUS
<1>3. PICK b : b \in Bijection(D, S) BY <1>1, <1>2 DEF ExistsBijection
<1>4. b \in [D -> S] /\ \A i, j \in D : b[i] = b[j] => i = j BY <1>3, Fun_BijectionProperties
<1>5. DOMAIN b = D BY <1>4
<1>6. IsInjective(b) BY <1>4, <1>5 DEF IsInjective
<1>7. s \in [D -> S] /\ IsInjective(s) BY <1>2, <1>4, <1>6 DEF SetToSeq
<1>8. DOMAIN s = D BY <1>7
<1>9. s \in Injection(D, S) BY <1>7, <1>8 DEF Injection, IsInjective
<1>10. IsFiniteSet(D) /\ Cardinality(D) = n BY <1>1, <1>2, FS_Interval
<1>11. s \in Surjection(D, S) BY <1>2, <1>9, <1>10, FS_Injection
<1>12. \A t \in S : \E i \in D : s[i] = t BY <1>11, Fun_SurjectionProperties
<1>13. s \in Seq(Nat)
  <2>1. s \in [1..n -> Nat] BY <1>2, <1>7
  <2> QED BY <1>1, <1>2, <2>1, SeqDef
<1>14. ToSet(s) = S BY <1>7, <1>8, <1>12 DEF ToSet
<1> QED BY <1>2, <1>13, <1>14

-----------------------------------------------------------------------------
(* Steps of one request.                                                   *)

LEMMA IdleInv ==
    /\ \A have, gone, rows : WorkInv(Idle, have, gone, rows)
    /\ Own(Idle) = {} /\ ~ Locks(Idle) /\ Idle.call = "none" /\ Idle.pc = "idle"
<1>1. <<>> \in Seq(Nat) /\ ToSet(<<>>) = {} BY EmptySeq DEF ToSet
<1>2. ToSet(Idle.ids) = {} BY <1>1 DEF Idle
<1> QED BY <1>1, <1>2 DEF Idle, WorkInv, Columns, StageInv, InsertInv, DeleteInv, Own, Locks

\* The mutex may have been handed to a request, which nothing else can tell.
Same(u, w) == u = w \/ (w.pc = "queued" /\ u = [w EXCEPT !.pc = "sent"])

LEMMA SameInv ==
    ASSUME NEW u, NEW w, Columns(w), Same(u, w)
    PROVE  /\ \A have, gone, rows : WorkInv(w, have, gone, rows) => WorkInv(u, have, gone, rows)
           /\ Own(u) = Own(w) /\ (Locks(u) <=> Locks(w)) /\ u.call = w.call /\ u.student = w.student
<1>1. CASE u = w BY <1>1
<1>2. CASE w.pc = "queued" /\ u = [w EXCEPT !.pc = "sent"]
  <2>1. /\ u.op = w.op /\ u.pc = "sent" /\ u.student = w.student /\ u.images = w.images
        /\ u.call = w.call /\ u.face = w.face /\ u.ok = w.ok /\ u.ids = w.ids /\ u.todo = w.todo
        /\ Columns(u)
    BY <1>2 DEF Columns
  <2>2. ASSUME NEW have, NEW gone, NEW rows, WorkInv(w, have, gone, rows)
        PROVE  WorkInv(u, have, gone, rows)
    <3>1. StageInv(u)
      <4>1. w # Idle BY <1>2 DEF Idle
      <4> QED BY <1>2, <2>1, <2>2, <4>1 DEF WorkInv, StageInv, Under
    <3>2. InsertInv(u, have, gone, rows) BY <1>2, <2>1, <2>2 DEF WorkInv, InsertInv
    <3>3. DeleteInv(u, have, rows) BY <1>2, <2>1, <2>2 DEF WorkInv, DeleteInv
    <3> QED BY <2>1, <2>2, <3>1, <3>2, <3>3 DEF WorkInv
  <2> QED BY <2>1, <2>2 DEF Own, Locks
<1> QED BY <1>1, <1>2 DEF Same

\* Request r becomes v, and the mutex may be handed to another one.
Turn(r, v) ==
    /\ req' = [o \in Request |-> req'[o]] /\ req'[r] = v
    /\ \A o \in Request \ {r} : Same(req'[o], req[o])
    /\ QueueInv(mutex', req')

\* Request r, which is v, is at one with the others and with the data of a state.
Alone(r, v, rows) ==
    /\ Own(v) \cap FacesIn(rows, Student) = {}
    /\ \A o \in Request \ {r} : ApartInv(v, req[o])

Others(r, have, gone, rows) ==
    \A o \in Request \ {r} :
        /\ WorkInv(req[o], have, gone, rows)
        /\ Own(req[o]) \cap FacesIn(rows, Student) = {}

Noticed(r, v, have, gone, rows) ==
    \A f \in have \ gone :
        \/ f \in FacesIn(rows, Student) \/ f \in Own(v)
        \/ \E o \in Request \ {r} : f \in Own(req[o])

Kept(r, v, have, gone, rows) ==
    \A s \in Student :
        /\ v.call = "delete" => v.student # {s}
        /\ \A o \in Request \ {r} : req[o].call = "delete" => req[o].student # {s}
        => FacesIn(rows, {s}) \ gone \subseteq have

LEMMA TurnInv ==
    ASSUME Inv, NEW r \in Request, NEW v, Turn(r, v),
           NEW have, NEW gone, NEW rows, NEW enrolled,
           have = faces', gone = lost', rows = student_face_enrollment', enrolled = face_enrolled',
           WorkInv(v, have, gone, rows), Alone(r, v, rows), Others(r, have, gone, rows),
           Noticed(r, v, have, gone, rows), Kept(r, v, have, gone, rows),
           RowsInv(rows, enrolled), FiniteInv(have, gone, rows)
    PROVE  Inv'
<1>1. \A o \in Request \ {r} : Columns(req[o]) BY DEF Inv, WorkInv
<1>2. ASSUME NEW o \in Request \ {r}
      PROVE  /\ WorkInv(req'[o], have, gone, rows)
             /\ Own(req'[o]) = Own(req[o]) /\ (Locks(req'[o]) <=> Locks(req[o]))
             /\ req'[o].call = req[o].call /\ req'[o].student = req[o].student
  <2>1. PICK u : u = req'[o] OBVIOUS
  <2>2. PICK w : w = req[o] OBVIOUS
  <2>3. Same(u, w) /\ Columns(w) BY <1>1, <2>1, <2>2 DEF Turn
  <2>4. WorkInv(w, have, gone, rows) BY <2>2 DEF Others
  <2> QED BY <2>1, <2>2, <2>3, <2>4, SameInv
<1>3. \A o \in Request : WorkInv(req'[o], have, gone, rows) BY <1>2 DEF Turn
<1>4. \A o \in Request : Own(req'[o]) \cap FacesIn(rows, Student) = {}
  BY <1>2 DEF Turn, Alone, Others
<1>5. ASSUME NEW p \in Request, NEW o \in Request, p # o PROVE ApartInv(req'[p], req'[o])
  <2>1. CASE p = r
    <3>1. ApartInv(v, req[o]) /\ o \in Request \ {r} BY <1>5, <2>1 DEF Alone
    <3> QED BY <1>2, <2>1, <3>1 DEF ApartInv, Turn
  <2>2. CASE o = r
    <3>1. ApartInv(v, req[p]) /\ p \in Request \ {r} BY <1>5, <2>2 DEF Alone
    <3> QED BY <1>2, <2>2, <3>1 DEF ApartInv, Turn
  <2>3. CASE p # r /\ o # r
    <3>1. ApartInv(req[p], req[o]) BY <1>5 DEF Inv
    <3> QED BY <1>2, <2>3, <3>1 DEF ApartInv
  <2> QED BY <2>1, <2>2, <2>3
<1>6. StrayInv(req', have, gone, rows)
  <2> SUFFICES ASSUME NEW f \in have \ gone, f \notin FacesIn(rows, Student)
               PROVE  \E o \in Request : f \in Own(req'[o])
    BY DEF StrayInv
  <2>1. f \in Own(v) \/ \E o \in Request \ {r} : f \in Own(req[o]) BY DEF Noticed
  <2> QED BY <1>2, <2>1 DEF Turn
<1>7. MissingInv(req', have, gone, rows)
  <2> SUFFICES ASSUME NEW s \in Student,
                      \A o \in Request : req'[o].call = "delete" => req'[o].student # {s}
               PROVE  FacesIn(rows, {s}) \ gone \subseteq have
    BY DEF MissingInv
  <2>1. v.call = "delete" => v.student # {s} BY DEF Turn
  <2>2. \A o \in Request \ {r} : req[o].call = "delete" => req[o].student # {s} BY <1>2
  <2> QED BY <2>1, <2>2 DEF Kept
<1> QED BY <1>3, <1>4, <1>5, <1>6, <1>7 DEF Inv, Turn

\* A step that leaves the tables and the faces alone.
LEMMA QuietTurn ==
    ASSUME Inv, NEW r \in Request, NEW v, Turn(r, v), UNCHANGED <<tables, faces, lost>>,
           WorkInv(v, faces, lost, student_face_enrollment),
           Alone(r, v, student_face_enrollment),
           Own(req[r]) \cap (faces \ lost) \subseteq Own(v),
           req[r].call = "delete" => v.call = "delete" /\ v.student = req[r].student
    PROVE  Inv'
<1>1. PICK have, gone, rows, enrolled :
          /\ have = faces /\ gone = lost /\ rows = student_face_enrollment /\ enrolled = face_enrolled
  OBVIOUS
<1>2. /\ have = faces' /\ gone = lost'
      /\ rows = student_face_enrollment' /\ enrolled = face_enrolled'
  BY <1>1 DEF tables
<1>3. WorkInv(v, have, gone, rows) /\ Alone(r, v, rows) BY <1>1
<1>4. Others(r, have, gone, rows) BY <1>1 DEF Others, Inv
<1>5. Noticed(r, v, have, gone, rows)
  <2> SUFFICES ASSUME NEW f \in have \ gone, f \notin FacesIn(rows, Student)
               PROVE  f \in Own(v) \/ \E o \in Request \ {r} : f \in Own(req[o])
    BY DEF Noticed
  <2>1. PICK o \in Request : f \in Own(req[o]) BY <1>1 DEF Inv, StrayInv
  <2> QED BY <1>1, <2>1
<1>6. Kept(r, v, have, gone, rows)
  <2> SUFFICES ASSUME NEW s \in Student, v.call = "delete" => v.student # {s},
                      \A o \in Request \ {r} : req[o].call = "delete" => req[o].student # {s}
               PROVE  FacesIn(rows, {s}) \ gone \subseteq have
    BY DEF Kept
  <2>1. \A o \in Request : req[o].call = "delete" => req[o].student # {s} OBVIOUS
  <2> QED BY <1>1, <2>1 DEF Inv, MissingInv
<1>7. RowsInv(rows, enrolled) /\ FiniteInv(have, gone, rows) BY <1>1 DEF Inv
<1> QED BY <1>2, <1>3, <1>4, <1>5, <1>6, <1>7, TurnInv

\* How request v differs from w, which is about to call.
Calls(v, w, call, face) ==
    /\ Columns(v) /\ v.pc \in {"queued", "sent"} /\ v.call = call /\ v.face = face
    /\ v.op = w.op /\ v.student = w.student /\ v.ids = w.ids /\ v.todo = w.todo

\* How request v differs from w, which has been answered.
Answers(v, w, ok) ==
    /\ Columns(v) /\ v.pc = "answered" /\ v.ok = ok /\ v.call = w.call /\ v.face = w.face
    /\ v.op = w.op /\ v.student = w.student /\ v.ids = w.ids /\ v.todo = w.todo

\* Nobody waits who is not queued.
LEMMA NotInQueue ==
    ASSUME Inv, NEW r \in Request, req[r].pc # "queued"
    PROVE  /\ Len(mutex.queue) \in Nat /\ DOMAIN mutex.queue = 1..Len(mutex.queue)
           /\ \A i \in 1..Len(mutex.queue) :
                 /\ mutex.queue[i] \in Request \ {r} /\ req[mutex.queue[i]].pc = "queued"
                 /\ \A j \in 1..Len(mutex.queue) : mutex.queue[i] = mutex.queue[j] => i = j
<1>1. mutex.queue \in Seq(Request) BY DEF Inv, QueueInv
<1>2. /\ Len(mutex.queue) \in Nat /\ DOMAIN mutex.queue = 1..Len(mutex.queue)
      /\ \A i \in 1..Len(mutex.queue) : mutex.queue[i] \in Request
  BY <1>1, LenProperties
<1>3. \A i \in 1..Len(mutex.queue) : req[mutex.queue[i]].pc = "queued" BY <1>2 DEF Inv, QueueInv
<1>4. \A i, j \in 1..Len(mutex.queue) : mutex.queue[i] = mutex.queue[j] => i = j
  BY <1>2 DEF Inv, QueueInv
<1> QED BY <1>2, <1>3, <1>4

LEMMA PlainTurn ==
    ASSUME Inv, NEW r \in Request, req[r].pc # "queued",
           NEW v, req' = [req EXCEPT ![r] = v], UNCHANGED mutex
    PROVE  Turn(r, v)
<1>1. /\ req' = [o \in Request |-> req'[o]] /\ req'[r] = v
      /\ \A o \in Request \ {r} : req'[o] = req[o]
  BY DEF Inv
<1>2. QueueInv(mutex', req')
  <2>1. \A i \in DOMAIN mutex.queue : req'[mutex.queue[i]].pc = "queued" BY <1>1, NotInQueue
  <2>2. QueueInv(mutex, req) BY DEF Inv
  <2> QED BY <2>1, <2>2 DEF QueueInv
<1> QED BY <1>1, <1>2 DEF Turn, Same

LEMMA CallTurn ==
    ASSUME Inv, NEW r \in Request, req[r].pc # "queued",
           NEW w, Columns(w), NEW call, NEW face, Call(r, w, call, face)
    PROVE  \E v : Turn(r, v) /\ Calls(v, w, call, face)
<1> DEFINE q == mutex.queue
<1>a. PICK pc \in {"queued", "sent"} : pc = IF mutex.locked THEN "queued" ELSE "sent" OBVIOUS
<1>b. PICK v : v = [w EXCEPT !.pc = pc, !.call = call, !.face = face, !.ok = FALSE] OBVIOUS
<1>c. v = [op |-> w.op, pc |-> pc, student |-> w.student, images |-> w.images, call |-> call,
           face |-> face, ok |-> FALSE, ids |-> w.ids, todo |-> w.todo]
  BY <1>b DEF Columns
<1>1. Calls(v, w, call, face) /\ v.pc = pc BY <1>c DEF Calls, Columns
<1>2. req' = [req EXCEPT ![r] = v] BY <1>a, <1>b DEF Call
<1>3. /\ req' = [o \in Request |-> req'[o]] /\ req'[r] = v
      /\ \A o \in Request \ {r} : req'[o] = req[o]
  BY <1>2 DEF Inv
<1>4. mutex = [locked |-> mutex.locked, queue |-> q] /\ q \in Seq(Request) BY DEF Inv, QueueInv
<1>5. QueueInv(mutex', req')
  <2>1. CASE ~ mutex.locked
    <3>1. mutex' = [locked |-> TRUE, queue |-> q] BY <1>4, <2>1 DEF Call
    <3>2. \A i \in DOMAIN q : req'[q[i]].pc = "queued" BY <1>3, NotInQueue
    <3> QED BY <1>4, <3>1, <3>2, NotInQueue DEF QueueInv
  <2>2. CASE mutex.locked
    <3> DEFINE n == Len(q)
               z == Append(q, r)
    <3>1. mutex' = [locked |-> mutex.locked, queue |-> z] BY <1>4, <2>2 DEF Call
    <3>2. n \in Nat /\ DOMAIN q = 1..n BY NotInQueue
    <3>3. z \in Seq(Request) /\ Len(z) = n + 1 /\ z[n + 1] = r /\ \A i \in 1..n : z[i] = q[i]
      BY <1>4, AppendProperties
    <3>4. DOMAIN z = 1..(n + 1) BY <3>3, LenProperties
    <3>5. req'[r].pc = "queued" BY <1>1, <1>3, <1>a, <2>2
    <3>6. \A i \in 1..n : z[i] \in Request \ {r} /\ req[z[i]].pc = "queued"
      BY <3>3, NotInQueue
    <3>7. \A i, j \in 1..n : z[i] = z[j] => i = j BY <3>3, NotInQueue
    <3> HIDE DEF z, n, q
    <3>8. \A i \in 1..(n + 1) : req'[z[i]].pc = "queued"
      <4>1. \A i \in 1..(n + 1) : i \in 1..n \/ i = n + 1 BY <3>2
      <4> QED BY <1>3, <3>3, <3>5, <3>6, <4>1
    <3>9. \A i, j \in 1..(n + 1) : z[i] = z[j] => i = j
      <4>1. \A i \in 1..(n + 1) : i \in 1..n \/ i = n + 1 BY <3>2
      <4> QED BY <3>3, <3>6, <3>7, <4>1
    <3> QED BY <3>1, <3>3, <3>4, <3>8, <3>9 DEF QueueInv
  <2> QED BY <2>1, <2>2
<1> QED BY <1>1, <1>3, <1>5 DEF Turn, Same

LEMMA AnswerTurn ==
    ASSUME Inv, NEW r \in Request, req[r].pc = "sent", NEW ok, unlock(r, ok)
    PROVE  \E v : Turn(r, v) /\ Answers(v, req[r], ok)
<1> DEFINE q == mutex.queue
<1>a. PICK w : w = req[r] OBVIOUS
<1>b. PICK v : v = [w EXCEPT !.pc = "answered", !.ok = ok] OBVIOUS
<1>1. Columns(w) BY <1>a DEF Inv, WorkInv
<1>2. Answers(v, req[r], ok)
  <2>1. v = [op |-> w.op, pc |-> "answered", student |-> w.student, images |-> w.images,
             call |-> w.call, face |-> w.face, ok |-> ok, ids |-> w.ids, todo |-> w.todo]
    BY <1>1, <1>b DEF Columns
  <2> QED BY <1>a, <2>1 DEF Answers, Columns
<1>3. mutex = [locked |-> mutex.locked, queue |-> q] /\ q \in Seq(Request) BY DEF Inv, QueueInv
<1>4. req = [o \in Request |-> req[o]] BY DEF Inv
<1>5. CASE q = <<>>
  <2>1. mutex' = [locked |-> FALSE, queue |-> q] BY <1>3, <1>5 DEF unlock
  <2>2. req' = [req EXCEPT ![r].pc = "answered", ![r].ok = ok] BY <1>5 DEF unlock
  <2>3. /\ req' = [o \in Request |-> req'[o]] /\ req'[r] = v
        /\ \A o \in Request \ {r} : req'[o] = req[o]
    BY <1>4, <1>a, <1>b, <2>2
  <2>4. \A i \in DOMAIN q : req'[q[i]].pc = "queued" BY <2>3, NotInQueue
  <2>5. QueueInv(mutex', req') BY <1>3, <2>1, <2>4, NotInQueue DEF QueueInv
  <2> QED BY <1>2, <2>3, <2>5 DEF Turn, Same
<1>6. CASE q # <<>>
  <2> DEFINE n == Len(q)
             z == Tail(q)
  <2>1. mutex' = [locked |-> mutex.locked, queue |-> z] BY <1>3, <1>6 DEF unlock
  <2>2. req' = [req EXCEPT ![r].pc = "answered", ![r].ok = ok, ![Head(q)].pc = "sent"]
    BY <1>6 DEF unlock
  <2>3. n \in Nat \ {0} BY <1>3, <1>6, EmptySeq
  <2>4. Head(q) = q[1] BY <1>3, <1>6
  <2>5. PICK h : h = Head(q) OBVIOUS
  <2>6. h = q[1] /\ h \in Request \ {r} /\ req[h].pc = "queued"
    BY <2>3, <2>4, <2>5, NotInQueue
  <2>7. /\ req' = [o \in Request |-> req'[o]] /\ req'[r] = v
        /\ req'[h] = [req[h] EXCEPT !.pc = "sent"]
        /\ \A o \in Request \ {r, h} : req'[o] = req[o]
    BY <1>4, <1>a, <1>b, <2>2, <2>5, <2>6
  <2>8. z \in Seq(Request) /\ Len(z) = n - 1 /\ \A i \in 1..(n - 1) : z[i] = q[i + 1]
    BY <1>3, <1>6, HeadTailProperties
  <2>9. DOMAIN z = 1..(n - 1) BY <2>8, LenProperties
  <2>10. \A i \in 1..(n - 1) : z[i] \in Request \ {r, h} /\ req[z[i]].pc = "queued"
    <3> SUFFICES ASSUME NEW i \in 1..(n - 1) PROVE z[i] \in Request \ {r, h} /\ req[z[i]].pc = "queued"
      OBVIOUS
    <3>1. i + 1 \in 1..n /\ 1 \in 1..n /\ i + 1 # 1 BY <2>3
    <3>2. z[i] = q[i + 1] BY <2>8
    <3> HIDE DEF n, z, q
    <3>3. q[i + 1] \in Request \ {r} /\ req[q[i + 1]].pc = "queued" BY <3>1, NotInQueue DEF n, q
    <3>4. q[i + 1] # q[1] BY <3>1, NotInQueue DEF n, q
    <3> QED BY <2>6, <3>2, <3>3, <3>4
  <2>11. \A i, j \in 1..(n - 1) : z[i] = z[j] => i = j
    <3> SUFFICES ASSUME NEW i \in 1..(n - 1), NEW j \in 1..(n - 1), z[i] = z[j] PROVE i = j
      OBVIOUS
    <3>1. i + 1 \in 1..n /\ j + 1 \in 1..n BY <2>3
    <3>2. q[i + 1] = q[j + 1] BY <2>8
    <3>3. i + 1 = j + 1 BY <3>1, <3>2, NotInQueue
    <3> QED BY <2>3, <3>3
  <2> HIDE DEF z, n, q
  <2>12. QueueInv(mutex', req') BY <2>1, <2>7, <2>8, <2>9, <2>10, <2>11 DEF QueueInv
  <2>13. \A o \in Request \ {r} : Same(req'[o], req[o]) BY <2>6, <2>7 DEF Same
  <2> QED BY <1>2, <2>7, <2>12, <2>13 DEF Turn
<1> QED BY <1>5, <1>6

-----------------------------------------------------------------------------
(* Steps that leave the tables and the faces alone.                        *)

LEMMA HeadAndTail ==
    ASSUME NEW s \in Seq(Nat), s # <<>>
    PROVE  /\ Head(s) \in Nat /\ Tail(s) \in Seq(Nat)
           /\ ToSet(s) = {Head(s)} \cup ToSet(Tail(s))
<1> DEFINE n == Len(s)
           z == Tail(s)
<1>1. n \in Nat \ {0} /\ DOMAIN s = 1..n BY EmptySeq, LenProperties
<1>2. /\ Head(s) \in Nat /\ z \in Seq(Nat) /\ Len(z) = n - 1
      /\ \A i \in 1..(n - 1) : z[i] = s[i + 1]
  BY HeadTailProperties
<1>3. DOMAIN z = 1..(n - 1) BY <1>2, LenProperties
<1>4. Head(s) = s[1] OBVIOUS
<1> HIDE DEF n, z
<1>5. ASSUME NEW x \in ToSet(s) PROVE x = Head(s) \/ x \in ToSet(z)
  <2>1. PICK i \in 1..n : x = s[i] BY <1>1 DEF ToSet
  <2>2. CASE i = 1 BY <1>4, <2>1, <2>2
  <2>3. CASE i # 1
    <3>1. i - 1 \in 1..(n - 1) /\ (i - 1) + 1 = i BY <1>1, <2>3
    <3>2. z[i - 1] = x BY <1>2, <2>1, <3>1
    <3> QED BY <1>3, <3>1, <3>2 DEF ToSet
  <2> QED BY <2>2, <2>3
<1>6. Head(s) \in ToSet(s)
  <2>1. 1 \in 1..n BY <1>1
  <2> QED BY <1>1, <1>4, <2>1 DEF ToSet
<1>7. ASSUME NEW x \in ToSet(z) PROVE x \in ToSet(s)
  <2>1. PICK i \in 1..(n - 1) : x = z[i] BY <1>3 DEF ToSet
  <2>2. i + 1 \in 1..n /\ x = s[i + 1] BY <1>1, <1>2, <2>1
  <2> QED BY <1>1, <2>2 DEF ToSet
<1> QED BY <1>2, <1>5, <1>6, <1>7 DEF z

LEMMA Appended ==
    ASSUME NEW s \in Seq(Nat), NEW x \in Nat
    PROVE  /\ Append(s, x) \in Seq(Nat) /\ Append(s, x) # <<>>
           /\ ToSet(Append(s, x)) = ToSet(s) \cup {x}
<1> DEFINE n == Len(s)
           z == Append(s, x)
<1>1. n \in Nat /\ DOMAIN s = 1..n BY LenProperties
<1>2. z \in Seq(Nat) /\ Len(z) = n + 1 /\ z[n + 1] = x /\ \A i \in 1..n : z[i] = s[i]
  BY AppendProperties
<1>3. DOMAIN z = 1..(n + 1) BY <1>2, LenProperties
<1> HIDE DEF n, z
<1>4. \A i \in 1..(n + 1) : i \in 1..n \/ i = n + 1 BY <1>1
<1>5. n + 1 \in 1..(n + 1) /\ \A i \in 1..n : i \in 1..(n + 1) BY <1>1
<1>6. ToSet(z) \subseteq ToSet(s) \cup {x} BY <1>1, <1>2, <1>3, <1>4 DEF ToSet
<1>7. ToSet(s) \cup {x} \subseteq ToSet(z) BY <1>1, <1>2, <1>3, <1>5 DEF ToSet
<1>8. z # <<>> BY <1>1, <1>2, EmptySeq
<1> QED BY <1>2, <1>6, <1>7, <1>8 DEF z

LEMMA NoneSet == ToSet(<<>>) = {} /\ <<>> \in Seq(Nat)
BY EmptySeq DEF ToSet

\* Who knows of no face and holds no row is at one with everybody.
LEMMA NobodyAlone ==
    ASSUME NEW r \in Request, NEW v, Own(v) = {}, ~ Locks(v), NEW rows
    PROVE  Alone(r, v, rows)
BY DEF Alone, ApartInv

\* Who holds a row is at work on it.
LEMMA LocksIsLocksRow ==
    ASSUME Inv, NEW o \in Request, Locks(req[o])
    PROVE  LocksRow(o) /\ \E s \in Student : req[o].student = {s}
<1>1. StageInv(req[o]) BY DEF Inv, WorkInv
<1> QED BY <1>1, IdleInv DEF Locks, LocksRow, StageInv, Under, Removing

LEMMA RowIsFree ==
    ASSUME Inv, NEW r \in Request, getStudentForEnrollment(r)
    PROVE  \A o \in Request \ {r} : Locks(req[o]) => req[o].student # req[r].student
BY LocksIsLocksRow DEF getStudentForEnrollment

LEMMA FreshFace ==
    ASSUME FaceAssumption, Inv
    PROVE  /\ Fresh \in Nat \ {0} /\ Fresh \notin faces
           /\ Fresh \notin FacesIn(student_face_enrollment, Student)
           /\ \A o \in Request : Fresh \notin Own(req[o])
<1>1. Fresh \in Nat \ {0} /\ Fresh \notin Known BY FreshIsNew DEF Inv, WorkInv
<1>2. FacesOf(Student) = FacesIn(student_face_enrollment, Student) BY DEF FacesOf, FacesIn
<1>3. \A o \in Request : Own(req[o]) \subseteq Handles(o) BY DEF Own, Handles
<1> QED BY <1>1, <1>2, <1>3 DEF Known

\* A student who is not enrolled has no face.
LEMMA NotEnrolled ==
    ASSUME Inv, NEW s \in Student
    PROVE  ~ face_enrolled[s] <=> FacesIn(student_face_enrollment, {s}) = {}
<1> DEFINE his == {x \in student_face_enrollment : x[1] = s}
<1>1. Photos(student_face_enrollment, s, face_enrolled[s]) BY DEF Inv, RowsInv
<1>2. FacesIn(student_face_enrollment, {s}) = {x[2] : x \in his} BY DEF FacesIn
<1>3. CASE ~ face_enrolled[s]
  <2>1. his = {} BY <1>1, <1>3 DEF Photos
  <2> QED BY <1>2, <1>3, <2>1
<1>4. CASE face_enrolled[s]
  <2>1. PICK n \in Nat \ {0}, ids \in Seq(Nat) : his = {<<s, ids[i], i>> : i \in 1..n}
    BY <1>1, <1>4 DEF Photos
  <2>2. 1 \in 1..n OBVIOUS
  <2>3. <<s, ids[1], 1>> \in his BY <2>1, <2>2
  <2> HIDE DEF his
  <2>4. FacesIn(student_face_enrollment, {s}) # {} BY <1>2, <2>3
  <2> QED BY <1>4, <2>4
<1> QED BY <1>3, <1>4

LEMMA EndInv ==
    ASSUME Inv, NEW r \in Request, req[r].pc # "queued", req[r].call # "delete",
           Own(req[r]) \cap (faces \ lost) = {},
           End(r), UNCHANGED <<tables, faces, lost>>
    PROVE  Inv'
<1>1. PICK v : v = Idle OBVIOUS
<1>2. Turn(r, v) BY <1>1, PlainTurn DEF End
<1>3. WorkInv(v, faces, lost, student_face_enrollment) /\ Own(v) = {} /\ ~ Locks(v)
  BY <1>1, IdleInv
<1>4. Alone(r, v, student_face_enrollment) BY <1>3, NobodyAlone
<1> QED BY <1>2, <1>3, <1>4, QuietTurn

\* A request arrives, or goes on with an enrollment of its own.
LEMMA RowStage ==
    ASSUME NEW op \in Removing \cup {"enroll"}, NEW s \in Student, NEW images,
           NEW v,
           v = [op |-> op, pc |-> "row", student |-> {s}, images |-> images, call |-> "none",
                face |-> 0, ok |-> FALSE, ids |-> <<>>, todo |-> <<>>]
    PROVE  /\ \A have, gone, rows : WorkInv(v, have, gone, rows)
           /\ Own(v) = {} /\ ~ Locks(v) /\ v.call = "none"
<1>1. /\ v.op = op /\ v.pc = "row" /\ v.student = {s} /\ v.call = "none" /\ v.face = 0
      /\ v.ids = <<>> /\ v.todo = <<>>
  OBVIOUS
<1>2. Columns(v) BY DEF Columns
<1>3. StageInv(v) BY <1>1 DEF StageInv
<1>4. ASSUME NEW have, NEW gone, NEW rows PROVE WorkInv(v, have, gone, rows)
  <2>1. InsertInv(v, have, gone, rows) /\ DeleteInv(v, have, rows)
    BY <1>1 DEF InsertInv, DeleteInv
  <2> QED BY <1>1, <1>2, <1>3, <2>1, NoneSet DEF WorkInv
<1> QED BY <1>1, <1>4, NoneSet DEF Own, Locks

LEMMA ArriveInv ==
    ASSUME Inv, NEW r \in Request, NEW op \in Removing \cup {"enroll"}, NEW s \in Student,
           NEW images, Arrive(r, op, {s}, images)
    PROVE  Inv'
<1>1. PICK v : v = [Idle EXCEPT !.op = op, !.pc = "row", !.student = {s}, !.images = images]
  OBVIOUS
<1>2. req[r] = Idle /\ req' = [req EXCEPT ![r] = v] /\ UNCHANGED <<tables, faces, mutex, lost>>
  BY <1>1 DEF Arrive
<1>3. Turn(r, v) BY <1>2, IdleInv, PlainTurn
<1>4. v = [op |-> op, pc |-> "row", student |-> {s}, images |-> images, call |-> "none",
           face |-> 0, ok |-> FALSE, ids |-> <<>>, todo |-> <<>>]
  BY <1>1 DEF Idle
<1>5. /\ WorkInv(v, faces, lost, student_face_enrollment)
      /\ Own(v) = {} /\ ~ Locks(v) /\ v.call = "none"
  BY <1>4, RowStage
<1>6. Alone(r, v, student_face_enrollment) BY <1>5, NobodyAlone
<1> QED BY <1>2, <1>3, <1>5, <1>6, IdleInv, QuietTurn

LEMMA EnrollInv ==
    ASSUME FaceAssumption, Inv, NEW r \in Request, Enroll(r)
    PROVE  Inv'
<1> DEFINE rows == student_face_enrollment
<1>1. PICK w : w = req[r] OBVIOUS
<1>2. /\ w.op = "enroll" /\ w.pc = "row" /\ getStudentForEnrollment(r)
      /\ UNCHANGED <<tables, faces, lost>>
  BY <1>1 DEF Enroll, getStudentForEnrollment
<1>3. WorkInv(w, faces, lost, rows) BY <1>1 DEF Inv
<1>4. w.call = "none" /\ w.face = 0 /\ w.ids = <<>> /\ \E s \in Student : w.student = {s}
  <2>1. w # Idle BY <1>2, IdleInv
  <2> QED BY <1>2, <1>3, <2>1 DEF WorkInv, StageInv, Under
<1>5. Own(w) = {} BY <1>4, NoneSet DEF Own
<1>6. CASE IsEnrolled(r)
  <2>1. End(r) BY <1>6 DEF Enroll
  <2> QED BY <1>1, <1>2, <1>4, <1>5, <2>1, EndInv
<1>7. CASE ~ IsEnrolled(r)
  <2>1. PICK f : f = Fresh OBVIOUS
  <2>2. Call(r, w, "insert", f) BY <1>1, <1>7, <2>1 DEF Enroll
  <2>3. PICK v : Turn(r, v) /\ Calls(v, w, "insert", f)
    BY <1>1, <1>2, <1>3, <2>2, CallTurn DEF WorkInv
  <2>4. /\ f \in Nat \ {0} /\ f \notin faces /\ f \notin FacesIn(rows, Student)
        /\ \A o \in Request : f \notin Own(req[o])
    BY <2>1, FreshFace
  <2>5. FacesIn(rows, w.student) = {}
    <3>1. PICK s \in Student : w.student = {s} BY <1>4
    <3>2. ~ face_enrolled[s] BY <1>1, <1>7, <3>1 DEF IsEnrolled
    <3> QED BY <3>1, <3>2, NotEnrolled
  <2>6. WorkInv(v, faces, lost, rows)
    <3>1. StageInv(v) BY <1>2, <1>4, <2>3 DEF Calls, StageInv, Under
    <3>2. InsertInv(v, faces, lost, rows)
      BY <1>4, <2>3, <2>4, <2>5, NoneSet DEF Calls, InsertInv
    <3>3. DeleteInv(v, faces, rows) BY <2>3 DEF Calls, DeleteInv
    <3> QED BY <1>3, <2>3, <2>4, <3>1, <3>2, <3>3 DEF Calls, WorkInv
  <2>7. Own(v) = {f} BY <1>4, <2>3, <2>4, NoneSet DEF Own, Calls
  <2>8. Alone(r, v, rows)
    <3>1. \A o \in Request \ {r} : Locks(req[o]) => req[o].student # v.student
      BY <1>1, <1>2, <2>3, RowIsFree DEF Calls
    <3> QED BY <2>4, <2>7, <3>1 DEF Alone, ApartInv
  <2> QED BY <1>1, <1>2, <1>4, <1>5, <2>3, <2>6, <2>8, QuietTurn
<1> QED BY <1>6, <1>7

\* What an enrollment has when the insertion of a face has been answered.
LEMMA Inserted ==
    ASSUME Inv, NEW r \in Request, NEW w, w = req[r], w.op = "enroll", w.call = "insert"
    PROVE  /\ Columns(w) /\ w.face \in Nat \ {0} /\ w.ids \in Seq(Nat) /\ w.todo \in Seq(Nat)
           /\ \E s \in Student : w.student = {s}
           /\ ToSet(w.ids) \subseteq faces /\ 0 \notin ToSet(w.ids)
           /\ FacesIn(student_face_enrollment, w.student) = {}
           /\ Own(w) = ToSet(w.ids) \cup {w.face}
           /\ Locks(w) /\ Alone(r, w, student_face_enrollment)
<1>1. WorkInv(w, faces, lost, student_face_enrollment) BY DEF Inv
<1>2. /\ Columns(w) /\ w.face \in Nat \ {0} /\ w.ids \in Seq(Nat) /\ w.todo \in Seq(Nat)
      /\ ToSet(w.ids) \subseteq faces /\ FacesIn(student_face_enrollment, w.student) = {}
  BY <1>1 DEF WorkInv, InsertInv
<1>3. 0 \notin faces BY DEF Inv, FiniteInv
<1>4. \E s \in Student : w.student = {s} BY <1>1 DEF WorkInv, StageInv, Idle
<1>5. Alone(r, w, student_face_enrollment) BY DEF Inv, Alone
<1> QED BY <1>2, <1>3, <1>4, <1>5 DEF Own, Locks

LEMMA NextImageInv ==
    ASSUME FaceAssumption, Inv, NEW r \in Request, ImageEnrolled(r),
           Len(Append(req[r].ids, req[r].face)) < req[r].images
    PROVE  Inv'
<1> DEFINE rows == student_face_enrollment
<1>1. PICK w : w = req[r] OBVIOUS
<1>2. PICK ids : ids = Append(w.ids, w.face) OBVIOUS
<1>3. PICK u : u = [w EXCEPT !.ids = ids] OBVIOUS
<1>4. PICK f : f = Fresh OBVIOUS
<1>5. /\ w.op = "enroll" /\ w.call = "insert" /\ w.pc = "answered" /\ w.ok
      /\ Call(r, u, "insert", f) /\ UNCHANGED <<tables, faces, lost>>
  BY <1>1, <1>2, <1>3, <1>4 DEF ImageEnrolled, Answered
<1>6. /\ Columns(w) /\ w.face \in Nat \ {0} /\ w.ids \in Seq(Nat) /\ w.todo \in Seq(Nat)
      /\ \E s \in Student : w.student = {s}
      /\ ToSet(w.ids) \subseteq faces /\ 0 \notin ToSet(w.ids)
      /\ FacesIn(rows, w.student) = {}
      /\ Own(w) = ToSet(w.ids) \cup {w.face}
      /\ Locks(w) /\ Alone(r, w, rows)
  BY <1>1, <1>5, Inserted
<1>7. w.face \in faces BY <1>1, <1>5 DEF Inv, WorkInv, InsertInv
<1>8. ids \in Seq(Nat) /\ ToSet(ids) = ToSet(w.ids) \cup {w.face} BY <1>2, <1>6, Appended
<1>9. /\ Columns(u) /\ u.op = "enroll" /\ u.student = w.student /\ u.ids = ids
      /\ u.todo = w.todo
  BY <1>3, <1>5, <1>6 DEF Columns
<1>10. PICK v : Turn(r, v) /\ Calls(v, u, "insert", f) BY <1>1, <1>5, <1>9, CallTurn
<1>11. /\ f \in Nat \ {0} /\ f \notin faces /\ f \notin FacesIn(rows, Student)
       /\ \A o \in Request : f \notin Own(req[o])
  BY <1>4, FreshFace
<1>12. WorkInv(v, faces, lost, rows)
  <2>1. StageInv(v) BY <1>6, <1>9, <1>10 DEF Calls, StageInv, Under
  <2>2. InsertInv(v, faces, lost, rows)
    BY <1>6, <1>7, <1>8, <1>9, <1>10, <1>11 DEF Calls, InsertInv
  <2>3. DeleteInv(v, faces, rows) BY <1>10 DEF Calls, DeleteInv
  <2> QED BY <1>6, <1>8, <1>9, <1>10, <1>11, <2>1, <2>2, <2>3 DEF Calls, WorkInv
<1>13. Own(v) = Own(w) \cup {f} /\ Locks(v) /\ v.student = w.student
  BY <1>6, <1>8, <1>9, <1>10, <1>11 DEF Own, Locks, Calls
<1>14. Alone(r, v, rows)
  <2>1. Own(v) \cap FacesIn(rows, Student) = {} BY <1>6, <1>11, <1>13 DEF Alone
  <2>2. ASSUME NEW o \in Request \ {r} PROVE ApartInv(v, req[o])
    <3>1. ApartInv(w, req[o]) BY <1>6 DEF Alone
    <3>2. Own(w) \cap Own(req[o]) = {} /\ f \notin Own(req[o]) BY <1>11, <3>1 DEF ApartInv
    <3> QED BY <1>6, <1>13, <3>1, <3>2 DEF ApartInv
  <2> QED BY <2>1, <2>2 DEF Alone
<1> QED BY <1>1, <1>5, <1>10, <1>12, <1>13, <1>14, QuietTurn

-----------------------------------------------------------------------------
(* What the others keep when faces come, go or are lost, or rows change.   *)

\* The faces of F are all that changes.
Changes(F, have, gone, have2, gone2) ==
    /\ 0 \notin F
    /\ \A x : x \notin F => /\ x \in have2 <=> x \in have
                            /\ x \in have2 \ gone2 => x \in have \ gone

LEMMA WorkKept ==
    ASSUME NEW w, NEW F, NEW have, NEW gone, NEW rows, NEW have2, NEW gone2, NEW rows2,
           WorkInv(w, have, gone, rows), Changes(F, have, gone, have2, gone2),
           F \cap Own(w) = {},
           w.call = "delete" => F \cap FacesIn(rows, w.student) = {},
           Locks(w) => FacesIn(rows2, w.student) = FacesIn(rows, w.student)
    PROVE  WorkInv(w, have2, gone2, rows2)
<1>1. w.call # "delete" => w.face \notin F /\ \A x \in ToSet(w.ids) : x \notin F
  BY DEF Own, Changes
<1>2. InsertInv(w, have2, gone2, rows2)
  <2>1. w.call = "insert" => w.face # 0 /\ (w.pc # "answered" => w.face \notin have2)
    BY <1>1 DEF WorkInv, InsertInv, Changes
  <2>2. ASSUME w.op = "enroll", w.call = "insert"
        PROVE  /\ ToSet(w.ids) \subseteq have2 /\ (w.pc = "answered" /\ w.ok => w.face \in have2)
               /\ FacesIn(rows2, w.student) = {}
    BY <1>1, <2>2 DEF WorkInv, InsertInv, Changes, Locks
  <2>3. ASSUME w.pc = "answered",
               w.call \in {"cleanup", "tidy"} \/ (w.call = "insert" /\ ~ w.ok)
        PROVE  w.face \notin have2 \ gone2
    BY <1>1, <2>3 DEF WorkInv, InsertInv, Changes
  <2> QED BY <2>1, <2>2, <2>3 DEF InsertInv
<1>3. DeleteInv(w, have2, rows2)
  <2> SUFFICES ASSUME w.call = "delete"
               PROVE  /\ w.face \in FacesIn(rows2, w.student)
                      /\ ToSet(w.todo) \subseteq FacesIn(rows2, w.student)
                      /\ FacesIn(rows2, w.student) \cap have2 \subseteq ToSet(w.todo) \cup {w.face}
                      /\ w.pc = "answered" /\ w.ok => w.face \notin have2
    BY DEF DeleteInv
  <2>1. Locks(w)
    <3>1. StageInv(w) BY DEF WorkInv
    <3> QED BY <3>1 DEF StageInv, Locks, Idle
  <2>2. FacesIn(rows2, w.student) = FacesIn(rows, w.student) BY <2>1
  <2>3. DeleteInv(w, have, rows) BY DEF WorkInv
  <2> HIDE DEF FacesIn
  <2> QED BY <2>2, <2>3 DEF DeleteInv, Changes
<1> QED BY <1>2, <1>3 DEF WorkInv

\* Only rows of one student change.
RowsOf(s, rows, rows2) == \A x : x[1] # s => (x \in rows2 <=> x \in rows)

LEMMA OtherStudents ==
    ASSUME NEW rows, NEW rows2, NEW s,
           RowsOf(s, rows, rows2)
    PROVE  /\ \A u : u # s => FacesIn(rows2, {u}) = FacesIn(rows, {u})
           /\ \A u, enrolled : u # s => (Photos(rows2, u, enrolled) <=> Photos(rows, u, enrolled))
<1>1. ASSUME NEW u, u # s
      PROVE  {x \in rows2 : x[1] = u} = {x \in rows : x[1] = u}
  BY <1>1 DEF RowsOf
<1>2. ASSUME NEW u, u # s PROVE FacesIn(rows2, {u}) = FacesIn(rows, {u})
  BY <1>2 DEF RowsOf, FacesIn
<1>3. ASSUME NEW u, NEW enrolled, u # s
      PROVE  Photos(rows2, u, enrolled) <=> Photos(rows, u, enrolled)
  BY <1>1, <1>3 DEF Photos
<1> QED BY <1>1, <1>2, <1>3

\* The faces of all are those of each.
LEMMA FacesOfAll ==
    ASSUME NEW rows
    PROVE  \A f : f \in FacesIn(rows, Student) <=> \E s \in Student : f \in FacesIn(rows, {s})
BY DEF FacesIn

\* The rows of request r's student may change, if it holds the row.
LEMMA OthersRows ==
    ASSUME Inv, NEW r \in Request, Locks(req[r]), NEW s \in Student, req[r].student = {s},
           NEW rows, RowsOf(s, student_face_enrollment, rows), NEW o \in Request \ {r}
    PROVE  Locks(req[o]) =>
              FacesIn(rows, req[o].student) = FacesIn(student_face_enrollment, req[o].student)
<1> SUFFICES ASSUME Locks(req[o])
             PROVE  FacesIn(rows, req[o].student) = FacesIn(student_face_enrollment, req[o].student)
  OBVIOUS
<1>1. PICK u \in Student : req[o].student = {u} BY LocksIsLocksRow
<1>2. ApartInv(req[r], req[o]) BY DEF Inv
<1>3. u # s BY <1>1, <1>2 DEF ApartInv
<1> QED BY <1>1, <1>3, OtherStudents

LEMMA OthersSameFaces ==
    ASSUME Inv, NEW r \in Request, Locks(req[r]), NEW s \in Student, req[r].student = {s},
           NEW rows, RowsOf(s, student_face_enrollment, rows),
           FacesIn(rows, {s}) \subseteq FacesIn(student_face_enrollment, Student) \cup Own(req[r])
    PROVE  Others(r, faces, lost, rows)
<1> SUFFICES ASSUME NEW o \in Request \ {r}
             PROVE  /\ WorkInv(req[o], faces, lost, rows)
                    /\ Own(req[o]) \cap FacesIn(rows, Student) = {}
  BY DEF Others
<1>1. PICK w : w = req[o] OBVIOUS
<1>2. PICK old : old = student_face_enrollment OBVIOUS
<1>3. PICK F, have, gone : F = {} /\ have = faces /\ gone = lost OBVIOUS
<1>4. Changes(F, have, gone, have, gone) BY <1>3 DEF Changes
<1>5. Locks(w) => FacesIn(rows, w.student) = FacesIn(old, w.student)
  BY <1>1, <1>2, OthersRows
<1>6. WorkInv(w, have, gone, old) BY <1>1, <1>2, <1>3 DEF Inv
<1>7. F \cap Own(w) = {} /\ (w.call = "delete" => F \cap FacesIn(old, w.student) = {})
  BY <1>3
<1>8. WorkInv(w, have, gone, rows) BY <1>4, <1>5, <1>6, <1>7, WorkKept
<1>9. ASSUME NEW f \in Own(req[o]), f \in FacesIn(rows, Student) PROVE FALSE
  <2>1. PICK u \in Student : f \in FacesIn(rows, {u}) BY <1>9 DEF FacesIn
  <2>2. f \in FacesIn(old, Student) \/ f \in Own(req[r])
    <3>1. CASE u = s BY <1>2, <2>1, <3>1
    <3>2. CASE u # s
      <4>1. f \in FacesIn(old, {u}) BY <1>2, <2>1, <3>2, OtherStudents
      <4> QED BY <4>1 DEF FacesIn
    <3> QED BY <3>1, <3>2
  <2>3. f \notin FacesIn(old, Student) BY <1>2 DEF Inv
  <2>4. f \notin Own(req[r]) BY DEF Inv, ApartInv
  <2> QED BY <2>2, <2>3, <2>4
<1> QED BY <1>1, <1>3, <1>8, <1>9

-----------------------------------------------------------------------------
(* The commits, which change the tables.                                   *)

\* The rows of the pictures.
RowsFor(s, ids) == {<<s, ids[i], i>> : i \in DOMAIN ids}

LEMMA NewRows ==
    ASSUME NEW s, NEW ids \in Seq(Nat), NEW new, new = RowsFor(s, ids)
    PROVE  IsFiniteSet(new) /\ FacesIn(new, {s}) = ToSet(ids) /\ \A x \in new : x[1] = s
<1> DEFINE n == Len(ids)
           f == [i \in 1..n |-> <<s, ids[i], i>>]
<1>1. n \in Nat /\ DOMAIN ids = 1..n BY LenProperties
<1>2. IsFiniteSet(1..n) BY <1>1, FS_Interval
<1>3. f \in [1..n -> new] /\ \A x \in new : \E i \in 1..n : f[i] = x
  BY <1>1 DEF RowsFor
<1>4. IsFiniteSet(new)
  <2> HIDE DEF f, n
  <2> QED BY <1>2, <1>3, FiniteImage
<1>5. \A x \in new : x[1] = s BY DEF RowsFor
<1>6. FacesIn(new, {s}) \subseteq ToSet(ids)
  <2> SUFFICES ASSUME NEW x \in new PROVE x[2] \in ToSet(ids) BY DEF FacesIn
  <2>1. PICK i \in DOMAIN ids : x = <<s, ids[i], i>> BY DEF RowsFor
  <2> QED BY <2>1 DEF ToSet
<1>7. ToSet(ids) \subseteq FacesIn(new, {s})
  <2> SUFFICES ASSUME NEW i \in DOMAIN ids PROVE ids[i] \in FacesIn(new, {s}) BY DEF ToSet
  <2>1. PICK x : x = <<s, ids[i], i>> OBVIOUS
  <2>2. x \in new /\ x[1] = s /\ x[2] = ids[i] BY <2>1 DEF RowsFor
  <2> QED BY <2>2 DEF FacesIn
<1> QED BY <1>4, <1>5, <1>6, <1>7

LEMMA StoredInv ==
    ASSUME Inv, NEW r \in Request, ImageEnrolled(r),
           ~ (Len(Append(req[r].ids, req[r].face)) < req[r].images)
    PROVE  Inv'
<1>1. PICK w : w = req[r] OBVIOUS
<1>2. PICK ids : ids = Append(w.ids, w.face) OBVIOUS
<1>3. w.op = "enroll" /\ w.call = "insert" /\ w.pc = "answered" /\ w.ok
  BY <1>1 DEF ImageEnrolled, Answered
<1>4. /\ Columns(w) /\ w.face \in Nat \ {0} /\ w.ids \in Seq(Nat) /\ w.todo \in Seq(Nat)
      /\ \E s \in Student : w.student = {s}
      /\ ToSet(w.ids) \subseteq faces /\ 0 \notin ToSet(w.ids)
      /\ FacesIn(student_face_enrollment, w.student) = {}
      /\ Own(w) = ToSet(w.ids) \cup {w.face}
      /\ Locks(w) /\ Alone(r, w, student_face_enrollment)
  BY <1>1, <1>3, Inserted
<1>5. PICK s \in Student : w.student = {s} BY <1>4
<1>6. PICK have, gone, old : have = faces /\ gone = lost /\ old = student_face_enrollment OBVIOUS
<1>7. PICK new : new = RowsFor(s, ids) OBVIOUS
<1>8. PICK rows : rows = old \cup new OBVIOUS
<1>9. PICK enrolled : enrolled = [u \in Student |-> u = s \/ face_enrolled[u]] OBVIOUS
<1>10. /\ student_face_enrollment' = rows /\ face_enrolled' = enrolled
       /\ End(r) /\ UNCHANGED <<faces, lost>>
  <2>1. {<<u, ids[i], i>> : u \in w.student, i \in DOMAIN ids} = new
    BY <1>5, <1>7 DEF RowsFor
  <2>2. [u \in Student |-> u \in w.student \/ face_enrolled[u]] = enrolled BY <1>5, <1>9
  <2> QED BY <1>1, <1>2, <1>6, <1>8, <2>1, <2>2 DEF ImageEnrolled
<1>11. ids \in Seq(Nat) /\ ids # <<>> /\ ToSet(ids) = Own(w) BY <1>2, <1>4, Appended
<1>12. IsFiniteSet(new) /\ FacesIn(new, {s}) = Own(w) /\ \A x \in new : x[1] = s
  BY <1>7, <1>11, NewRows
<1>13. FacesIn(old, {s}) = {} BY <1>4, <1>5, <1>6
<1>14. {x \in old : x[1] = s} = {} BY <1>13 DEF FacesIn
<1>15. {x \in rows : x[1] = s} = new BY <1>8, <1>12, <1>14
<1>16. FacesIn(rows, {s}) = Own(w)
  <2>1. {x \in rows : x[1] \in {s}} = new /\ {x \in new : x[1] \in {s}} = new BY <1>12, <1>15
  <2> QED BY <1>12, <2>1 DEF FacesIn
<1>17. /\ RowsOf(s, old, rows)
       /\ \A u : u # s => FacesIn(rows, {u}) = FacesIn(old, {u})
       /\ \A u, e : u # s => (Photos(rows, u, e) <=> Photos(old, u, e))
  <2>1. RowsOf(s, old, rows) BY <1>8, <1>12 DEF RowsOf
  <2>2. \A u : u # s => FacesIn(rows, {u}) = FacesIn(old, {u}) BY <2>1, OtherStudents
  <2>3. \A u, e : u # s => (Photos(rows, u, e) <=> Photos(old, u, e)) BY <2>1, OtherStudents
  <2> QED BY <2>1, <2>2, <2>3
<1>18. Own(w) \subseteq have BY <1>1, <1>3, <1>4, <1>6 DEF Inv, WorkInv, InsertInv
<1>19. Own(w) \cap FacesIn(old, Student) = {} BY <1>4, <1>6 DEF Alone
<1>20. RowsInv(rows, enrolled)
  <2>1. enrolled \in [Student -> BOOLEAN] BY <1>6, <1>9 DEF Inv, RowsInv
  <2>2. \A x \in rows : x[1] \in Student /\ x[2] \in Nat \ {0}
    <3>1. ASSUME NEW x \in new PROVE x[1] \in Student /\ x[2] \in Nat \ {0}
      <4>1. x[1] = s /\ x[2] \in Own(w) BY <1>12 DEF FacesIn
      <4>2. have \subseteq Nat \ {0} BY <1>6 DEF Inv, FiniteInv
      <4> QED BY <1>18, <4>1, <4>2
    <3>2. ASSUME NEW x \in old PROVE x[1] \in Student /\ x[2] \in Nat \ {0}
      BY <1>6 DEF Inv, RowsInv
    <3> QED BY <1>8, <3>1, <3>2
  <2>3. ASSUME NEW u \in Student PROVE Photos(rows, u, enrolled[u])
    <3>1. CASE u = s
      <4> DEFINE n == Len(ids)
      <4>1. n \in Nat \ {0} /\ DOMAIN ids = 1..n BY <1>11, EmptySeq, LenProperties
      <4>2. {x \in rows : x[1] = s} = {<<s, ids[i], i>> : i \in 1..n}
        BY <1>7, <1>15, <4>1 DEF RowsFor
      <4>3. enrolled[u] BY <1>9, <3>1
      <4>4. \E m \in Nat \ {0}, z \in Seq(Nat) :
                m = Len(z) /\ {x \in rows : x[1] = s} = {<<s, z[i], i>> : i \in 1..m}
        BY <1>11, <4>1, <4>2
      <4> QED BY <3>1, <4>3, <4>4 DEF Photos
    <3>2. CASE u # s
      <4>1. enrolled[u] = face_enrolled[u] BY <1>6, <1>9, <3>2 DEF Inv, RowsInv
      <4>2. Photos(old, u, face_enrolled[u]) BY <1>6 DEF Inv, RowsInv
      <4> QED BY <1>17, <3>2, <4>1, <4>2
    <3> QED BY <3>1, <3>2
  <2>4. ASSUME NEW t \in Student, NEW u \in Student, t # u
        PROVE  FacesIn(rows, {t}) \cap FacesIn(rows, {u}) = {}
    <3>1. FacesIn(old, {t}) \cap FacesIn(old, {u}) = {} BY <1>6, <2>4 DEF Inv, RowsInv
    <3>2. \A v \in Student : FacesIn(old, {v}) \cap Own(w) = {} BY <1>19, FacesOfAll
    <3> QED BY <1>16, <1>17, <2>4, <3>1, <3>2
  <2> QED BY <2>1, <2>2, <2>3, <2>4 DEF RowsInv
<1>21. FiniteInv(have, gone, rows)
  <2>1. FiniteInv(have, gone, old) BY <1>6 DEF Inv
  <2>2. IsFiniteSet(rows) BY <1>8, <1>12, <2>1, FS_Union DEF FiniteInv
  <2> QED BY <2>1, <2>2 DEF FiniteInv
<1>22. Others(r, have, gone, rows)
  BY <1>1, <1>4, <1>5, <1>6, <1>16, <1>17, OthersSameFaces
<1>23. PICK v : v = Idle OBVIOUS
<1>24. Turn(r, v) BY <1>1, <1>3, <1>10, <1>23, PlainTurn DEF End
<1>25. WorkInv(v, have, gone, rows) /\ Alone(r, v, rows) /\ v.call = "none"
  BY <1>23, IdleInv, NobodyAlone
<1>26. Noticed(r, v, have, gone, rows)
  <2> SUFFICES ASSUME NEW f \in have \ gone, f \notin FacesIn(rows, Student)
               PROVE  \E o \in Request \ {r} : f \in Own(req[o])
    BY DEF Noticed
  <2>1. f \notin FacesIn(old, Student) BY <1>8 DEF FacesIn
  <2>2. PICK o \in Request : f \in Own(req[o]) BY <1>6, <2>1 DEF Inv, StrayInv
  <2>3. f \notin Own(w) BY <1>16, FacesOfAll
  <2> QED BY <1>1, <2>2, <2>3
<1>27. Kept(r, v, have, gone, rows)
  <2> SUFFICES ASSUME NEW u \in Student,
                      \A o \in Request \ {r} : req[o].call = "delete" => req[o].student # {u}
               PROVE  FacesIn(rows, {u}) \ gone \subseteq have
    BY DEF Kept
  <2>1. CASE u = s BY <1>16, <1>18, <2>1
  <2>2. CASE u # s
    <3>1. \A o \in Request : req[o].call = "delete" => req[o].student # {u} BY <1>1, <1>3
    <3>2. FacesIn(old, {u}) \ gone \subseteq have BY <1>6, <3>1 DEF Inv, MissingInv
    <3> QED BY <1>17, <2>2, <3>2
  <2> QED BY <2>1, <2>2
<1>28. have = faces' /\ gone = lost' /\ rows = student_face_enrollment' /\ enrolled = face_enrolled'
  BY <1>6, <1>10
<1> QED BY <1>20, <1>21, <1>22, <1>24, <1>25, <1>26, <1>27, <1>28, TurnInv

-----------------------------------------------------------------------------
(* Cleaning up, removing, validating and verifying.                        *)

LEMMA CleanUpInv ==
    ASSUME Inv, NEW r \in Request, NEW w, w = req[r], w.op = "enroll", w.pc = "answered",
           NEW ids \in Seq(Nat), ToSet(ids) \ {0} \subseteq Own(w),
           Own(w) \cap (faces \ lost) \subseteq ToSet(ids),
           CleanUp(r, ids), UNCHANGED lost
    PROVE  Inv'
<1> DEFINE rows == student_face_enrollment
<1>1. WorkInv(w, faces, lost, rows) BY DEF Inv
<1>2. w.call \in {"insert", "cleanup"} /\ \E s \in Student : w.student = {s}
  <2>1. w # Idle BY IdleInv
  <2> QED BY <1>1, <2>1 DEF WorkInv, StageInv, Removing
<1>3. UNCHANGED <<tables, faces, lost>> BY DEF CleanUp
<1>4. 0 \notin faces BY DEF Inv, FiniteInv
<1>5. CASE ids = <<>>
  <2>1. End(r) BY <1>5 DEF CleanUp
  <2>2. Own(w) \cap (faces \ lost) = {} BY <1>5, NoneSet
  <2> QED BY <1>2, <1>3, <2>1, <2>2, EndInv
<1>6. CASE ids # <<>>
  <2>1. PICK u, f : u = [w EXCEPT !.ids = Tail(ids)] /\ f = Head(ids) OBVIOUS
  <2>2. Call(r, u, "cleanup", f) BY <1>6, <2>1 DEF CleanUp
  <2>3. /\ Columns(u) /\ u.op = "enroll" /\ u.student = w.student /\ u.ids = Tail(ids)
        /\ u.todo = w.todo
    BY <1>1, <2>1 DEF WorkInv, Columns
  <2>4. PICK v : Turn(r, v) /\ Calls(v, u, "cleanup", f) BY <2>2, <2>3, CallTurn
  <2>5. f \in Nat /\ Tail(ids) \in Seq(Nat) /\ ToSet(ids) = {f} \cup ToSet(Tail(ids))
    BY <1>6, <2>1, HeadAndTail
  <2>6. Own(v) = ToSet(ids) \ {0} /\ ~ Locks(v) BY <2>3, <2>4, <2>5 DEF Calls, Own, Locks
  <2>7. WorkInv(v, faces, lost, rows)
    <3>1. StageInv(v) BY <1>2, <2>3, <2>4 DEF Calls, StageInv, Under
    <3>2. InsertInv(v, faces, lost, rows) BY <2>4 DEF Calls, InsertInv
    <3>3. DeleteInv(v, faces, rows) BY <2>4 DEF Calls, DeleteInv
    <3> QED BY <1>1, <2>3, <2>4, <2>5, <3>1, <3>2, <3>3 DEF Calls, WorkInv
  <2>8. Alone(r, v, rows)
    <3>1. Own(v) \subseteq Own(w) BY <2>6
    <3>2. \A o \in Request \ {r} : Own(w) \cap Own(req[o]) = {} BY DEF Inv, ApartInv
    <3>3. Own(w) \cap FacesIn(rows, Student) = {} BY DEF Inv
    <3> QED BY <2>6, <3>1, <3>2, <3>3 DEF Alone, ApartInv
  <2>9. Own(w) \cap (faces \ lost) \subseteq Own(v) BY <1>4, <2>6
  <2> QED BY <1>2, <1>3, <2>4, <2>7, <2>8, <2>9, QuietTurn
<1> QED BY <1>5, <1>6

LEMMA ImageFailsInv == ASSUME Inv, NEW r \in Request, ImageFails(r) PROVE Inv'
<1>1. PICK w : w = req[r] OBVIOUS
<1>2. /\ w.op = "enroll" /\ w.call = "insert" /\ w.pc = "answered" /\ ~ w.ok
      /\ CleanUp(r, w.ids) /\ UNCHANGED lost
  BY <1>1 DEF ImageFails, Answered
<1>3. w.ids \in Seq(Nat) /\ Own(w) = ToSet(w.ids) \cup {w.face} BY <1>1, <1>2, Inserted
<1>4. w.face \notin faces \ lost BY <1>1, <1>2 DEF Inv, WorkInv, InsertInv
<1>5. PICK ids : ids = w.ids OBVIOUS
<1> QED BY <1>1, <1>2, <1>3, <1>4, <1>5, CleanUpInv

LEMMA StatementFailsInv == ASSUME Inv, NEW r \in Request, StatementFails(r) PROVE Inv'
<1>1. PICK w : w = req[r] OBVIOUS
<1>2. PICK ids : ids = Append(w.ids, w.face) OBVIOUS
<1>3. /\ w.op = "enroll" /\ w.call = "insert" /\ w.pc = "answered"
      /\ CleanUp(r, ids) /\ UNCHANGED lost
  BY <1>1, <1>2 DEF StatementFails, Answered
<1>4. /\ w.ids \in Seq(Nat) /\ w.face \in Nat /\ Own(w) = ToSet(w.ids) \cup {w.face}
  BY <1>1, <1>3, Inserted
<1>5. ids \in Seq(Nat) /\ ToSet(ids) = Own(w) BY <1>2, <1>4, Appended
<1> QED BY <1>1, <1>3, <1>5, CleanUpInv

LEMMA FaceCleanedUpInv == ASSUME Inv, NEW r \in Request, FaceCleanedUp(r) PROVE Inv'
<1>1. PICK w : w = req[r] OBVIOUS
<1>2. w.call = "cleanup" /\ w.pc = "answered" /\ CleanUp(r, w.ids) /\ UNCHANGED lost
  BY <1>1 DEF FaceCleanedUp, Answered
<1>3. WorkInv(w, faces, lost, student_face_enrollment) BY <1>1 DEF Inv
<1>4. w.op = "enroll" BY <1>2, <1>3 DEF WorkInv, StageInv, Idle
<1>5. w.ids \in Seq(Nat) /\ Own(w) = (ToSet(w.ids) \cup {w.face}) \ {0}
  BY <1>2, <1>3 DEF WorkInv, Own
<1>6. w.face \notin faces \ lost BY <1>2, <1>3 DEF WorkInv, InsertInv
<1>7. PICK ids : ids = w.ids OBVIOUS
<1> QED BY <1>1, <1>2, <1>4, <1>5, <1>6, <1>7, CleanUpInv

\* A removal that is committed ends, or goes on with an enrollment.
LEMMA RemovedTurn ==
    ASSUME Inv, NEW r \in Request, req[r].op \in Removing, req[r].pc # "queued", Removed(r)
    PROVE  \E v : /\ Turn(r, v) /\ \A have, gone, rows : WorkInv(v, have, gone, rows)
                  /\ Own(v) = {} /\ ~ Locks(v) /\ v.call = "none"
<1>1. PICK w : w = req[r] OBVIOUS
<1>2. CASE w.op = "reenroll"
  <2>1. PICK s \in Student : w.student = {s}
    <3>1. StageInv(w) BY <1>1 DEF Inv, WorkInv
    <3> QED BY <1>2, <3>1 DEF StageInv, Idle
  <2>2. PICK v : v = [Idle EXCEPT !.op = "enroll", !.pc = "row", !.student = {s},
                                  !.images = w.images]
    OBVIOUS
  <2>3. req' = [req EXCEPT ![r] = v] /\ UNCHANGED mutex BY <1>1, <1>2, <2>1, <2>2 DEF Removed
  <2>4. Turn(r, v) BY <2>3, PlainTurn
  <2>5. v = [op |-> "enroll", pc |-> "row", student |-> {s}, images |-> w.images,
             call |-> "none", face |-> 0, ok |-> FALSE, ids |-> <<>>, todo |-> <<>>]
    BY <2>2 DEF Idle
  <2>6. PICK op \in Removing \cup {"enroll"} : op = "enroll" OBVIOUS
  <2>7. PICK images : images = w.images OBVIOUS
  <2>8. /\ \A have, gone, rows : WorkInv(v, have, gone, rows)
        /\ Own(v) = {} /\ ~ Locks(v) /\ v.call = "none"
    BY <2>5, <2>6, <2>7, RowStage
  <2> QED BY <2>4, <2>8
<1>3. CASE w.op # "reenroll"
  <2>1. PICK v : v = Idle OBVIOUS
  <2>2. req' = [req EXCEPT ![r] = v] /\ UNCHANGED mutex BY <1>1, <1>3, <2>1 DEF Removed
  <2>3. Turn(r, v) BY <2>2, PlainTurn
  <2> QED BY <2>1, <2>3, IdleInv
<1> QED BY <1>2, <1>3

LEMMA RemoveFacesInv == ASSUME Inv, NEW r \in Request, RemoveFaces(r) PROVE Inv'
<1>1. PICK w, old : w = req[r] /\ old = student_face_enrollment OBVIOUS
<1>2. /\ w.op \in Removing /\ w.pc = "row" /\ getStudentForEnrollment(r)
      /\ UNCHANGED <<student_face_enrollment, faces, lost>>
  BY <1>1 DEF RemoveFaces, getStudentForEnrollment
<1>3. WorkInv(w, faces, lost, old) BY <1>1 DEF Inv
<1>4. w.call = "none" /\ w.face = 0 /\ w.ids = <<>> /\ \E s \in Student : w.student = {s}
  <2>1. w # Idle BY <1>2, IdleInv
  <2> QED BY <1>2, <1>3, <2>1 DEF WorkInv, StageInv, Under, Removing
<1>5. PICK s \in Student : w.student = {s} BY <1>4
<1>6. Own(w) = {} BY <1>4, NoneSet DEF Own
<1>7. PICK S : S = FacesIn(old, {s}) OBVIOUS
<1>8. FacesOf(req[r].student) = S BY <1>1, <1>5, <1>7 DEF FacesOf, FacesIn
<1>9. IsFiniteSet(S) /\ S \in SUBSET Nat
  <2>1. IsFiniteSet(old) BY <1>1 DEF Inv, FiniteInv
  <2>2. IsFiniteSet(S) BY <1>7, <2>1, FiniteFaces
  <2>3. \A x \in old : x[2] \in Nat BY <1>1 DEF Inv, RowsInv
  <2> QED BY <1>7, <2>2, <2>3 DEF FacesIn
<1>10. PICK todo : todo = SetToSeq(S) OBVIOUS
<1>11. todo \in Seq(Nat) /\ ToSet(todo) = S BY <1>9, <1>10, FacesInOrder
<1>12. IsEnrolled(r) <=> face_enrolled[s] BY <1>1, <1>5 DEF IsEnrolled
<1>13. CASE IsEnrolled(r) /\ todo # <<>>
  <2>1. PICK u, f : u = [w EXCEPT !.todo = Tail(todo)] /\ f = Head(todo) OBVIOUS
  <2>2. Call(r, u, "delete", f) /\ UNCHANGED face_enrolled
    BY <1>1, <1>8, <1>10, <1>13, <2>1 DEF RemoveFaces
  <2>3. /\ Columns(u) /\ u.op = w.op /\ u.student = w.student /\ u.ids = w.ids
        /\ u.todo = Tail(todo)
    BY <1>3, <2>1 DEF WorkInv, Columns
  <2>4. PICK v : Turn(r, v) /\ Calls(v, u, "delete", f) BY <1>1, <1>2, <2>2, <2>3, CallTurn
  <2>5. f \in Nat /\ Tail(todo) \in Seq(Nat) /\ ToSet(todo) = {f} \cup ToSet(Tail(todo))
    BY <1>11, <1>13, <2>1, HeadAndTail
  <2>6. WorkInv(v, faces, lost, old)
    <3>1. StageInv(v) BY <1>2, <1>5, <2>3, <2>4 DEF Calls, StageInv, Under, Removing
    <3>2. InsertInv(v, faces, lost, old) BY <2>4 DEF Calls, InsertInv
    <3>3. FacesIn(old, v.student) = S BY <1>5, <1>7, <2>3, <2>4 DEF Calls
    <3>4. v.face \in S /\ ToSet(v.todo) \subseteq S /\ S = ToSet(v.todo) \cup {v.face}
      BY <1>11, <2>3, <2>4, <2>5 DEF Calls
    <3>5. v.pc # "answered" BY <2>4 DEF Calls
    <3>6. DeleteInv(v, faces, old) BY <3>3, <3>4, <3>5 DEF DeleteInv
    <3> QED BY <1>3, <2>3, <2>4, <2>5, <3>1, <3>2, <3>6 DEF Calls, WorkInv
  <2>7. Own(v) = {} /\ v.student = w.student BY <2>3, <2>4 DEF Calls, Own
  <2>8. Alone(r, v, old)
    <3>1. \A o \in Request \ {r} : Locks(req[o]) => req[o].student # v.student
      BY <1>1, <1>2, <2>7, RowIsFree
    <3> QED BY <2>7, <3>1 DEF Alone, ApartInv
  <2> QED BY <1>1, <1>2, <1>4, <1>6, <2>2, <2>4, <2>6, <2>8, QuietTurn DEF tables
<1>14. CASE ~ (IsEnrolled(r) /\ todo # <<>>)
  <2>1. /\ Removed(r)
        /\ face_enrolled' = [u \in Student |-> u # s /\ face_enrolled[u]]
    BY <1>1, <1>5, <1>8, <1>10, <1>14 DEF RemoveFaces
  <2>2. ~ face_enrolled[s]
    <3>1. CASE ~ IsEnrolled(r) BY <1>12, <3>1
    <3>2. CASE todo = <<>>
      <4>1. S = {} BY <1>11, <3>2, NoneSet
      <4> QED BY <1>1, <1>7, <4>1, NotEnrolled
    <3> QED BY <1>14, <3>1, <3>2
  <2>3. face_enrolled' = face_enrolled BY <2>1, <2>2 DEF Inv, RowsInv
  <2>4. PICK v : /\ Turn(r, v) /\ \A have, gone, rows : WorkInv(v, have, gone, rows)
                 /\ Own(v) = {} /\ ~ Locks(v) /\ v.call = "none"
    BY <1>1, <1>2, <2>1, RemovedTurn
  <2>5. Alone(r, v, old) BY <2>4, NobodyAlone
  <2>6. WorkInv(v, faces, lost, old) BY <2>4
  <2> QED BY <1>1, <1>2, <1>4, <1>6, <2>3, <2>4, <2>5, <2>6, QuietTurn DEF tables
<1> QED BY <1>13, <1>14

\* What a removal has when a deletion has been answered.
LEMMA Deleting ==
    ASSUME Inv, NEW r \in Request, NEW w, w = req[r], w.call = "delete"
    PROVE  /\ Columns(w) /\ w.op \in Removing /\ w.pc \in Under /\ Own(w) = {} /\ Locks(w)
           /\ \E s \in Student : w.student = {s}
           /\ w.ids \in Seq(Nat) /\ w.todo \in Seq(Nat)
           /\ DeleteInv(w, faces, student_face_enrollment)
<1>1. WorkInv(w, faces, lost, student_face_enrollment) BY DEF Inv
<1>2. w.op \in Removing /\ w.pc \in Under /\ \E s \in Student : w.student = {s}
  BY <1>1 DEF WorkInv, StageInv, Idle
<1> QED BY <1>1, <1>2 DEF WorkInv, Own, Locks

LEMMA NextRemovalInv ==
    ASSUME Inv, NEW r \in Request, FaceRemoved(r), req[r].todo # <<>>
    PROVE  Inv'
<1>1. PICK w, old : w = req[r] /\ old = student_face_enrollment OBVIOUS
<1>2. PICK u, f : u = [w EXCEPT !.todo = Tail(w.todo)] /\ f = Head(w.todo) OBVIOUS
<1>3. /\ w.call = "delete" /\ w.pc = "answered" /\ w.ok
      /\ Call(r, u, "delete", f) /\ UNCHANGED <<tables, faces, lost>>
  BY <1>1, <1>2 DEF FaceRemoved, Answered
<1>4. /\ Columns(w) /\ w.op \in Removing /\ Own(w) = {} /\ Locks(w)
      /\ w.ids \in Seq(Nat) /\ w.todo \in Seq(Nat) /\ DeleteInv(w, faces, old)
  BY <1>1, <1>3, Deleting
<1>5. PICK s \in Student : w.student = {s} BY <1>1, <1>3, Deleting
<1>6. /\ Columns(u) /\ u.op = w.op /\ u.student = w.student /\ u.ids = w.ids
      /\ u.todo = Tail(w.todo)
  BY <1>2, <1>4 DEF Columns
<1>7. PICK v : Turn(r, v) /\ Calls(v, u, "delete", f) BY <1>1, <1>3, <1>6, CallTurn
<1>8. f \in Nat /\ Tail(w.todo) \in Seq(Nat) /\ ToSet(w.todo) = {f} \cup ToSet(Tail(w.todo))
  BY <1>1, <1>2, <1>4, HeadAndTail
<1>9. v.student = w.student /\ v.face = f /\ v.todo = Tail(w.todo) /\ v.call = "delete"
      /\ v.op = w.op /\ v.pc # "answered" /\ v.pc \in Under
  BY <1>6, <1>7 DEF Calls, Under
<1>10. DeleteInv(v, faces, old)
  <2>1. FacesIn(old, w.student) \cap faces \subseteq ToSet(w.todo)
    BY <1>3, <1>4 DEF DeleteInv
  <2> QED BY <1>3, <1>4, <1>8, <1>9, <2>1 DEF DeleteInv
<1>11. WorkInv(v, faces, lost, old)
  <2>1. StageInv(v) BY <1>4, <1>5, <1>9 DEF StageInv, Removing
  <2>2. InsertInv(v, faces, lost, old) BY <1>9 DEF InsertInv
  <2> QED BY <1>4, <1>6, <1>7, <1>8, <1>10, <2>1, <2>2 DEF Calls, WorkInv
<1>12. Own(v) = {} BY <1>9 DEF Own
<1>13. Alone(r, v, old) BY <1>1, <1>4, <1>9, <1>12 DEF Alone, Inv, ApartInv
<1> QED BY <1>1, <1>3, <1>4, <1>7, <1>9, <1>11, <1>13, QuietTurn

LEMMA RemovedInv ==
    ASSUME Inv, NEW r \in Request, FaceRemoved(r), ~ (req[r].todo # <<>>)
    PROVE  Inv'
<1>1. PICK w : w = req[r] OBVIOUS
<1>2. w.call = "delete" /\ w.pc = "answered" /\ w.ok BY <1>1 DEF FaceRemoved, Answered
<1>3. /\ Columns(w) /\ w.op \in Removing /\ Own(w) = {} /\ Locks(w)
      /\ w.todo \in Seq(Nat) /\ DeleteInv(w, faces, student_face_enrollment)
  BY <1>1, <1>2, Deleting
<1>4. PICK s \in Student : w.student = {s} BY <1>1, <1>2, Deleting
<1>5. PICK have, gone, old : have = faces /\ gone = lost /\ old = student_face_enrollment OBVIOUS
<1>6. PICK rows : rows = {x \in old : x[1] # s} OBVIOUS
<1>7. PICK enrolled : enrolled = [u \in Student |-> u # s /\ face_enrolled[u]] OBVIOUS
<1>8. /\ student_face_enrollment' = rows /\ face_enrolled' = enrolled
      /\ Removed(r) /\ UNCHANGED <<faces, lost>>
  <2>1. {x \in old : x[1] \notin w.student} = rows BY <1>4, <1>6
  <2>2. [u \in Student |-> u \notin w.student /\ face_enrolled[u]] = enrolled BY <1>4, <1>7
  <2> QED BY <1>1, <1>5, <2>1, <2>2 DEF FaceRemoved
<1>9. FacesIn(rows, {s}) = {} BY <1>6 DEF FacesIn
<1>10. RowsOf(s, old, rows) BY <1>6 DEF RowsOf
<1>11. ASSUME NEW u, u # s PROVE FacesIn(rows, {u}) = FacesIn(old, {u})
  BY <1>10, <1>11 DEF RowsOf, FacesIn
<1>12. ASSUME NEW u, NEW e, u # s PROVE Photos(rows, u, e) <=> Photos(old, u, e)
  BY <1>10, <1>12, OtherStudents
<1>13. FacesIn(old, {s}) \cap have = {}
  <2>1. w.todo = <<>> BY <1>1
  <2>2. ToSet(w.todo) = {} BY <2>1, NoneSet
  <2>3. /\ FacesIn(old, {s}) \cap have \subseteq ToSet(w.todo) \cup {w.face}
        /\ w.face \notin have
    BY <1>2, <1>3, <1>4, <1>5 DEF DeleteInv
  <2> QED BY <2>2, <2>3
<1>14. RowsInv(rows, enrolled)
  <2>1. enrolled \in [Student -> BOOLEAN] BY <1>5, <1>7 DEF Inv, RowsInv
  <2>2. \A x \in rows : x[1] \in Student /\ x[2] \in Nat \ {0} BY <1>5, <1>6 DEF Inv, RowsInv
  <2>3. ASSUME NEW u \in Student PROVE Photos(rows, u, enrolled[u])
    <3>1. CASE u = s
      <4>1. {x \in rows : x[1] = s} = {} BY <1>6
      <4> QED BY <1>7, <3>1, <4>1 DEF Photos
    <3>2. CASE u # s
      <4>1. enrolled[u] = face_enrolled[u] BY <1>7, <3>2 DEF Inv, RowsInv
      <4>2. Photos(old, u, face_enrolled[u]) BY <1>5 DEF Inv, RowsInv
      <4> QED BY <1>12, <3>2, <4>1, <4>2
    <3> QED BY <3>1, <3>2
  <2>4. ASSUME NEW t \in Student, NEW u \in Student, t # u
        PROVE  FacesIn(rows, {t}) \cap FacesIn(rows, {u}) = {}
    <3>1. FacesIn(old, {t}) \cap FacesIn(old, {u}) = {} BY <1>5, <2>4 DEF Inv, RowsInv
    <3> QED BY <1>9, <1>11, <2>4, <3>1
  <2> QED BY <2>1, <2>2, <2>3, <2>4 DEF RowsInv
<1>15. FiniteInv(have, gone, rows)
  <2>1. FiniteInv(have, gone, old) BY <1>5 DEF Inv
  <2>2. IsFiniteSet(rows) BY <1>6, <2>1, FS_Subset DEF FiniteInv
  <2> QED BY <2>1, <2>2 DEF FiniteInv
<1>16. Others(r, have, gone, rows)
  BY <1>1, <1>3, <1>4, <1>5, <1>9, <1>10, OthersSameFaces
<1>17. PICK v : /\ Turn(r, v) /\ \A a, b, c : WorkInv(v, a, b, c)
                /\ Own(v) = {} /\ ~ Locks(v) /\ v.call = "none"
  BY <1>1, <1>2, <1>3, <1>8, RemovedTurn
<1>18. WorkInv(v, have, gone, rows) /\ Alone(r, v, rows) BY <1>17, NobodyAlone
<1>19. Noticed(r, v, have, gone, rows)
  <2> SUFFICES ASSUME NEW f \in have \ gone, f \notin FacesIn(rows, Student)
               PROVE  \E o \in Request \ {r} : f \in Own(req[o])
    BY DEF Noticed
  <2>1. f \notin FacesIn(old, Student) BY <1>11, <1>13, FacesOfAll
  <2>2. PICK o \in Request : f \in Own(req[o]) BY <1>5, <2>1 DEF Inv, StrayInv
  <2> QED BY <1>1, <1>3, <2>2
<1>20. Kept(r, v, have, gone, rows)
  <2> SUFFICES ASSUME NEW u \in Student,
                      \A o \in Request \ {r} : req[o].call = "delete" => req[o].student # {u}
               PROVE  FacesIn(rows, {u}) \ gone \subseteq have
    BY DEF Kept
  <2>1. CASE u = s BY <1>9, <2>1
  <2>2. CASE u # s
    <3>1. \A o \in Request : req[o].call = "delete" => req[o].student # {u} BY <1>1, <1>4, <2>2
    <3>2. FacesIn(old, {u}) \ gone \subseteq have BY <1>5, <3>1 DEF Inv, MissingInv
    <3> QED BY <1>11, <2>2, <3>2
  <2> QED BY <2>1, <2>2
<1>21. have = faces' /\ gone = lost' /\ rows = student_face_enrollment' /\ enrolled = face_enrolled'
  BY <1>5, <1>8
<1> QED BY <1>14, <1>15, <1>16, <1>17, <1>18, <1>19, <1>20, <1>21, TurnInv

\* A request that ends where it is loses the faces it knows of and those it was removing.
LEMMA GiveUpInv ==
    ASSUME Inv, NEW r \in Request, NEW w, w = req[r], w.pc # "queued",
           NEW S, IsFiniteSet(S), S \subseteq Nat, Own(w) \subseteq S,
           w.call = "delete" => FacesIn(student_face_enrollment, w.student) \subseteq S,
           End(r), UNCHANGED <<tables, faces>>, Lose(S)
    PROVE  Inv'
<1>1. PICK have, rows, enrolled, gone :
          /\ have = faces /\ rows = student_face_enrollment /\ enrolled = face_enrolled
          /\ gone = lost'
  OBVIOUS
<1>2. faces' = have /\ student_face_enrollment' = rows /\ face_enrolled' = enrolled
  BY <1>1 DEF tables
<1>3. gone = (lost \cup S) \cap (have \cup {row[2] : row \in rows})
  BY <1>1, <1>2 DEF Lose
<1>4. have \ gone \subseteq have \ lost BY <1>3
<1>5. \A U : FacesIn(rows, U) \subseteq {row[2] : row \in rows} BY DEF FacesIn
<1>6. \A U : FacesIn(rows, U) \ gone \subseteq FacesIn(rows, U) \ lost BY <1>3, <1>5
<1>7. w.call = "delete" => FacesIn(rows, w.student) \subseteq gone BY <1>1, <1>3, <1>5
<1>8. Own(w) \cap (have \ gone) = {} BY <1>3
<1>9. RowsInv(rows, enrolled) BY <1>1 DEF Inv
<1>10. FiniteInv(have, gone, rows)
  <2>1. FiniteInv(have, lost, rows) BY <1>1 DEF Inv
  <2>2. IsFiniteSet(lost \cup S) BY <2>1, FS_Union DEF FiniteInv
  <2>3. gone \subseteq lost \cup S BY <1>3
  <2>4. IsFiniteSet(gone) BY <2>2, <2>3, FS_Subset
  <2> QED BY <2>1, <2>3, <2>4 DEF FiniteInv
<1>11. Others(r, have, gone, rows)
  <2> SUFFICES ASSUME NEW o \in Request \ {r}
               PROVE  WorkInv(req[o], have, gone, rows) /\ Own(req[o]) \cap FacesIn(rows, Student) = {}
    BY DEF Others
  <2>1. PICK F, z, before : F = {} /\ z = req[o] /\ before = lost OBVIOUS
  <2>2. Changes(F, have, before, have, gone) BY <1>4, <2>1 DEF Changes
  <2>3. WorkInv(z, have, before, rows) BY <1>1, <2>1 DEF Inv
  <2>4. F \cap Own(z) = {} /\ (z.call = "delete" => F \cap FacesIn(rows, z.student) = {})
    BY <2>1
  <2>5. WorkInv(z, have, gone, rows) BY <2>2, <2>3, <2>4, WorkKept
  <2> QED BY <1>1, <2>1, <2>5 DEF Inv
<1>12. PICK v : v = Idle OBVIOUS
<1>13. Turn(r, v) BY <1>12, PlainTurn DEF End
<1>14. WorkInv(v, have, gone, rows) /\ Alone(r, v, rows) /\ v.call = "none"
  BY <1>12, IdleInv, NobodyAlone
<1>15. Noticed(r, v, have, gone, rows)
  <2> SUFFICES ASSUME NEW f \in have \ gone, f \notin FacesIn(rows, Student)
               PROVE  \E o \in Request \ {r} : f \in Own(req[o])
    BY DEF Noticed
  <2>1. PICK o \in Request : f \in Own(req[o]) BY <1>1, <1>4 DEF Inv, StrayInv
  <2> QED BY <1>8, <2>1
<1>16. Kept(r, v, have, gone, rows)
  <2> SUFFICES ASSUME NEW u \in Student,
                      \A o \in Request \ {r} : req[o].call = "delete" => req[o].student # {u}
               PROVE  FacesIn(rows, {u}) \ gone \subseteq have
    BY DEF Kept
  <2>1. CASE w.call = "delete" /\ w.student = {u} BY <1>7, <2>1
  <2>2. CASE ~ (w.call = "delete" /\ w.student = {u})
    <3>1. \A o \in Request : req[o].call = "delete" => req[o].student # {u} BY <2>2
    <3>2. FacesIn(rows, {u}) \ lost \subseteq have BY <1>1, <3>1 DEF Inv, MissingInv
    <3> QED BY <1>6, <3>2
  <2> QED BY <2>1, <2>2
<1>17. have = faces' /\ gone = lost' /\ rows = student_face_enrollment' /\ enrolled = face_enrolled'
  BY <1>1, <1>2
<1> QED BY <1>9, <1>10, <1>11, <1>13, <1>14, <1>15, <1>16, <1>17, TurnInv

\* A removal that is given up leaves its student's rows.
LEMMA RemovalEndsInv ==
    ASSUME Inv, NEW r \in Request, Answered(r, "delete"), End(r), UNCHANGED <<tables, faces>>,
           Lose(FacesOf(req[r].student))
    PROVE  Inv'
<1>1. PICK w, S : w = req[r] /\ S = FacesIn(student_face_enrollment, w.student) OBVIOUS
<1>2. w.call = "delete" /\ w.pc = "answered" BY <1>1 DEF Answered
<1>3. Own(w) = {} BY <1>1, <1>2, Deleting
<1>4. Lose(S) BY <1>1 DEF FacesOf, FacesIn
<1>5. S \subseteq Nat
  <2>1. \A x \in student_face_enrollment : x[2] \in Nat BY DEF Inv, RowsInv
  <2> QED BY <1>1, <2>1 DEF FacesIn
<1>6. IsFiniteSet(S) BY <1>1, FiniteFaces DEF Inv, FiniteInv
<1> QED BY <1>1, <1>2, <1>3, <1>4, <1>5, <1>6, GiveUpInv

LEMMA RemovalFailsInv == ASSUME Inv, NEW r \in Request, RemovalFails(r) PROVE Inv'
BY RemovalEndsInv DEF RemovalFails

LEMMA RemovalNotRecordedInv ==
    ASSUME Inv, NEW r \in Request, RemovalNotRecorded(r)
    PROVE  Inv'
BY RemovalEndsInv DEF RemovalNotRecorded

LEMMA RollbackFailsInv == ASSUME Inv, NEW r \in Request, RollbackFails(r) PROVE Inv'
<1>1. PICK w, S : w = req[r] /\ S = Handles(r) OBVIOUS
<1>2. /\ w.op = "enroll" /\ w.call = "insert" /\ w.pc = "answered"
      /\ End(r) /\ UNCHANGED <<tables, faces>> /\ Lose(S)
  BY <1>1 DEF RollbackFails, Answered
<1>3. w.face \in Nat /\ w.ids \in Seq(Nat) BY <1>1, <1>2, Inserted
<1>4. Own(w) = S /\ S \subseteq ToSet(w.ids) \cup {w.face} BY <1>1, <1>2 DEF Own, Handles
<1>5. IsFiniteSet(ToSet(w.ids) \cup {w.face}) /\ ToSet(w.ids) \subseteq Nat
  BY <1>3, FiniteList, FS_AddElement
<1>6. IsFiniteSet(S) /\ S \subseteq Nat BY <1>3, <1>4, <1>5, FS_Subset
<1> QED BY <1>1, <1>2, <1>4, <1>6, GiveUpInv

LEMMA NothingDoneInv == ASSUME Inv, NEW r \in Request, NothingDone(r) PROVE Inv'
<1>1. PICK w : w = req[r] OBVIOUS
<1>2. w.pc = "row" /\ End(r) /\ UNCHANGED <<tables, faces, lost>> BY <1>1 DEF NothingDone
<1>3. WorkInv(w, faces, lost, student_face_enrollment) BY <1>1 DEF Inv
<1>4. w.call = "none" /\ w.face = 0 /\ w.ids = <<>>
  <2>1. w # Idle BY <1>2, IdleInv
  <2> QED BY <1>2, <1>3, <2>1 DEF WorkInv, StageInv, Under
<1>5. Own(w) = {} BY <1>4, NoneSet DEF Own
<1> QED BY <1>1, <1>2, <1>4, <1>5, EndInv

LEMMA ValidateInv ==
    ASSUME FaceAssumption, Inv, NEW r \in Request, Validate(r)
    PROVE  Inv'
<1>1. PICK w, f, old :
          /\ w = [Idle EXCEPT !.op = "validate"] /\ f = Fresh
          /\ old = student_face_enrollment
  OBVIOUS
<1>2. req[r] = Idle /\ Call(r, w, "insert", f) /\ UNCHANGED <<tables, faces, lost>>
  BY <1>1 DEF Validate
<1>3. Columns(w) /\ w.op = "validate" /\ w.student = {} /\ w.ids = <<>> /\ w.todo = <<>>
  BY <1>1 DEF Columns, Idle
<1>4. PICK v : Turn(r, v) /\ Calls(v, w, "insert", f) BY <1>2, <1>3, IdleInv, CallTurn
<1>5. /\ f \in Nat \ {0} /\ f \notin faces /\ f \notin FacesIn(old, Student)
      /\ \A o \in Request : f \notin Own(req[o])
  BY <1>1, FreshFace
<1>6. WorkInv(v, faces, lost, old)
  <2>1. StageInv(v) BY <1>3, <1>4 DEF Calls, StageInv, Under
  <2>2. InsertInv(v, faces, lost, old) BY <1>3, <1>4, <1>5 DEF Calls, InsertInv
  <2>3. DeleteInv(v, faces, old) BY <1>4 DEF Calls, DeleteInv
  <2> QED BY <1>3, <1>4, <1>5, <2>1, <2>2, <2>3, NoneSet DEF Calls, WorkInv
<1>7. Own(v) = {f} /\ ~ Locks(v) BY <1>3, <1>4, <1>5, NoneSet DEF Calls, Own, Locks, Removing
<1>8. Alone(r, v, old) BY <1>5, <1>7 DEF Alone, ApartInv
<1> QED BY <1>1, <1>2, <1>4, <1>6, <1>8, IdleInv, QuietTurn

LEMMA ValidatedInv == ASSUME Inv, NEW r \in Request, Validated(r) PROVE Inv'
<1>1. PICK w, old : w = req[r] /\ old = student_face_enrollment OBVIOUS
<1>2. w.op = "validate" /\ w.pc = "answered" /\ UNCHANGED <<tables, faces, lost>>
  BY <1>1 DEF Validated
<1>3. WorkInv(w, faces, lost, old) BY <1>1 DEF Inv
<1>4. w.call \in {"insert", "tidy"} /\ w.student = {} /\ w.ids = <<>>
  BY <1>2, <1>3 DEF WorkInv, StageInv, Idle, Removing
<1>5. CASE w.call = "insert" /\ w.ok
  <2>1. PICK f : f = w.face OBVIOUS
  <2>2. Call(r, w, "tidy", f) BY <1>1, <1>5, <2>1 DEF Validated
  <2>3. PICK v : Turn(r, v) /\ Calls(v, w, "tidy", f)
    BY <1>1, <1>2, <1>3, <2>2, CallTurn DEF WorkInv
  <2>4. WorkInv(v, faces, lost, old)
    <3>1. StageInv(v) BY <1>2, <1>4, <2>3 DEF Calls, StageInv, Under
    <3>2. InsertInv(v, faces, lost, old) BY <2>3 DEF Calls, InsertInv
    <3>3. DeleteInv(v, faces, old) BY <2>3 DEF Calls, DeleteInv
    <3> QED BY <1>3, <2>1, <2>3, <3>1, <3>2, <3>3 DEF Calls, WorkInv
  <2>5. Own(v) = Own(w) /\ ~ Locks(v)
    BY <1>2, <1>4, <2>1, <2>3 DEF Calls, Own, Locks, Removing
  <2>6. Alone(r, v, old)
    <3>1. Own(w) \cap FacesIn(old, Student) = {} BY <1>1 DEF Inv
    <3>2. \A o \in Request \ {r} : Own(w) \cap Own(req[o]) = {} BY <1>1 DEF Inv, ApartInv
    <3> QED BY <2>5, <3>1, <3>2 DEF Alone, ApartInv
  <2> QED BY <1>1, <1>2, <1>4, <2>3, <2>4, <2>5, <2>6, QuietTurn
<1>6. CASE ~ (w.call = "insert" /\ w.ok)
  <2>1. End(r) BY <1>1, <1>6 DEF Validated
  <2>2. w.face \notin faces \ lost BY <1>2, <1>3, <1>4, <1>6 DEF WorkInv, InsertInv
  <2>3. Own(w) \cap (faces \ lost) = {} BY <1>4, <2>2, NoneSet DEF Own
  <2> QED BY <1>1, <1>2, <1>4, <2>1, <2>3, EndInv
<1> QED BY <1>5, <1>6

LEMMA VerifyInv == ASSUME Inv, NEW r \in Request, Verify(r) PROVE Inv'
<1>1. PICK w, f, old :
          w = [Idle EXCEPT !.op = "verify"] /\ f = 0 /\ old = student_face_enrollment
  OBVIOUS
<1>2. req[r] = Idle /\ Call(r, w, "search", f) /\ UNCHANGED <<tables, faces, lost>>
  BY <1>1 DEF Verify
<1>3. Columns(w) /\ w.op = "verify" /\ w.student = {} /\ w.ids = <<>> /\ w.todo = <<>>
  BY <1>1 DEF Columns, Idle
<1>4. PICK v : Turn(r, v) /\ Calls(v, w, "search", f) BY <1>2, <1>3, IdleInv, CallTurn
<1>5. WorkInv(v, faces, lost, old)
  <2>1. StageInv(v) BY <1>1, <1>3, <1>4 DEF Calls, StageInv, Under
  <2>2. InsertInv(v, faces, lost, old) BY <1>4 DEF Calls, InsertInv
  <2>3. DeleteInv(v, faces, old) BY <1>4 DEF Calls, DeleteInv
  <2> QED BY <1>1, <1>3, <1>4, <2>1, <2>2, <2>3, NoneSet DEF Calls, WorkInv
<1>6. Own(v) = {} /\ ~ Locks(v) BY <1>1, <1>3, <1>4, NoneSet DEF Calls, Own, Locks
<1>7. Alone(r, v, old) BY <1>6, NobodyAlone
<1> QED BY <1>1, <1>2, <1>4, <1>5, <1>7, IdleInv, QuietTurn

LEMMA VerifiedInv == ASSUME Inv, NEW r \in Request, Verified(r) PROVE Inv'
<1>1. PICK w : w = req[r] OBVIOUS
<1>2. /\ w.call = "search" /\ w.pc = "answered" /\ End(r)
      /\ UNCHANGED <<tables, faces, lost>>
  BY <1>1 DEF Verified, Answered
<1>3. StageInv(w) BY <1>1 DEF Inv, WorkInv
<1>4. w.face = 0 /\ w.ids = <<>> BY <1>2, <1>3 DEF StageInv, Idle
<1>5. Own(w) = {} BY <1>4, NoneSet DEF Own
<1> QED BY <1>1, <1>2, <1>5, EndInv

-----------------------------------------------------------------------------
(* The answers of ZepIris.                                                 *)

\* What an answer to request w, or none, may have done.
Outcome(w, ok, have, gone, rows, have2, gone2) ==
    /\ \/ have2 = have
       \/ w.call = "insert" /\ have2 = have \cup {w.face}
       \/ w.call \notin {"insert", "search"} /\ have2 = have \ {w.face}
    /\ gone2 = gone \/ gone2 = (gone \cup {w.face}) \cap (have2 \cup {row[2] : row \in rows})
    /\ ok /\ w.call = "insert" => w.face \in have2
    /\ ok /\ w.call = "delete" => w.face \notin have2
    /\ w.call \in {"cleanup", "tidy"} \/ (w.call = "insert" /\ ~ ok) => w.face \notin have2 \ gone2

\* The faces of F are those of no student but the one whose faces w removes.
NoOthers(F, w, rows) ==
    \A u \in Student : (w.call = "delete" => w.student # {u}) => F \cap FacesIn(rows, {u}) = {}

\* The faces of F are none that request u has to do with.
Apart(u, F, rows) ==
    F \cap Own(u) = {} /\ (u.call = "delete" => F \cap FacesIn(rows, u.student) = {})

\* The face that is called about is nobody else's.
LEMMA FaceOfOne ==
    ASSUME Inv, NEW r \in Request, NEW w, w = req[r], NEW F, F = {w.face} \ {0}
    PROVE  /\ w.call # "delete" => F \subseteq Own(w)
           /\ \A o \in Request \ {r} : Apart(req[o], F, student_face_enrollment)
           /\ NoOthers(F, w, student_face_enrollment)
<1>1. PICK old : old = student_face_enrollment OBVIOUS
<1>2. WorkInv(w, faces, lost, old) BY <1>1 DEF Inv
<1>3. w.call # "delete" => F \subseteq Own(w) BY DEF Own
<1>4. w.call # "delete" => F \cap FacesIn(old, Student) = {} BY <1>1, <1>3 DEF Inv
<1>5. w.call = "delete" => F \subseteq FacesIn(old, w.student) BY <1>2 DEF WorkInv, DeleteInv
<1>6. w.call = "delete" => Locks(w) /\ \E s \in Student : w.student = {s}
  <2>1. StageInv(w) BY <1>2 DEF WorkInv
  <2> QED BY <2>1 DEF StageInv, Locks, Idle
<1>7. \A u \in Student : FacesIn(old, {u}) \subseteq FacesIn(old, Student) BY FacesOfAll
<1>8. ASSUME NEW u \in Student, w.call = "delete" => w.student # {u}
      PROVE  F \cap FacesIn(old, {u}) = {}
  <2>1. CASE w.call # "delete" BY <1>4, <1>7, <2>1
  <2>2. CASE w.call = "delete"
    <3>1. PICK s \in Student : w.student = {s} BY <1>6, <2>2
    <3>2. FacesIn(old, {s}) \cap FacesIn(old, {u}) = {} BY <1>1, <1>8, <2>2, <3>1 DEF Inv, RowsInv
    <3> QED BY <1>5, <2>2, <3>1, <3>2
  <2> QED BY <2>1, <2>2
<1>9. ASSUME NEW o \in Request \ {r} PROVE F \cap Own(req[o]) = {}
  <2>1. CASE w.call # "delete"
    <3>1. Own(w) \cap Own(req[o]) = {} BY DEF Inv, ApartInv
    <3> QED BY <1>3, <2>1, <3>1
  <2>2. CASE w.call = "delete"
    <3>1. Own(req[o]) \cap FacesIn(old, Student) = {} BY <1>1 DEF Inv
    <3> QED BY <1>5, <1>6, <1>7, <2>2, <3>1
  <2> QED BY <2>1, <2>2
<1>10. ASSUME NEW o \in Request \ {r}, req[o].call = "delete"
       PROVE  F \cap FacesIn(old, req[o].student) = {}
  <2>1. StageInv(req[o]) BY DEF Inv, WorkInv
  <2>2. Locks(req[o]) /\ \E u \in Student : req[o].student = {u}
    BY <1>10, <2>1 DEF StageInv, Locks, Idle
  <2>3. Locks(w) => w.student # req[o].student BY <2>2 DEF Inv, ApartInv
  <2> QED BY <1>6, <1>8, <2>2, <2>3
<1>11. NoOthers(F, w, student_face_enrollment) BY <1>1, <1>8 DEF NoOthers
<1>12. \A o \in Request \ {r} : Apart(req[o], F, student_face_enrollment)
  BY <1>1, <1>9, <1>10 DEF Apart
<1> QED BY <1>3, <1>11, <1>12

\* The faces that are lost are finitely many.
LEMMA FiniteLost ==
    ASSUME NEW have, have \in SUBSET (Nat \ {0}), IsFiniteSet(have), NEW rows, IsFiniteSet(rows),
           NEW enrolled, RowsInv(rows, enrolled), NEW gone,
           NEW all, all = {row[2] : row \in rows}, gone \subseteq have \cup all
    PROVE  FiniteInv(have, gone, rows)
<1>1. \A x \in rows : x[1] \in Student /\ x[2] \in Nat BY DEF RowsInv
<1>2. all = FacesIn(rows, Student)
  <2>1. {x \in rows : x[1] \in Student} = rows BY <1>1
  <2> QED BY <2>1 DEF FacesIn
<1>3. IsFiniteSet(all) BY <1>2, FiniteFaces
<1>4. all \subseteq Nat BY <1>1
<1>5. IsFiniteSet(gone) BY <1>3, FS_Union, FS_Subset
<1> QED BY <1>4, <1>5 DEF FiniteInv

LEMMA OutcomeInv ==
    ASSUME Inv, NEW r \in Request, NEW w, w = req[r], w.pc = "sent",
           NEW ok \in BOOLEAN, unlock(r, ok), UNCHANGED tables,
           NEW have2, NEW gone2, have2 = faces', gone2 = lost',
           Outcome(w, ok, faces, lost, student_face_enrollment, have2, gone2)
    PROVE  Inv'
<1>1. PICK have, gone, rows, enrolled :
          have = faces /\ gone = lost /\ rows = student_face_enrollment /\ enrolled = face_enrolled
  OBVIOUS
<1>2. PICK F : F = {w.face} \ {0} OBVIOUS
<1>3. Outcome(w, ok, have, gone, rows, have2, gone2) BY <1>1
<1>4. WorkInv(w, have, gone, rows) /\ RowsInv(rows, enrolled) /\ FiniteInv(have, gone, rows)
  BY <1>1 DEF Inv
<1>5. w.face \in Nat /\ (w.call = "insert" => w.face # 0) /\ 0 \notin have
  BY <1>4 DEF WorkInv, InsertInv, FiniteInv
<1>6. \A x : x \in have2 \/ x \in have => x \in have \/ x = w.face BY <1>3 DEF Outcome
<1>7. Changes(F, have, gone, have2, gone2)
  <2>1. ASSUME NEW x, x \notin F
        PROVE  /\ x \in have2 <=> x \in have
               /\ x \in have2 \ gone2 => x \in have \ gone
    <3>1. x \in have2 <=> x \in have BY <1>2, <1>3, <1>5, <2>1 DEF Outcome
    <3>2. x \in have2 /\ x \in gone => x \in gone2 BY <1>3 DEF Outcome
    <3> QED BY <3>1, <3>2
  <2> QED BY <1>2, <2>1 DEF Changes
<1>8. /\ w.call # "delete" => F \subseteq Own(w)
      /\ \A o \in Request \ {r} : Apart(req[o], F, rows)
      /\ NoOthers(F, w, rows)
  <2>1. w.call # "delete" => F \subseteq Own(w) BY <1>2, FaceOfOne
  <2>2. \A o \in Request \ {r} : Apart(req[o], F, student_face_enrollment) BY <1>2, FaceOfOne
  <2>3. NoOthers(F, w, student_face_enrollment) BY <1>2, FaceOfOne
  <2> QED BY <1>1, <2>1, <2>2, <2>3
<1>9. PICK v : Turn(r, v) /\ Answers(v, w, ok) BY AnswerTurn
<1>10. Own(v) = Own(w) /\ (Locks(v) <=> Locks(w)) /\ v.student = w.student /\ v.call = w.call
  BY <1>9 DEF Answers, Own, Locks
<1>11. WorkInv(v, have2, gone2, rows)
  <2>1. StageInv(v)
    <3>1. w # Idle BY IdleInv
    <3> QED BY <1>4, <1>9, <3>1 DEF Answers, WorkInv, StageInv, Under
  <2>2. InsertInv(v, have2, gone2, rows)
    <3>1. w.call = "insert" => have \subseteq have2 BY <1>3 DEF Outcome
    <3> QED BY <1>3, <1>4, <1>5, <1>9, <3>1 DEF Answers, Outcome, WorkInv, InsertInv
  <2>3. DeleteInv(v, have2, rows)
    <3>1. w.call = "delete" => have2 \subseteq have BY <1>3 DEF Outcome
    <3>2. w.call = "delete" /\ ok => w.face \notin have2 BY <1>3 DEF Outcome
    <3>3. DeleteInv(w, have, rows) BY <1>4 DEF WorkInv
    <3> QED BY <1>9, <3>1, <3>2, <3>3 DEF Answers, DeleteInv
  <2> QED BY <1>4, <1>9, <2>1, <2>2, <2>3 DEF Answers, WorkInv
<1>12. Alone(r, v, rows)
  <2>1. Own(w) \cap FacesIn(rows, Student) = {} BY <1>1 DEF Inv
  <2>2. \A o \in Request \ {r} : ApartInv(w, req[o]) BY DEF Inv
  <2> QED BY <1>10, <2>1, <2>2 DEF Alone, ApartInv
<1>13. Others(r, have2, gone2, rows)
  <2> SUFFICES ASSUME NEW o \in Request \ {r}
               PROVE  WorkInv(req[o], have2, gone2, rows) /\ Own(req[o]) \cap FacesIn(rows, Student) = {}
    BY DEF Others
  <2>1. PICK z : z = req[o] OBVIOUS
  <2>2. WorkInv(z, have, gone, rows) BY <1>1, <2>1 DEF Inv
  <2>3. F \cap Own(z) = {} /\ (z.call = "delete" => F \cap FacesIn(rows, z.student) = {})
    BY <1>8, <2>1 DEF Apart
  <2>4. WorkInv(z, have2, gone2, rows) BY <1>7, <2>2, <2>3, WorkKept
  <2> QED BY <1>1, <2>1, <2>4 DEF Inv
<1>14. Noticed(r, v, have2, gone2, rows)
  <2> SUFFICES ASSUME NEW f \in have2 \ gone2, f \notin FacesIn(rows, Student)
               PROVE  f \in Own(v) \/ \E o \in Request \ {r} : f \in Own(req[o])
    BY DEF Noticed
  <2>1. CASE f \in F
    <3>1. w.call # "delete"
      <4>1. ASSUME w.call = "delete" PROVE f \in FacesIn(rows, w.student)
        BY <1>2, <1>4, <2>1, <4>1 DEF WorkInv, DeleteInv
      <4>2. ASSUME w.call = "delete" PROVE \E u \in Student : w.student = {u}
        <5>1. StageInv(w) BY <1>4 DEF WorkInv
        <5> QED BY <4>2, <5>1 DEF StageInv, Idle
      <4> QED BY <4>1, <4>2, FacesOfAll
    <3> QED BY <1>8, <1>10, <2>1, <3>1
  <2>2. CASE f \notin F
    <3>1. f \in have \ gone BY <1>7, <2>2 DEF Changes
    <3>2. PICK o \in Request : f \in Own(req[o]) BY <1>1, <3>1 DEF Inv, StrayInv
    <3> QED BY <1>10, <3>2
  <2> QED BY <2>1, <2>2
<1>15. Kept(r, v, have2, gone2, rows)
  <2> SUFFICES ASSUME NEW u \in Student, v.call = "delete" => v.student # {u},
                      \A o \in Request \ {r} : req[o].call = "delete" => req[o].student # {u},
                      NEW f \in FacesIn(rows, {u}), f \notin gone2
               PROVE  f \in have2
    BY DEF Kept
  <2>1. \A o \in Request : req[o].call = "delete" => req[o].student # {u} BY <1>10
  <2>2. f \notin gone
    <3>1. f \in {row[2] : row \in rows} BY DEF FacesIn
    <3> QED BY <1>3, <3>1 DEF Outcome
  <2>3. f \in have BY <1>1, <2>1, <2>2 DEF Inv, MissingInv
  <2>4. f \notin F BY <1>8, <1>10 DEF NoOthers
  <2> QED BY <1>7, <2>3, <2>4 DEF Changes
<1>16. FiniteInv(have2, gone2, rows)
  <2>1. have \in SUBSET (Nat \ {0}) /\ IsFiniteSet(have) /\ IsFiniteSet(rows) /\ gone \in SUBSET Nat
        /\ IsFiniteSet(gone)
    BY <1>4 DEF FiniteInv
  <2>2. IsFiniteSet(have2)
    <3>1. IsFiniteSet(have \cup {w.face}) BY <2>1, FS_AddElement
    <3>2. have2 \subseteq have \cup {w.face} BY <1>6
    <3> QED BY <3>1, <3>2, FS_Subset
  <2>3. have2 \in SUBSET (Nat \ {0})
    <3>1. have2 \subseteq have \cup {w.face} BY <1>6
    <3>2. 0 \notin have2 BY <1>3, <1>5 DEF Outcome
    <3> QED BY <1>5, <2>1, <3>1, <3>2
  <2>4. gone2 \in SUBSET Nat /\ IsFiniteSet(gone2)
    <3>1. gone2 \subseteq gone \cup {w.face} BY <1>3 DEF Outcome
    <3>2. IsFiniteSet(gone \cup {w.face}) BY <2>1, FS_AddElement
    <3> QED BY <1>5, <2>1, <3>1, <3>2, FS_Subset
  <2> QED BY <2>1, <2>2, <2>3, <2>4 DEF FiniteInv
<1>17. rows = student_face_enrollment' /\ enrolled = face_enrolled' BY <1>1 DEF tables
<1> QED BY <1>4, <1>9, <1>11, <1>12, <1>13, <1>14, <1>15, <1>16, <1>17, TurnInv

LEMMA AcceptsInv == ASSUME Inv, NEW r \in Request, Accepts(r) PROVE Inv'
<1>1. PICK w, have2, gone2, ok : w = req[r] /\ have2 = faces' /\ gone2 = lost' /\ ok = TRUE OBVIOUS
<1>2. w.pc = "sent" /\ have2 = Effect(r) /\ unlock(r, ok) /\ UNCHANGED tables /\ gone2 = lost
  BY <1>1 DEF Accepts
<1>3. Outcome(w, ok, faces, lost, student_face_enrollment, have2, gone2)
  BY <1>1, <1>2 DEF Effect, Outcome
<1> QED BY <1>1, <1>2, <1>3, OutcomeInv

LEMMA RefusesInv == ASSUME Inv, NEW r \in Request, Refuses(r) PROVE Inv'
<1>1. PICK w, have2, gone2, ok : w = req[r] /\ have2 = faces' /\ gone2 = lost' /\ ok = FALSE OBVIOUS
<1>2. /\ w.pc = "sent" /\ have2 = faces /\ unlock(r, ok) /\ UNCHANGED tables /\ gone2 = lost
      /\ w.call \in {"insert", "search"} \/ w.face \notin faces
  BY <1>1 DEF Refuses
<1>3. w.call = "insert" => w.face \notin faces BY <1>1, <1>2 DEF Inv, WorkInv, InsertInv
<1>4. Outcome(w, ok, faces, lost, student_face_enrollment, have2, gone2)
  BY <1>1, <1>2, <1>3 DEF Outcome
<1> QED BY <1>1, <1>2, <1>4, OutcomeInv

LEMMA NoAnswerInv == ASSUME Inv, NEW r \in Request, NoAnswer(r) PROVE Inv'
<1>1. PICK w, have2, gone2, ok : w = req[r] /\ have2 = faces' /\ gone2 = lost' /\ ok = FALSE OBVIOUS
<1>2. w.pc = "sent" /\ have2 \in {faces, Effect(r)} /\ unlock(r, ok) /\ UNCHANGED tables
  BY <1>1 DEF NoAnswer
<1>3. gone2 = (lost \cup {w.face}) \cap (have2 \cup {row[2] : row \in student_face_enrollment})
  BY <1>1 DEF NoAnswer, Lose, tables
<1>4. /\ \/ have2 = faces
         \/ w.call = "insert" /\ have2 = faces \cup {w.face}
         \/ w.call \notin {"insert", "search"} /\ have2 = faces \ {w.face}
  BY <1>1, <1>2 DEF Effect
<1>5. w.face \notin have2 \ gone2 BY <1>3
<1>6. Outcome(w, ok, faces, lost, student_face_enrollment, have2, gone2)
  BY <1>1, <1>3, <1>4, <1>5 DEF Outcome
<1> QED BY <1>1, <1>2, <1>6, OutcomeInv

-----------------------------------------------------------------------------
(* A restart.                                                              *)

LEMMA RestartInv == ASSUME Inv, Restart PROVE Inv'
<1>1. PICK have, gone, rows, enrolled, have2, gone2, work :
          /\ have = faces /\ gone = lost /\ rows = student_face_enrollment
          /\ enrolled = face_enrolled /\ have2 = faces' /\ gone2 = lost' /\ work = req'
  OBVIOUS
<1>2. PICK H : H = UNION {Handles(r) : r \in Request} OBVIOUS
<1>3. /\ work = [r \in Request |-> Idle] /\ mutex' = [locked |-> FALSE, queue |-> <<>>]
      /\ rows = student_face_enrollment' /\ enrolled = face_enrolled'
      /\ gone2 = (gone \cup H) \cap (have2 \cup {row[2] : row \in rows})
  BY <1>1, <1>2 DEF Restart, Lose, tables
<1>4. RowsInv(rows, enrolled) /\ FiniteInv(have, gone, rows) BY <1>1 DEF Inv
<1>5. \A r \in Request : Handles(r) \subseteq H BY <1>2
<1>6. \A r \in Request : Own(req[r]) \subseteq H
  <2>1. \A r \in Request : Own(req[r]) \subseteq Handles(r) BY DEF Own, Handles
  <2> QED BY <1>5, <2>1
<1>7. \E f \in Nat : have2 = have \/ (f \in H /\ have2 = have \cup {f}) \/ (f \in H \cup {0} /\ have2 = have \ {f})
  <2>1. CASE have2 = have BY <2>1
  <2>2. CASE have2 # have
    <3>1. PICK r \in Request : have2 = Effect(r) /\ req[r].pc = "sent"
      BY <1>1, <2>2 DEF Restart
    <3>2. PICK w : w = req[r] OBVIOUS
    <3>3. w.face \in Nat /\ (w.call = "insert" => w.face # 0)
      BY <3>2 DEF Inv, WorkInv, InsertInv
    <3>4. w.face # 0 => w.face \in H BY <1>5, <3>2 DEF Handles
    <3>5. (have2 = have \cup {w.face} /\ w.call = "insert") \/ have2 = have \ {w.face}
      BY <1>1, <2>2, <3>1, <3>2 DEF Effect
    <3> QED BY <3>3, <3>4, <3>5
  <2> QED BY <2>1, <2>2
<1>8. \A x : x # 0 /\ x \notin H => (x \in have2 <=> x \in have) BY <1>7
<1>9. 0 \notin have2 /\ have2 \in SUBSET (Nat \ {0}) /\ IsFiniteSet(have2)
  <2>1. PICK f \in Nat : have2 = have \/ (f \in H /\ have2 = have \cup {f})
                           \/ (f \in H \cup {0} /\ have2 = have \ {f})
    BY <1>7
  <2>2. 0 \notin H BY <1>2 DEF Handles
  <2>3. have \in SUBSET (Nat \ {0}) /\ IsFiniteSet(have) BY <1>4 DEF FiniteInv
  <2>4. have2 \in SUBSET (Nat \ {0}) BY <2>1, <2>2, <2>3
  <2>5. IsFiniteSet(have \cup {f}) /\ have2 \subseteq have \cup {f} BY <2>1, <2>3, FS_AddElement
  <2> QED BY <2>4, <2>5, FS_Subset
<1>10. FiniteInv(have2, gone2, rows)
  <2>1. PICK all : all = {row[2] : row \in rows} OBVIOUS
  <2>2. gone2 \subseteq have2 \cup all BY <1>3, <2>1
  <2>3. IsFiniteSet(rows) BY <1>4 DEF FiniteInv
  <2> QED BY <1>4, <1>9, <2>1, <2>2, <2>3, FiniteLost
<1>11. \A r \in Request : work[r] = Idle BY <1>3
<1>12. StrayInv(work, have2, gone2, rows)
  <2> SUFFICES ASSUME NEW f \in have2 \ gone2 PROVE f \in FacesIn(rows, Student)
    BY DEF StrayInv
  <2>1. f \notin gone /\ f \notin H BY <1>3
  <2>2. f \in have \ gone BY <1>8, <1>9, <2>1
  <2> QED BY <1>1, <1>6, <2>1, <2>2 DEF Inv, StrayInv
<1>13. MissingInv(work, have2, gone2, rows)
  <2> SUFFICES ASSUME NEW s \in Student, NEW f \in FacesIn(rows, {s}), f \notin gone2
               PROVE  f \in have2
    BY DEF MissingInv
  <2>1. f \in {row[2] : row \in rows} BY DEF FacesIn
  <2>2. f \notin gone /\ f \notin H BY <1>3, <2>1
  <2>3. f # 0
    <3>1. \A x \in rows : x[2] # 0 BY <1>4 DEF RowsInv
    <3> QED BY <3>1 DEF FacesIn
  <2>4. ASSUME NEW r \in Request, req[r].call = "delete", req[r].student = {s} PROVE FALSE
    <3>1. f \in FacesOf(req[r].student) BY <1>1, <2>4 DEF FacesOf, FacesIn
    <3>2. f \in Handles(r) BY <2>3, <2>4, <3>1 DEF Handles
    <3> QED BY <1>5, <2>2, <3>2
  <2>5. f \in have BY <1>1, <2>2, <2>4 DEF Inv, MissingInv
  <2> QED BY <1>8, <2>2, <2>3, <2>5
<1>14. QueueInv(mutex', work) BY <1>3, EmptySeq DEF QueueInv
<1>15. \A r \in Request : WorkInv(work[r], have2, gone2, rows) BY <1>11, IdleInv
<1>16. \A r \in Request : Own(work[r]) \cap FacesIn(rows, Student) = {} BY <1>11, IdleInv
<1>17. \A r, o \in Request : r # o => ApartInv(work[r], work[o])
  BY <1>11, IdleInv DEF ApartInv
<1>18. work = [r \in Request |-> work[r]] BY <1>3
<1>19. /\ have2 = faces' /\ gone2 = lost' /\ work = req'
       /\ rows = student_face_enrollment' /\ enrolled = face_enrolled'
  BY <1>1, <1>3
<1> QED BY <1>4, <1>10, <1>12, <1>13, <1>14, <1>15, <1>16, <1>17, <1>18, <1>19 DEF Inv

-----------------------------------------------------------------------------
(* The invariant, and what it says of the two stores.                      *)

LEMMA InitInv == ASSUME Init PROVE Inv
<1>1. PICK work, rows, have, gone, enrolled :
          /\ work = req /\ rows = student_face_enrollment /\ have = faces /\ gone = lost
          /\ enrolled = face_enrolled
  OBVIOUS
<1>2. /\ work = [r \in Request |-> Idle] /\ rows = {} /\ have = {} /\ gone = {}
      /\ enrolled = [s \in Student |-> FALSE] /\ mutex = [locked |-> FALSE, queue |-> <<>>]
  BY <1>1 DEF Init
<1>3. \A r \in Request : work[r] = Idle BY <1>2
<1>4. \A S : FacesIn(rows, S) = {} BY <1>2 DEF FacesIn
<1>5. \A r \in Request : WorkInv(work[r], have, gone, rows) BY <1>3, IdleInv
<1>6. \A r \in Request : Own(work[r]) \cap FacesIn(rows, Student) = {} BY <1>4
<1>7. \A r, o \in Request : r # o => ApartInv(work[r], work[o]) BY <1>3, IdleInv DEF ApartInv
<1>8. RowsInv(rows, enrolled)
  <2>1. \A s \in Student : Photos(rows, s, enrolled[s]) BY <1>2 DEF Photos
  <2> QED BY <1>2, <1>4, <2>1 DEF RowsInv
<1>9. StrayInv(work, have, gone, rows) /\ MissingInv(work, have, gone, rows)
  BY <1>2, <1>4 DEF StrayInv, MissingInv
<1>10. QueueInv(mutex, work) BY <1>2, EmptySeq DEF QueueInv
<1>11. FiniteInv(have, gone, rows) BY <1>2, FS_EmptySet DEF FiniteInv
<1>12. work = [r \in Request |-> work[r]] BY <1>2
<1> QED BY <1>1, <1>5, <1>6, <1>7, <1>8, <1>9, <1>10, <1>11, <1>12 DEF Inv

LEMMA NextInv == ASSUME FaceAssumption, Inv, Next PROVE Inv'
<1>1. ASSUME NEW r \in Request, NEW s \in Student, NEW n \in 1..MAX_FACE_IMAGES,
             Arrive(r, "enroll", {s}, n) \/ Arrive(r, "reenroll", {s}, n)
      PROVE  Inv'
  <2>1. PICK op \in Removing \cup {"enroll"} : Arrive(r, op, {s}, n) BY <1>1 DEF Removing
  <2> QED BY <2>1, ArriveInv
<1>2. ASSUME NEW r \in Request, NEW s \in Student, Arrive(r, "delete", {s}, 0)
      PROVE  Inv'
  <2>1. PICK op \in Removing \cup {"enroll"} : Arrive(r, op, {s}, 0) BY <1>2 DEF Removing
  <2> QED BY <2>1, ArriveInv
<1>3. ASSUME NEW r \in Request, Validate(r) PROVE Inv' BY <1>3, ValidateInv
<1>4. ASSUME NEW r \in Request, Verify(r) PROVE Inv' BY <1>4, VerifyInv
<1>5. ASSUME NEW r \in Request, Enroll(r) PROVE Inv' BY <1>5, EnrollInv
<1>6. ASSUME NEW r \in Request, RemoveFaces(r) PROVE Inv' BY <1>6, RemoveFacesInv
<1>7. ASSUME NEW r \in Request, Proceed(r) PROVE Inv'
  <2>1. CASE Accepts(r) BY <2>1, AcceptsInv
  <2>2. CASE Refuses(r) BY <2>2, RefusesInv
  <2>3. CASE NoAnswer(r) BY <2>3, NoAnswerInv
  <2>4. CASE ImageEnrolled(r) BY <2>4, NextImageInv, StoredInv
  <2>5. CASE ImageFails(r) BY <2>5, ImageFailsInv
  <2>6. CASE StatementFails(r) BY <2>6, StatementFailsInv
  <2>7. CASE FaceCleanedUp(r) BY <2>7, FaceCleanedUpInv
  <2>8. CASE FaceRemoved(r) BY <2>8, NextRemovalInv, RemovedInv
  <2>9. CASE RemovalFails(r) BY <2>9, RemovalFailsInv
  <2>10. CASE Validated(r) BY <2>10, ValidatedInv
  <2>11. CASE Verified(r) BY <2>11, VerifiedInv
  <2>12. CASE RollbackFails(r) BY <2>12, RollbackFailsInv
  <2>13. CASE RemovalNotRecorded(r) BY <2>13, RemovalNotRecordedInv
  <2> QED
    BY <1>7, <2>1, <2>2, <2>3, <2>4, <2>5, <2>6, <2>7, <2>8, <2>9, <2>10, <2>11, <2>12, <2>13
    DEF Proceed
<1>8. CASE Restart BY <1>8, RestartInv
<1>9. ASSUME NEW r \in Request, NothingDone(r) PROVE Inv' BY <1>9, NothingDoneInv
<1> QED BY <1>1, <1>2, <1>3, <1>4, <1>5, <1>6, <1>7, <1>8, <1>9 DEF Next

LEMMA StutterInv == ASSUME Inv, UNCHANGED vars PROVE Inv'
BY DEF vars, tables, Inv

IsHis(his, rows, s) == his = {x \in rows : x[1] = s}

\* The pictures 1, 2, ... of a student who is enrolled each have a row, and nobody else has one.
LEMMA PhotosInOrder ==
    ASSUME NEW rows, NEW s, NEW enrolled \in BOOLEAN, Photos(rows, s, enrolled),
           NEW his, IsHis(his, rows, s)
    PROVE  {x[3] : x \in his} = 1..Cardinality(his) /\ enrolled = (his # {})
<1>1. CASE ~ enrolled
  <2>1. his = {} BY <1>1 DEF Photos, IsHis
  <2>2. Cardinality(his) = 0 BY <2>1, FS_EmptySet
  <2>3. 1..0 = {} OBVIOUS
  <2> QED BY <1>1, <2>1, <2>2, <2>3
<1>2. CASE enrolled
  <2>1. PICK n \in Nat \ {0}, ids \in Seq(Nat) : his = {<<s, ids[i], i>> : i \in 1..n}
    BY <1>2 DEF Photos, IsHis
  <2> DEFINE row == [i \in 1..n |-> <<s, ids[i], i>>]
  <2>2. /\ row \in [1..n -> his] /\ \A x \in his : \E i \in 1..n : row[i] = x
        /\ \A i \in 1..n : row[i][3] = i
    BY <2>1
  <2> HIDE DEF row
  <2>3. \A i, j \in 1..n : row[i] = row[j] => i = j BY <2>2
  <2>4. row \in Bijection(1..n, his) BY <2>2, <2>3, Fun_IsBij
  <2>5. IsFiniteSet(1..n) /\ Cardinality(1..n) = n BY FS_Interval
  <2>6. Cardinality(his) = n
    <3>1. PICK D : D = 1..n OBVIOUS
    <3>2. ExistsBijection(D, his) BY <2>4, <3>1 DEF ExistsBijection
    <3>3. IsFiniteSet(D) /\ Cardinality(D) = n BY <2>5, <3>1
    <3> QED BY <3>2, <3>3, FS_Bijection
  <2>7. {x[3] : x \in his} = 1..n BY <2>2
  <2>8. his # {}
    <3>1. 1 \in 1..n OBVIOUS
    <3> QED BY <2>2, <3>1
  <2> QED BY <1>2, <2>6, <2>7, <2>8
<1> QED BY <1>1, <1>2

LEMMA InvFacesAgree == ASSUME Inv PROVE FacesAgree
<1>1. PICK rows : rows = student_face_enrollment OBVIOUS
<1>2. \A S : FacesOf(S) = FacesIn(rows, S) BY <1>1 DEF FacesOf, FacesIn
<1>3. NoStrayFace
  <2> SUFFICES ASSUME NEW f \in faces \ lost
               PROVE  f \in FacesOf(Student) \cup UNION {Handles(r) : r \in Request}
    BY DEF NoStrayFace
  <2>1. f \in FacesIn(rows, Student) \/ \E r \in Request : f \in Own(req[r])
    BY <1>1 DEF Inv, StrayInv
  <2>2. \A r \in Request : Own(req[r]) \subseteq Handles(r) BY DEF Own, Handles
  <2> QED BY <1>2, <2>1, <2>2
<1>4. NoMissingFace BY <1>1, <1>2 DEF Inv, MissingInv, NoMissingFace
<1>5. EnrolledWithRows
  <2> SUFFICES ASSUME NEW s \in Student, NEW his, his = {x \in student_face_enrollment : x[1] = s}
               PROVE  {x[3] : x \in his} = 1..Cardinality(his) /\ face_enrolled[s] = (his # {})
    BY DEF EnrolledWithRows
  <2>1. PICK enrolled : enrolled = face_enrolled[s] OBVIOUS
  <2>2. enrolled \in BOOLEAN /\ Photos(rows, s, enrolled) BY <1>1, <2>1 DEF Inv, RowsInv
  <2>3. IsHis(his, rows, s) BY <1>1 DEF IsHis
  <2> QED BY <2>1, <2>2, <2>3, PhotosInOrder
<1> QED BY <1>3, <1>4, <1>5 DEF FacesAgree

\* Whatever the requests, the pictures and the order of calls and answers, the two stores
\* agree on the faces that no fault came between: ZepIris has no face that is neither a
\* student's nor in the hands of a request and has every face of a student nobody is removing,
\* and a student is enrolled just when the pictures 1, 2, ... each have a row
\* (enrollStudentFaces, deleteStudentFaces).
THEOREM FacesAreAgreed == Spec => []FacesAgree
<1>1. Init => Inv BY InitInv
<1>2. Inv /\ [Next]_vars => Inv' BY FaceAssumption, NextInv, StutterInv
<1>3. Inv => FacesAgree BY InvFacesAgree
<1> QED BY <1>1, <1>2, <1>3, PTL DEF Spec
=============================================================================
