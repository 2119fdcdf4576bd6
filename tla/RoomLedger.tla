----------------------------- MODULE RoomLedger -----------------------------
(* The rooms and who is assigned to them: src/src/controllers/             *)
(* roomController.js, roomallocation/first-year-allocation and the         *)
(* procedure and triggers of roomallocation/db/newdb.sql on                *)
(* room_assignment.                                                        *)
(*                                                                         *)
(* A request is a transaction at READ COMMITTED that runs a list of        *)
(* statements; the triggers put theirs in front.  Rows that it has written *)
(* or selected FOR UPDATE stay locked until it ends.  A trigger that       *)
(* UPDATEs a row counts or looks up first and then waits for the row, so   *)
(* what it writes can be older than the row.                               *)
(*                                                                         *)
(* An assignment is UPCOMING until it is PAST, which ends it: no code sets *)
(* ACTIVE.  A pair of a student and a room stands for the row.  A unique   *)
(* index admits one UPCOMING row per student.                              *)
EXTENDS Integers, Sequences, FiniteSets, FiniteSetsExt, LayoutMatcher

CONSTANTS
    Student,
    ByRank,         \* the students in the order of individual_rank
    Room,
    Built,          \* rooms that exist to begin with
    Capacity,       \* capacities the warden asks for, a subset of 1..6
    Layout,         \* layouts the warden asks for
    Target,         \* lists of rooms the warden asks for
    Txn,            \* requests under way at the same time
    MaxAsked        \* bound on the requests

ASSUME RoomAssumption ==
    /\ IsFiniteSet(Student) /\ IsFiniteSet(Room)
    /\ Built \subseteq Room /\ MaxAsked \in Nat
    /\ Capacity \subseteq 1..6 /\ Capacity # {}
    /\ ByRank \in Seq(Student) /\ IsInjective(ByRank) /\ ToSet(ByRank) = Student
    /\ Target \subseteq Seq(Room)

VARIABLES
    max_capacity,       \* max_capacity[r]: 0 before there is such a room, -1 after it
    current_occupancy,  \* current_occupancy[r]
    room_assignment,    \* the UPCOMING rows
    past,               \* the PAST rows
    is_allotted,        \* is_allotted[s], of the snapshot in the student's row
    asked,              \* requests so far
    txn                 \* txn[t]: the transaction of request t

tables == <<max_capacity, current_occupancy, room_assignment, past, is_allotted>>
vars == <<tables, asked, txn>>

NotWritten == -1

\* What a transaction does, the statements it has left, the rows it has locked and written:
\* assignments it ended and made, rooms it deleted, its occupancies, and its snapshots as
\* the number of assignments looked up.
Closed == [op |-> "none", student |-> {}, rooms |-> <<>>, layout |-> {}, plan |-> <<>>,
           todo |-> <<>>, locked |-> {}, claimed |-> {}, ended |-> {}, made |-> {}, dropped |-> {},
           occupancy |-> [r \in Room |-> NotWritten], allotted |-> [s \in Student |-> NotWritten]]

Init ==
    /\ \E c \in Capacity : max_capacity = [r \in Room |-> IF r \in Built THEN c ELSE 0]
    /\ current_occupancy = [r \in Room |-> 0]
    /\ room_assignment = {} /\ past = {}
    /\ is_allotted = [s \in Student |-> FALSE]
    /\ asked = 0
    /\ txn = [t \in Txn |-> Closed]

Exists(r) == max_capacity[r] > 0
of(s) == {s} \X Room
in(r) == Student \X {r}

\* What t sees: what is committed, with its own writes.
Seen(t) == (room_assignment \ txn[t].ended) \cup txn[t].made
OccupancySeen(t, r) ==
    IF txn[t].occupancy[r] = NotWritten THEN current_occupancy[r] ELSE txn[t].occupancy[r]
Full(t, r) == OccupancySeen(t, r) >= max_capacity[r]

\* A statement about a student and a room; value: what a trigger has looked up.
Stmt(do, s, r) == [do |-> do, student |-> s, room |-> r, value |-> 0]

\* Lists of n statements, one after the other.
Chain(n, lists) ==
    [k \in 1..n * Len(lists) |-> lists[(k + n - 1) \div n][((k - 1) % n) + 1]]

\* assign_student_to_room
Assign(s, r) == <<Stmt("notfull", s, r), Stmt("end", s, r), Stmt("insert", s, r)>>

-----------------------------------------------------------------------------
(* Locks.                                                                  *)

head(t) == Head(txn[t].todo)
At(t, do) == txn[t].todo # <<>> /\ head(t).do \in do

\* The rows that t's next statement changes; a room takes all its rows with it.
Rows(t) ==
    CASE At(t, {"end"}) -> Seen(t) \cap of(head(t).student)
      [] At(t, {"remove"}) -> Seen(t) \cap {<<head(t).student, head(t).room>>}
      [] At(t, {"clear"}) -> Seen(t) \cap in(head(t).room)
      [] At(t, {"drop"}) -> (Seen(t) \cup past) \cap in(head(t).room)
      [] OTHER -> {}

WaitsFor(t, u) ==
    /\ t # u
    /\ \/ Rows(t) \cap txn[u].ended # {}
       \/ At(t, {"notfull", "empty", "lock", "drop", "occupancy"}) /\ head(t).room \in txn[u].locked
       \/ At(t, {"claim", "snapshot"}) /\ head(t).student \in txn[u].claimed
       \/ At(t, {"insert"}) /\ of(head(t).student) \cap (txn[u].made \cup txn[u].ended) # {}

Free(t) == \A u \in Txn : ~ WaitsFor(t, u)

Rollback(t) == txn' = [txn EXCEPT ![t] = Closed]

\* PostgreSQL aborts one of the transactions that wait for each other.
Deadlock(t) ==
    /\ \E D \in SUBSET Txn :
          /\ t \in D
          /\ \A u \in D : (\E w \in D : WaitsFor(u, w)) /\ (\E w \in D : WaitsFor(w, u))
    /\ Rollback(t)
    /\ UNCHANGED <<tables, asked>>

\* The head is run: next are the statements it puts in front of the others.
Go(t, next, written) == txn' = [txn EXCEPT ![t] = [written EXCEPT !.todo = next \o Tail(@)]]

-----------------------------------------------------------------------------
(* Statements on rooms and students.                                       *)

\* Faulty variant of LockRoom: the row is read without FOR UPDATE (used by mutants).
ReadRoom(t) ==
    LET r == head(t).room IN
    /\ At(t, {"notfull"})
    /\ IF Exists(r) /\ ~ Full(t, r) THEN Go(t, <<>>, txn[t]) ELSE Rollback(t)
    /\ UNCHANGED <<tables, asked>>

\* SELECT ... FOR UPDATE of a room that must have a bed left.
LockRoom(t) ==
    LET r == head(t).room IN
    /\ At(t, {"notfull"}) /\ Free(t)
    /\ IF Exists(r) /\ ~ Full(t, r) THEN Go(t, <<>>, [txn[t] EXCEPT !.locked = @ \cup {r}]) ELSE Rollback(t)
    /\ UNCHANGED <<tables, asked>>

\* executeBulkAllocation: a target room that is not empty is skipped; for the others the
\* plan has a student for each bed of the layout.
LockEmptyRoom(t) ==
    LET r == head(t).room
        calls(layout) == IF OccupancySeen(t, r) # 0 THEN <<>>
                         ELSE [i \in 1..layout.capacity |-> Assign(txn[t].plan[r][i], r)] IN
    /\ At(t, {"empty"}) /\ Free(t)
    /\ IF Exists(r)
       THEN \E layout \in txn[t].layout :
               Go(t, Chain(3, calls(layout)), [txn[t] EXCEPT !.locked = @ \cup {r}])
       ELSE Rollback(t)
    /\ UNCHANGED <<tables, asked>>

\* Faulty variant of LockForRollback: the room is not locked (used by a mutant).
LockNothing(t) ==
    /\ At(t, {"lock"})
    /\ Go(t, <<>>, txn[t])
    /\ UNCHANGED <<tables, asked>>

\* rollbackAllocations
LockForRollback(t) ==
    /\ At(t, {"lock"}) /\ Free(t)
    /\ Go(t, <<>>, [txn[t] EXCEPT !.locked = @ \cup {head(t).room}])
    /\ UNCHANGED <<tables, asked>>

\* Faulty variant of ClaimStudent: the row is read without FOR UPDATE (used by a mutant).
ReadStudent(t) ==
    /\ At(t, {"claim"})
    /\ IF is_allotted[head(t).student] THEN Rollback(t) ELSE Go(t, <<>>, txn[t])
    /\ UNCHANGED <<tables, asked>>

\* executeManualAllocation: SELECT is_allotted ... FOR UPDATE
ClaimStudent(t) ==
    LET s == head(t).student IN
    /\ At(t, {"claim"}) /\ Free(t)
    /\ IF is_allotted[s] THEN Rollback(t) ELSE Go(t, <<>>, [txn[t] EXCEPT !.claimed = @ \cup {s}])
    /\ UNCHANGED <<tables, asked>>

-----------------------------------------------------------------------------
(* Statements on room_assignment and its triggers.                         *)

\* trigger_sync_student_room and trigger_update_room_occupancy for each row of P.
Triggers(P) ==
    LET rows == SetToSeq(P) IN
    Chain(2, [i \in 1..Cardinality(P) |->
                  <<Stmt("sync", rows[i][1], rows[i][2]), Stmt("recount", rows[i][1], rows[i][2])>>])

\* The assignments become PAST; rollbackAllocations and the cascade of a deleted room
\* delete them.
EndRows(t) ==
    /\ At(t, {"end", "remove", "clear", "drop"}) /\ Free(t)
    /\ Go(t, Triggers(Rows(t)),
          [txn[t] EXCEPT !.ended = @ \cup (Rows(t) \cap room_assignment), !.made = @ \ Rows(t),
                         !.locked = IF At(t, {"drop"}) THEN @ \cup {head(t).room} ELSE @,
                         !.dropped = IF At(t, {"drop"}) THEN @ \cup {head(t).room} ELSE @])
    /\ UNCHANGED <<tables, asked>>

\* The unique index waits for those who have the student's row, and refuses a second one;
\* the row refers to a student.
InsertRow(t) ==
    LET p == <<head(t).student, head(t).room>> IN
    /\ At(t, {"insert"}) /\ Free(t)
    /\ IF p[1] \in Student /\ Seen(t) \cap of(p[1]) = {}
       THEN Go(t, Triggers({p}), [txn[t] EXCEPT !.made = @ \cup {p}])
       ELSE Rollback(t)
    /\ UNCHANGED <<tables, asked>>

\* sync_student_room_snapshot looks for a current assignment, then updates the student.
Lookup(t) ==
    /\ At(t, {"sync"})
    /\ Go(t, <<[head(t) EXCEPT !.do = "snapshot", !.value = Cardinality(Seen(t) \cap of(head(t).student))]>>, txn[t])
    /\ UNCHANGED <<tables, asked>>

WriteSnapshot(t) ==
    LET s == head(t).student IN
    /\ At(t, {"snapshot"}) /\ Free(t)
    /\ Go(t, <<>>, [txn[t] EXCEPT !.allotted[s] = head(t).value, !.claimed = @ \cup {s}])
    /\ UNCHANGED <<tables, asked>>

\* recalculate_room_occupancy counts when its UPDATE starts, and may wait for the row then.
Recount(t) ==
    /\ At(t, {"recount"})
    /\ Go(t, <<[head(t) EXCEPT !.do = "occupancy", !.value = Cardinality(Seen(t) \cap in(head(t).room))]>>, txn[t])
    /\ UNCHANGED <<tables, asked>>

\* The CHECK of the room table refuses an occupancy above the capacity.
WriteOccupancy(t) ==
    LET r == head(t).room IN
    /\ At(t, {"occupancy"}) /\ Free(t)
    /\ CASE ~ Exists(r) \/ r \in txn[t].dropped -> Go(t, <<>>, txn[t])
         [] Exists(r) /\ r \notin txn[t].dropped /\ head(t).value > max_capacity[r] -> Rollback(t)
         [] OTHER -> Go(t, <<>>, [txn[t] EXCEPT !.occupancy[r] = head(t).value, !.locked = @ \cup {r}])
    /\ UNCHANGED <<tables, asked>>

Commit(t) ==
    /\ txn[t].op # "none" /\ txn[t].todo = <<>>
    /\ room_assignment' = Seen(t)
    /\ past' = {p \in past \cup (IF txn[t].op = "rollback" THEN {} ELSE txn[t].ended) : p[2] \notin txn[t].dropped}
    /\ current_occupancy' = [r \in Room |-> IF r \in txn[t].dropped THEN 0 ELSE OccupancySeen(t, r)]
    /\ max_capacity' = [r \in Room |-> IF r \in txn[t].dropped THEN -1 ELSE max_capacity[r]]
    /\ is_allotted' =
           [s \in Student |-> IF txn[t].allotted[s] = NotWritten THEN is_allotted[s] ELSE txn[t].allotted[s] > 0]
    /\ Rollback(t)
    /\ UNCHANGED asked

-----------------------------------------------------------------------------
(* Requests.                                                               *)

Ask == asked < MaxAsked /\ asked' = asked + 1
Idle == {t \in Txn : txn[t].op = "none"}

Start(t, work) ==
    /\ Ask
    /\ txn' = [txn EXCEPT ![t] = work]
    /\ UNCHANGED tables

\* assignResident looks for a current assignment before it calls the procedure.
assignResident(t, s, r) ==
    /\ room_assignment \cap of(s) = {}
    /\ Start(t, [Closed EXCEPT !.op = "assign", !.todo = Assign(s, r)])

removeResident(t, s, r) ==
    Start(t, [Closed EXCEPT !.op = "remove", !.todo = <<Stmt("remove", s, r)>>])

deleteRoom(t, r) ==
    Start(t, [Closed EXCEPT !.op = "delete", !.todo = <<Stmt("drop", {}, r)>>])

executeManualAllocation(t, s, r) ==
    Start(t, [Closed EXCEPT !.op = "manual", !.student = {s}, !.rooms = <<r>>,
                            !.todo = <<Stmt("notfull", s, r), Stmt("claim", s, r)>> \o Assign(s, r)])

rollbackAllocations(t, rooms) ==
    Start(t, [Closed EXCEPT
                 !.op = "rollback", !.rooms = rooms,
                 !.todo = Chain(2, [i \in DOMAIN rooms |-> <<Stmt("lock", {}, rooms[i]), Stmt("clear", {}, rooms[i])>>])])

\* LayoutPayloadSchema: what a layout may ask for, and one node for each bed.
ValidLayout(layout) ==
    /\ layout.capacity \in 1..6 /\ DOMAIN layout.nodes = 1..layout.capacity
    /\ layout.branchDiversity \in {"MUST_BE_UNIQUE", "ALLOW_SAME", "EXACT_MATCH"}
    /\ \A i \in DOMAIN layout.nodes :
          layout.nodes[i].state \in {"HOME_STATE", "OTHER_STATE", "ANY"}

\* In the order of their ranks, by the snapshot in their rows.
getUnassignedFirstYearStudents ==
    FoldLeft(LAMBDA pool, s : IF is_allotted[s] THEN pool ELSE Append(pool, s), <<>>, ByRank)

\* The rooms of R in the order of the list, as the keys of a Map: where each comes first.
InOrder(R, rooms) ==
    {list \in [1..Cardinality(R) -> R] :
        \A i, j \in DOMAIN list : i < j =>
            \E k \in DOMAIN rooms : rooms[k] = list[i] /\ \A l \in 1..k : rooms[l] # list[j]}

\* allocate: the students without a room are read and matched before the transaction.
allocate(t, rooms, layout) ==
    LET plan == matchConstraints(getUnassignedFirstYearStudents, rooms, layout)
        filled == {r \in ToSet(rooms) : r \in DOMAIN plan} IN
    /\ ValidLayout(layout) /\ filled # {}
    /\ \E list \in InOrder(filled, rooms) :
          Start(t, [Closed EXCEPT !.op = "bulk", !.rooms = rooms, !.layout = {layout}, !.plan = plan,
                                  !.todo = [i \in DOMAIN list |-> Stmt("empty", {}, list[i])]])

addRoom(r, c) ==
    /\ Ask
    /\ max_capacity[r] = 0
    /\ max_capacity' = [max_capacity EXCEPT ![r] = c]
    /\ UNCHANGED <<current_occupancy, room_assignment, past, is_allotted, txn>>

\* bulkUploadRooms: all rooms of a file or none.
bulkUploadRooms(R, c) ==
    /\ Ask
    /\ R # {} /\ \A r \in R : max_capacity[r] = 0
    /\ max_capacity' = [r \in Room |-> IF r \in R THEN c ELSE max_capacity[r]]
    /\ UNCHANGED <<current_occupancy, room_assignment, past, is_allotted, txn>>

\* Faulty variant of updateRoom: the table has no CHECK (used by a mutant).
updateRoomUnchecked(r, c) ==
    /\ Ask
    /\ Exists(r) /\ (\A t \in Txn : r \notin txn[t].locked)
    /\ max_capacity' = [max_capacity EXCEPT ![r] = c]
    /\ UNCHANGED <<current_occupancy, room_assignment, past, is_allotted, txn>>

\* updateRoom waits for the room's row; the CHECK refuses a capacity below the occupancy.
updateRoom(r, c) ==
    /\ Ask
    /\ Exists(r) /\ (\A t \in Txn : r \notin txn[t].locked)
    /\ current_occupancy[r] <= c /\ c # max_capacity[r]
    /\ max_capacity' = [max_capacity EXCEPT ![r] = c]
    /\ UNCHANGED <<current_occupancy, room_assignment, past, is_allotted, txn>>

Next ==
    \/ \E t \in Idle, s \in Student, r \in Room :
          assignResident(t, s, r) \/ removeResident(t, s, r) \/ executeManualAllocation(t, s, r)
    \/ \E t \in Idle, r \in Room : deleteRoom(t, r)
    \/ \E t \in Idle, rooms \in Target : rollbackAllocations(t, rooms)
    \/ \E t \in Idle, rooms \in Target, layout \in Layout : allocate(t, rooms, layout)
    \/ \E R \in SUBSET Room, c \in Capacity : bulkUploadRooms(R, c)
    \/ \E r \in Room, c \in Capacity : addRoom(r, c) \/ updateRoom(r, c)
    \/ \E t \in Txn :
          \/ LockRoom(t) \/ LockEmptyRoom(t) \/ LockForRollback(t) \/ ClaimStudent(t)
          \/ EndRows(t) \/ InsertRow(t) \/ Lookup(t) \/ WriteSnapshot(t)
          \/ Recount(t) \/ WriteOccupancy(t) \/ Commit(t) \/ Deadlock(t)

Spec == Init /\ [][Next]_vars

-----------------------------------------------------------------------------

Residents(r) == room_assignment \cap in(r)

\* Occupancies stay within the capacities, and assignments are to rooms that exist.
TypeOK ==
    /\ \A r \in Room : /\ max_capacity[r] \in {-1, 0} \cup Capacity
                       /\ current_occupancy[r] \in 0..Cardinality(Student)
                       /\ Exists(r) => current_occupancy[r] <= max_capacity[r]
    /\ \A p \in room_assignment : p[1] \in Student /\ Exists(p[2])
    /\ past \subseteq Student \X Room
    /\ is_allotted \in [Student -> BOOLEAN]

\* No assignment brings a room above its capacity, though current_occupancy may be lower
\* than the number of residents (recalculate_room_occupancy counts before it waits).
NeverOverfilled ==
    [][\A r \in Room : Cardinality(Residents(r)') > Cardinality(Residents(r))
          => Cardinality(Residents(r)') <= max_capacity'[r]]_vars

\* When a rollback commits nobody is left in its rooms, whoever was assigned to them
\* meanwhile (rollbackAllocations).
RollbackEmpties ==
    [][\A t \in Txn : txn[t].op = "rollback" /\ txn[t].todo = <<>> /\ txn'[t] = Closed
          => \A r \in ToSet(txn[t].rooms) : Residents(r)' = {}]_vars

\* A manual assignment moves nobody who has a room by the snapshot, whatever assigns or
\* removes the student at the same time (executeManualAllocation locks the student).
ManualMovesNobody ==
    [][\A t \in Txn : txn[t].op = "manual" /\ txn[t].todo = <<>> /\ txn'[t] = Closed
          => \A s \in txn[t].student : is_allotted[s] => room_assignment \cap of(s) = {}]_vars

\* The warden's allocation puts a student into one room at most, and each room gets as many
\* students as the layout has beds, who meet its nodes and its rule on branches.
LayoutHolds ==
    \A t \in Txn : \A layout \in txn[t].layout :
        /\ \A r1, r2 \in DOMAIN txn[t].plan :
              r1 # r2 => ToSet(txn[t].plan[r1]) \cap ToSet(txn[t].plan[r2]) = {}
        /\ \A r \in DOMAIN txn[t].plan :
              LET group == txn[t].plan[r]
                  branches == {branch[s] : s \in ToSet(group)} IN
              /\ Len(group) = layout.capacity /\ Cardinality(ToSet(group)) = layout.capacity
              /\ \A i \in DOMAIN group : matchesStateAndBranch(group[i], layout.nodes[i])
              /\ layout.branchDiversity = "MUST_BE_UNIQUE" => Cardinality(branches) = layout.capacity
              /\ layout.branchDiversity = "EXACT_MATCH" => Cardinality(branches) = 1

-----------------------------------------------------------------------------
(* Claims of the comments that the code does not keep: see README.md       *)

\* bulkAllocator.js: "DB triggers will auto-sync student fields and room occupancy".  When
\* no request is under way, current_occupancy is the number of the room's residents.
OccupancyInSync ==
    (\A t \in Txn : txn[t] = Closed) =>
        \A r \in Room : current_occupancy[r] = Cardinality(Residents(r))
=============================================================================
