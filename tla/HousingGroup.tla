---------------------------- MODULE HousingGroup ----------------------------
(* The lobby: src/src/roomallocation/services/group.service.js with the    *)
(* triggers of roomallocation/db/newdb.sql, the phase of the event         *)
(* (phase.service.js) and the soft lock (softLock.service.js).             *)
(*                                                                         *)
(* A handler is a transaction at READ COMMITTED: its reads see what is     *)
(* committed at that moment, the rows it has written stay locked, and its  *)
(* writes show when it commits.  A step is a statement with its triggers.  *)
(* Of transactions that wait for each other in a circle one is aborted,    *)
(* which every handler answers with a ROLLBACK.                            *)
(*                                                                         *)
(* setCurrentPhase reads the phase through a cache of 5 minutes, which a   *)
(* reader may fill late: it validates against any phase the event has had. *)
(* createGroup reads the row itself.  Of the requests the PENDING ones are *)
(* kept, and whom an ACCEPTED one joins: such a row keeps its place in a   *)
(* unique index when its student has left the group again.                 *)
EXTENDS Integers, Sequences, FiniteSets, FiniteSetsExt, SequencesExt

CONSTANTS
    Student,
    individual_rank,  \* individual_rank[s]: distinct, 1 is the best
    Shattered,        \* students with an unconsumed row in group_shatter_history
    NoStudent,
    GroupLimit,       \* 4 in the code
    BatchSize,        \* groups per batch: 50 in the code
    NumBatches,       \* bound on the batches
    Txn,              \* requests under way at the same time
    MaxGroups,        \* bound on the groups that are created
    MaxRequests,      \* bound on the PENDING rows of group_request
    NewPhases,        \* bound on the phases the administrator asks for
    MaxAsked          \* bound on the requests to the server

ASSUME LobbyAssumption ==
    /\ IsFiniteSet(Student) /\ Shattered \subseteq Student /\ NoStudent \notin Student
    /\ individual_rank \in [Student -> Nat \ {0}]
    /\ GroupLimit \in Nat \ {0} /\ BatchSize \in Nat \ {0}
    /\ NumBatches \in Nat \ {0} /\ MaxGroups \in Nat /\ MaxRequests \in Nat /\ MaxAsked \in Nat

VARIABLES
    phase,          \* allocation_event.status
    phases,         \* the values it has had
    batch_status,   \* batch_status[b]
    group_id,       \* group_id[s]: the group of student s, 0 for NULL
    housing_group,  \* the rows of housing_group
    group_request,  \* the PENDING rows of group_request
    joined,         \* group and student of the ACCEPTED ones
    unconsumed,     \* students whose row of group_shatter_history has no consumed_at
    asked,          \* requests to the server so far
    txn,            \* txn[t]: the transaction of request t
    raced,          \* history: groups with two departures or transfers at the same time
    places          \* history: places[s]: places in a batch given to late groups of s

event == <<phase, phases, batch_status>>
tables == <<group_id, housing_group, group_request, joined, unconsumed>>
vars == <<event, tables, asked, txn, raced, places>>

GroupId == 1..MaxGroups
RequestId == 1..MaxRequests
BatchId == 1..NumBatches
Phase == {"ADMIN_MODE", "LOBBY", "SOFT_LOCK", "LIVE_BATCHES", "FINAL_SWEEP"}

NoGroup == [status |-> "unused", leader |-> NoStudent, batch |-> 0]
NoRequest == [group |-> 0, student |-> NoStudent]

\* What a transaction has read and written.  led: the group the student leaves and leads;
\* heir: its next leader; cancels: requests it cancels; plan, hit: of the soft lock.
Closed == [pc |-> "closed", op |-> "none", student |-> NoStudent, group |-> 0, request |-> 0,
           batch |-> 0, late |-> FALSE, led |-> 0, heir |-> NoStudent, cancels |-> {},
           plan |-> <<>>, next |-> 1, hit |-> {}]

Init ==
    /\ phase = "LOBBY" /\ phases = {"LOBBY"}
    /\ batch_status \in {[b \in BatchId |-> "none"], [b \in BatchId |-> "PENDING"]}
    /\ group_id = [s \in Student |-> 0]
    /\ housing_group = [g \in GroupId |-> NoGroup]
    /\ group_request = [r \in RequestId |-> NoRequest]
    /\ joined = {}
    /\ unconsumed = Shattered
    /\ txn = [t \in Txn |-> Closed]
    /\ asked = 0
    /\ raced = {}
    /\ places = [s \in Student |-> 0]

members(g) == {s \in Student : group_id[s] = g}
Exists(g) == g \in GroupId /\ housing_group[g].status \notin {"unused", "deleted"}
Frozen(g) == Exists(g) /\ housing_group[g].status \in {"SOFT_LOCKED", "HARD_LOCKED", "ALLOCATED"}
Leads(s, g) == Exists(g) /\ housing_group[g].leader = s
PendingFor(s) == {r \in RequestId : group_request[r].student = s}
PendingOf(g) == {r \in RequestId : group_request[r].group = g}
Best(S) == CHOOSE s \in S : \A u \in S : individual_rank[s] <= individual_rank[u]

Step(t, pc) == txn' = [txn EXCEPT ![t].pc = pc]
Rollback(t) == txn' = [txn EXCEPT ![t] = Closed]
Begin(t, read) ==
    /\ txn[t] = Closed
    /\ txn' = [txn EXCEPT ![t] = read]

-----------------------------------------------------------------------------
(* Row locks.                                                              *)

\* The student's row is written, and the statement's triggers have run.
Moved(t) == txn[t].op \in {"create", "accept", "leave", "kick"} /\ txn[t].pc \in {"heir", "cancel", "commit"}
\* The row of the group the student led is written.
Settled(t) == txn[t].led # 0 /\ txn[t].pc \in {"cancel", "commit"}
Dissolves(t) == txn[t].led # 0 /\ txn[t].heir = NoStudent

HoldsStudents(t) ==
    {s \in Student : \/ s = txn[t].student /\ (Moved(t) \/ (txn[t].op = "leave" /\ txn[t].pc = "write"))
                     \/ Settled(t) /\ Dissolves(t) /\ group_id[s] = txn[t].led}

HoldsGroups(t) ==
    {g \in GroupId : \/ g = txn[t].group /\ txn[t].op = "accept" /\ Moved(t)
                     \/ g = txn[t].group /\ txn[t].op = "transfer" /\ txn[t].pc = "commit"
                     \/ g = txn[t].led /\ Settled(t)
                     \/ g \in txn[t].hit}

HoldsRequests(t) ==
    {r \in RequestId : \/ r = txn[t].request
                       \/ r \in txn[t].cancels
                       \/ Settled(t) /\ Dissolves(t) /\ r \in PendingOf(txn[t].led)}

\* The rows the next statement of t waits for.
WantsStudents(t) ==
    IF txn[t].pc = "write" /\ txn[t].op # "transfer" THEN {txn[t].student}
    ELSE IF txn[t].pc = "heir" /\ Dissolves(t) THEN members(txn[t].led) ELSE {}

WantsGroups(t) ==
    IF txn[t].pc = "write" /\ txn[t].op \in {"accept", "transfer"} THEN {txn[t].group}
    ELSE IF txn[t].pc = "heir" THEN {txn[t].led}
    ELSE IF txn[t].pc = "lock" THEN {txn[t].plan[txn[t].next][1]} ELSE {}

WantsRequests(t) ==
    IF txn[t].pc = "cancel" THEN PendingFor(txn[t].student)
    ELSE IF txn[t].pc = "heir" /\ Dissolves(t) THEN PendingOf(txn[t].led) ELSE {}

WaitsFor(t, u) ==
    /\ t # u
    /\ \/ WantsStudents(t) \cap HoldsStudents(u) # {}
       \/ WantsGroups(t) \cap HoldsGroups(u) # {}
       \/ WantsRequests(t) \cap HoldsRequests(u) # {}

\* t's next statement does not wait.
Runs(t) == \A u \in Txn : ~ WaitsFor(t, u)

\* PostgreSQL aborts one of the transactions that wait for each other.
Deadlock(t) ==
    /\ \E D \in SUBSET Txn :
          /\ t \in D
          /\ \A u \in D : (\E w \in D : WaitsFor(u, w)) /\ (\E w \in D : WaitsFor(w, u))
    /\ Rollback(t)
    /\ UNCHANGED <<event, tables, places>>

-----------------------------------------------------------------------------
(* Triggers of the student table.                                          *)

\* Faulty variant of check_group_capacity: off by one (used by a mutant).
CapacityPlusOne(s, g) == Cardinality(members(g) \ {s}) <= GroupLimit

\* check_group_capacity, run with the row of the group locked.
check_group_capacity(s, g) == Cardinality(members(g) \ {s}) < GroupLimit

\* Faulty variant of prevent_illegal_group_modification: the trigger is not there, since
\* leaveGroup checks the status itself (used by a mutant).
NothingForbidden(s, to) == TRUE

\* prevent_illegal_group_modification, before s moves from one group to another.
prevent_illegal_group_modification(s, to) == group_id[s] # to => ~ Frozen(group_id[s])

\* Faulty variant of handle_primary_applicant_leave: the leader is not looked at, only an
\* empty group is dissolved (used by a mutant).
LeaveAndForget(t, s, to, next) ==
    LET g == group_id[s] IN
    IF members(g) = {s} THEN txn' = [txn EXCEPT ![t].led = g, ![t].pc = "heir"] ELSE Step(t, next)

\* handle_primary_applicant_leave: the member with the best rank becomes the leader of the
\* group that s leaves, a group without members is deleted.  The write of the group's row is
\* a step of its own, for it may wait.
handle_primary_applicant_leave(t, s, to, next) ==
    LET g == group_id[s]
        rest == members(g) \ {s} IN
    IF Leads(s, g) /\ g # to
    THEN txn' = [txn EXCEPT ![t].led = g, ![t].pc = "heir",
                            ![t].heir = IF rest = {} THEN NoStudent ELSE Best(rest)]
    ELSE Step(t, next)

\* The UPDATE or DELETE of that trigger; it changes nothing if the group is gone by now.
WriteHeir(t) ==
    /\ txn[t].pc = "heir" /\ Runs(t)
    /\ txn' = [txn EXCEPT ![t].pc = IF txn[t].op = "accept" THEN "cancel" ELSE "commit",
                          ![t].led = IF Exists(@) THEN @ ELSE 0]
    /\ UNCHANGED <<event, tables, places>>

\* validate_primary_applicant is deferred: it runs when the transaction commits, for the
\* leader that the transaction has written.
validate_primary_applicant(t) ==
    /\ txn[t].led # 0 /\ ~ Dissolves(t) => group_id[txn[t].heir] = txn[t].led
    /\ txn[t].op = "transfer" => group_id[txn[t].student] = txn[t].group

\* What COMMIT does to the group the student led: a deleted one takes its requests with it
\* and leaves its members without a group.
Groups(t) ==
    IF txn[t].led = 0 THEN housing_group
    ELSE IF Dissolves(t) THEN [housing_group EXCEPT ![txn[t].led] = [NoGroup EXCEPT !.status = "deleted"]]
    ELSE [housing_group EXCEPT ![txn[t].led].leader = txn[t].heir]

Members(t, to) ==
    [s \in Student |-> IF s = txn[t].student THEN to
                       ELSE IF Dissolves(t) /\ group_id[s] = txn[t].led THEN 0
                       ELSE group_id[s]]

Requests(t) ==
    [r \in RequestId |->
        IF r = txn[t].request \/ r \in txn[t].cancels \/ (Dissolves(t) /\ r \in PendingOf(txn[t].led))
        THEN NoRequest ELSE group_request[r]]

\* The ACCEPTED rows: an acceptance adds one, and they go with a dissolved group.
Joins(t) ==
    {p \in joined \cup (IF txn[t].op = "accept" THEN {<<txn[t].group, txn[t].student>>} ELSE {}) :
        ~ (Dissolves(t) /\ p[1] = txn[t].led)}

-----------------------------------------------------------------------------
(* createGroup                                                             *)

\* The first PENDING batch from the one whose worst leader is not better than s.
LateBatch(s) ==
    LET created == {b \in BatchId : batch_status[b] # "none"}
        leaders(b) == {housing_group[g].leader : g \in {h \in GroupId : Exists(h) /\ housing_group[h].batch = b}}
        fits(b) == \/ leaders(b) = {}
                   \/ \E u \in leaders(b) : individual_rank[u] >= individual_rank[s]
        ideal == IF \E b \in created : fits(b) THEN Min({b \in created : fits(b)}) ELSE Max(created)
        open == {b \in created : created # {} /\ b >= ideal /\ batch_status[b] = "PENDING"} IN
    IF open = {} THEN 0 ELSE Min(open)

CreateCheck(t, s) ==
    /\ group_id[s] = 0
    /\ IF phase \in {"SOFT_LOCK", "LIVE_BATCHES"}
       THEN /\ s \in unconsumed
            /\ Begin(t, [Closed EXCEPT !.op = "create", !.pc = "write", !.student = s, !.late = TRUE,
                                       !.batch = LateBatch(s)])
       ELSE Begin(t, [Closed EXCEPT !.op = "create", !.pc = "write", !.student = s])
    /\ UNCHANGED <<event, tables, places>>

\* The INSERT of the group and the UPDATE of its creator.
CreateWrite(t) ==
    LET s == txn[t].student IN
    /\ txn[t].op = "create" /\ txn[t].pc = "write" /\ Runs(t)
    /\ IF prevent_illegal_group_modification(s, 0)
       THEN handle_primary_applicant_leave(t, s, 0, "commit")
       ELSE Rollback(t)
    /\ UNCHANGED <<event, tables, places>>

CreateCommit(t) ==
    LET s == txn[t].student
        free == {g \in GroupId : housing_group[g].status = "unused"} IN
    /\ txn[t].op = "create" /\ txn[t].pc = "commit"
    /\ IF validate_primary_applicant(t)
       THEN LET g == Min(free) IN
            /\ free # {}
            /\ housing_group' =
                  [Groups(t) EXCEPT ![g] = [status |-> IF txn[t].batch = 0 THEN "FORMING" ELSE "SOFT_LOCKED",
                                            leader |-> s, batch |-> txn[t].batch]]
            /\ group_id' = Members(t, g)
            /\ group_request' = Requests(t)
            /\ joined' = Joins(t)
            /\ unconsumed' = IF txn[t].late THEN unconsumed \ {s} ELSE unconsumed
            /\ places' = [places EXCEPT ![s] = IF txn[t].batch = 0 THEN @ ELSE @ + 1]
       ELSE UNCHANGED <<tables, places>>
    /\ Rollback(t)
    /\ UNCHANGED event

-----------------------------------------------------------------------------
(* sendGroupRequest: no transaction, the INSERT comes after the checks.    *)

SendCheck(t, g, s) ==
    /\ group_id[s] = 0
    /\ Exists(g) /\ housing_group[g].status = "FORMING"
    /\ PendingOf(g) \cap PendingFor(s) = {}
    /\ Begin(t, [Closed EXCEPT !.op = "send", !.pc = "insert", !.student = s, !.group = g])
    /\ UNCHANGED <<event, tables, places>>

\* The foreign key and the unique index on the group and the student, which waits for
\* an acceptance that is under way.
SendInsert(t) ==
    LET g == txn[t].group
        s == txn[t].student
        unused == {r \in RequestId : group_request[r] = NoRequest} IN
    /\ txn[t].pc = "insert"
    /\ PendingOf(g) \cap PendingFor(s) \cap UNION {HoldsRequests(u) : u \in Txn \ {t}} = {}
    /\ IF Exists(g) /\ PendingOf(g) \cap PendingFor(s) = {} /\ <<g, s>> \notin joined
       THEN /\ unused # {}
            /\ group_request' = [group_request EXCEPT ![Min(unused)] = [group |-> g, student |-> s]]
       ELSE UNCHANGED group_request
    /\ Rollback(t)
    /\ UNCHANGED <<event, group_id, housing_group, joined, unconsumed, places>>

-----------------------------------------------------------------------------
(* respondToGroupRequest                                                   *)

Reject(r) ==
    /\ group_request[r] # NoRequest
    /\ \A t \in Txn : r \notin HoldsRequests(t)
    /\ group_request' = [group_request EXCEPT ![r] = NoRequest]
    /\ UNCHANGED <<event, group_id, housing_group, joined, unconsumed, txn, places>>

\* With the request's row locked: its group takes members and the student is free.
AcceptCheck(t, r) ==
    LET g == group_request[r].group
        s == group_request[r].student IN
    /\ group_request[r] # NoRequest
    /\ \A u \in Txn : r \notin HoldsRequests(u)
    /\ housing_group[g].status \in {"FORMING", "SOFT_LOCKED"}
    /\ housing_group[g].status = "SOFT_LOCKED" => Cardinality(members(g)) < GroupLimit
    /\ group_id[s] = 0
    /\ Begin(t, [Closed EXCEPT !.op = "accept", !.pc = "write", !.student = s, !.group = g, !.request = r])
    /\ UNCHANGED <<event, tables, places>>

\* The UPDATE of the student: the triggers, then the foreign key.
AcceptWrite(t) ==
    LET s == txn[t].student
        g == txn[t].group IN
    /\ txn[t].op = "accept" /\ txn[t].pc = "write" /\ Runs(t)
    /\ IF check_group_capacity(s, g) /\ prevent_illegal_group_modification(s, g) /\ Exists(g)
       THEN handle_primary_applicant_leave(t, s, g, "cancel")
       ELSE Rollback(t)
    /\ UNCHANGED <<event, tables, places>>

AcceptCancel(t) ==
    /\ txn[t].pc = "cancel" /\ Runs(t)
    /\ txn' = [txn EXCEPT ![t].pc = "commit", ![t].cancels = PendingFor(txn[t].student) \ {txn[t].request}]
    /\ UNCHANGED <<event, tables, places>>

AcceptCommit(t) ==
    /\ txn[t].op = "accept" /\ txn[t].pc = "commit"
    /\ IF validate_primary_applicant(t)
       THEN /\ housing_group' = Groups(t)
            /\ group_id' = Members(t, txn[t].group)
            /\ group_request' = Requests(t)
            /\ joined' = Joins(t)
       ELSE UNCHANGED <<housing_group, group_id, group_request, joined>>
    /\ Rollback(t)
    /\ UNCHANGED <<event, unconsumed, places>>

-----------------------------------------------------------------------------
(* leaveGroup, kickMember, transferLeadership                              *)

LeaveCheck(t, s) ==
    LET g == group_id[s] IN
    /\ \A u \in Txn : s \notin HoldsStudents(u)
    /\ g # 0 /\ ~ Frozen(g)
    /\ Begin(t, [Closed EXCEPT !.op = "leave", !.pc = "write", !.student = s, !.group = g])
    /\ UNCHANGED <<event, tables, places>>

KickCheck(t, leader, s, g) ==
    /\ Leads(leader, g) /\ leader # s /\ ~ Frozen(g)
    /\ Begin(t, [Closed EXCEPT !.op = "kick", !.pc = "write", !.student = s, !.group = g])
    /\ UNCHANGED <<event, tables, places>>

\* The UPDATE of the member who leaves; a kick looks at the group again.
DepartWrite(t) ==
    LET s == txn[t].student IN
    /\ txn[t].op \in {"leave", "kick"} /\ txn[t].pc = "write" /\ Runs(t)
    /\ IF group_id[s] = txn[t].group /\ prevent_illegal_group_modification(s, 0)
       THEN handle_primary_applicant_leave(t, s, 0, "commit")
       ELSE Rollback(t)
    /\ UNCHANGED <<event, tables, places>>

DepartCommit(t) ==
    /\ txn[t].op \in {"leave", "kick"} /\ txn[t].pc = "commit"
    /\ IF validate_primary_applicant(t)
       THEN /\ housing_group' = Groups(t)
            /\ group_id' = Members(t, 0)
            /\ group_request' = Requests(t)
            /\ joined' = Joins(t)
       ELSE UNCHANGED <<housing_group, group_id, group_request, joined>>
    /\ Rollback(t)
    /\ UNCHANGED <<event, unconsumed, places>>

TransferCheck(t, g, s) ==
    /\ Exists(g) /\ ~ Frozen(g) /\ s \in members(g)
    /\ Begin(t, [Closed EXCEPT !.op = "transfer", !.pc = "write", !.student = s, !.group = g])
    /\ UNCHANGED <<event, tables, places>>

TransferWrite(t) ==
    /\ txn[t].op = "transfer" /\ txn[t].pc = "write" /\ Runs(t)
    /\ IF Exists(txn[t].group) THEN Step(t, "commit") ELSE Rollback(t)
    /\ UNCHANGED <<event, tables, places>>

TransferCommit(t) ==
    /\ txn[t].op = "transfer" /\ txn[t].pc = "commit"
    /\ housing_group' = IF validate_primary_applicant(t)
                        THEN [housing_group EXCEPT ![txn[t].group].leader = txn[t].student]
                        ELSE housing_group
    /\ Rollback(t)
    /\ UNCHANGED <<event, group_id, group_request, joined, unconsumed, places>>

-----------------------------------------------------------------------------
(* setCurrentPhase and assignGroupsToBatches                               *)

VALID_TRANSITIONS ==
    [ADMIN_MODE   |-> {"LOBBY"},
     LOBBY        |-> {"SOFT_LOCK", "ADMIN_MODE"},
     SOFT_LOCK    |-> {"LIVE_BATCHES", "LOBBY", "ADMIN_MODE"},
     LIVE_BATCHES |-> {"FINAL_SWEEP", "ADMIN_MODE"},
     FINAL_SWEEP  |-> {"ADMIN_MODE"}]

\* Each FORMING group in the order of its leader's rank, with its batch.
PlanOf(groups, batches) ==
    LET sorted == SetToSortSeq(groups, LAMBDA g, h :
                      individual_rank[housing_group[g].leader] < individual_rank[housing_group[h].leader])
        index(i) == (i - 1) \div BatchSize + 1 IN
    [i \in 1..Min({Len(sorted), BatchSize * Len(batches)}) |-> <<sorted[i], batches[index(i)]>>]

\* The batches the soft lock uses: the PENDING ones, or new ones if there is none.
BatchesFor(n) ==
    LET pending == {b \in BatchId : batch_status[b] = "PENDING"}
        needed == (n + BatchSize - 1) \div BatchSize IN
    IF pending # {} THEN SetToSortSeq(pending, <) ELSE [i \in 1..Min({needed, NumBatches}) |-> i]

setCurrentPhase(t, new) ==
    /\ new \in NewPhases
    /\ \E old \in phases :
          /\ new \in VALID_TRANSITIONS[old]
          /\ IF old = "LOBBY" /\ new = "SOFT_LOCK"
             THEN (\A u \in Txn : txn[u].op # "assign") /\ Begin(t, [Closed EXCEPT !.op = "assign", !.pc = "assign"])
             ELSE UNCHANGED txn
    /\ phase' = new /\ phases' = phases \cup {new}
    /\ UNCHANGED <<batch_status, tables, places>>

\* Reads the FORMING groups; a batch number that is taken makes it fail.
AssignRead(t) ==
    LET forming == {g \in GroupId : housing_group[g].status = "FORMING"}
        batches == BatchesFor(Cardinality(forming)) IN
    /\ txn[t].pc = "assign"
    /\ IF forming = {} \/ (\E i \in DOMAIN batches : batch_status[batches[i]] = "ACTIVE")
       THEN Rollback(t)
       ELSE txn' = [txn EXCEPT ![t].pc = "lock", ![t].plan = PlanOf(forming, batches)]
    /\ UNCHANGED <<event, tables, places>>

\* UPDATE ... WHERE id = $2 AND status = 'FORMING'
AssignGroup(t) ==
    LET g == txn[t].plan[txn[t].next][1] IN
    /\ txn[t].pc = "lock" /\ Runs(t)
    /\ txn' = [txn EXCEPT ![t].next = @ + 1,
                          ![t].pc = IF txn[t].next = Len(txn[t].plan) THEN "commit" ELSE "lock",
                          ![t].hit = IF housing_group[g].status = "FORMING" THEN @ \cup {g} ELSE @]
    /\ UNCHANGED <<event, tables, places>>

AssignCommit(t) ==
    LET batchOf(g) == (CHOOSE p \in ToSet(txn[t].plan) : p[1] = g)[2]
        used == {p[2] : p \in ToSet(txn[t].plan)} IN
    /\ txn[t].op = "assign" /\ txn[t].pc = "commit"
    /\ housing_group' = [g \in GroupId |->
                            IF g \in txn[t].hit
                            THEN [housing_group[g] EXCEPT !.status = "SOFT_LOCKED", !.batch = batchOf(g)]
                            ELSE housing_group[g]]
    /\ batch_status' = [b \in BatchId |->
                           IF b \in used /\ batch_status[b] = "none" THEN "PENDING" ELSE batch_status[b]]
    /\ Rollback(t)
    /\ UNCHANGED <<phase, phases, group_id, group_request, joined, unconsumed, places>>

\* startBatch of batchScheduler.js, in the order of the batches: the hard lock waits for the
\* rows of the groups.
StartBatch(b) ==
    LET locked == {g \in GroupId : housing_group[g].status = "SOFT_LOCKED" /\ housing_group[g].batch = b} IN
    /\ batch_status[b] = "PENDING" /\ (\A c \in 1..(b - 1) : batch_status[c] # "PENDING")
    /\ \A t \in Txn : HoldsGroups(t) \cap locked = {}
    /\ batch_status' = [batch_status EXCEPT ![b] = "ACTIVE"]
    /\ housing_group' = [g \in GroupId |->
                            IF g \in locked THEN [housing_group[g] EXCEPT !.status = "HARD_LOCKED"]
                            ELSE housing_group[g]]
    /\ phase' = "LIVE_BATCHES" /\ phases' = phases \cup {"LIVE_BATCHES"}
    /\ UNCHANGED <<group_id, group_request, joined, unconsumed, txn, places>>

-----------------------------------------------------------------------------

\* Groups whose members or leader t is changing, from its checks on.
Touches(t) ==
    {g \in GroupId : \/ txn[t].op \in {"leave", "kick", "transfer"} /\ g = txn[t].group
                     \/ txn[t].op \in {"create", "accept"} /\ Moved(t) /\ g = group_id[txn[t].student]
                     \/ g \in txn[t].hit}

Record ==
    /\ asked' = IF \E t \in Txn : txn[t] = Closed /\ txn'[t] # Closed THEN asked + 1 ELSE asked
    /\ asked' <= MaxAsked
    /\ raced' = {g \in GroupId : \/ g \in raced /\ Exists(g)
                                 \/ \E t, u \in Txn : t # u /\ g \in (Touches(t) \cap Touches(u))'}

Next ==
    \/ \E t \in Txn, s \in Student : CreateCheck(t, s) /\ Record
    \/ \E t \in Txn : CreateWrite(t) /\ Record
    \/ \E t \in Txn : CreateCommit(t) /\ Record
    \/ \E t \in Txn, g \in GroupId, s \in Student : SendCheck(t, g, s) /\ Record
    \/ \E t \in Txn : SendInsert(t) /\ Record
    \/ \E r \in RequestId : Reject(r) /\ Record
    \/ \E t \in Txn, r \in RequestId : AcceptCheck(t, r) /\ Record
    \/ \E t \in Txn : AcceptWrite(t) /\ Record
    \/ \E t \in Txn : AcceptCancel(t) /\ Record
    \/ \E t \in Txn : AcceptCommit(t) /\ Record
    \/ \E t \in Txn, s \in Student : LeaveCheck(t, s) /\ Record
    \/ \E t \in Txn, g \in GroupId, s, u \in Student : KickCheck(t, u, s, g) /\ Record
    \/ \E t \in Txn : DepartWrite(t) /\ Record
    \/ \E t \in Txn : DepartCommit(t) /\ Record
    \/ \E t \in Txn, g \in GroupId, s \in Student : TransferCheck(t, g, s) /\ Record
    \/ \E t \in Txn : TransferWrite(t) /\ Record
    \/ \E t \in Txn : TransferCommit(t) /\ Record
    \/ \E t \in Txn : WriteHeir(t) /\ Record
    \/ \E t \in Txn : Deadlock(t) /\ Record
    \/ \E t \in Txn, new \in Phase : setCurrentPhase(t, new) /\ Record
    \/ \E t \in Txn : AssignRead(t) /\ Record
    \/ \E t \in Txn : AssignGroup(t) /\ Record
    \/ \E t \in Txn : AssignCommit(t) /\ Record
    \/ \E b \in BatchId : StartBatch(b) /\ Record

Spec == Init /\ [][Next]_vars

-----------------------------------------------------------------------------

\* Groups, students and requests refer to each other by ids that exist.
TypeOK ==
    /\ phase \in phases /\ phases \subseteq Phase
    /\ batch_status \in [BatchId -> {"none", "PENDING", "ACTIVE"}]
    /\ \A s \in Student : group_id[s] = 0 \/ Exists(group_id[s])
    /\ \A g \in GroupId : Exists(g) => housing_group[g].leader \in Student
    /\ \A r \in RequestId : group_request[r] # NoRequest =>
          Exists(group_request[r].group) /\ group_request[r].student \in Student
    /\ \A p \in joined : Exists(p[1]) /\ p[2] \in Student

\* However acceptances interleave, a group never has more members than the limit
\* (check_group_capacity counts with the row of the group locked).
AtMostFour == \A g \in GroupId : Cardinality(members(g)) <= GroupLimit

\* A group's leader is one of its members, through departures, kicks, transfers and the
\* soft lock, unless two transactions changed its members or leader at the same time.
LeaderIsMember ==
    \A g \in GroupId \ raced : Exists(g) => housing_group[g].leader \in members(g)

\* A row of group_shatter_history lets its student into a batch at most once, even if
\* the student asks twice at the same time.
LatePlaceOnce == \A s \in Student : places[s] <= 1

\* Nobody leaves a locked group, whatever its status was when the request was checked, but
\* for a transaction that overlaps the lock.
LockedMembersStay ==
    [][\A s \in Student : LET g == group_id[s] IN
          Frozen(g) /\ g \notin raced => group_id'[s] = g]_vars

\* newdb.sql, validate_primary_applicant: the primary applicant belongs to the group.
LeaderAlwaysMember ==
    \A g \in GroupId : Exists(g) => housing_group[g].leader \in members(g)
=============================================================================
