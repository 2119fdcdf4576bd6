-------------------------- MODULE AllocationEngine --------------------------
(***************************************************************************)
(* The room allocation engine of src/roomallocation: groups submit room    *)
(* preferences for a round of a batch, executors turn the submissions of a *)
(* round into bookings (engine/roundallocator.js), and when a batch ends   *)
(* its evaluation rolls the groups that failed over to the next batch      *)
(* (engine/rolloverEvaluator.js) and dissolves those that never submitted  *)
(* (engine/ghostPenalty.js).  Students joining late and the hostel office  *)
(* act at the same time.                                                   *)
(*                                                                         *)
(* Granularity: a database transaction is one action when the rows it      *)
(* decides on are locked before they are read; a read made outside of the  *)
(* transaction that acts on it is an action of its own.  The lock of a     *)
(* housing_group row is held across actions only by a submission           *)
(* (submitting), everybody else takes and releases it within an action.    *)
(* The model starts after assignGroupsToBatches has soft-locked every      *)
(* group into a batch and given it a rank.                                 *)
(***************************************************************************)
EXTENDS Integers, FiniteSets, Sequences

CONSTANTS
    Student, Group, Room,
    NoRoom, NoGroup, NoSubmission, NoBatch,
    NumBatches,      \* batches of the event
    NumRounds,       \* rounds of a batch
    Executor,        \* concurrent runs of executeBatchRound
    Capacity,        \* max_capacity of a room
    Rank,            \* group_rank, given at soft lock
    HomeBatch,       \* batch a group is first assigned to
    InitialGroup,    \* group a student belongs to at soft lock
    InitialRoom,     \* room a student lives in (ACTIVE booking)
    Invitations,     \* group_request rows still PENDING at soft lock
    MaxOfficeCalls   \* bound on the calls of the hostel office

Batch == 1..NumBatches
Round == 1..NumRounds
MaxGroupSize == 4
MaxPreferences == 10

Submission == Group \X Batch \X Round
PreferenceList ==
    {p \in UNION {[1..n -> Room] : n \in 1..Cardinality(Room)} :
        \A i, j \in DOMAIN p : p[i] = p[j] => i = j}

ASSUME EngineAssumption ==
    /\ IsFiniteSet(Student) /\ IsFiniteSet(Room)
    /\ NoRoom \notin Room /\ NoGroup \notin Group
    /\ NumBatches \in Nat /\ NumRounds \in Nat /\ NoBatch \notin Batch
    /\ NoSubmission \notin Batch \X Round
    /\ Capacity \in [Room -> 1..6]
    /\ Rank \in [Group -> Nat]
    /\ \A g, h \in Group : Rank[g] = Rank[h] => g = h
    /\ HomeBatch \in [Group -> Batch]
    /\ InitialGroup \in [Student -> Group \cup {NoGroup}]
    /\ InitialRoom \in [Student -> Room \cup {NoRoom}]
    /\ Invitations \subseteq Student \X Group
    /\ MaxOfficeCalls \in Nat

VARIABLES
    batch_status,       \* batch.status
    hardLockDue,        \* batches activated whose groups are not hard-locked yet
    status,             \* housing_group.status, "DELETED" once the row is gone
    batch_id,           \* housing_group.batch_id
    rollover_count,     \* housing_group.rollover_count
    group_id,           \* student.group_id
    invitations,        \* PENDING rows of group_request
    joining,            \* accepted invitations whose student row is not updated yet
    upcoming, active,   \* room_assignment: a student's UPCOMING and ACTIVE row
    allocation_result,  \* allocation_submission.allocation_result, "NONE" without a row
    preferences,        \* submission_preference, in preference_order
    submitting,         \* open submitPreferences transaction, holding the group's lock
    executor,           \* state of each run of executeBatchRound
    evaluation,         \* state of each batch's runPostBatchEvaluation
    assigning,          \* assignResident calls that have found their student roomless
    officeCalls         \* calls of the office so far

batchVars == <<batch_status, hardLockDue>>
groupVars == <<status, batch_id, rollover_count>>
memberVars == <<group_id, invitations, joining>>
bedVars == <<upcoming, active>>
submissionVars == <<allocation_result, preferences, submitting>>
officeVars == <<assigning, officeCalls>>
vars == <<batchVars, groupVars, memberVars, bedVars, submissionVars,
          executor, evaluation, officeVars>>

-----------------------------------------------------------------------------
GroupStatus == {"FORMING", "SOFT_LOCKED", "HARD_LOCKED", "ALLOCATED",
                "SHATTERED", "PENALIZED", "DELETED"}
Result == {"NONE", "PENDING", "FAILED", "ALLOCATED"}

Idle == [pc |-> "idle", batch |-> NoBatch, round |-> 0, todo |-> {}]

Members(g) == {s \in Student : group_id[s] = g}

\* Faulty variant: the beds of the students still living in the room are not counted.
OccupancyUpcomingOnly(r) == Cardinality({s \in Student : upcoming[s] = r})

\* recalculate_room_occupancy counts the ACTIVE and the UPCOMING rows of a room.
Occupancy(r) ==
    Cardinality({s \in Student : upcoming[s] = r}) +
    Cardinality({s \in Student : active[s] = r})

\* Faulty variant: a room that would be full to the last bed is refused.
canFitWithABedToSpare(r, size) == Occupancy(r) + size < Capacity[r]

canFitGroupStrict(r, size) == Occupancy(r) + size <= Capacity[r]

\* The statuses _processSubmission refuses; a dissolved group has no row.
Ineligible(g) ==
    \/ status[g] \in {"ALLOCATED", "SHATTERED", "PENALIZED", "DELETED"}
    \/ Members(g) = {}

\* The group row is not locked by an open submission.
Unlocked(g) == submitting[g] = NoSubmission

Init ==
    /\ batch_status = [b \in Batch |-> "PENDING"]
    /\ hardLockDue = {}
    /\ status = [g \in Group |-> "SOFT_LOCKED"]
    /\ batch_id = HomeBatch
    /\ rollover_count = [g \in Group |-> 0]
    /\ group_id = InitialGroup
    /\ invitations = Invitations
    /\ joining = {}
    /\ upcoming = [s \in Student |-> NoRoom]
    /\ active = InitialRoom
    /\ \A r \in Room : Occupancy(r) <= Capacity[r]
    /\ allocation_result = [x \in Submission |-> "NONE"]
    /\ preferences = [x \in Submission |-> <<>>]
    /\ submitting = [g \in Group |-> NoSubmission]
    /\ executor = [e \in Executor |-> Idle]
    /\ evaluation = [b \in Batch |-> [pc |-> "idle", next |-> NoBatch, todo |-> {}]]
    /\ assigning = {}
    /\ officeCalls = 0

-----------------------------------------------------------------------------
(* Batch start: the status is set first, the hard lock is a later statement *)

StartBatch(b) ==
    /\ batch_status[b] = "PENDING"
    /\ batch_status' = [batch_status EXCEPT ![b] = "ACTIVE"]
    /\ hardLockDue' = hardLockDue \cup {b}
    /\ UNCHANGED <<groupVars, memberVars, bedVars, submissionVars,
                   executor, evaluation, officeVars>>

HardLockGroups(b) ==
    LET locked == {g \in Group : batch_id[g] = b /\ status[g] = "SOFT_LOCKED"} IN
    /\ b \in hardLockDue
    /\ \A g \in locked : Unlocked(g)
    /\ hardLockDue' = hardLockDue \ {b}
    /\ status' = [g \in Group |-> IF g \in locked THEN "HARD_LOCKED" ELSE status[g]]
    /\ UNCHANGED <<batch_status, batch_id, rollover_count, memberVars, bedVars,
                   submissionVars, executor, evaluation, officeVars>>

\* The statement fails or the process dies before it: recoverOnBoot resumes the
\* batch without locking its groups.
HardLockLost(b) ==
    /\ b \in hardLockDue
    /\ hardLockDue' = hardLockDue \ {b}
    /\ UNCHANGED <<batch_status, groupVars, memberVars, bedVars, submissionVars,
                   executor, evaluation, officeVars>>

-----------------------------------------------------------------------------
(* submitPreferences: lock and validate, then insert and commit            *)

BeginSubmit(g, b, k) ==
    /\ Unlocked(g)
    /\ status[g] \in {"SOFT_LOCKED", "HARD_LOCKED"}
    /\ Members(g) # {}
    /\ batch_status[b] = "ACTIVE"
    /\ submitting' = [submitting EXCEPT ![g] = <<b, k>>]
    /\ UNCHANGED <<batchVars, groupVars, memberVars, bedVars, allocation_result,
                   preferences, executor, evaluation, officeVars>>

\* ON CONFLICT DO NOTHING: the first submission of a group for a round wins.
CommitSubmit(g, p) ==
    /\ ~ Unlocked(g)
    /\ LET x == <<g, submitting[g][1], submitting[g][2]>>
           available == Cardinality({r \in Room : Occupancy(r) < Capacity[r]}) IN
         /\ allocation_result[x] = "NONE"
         /\ Len(p) <= available /\ Len(p) <= MaxPreferences
         /\ available >= MaxPreferences => Len(p) = MaxPreferences
         /\ allocation_result' = [allocation_result EXCEPT ![x] = "PENDING"]
         /\ preferences' = [preferences EXCEPT ![x] = p]
    /\ submitting' = [submitting EXCEPT ![g] = NoSubmission]
    /\ UNCHANGED <<batchVars, groupVars, memberVars, bedVars, executor, evaluation,
                   officeVars>>

\* Already submitted, an invalid list, or a failed statement.
AbortSubmit(g) ==
    /\ ~ Unlocked(g)
    /\ submitting' = [submitting EXCEPT ![g] = NoSubmission]
    /\ UNCHANGED <<batchVars, groupVars, memberVars, bedVars, allocation_result,
                   preferences, executor, evaluation, officeVars>>

-----------------------------------------------------------------------------
(* executeBatchRound and processRound                                      *)

\* The submission at the head of the sorted list.
Current(e) ==
    LET todo == executor[e].todo IN
    CHOOSE g \in todo : \A h \in todo : Rank[g] <= Rank[h]

CurrentSubmission(e) == <<Current(e), executor[e].batch, executor[e].round>>

\* Faulty variants: the submission stays on the list; the end of the list is missed.
AdvanceInPlace(e) == executor' = [executor EXCEPT ![e].pc = "check"]

AdvancePastTheEnd(e) ==
    executor' = [executor EXCEPT ![e].pc = "check", ![e].todo = @ \ {Current(e)}]

\* The loop goes on to the next submission, or the round is complete.
Advance(e) ==
    LET rest == executor[e].todo \ {Current(e)} IN
    executor' = [executor EXCEPT ![e] =
                    IF rest = {} THEN Idle
                    ELSE [pc |-> "check", batch |-> @.batch, round |-> @.round, todo |-> rest]]

FetchRound(e, b, k) ==
    LET pending == {g \in Group : allocation_result[<<g, b, k>>] = "PENDING"} IN
    /\ executor[e].pc = "idle"
    /\ pending # {}
    /\ executor' = [executor EXCEPT ![e] =
                       [pc |-> "check", batch |-> b, round |-> k, todo |-> pending]]
    /\ UNCHANGED <<batchVars, groupVars, memberVars, bedVars, submissionVars,
                   evaluation, officeVars>>

\* The idempotency guard: is_processed is read outside of the transaction.
SkipProcessed(e) ==
    /\ executor[e].pc = "check"
    /\ allocation_result[CurrentSubmission(e)] \in {"FAILED", "ALLOCATED"}
    /\ Advance(e)
    /\ UNCHANGED <<batchVars, groupVars, memberVars, bedVars, submissionVars,
                   evaluation, officeVars>>

PassGuard(e) ==
    /\ executor[e].pc = "check"
    /\ allocation_result[CurrentSubmission(e)] \notin {"FAILED", "ALLOCATED"}
    /\ executor' = [executor EXCEPT ![e].pc = "allocate"]
    /\ UNCHANGED <<batchVars, groupVars, memberVars, bedVars, submissionVars,
                   evaluation, officeVars>>

\* That read is outside of the try block: when it fails the whole round is rejected.
GuardReadFails(e) ==
    /\ executor[e].pc = "check"
    /\ executor' = [executor EXCEPT ![e] = Idle]
    /\ UNCHANGED <<batchVars, groupVars, memberVars, bedVars, submissionVars,
                   evaluation, officeVars>>

-----------------------------------------------------------------------------
(* The transaction of _processSubmission: the group, its members and all   *)
(* the preferred rooms are locked before anything is decided.              *)

\* Positions of the preference list x whose room has beds for the whole group.
Fitting(x) ==
    {i \in DOMAIN preferences[x] :
        canFitGroupStrict(preferences[x][i], Cardinality(Members(x[1])))}

selectPreferredRoom(x) ==
    preferences[x][CHOOSE i \in Fitting(x) : \A j \in Fitting(x) : i <= j]

\* The group cannot be allocated, or a member already holds an UPCOMING row and the
\* unique index rejects the INSERT: an error, and everything is rolled back.
RollBack(e) ==
    LET g == Current(e)
        x == CurrentSubmission(e) IN
    /\ executor[e].pc = "allocate"
    /\ Unlocked(g)
    /\ \/ Ineligible(g)
       \/ Fitting(x) # {} /\ \E s \in Members(g) : upcoming[s] # NoRoom
    /\ executor' = [executor EXCEPT ![e].pc = "mark"]
    /\ UNCHANGED <<batchVars, groupVars, memberVars, bedVars, submissionVars,
                   evaluation, officeVars>>

\* A statement fails: deadlocks until the retries of withTransaction are used up,
\* or a lost connection.
TransactionFails(e) ==
    /\ executor[e].pc = "allocate"
    /\ executor' = [executor EXCEPT ![e].pc = "mark"]
    /\ UNCHANGED <<batchVars, groupVars, memberVars, bedVars, submissionVars,
                   evaluation, officeVars>>

\* No preferred room fits.  This UPDATE does not look at is_processed.
TurnAway(e) ==
    LET g == Current(e)
        x == CurrentSubmission(e) IN
    /\ executor[e].pc = "allocate"
    /\ Unlocked(g)
    /\ ~ Ineligible(g)
    /\ Fitting(x) = {}
    /\ allocation_result' = [allocation_result EXCEPT ![x] = "FAILED"]
    /\ Advance(e)
    /\ UNCHANGED <<batchVars, groupVars, memberVars, bedVars, preferences, submitting,
                   evaluation, officeVars>>

\* Faulty variant: one member of the group is booked, the others are forgotten.
AllocateOneMember(e) ==
    LET g == Current(e)
        x == CurrentSubmission(e) IN
    /\ executor[e].pc = "allocate"
    /\ Unlocked(g)
    /\ ~ Ineligible(g)
    /\ Fitting(x) # {}
    /\ \A s \in Members(g) : upcoming[s] = NoRoom
    /\ \E s \in Members(g) : upcoming' = [upcoming EXCEPT ![s] = selectPreferredRoom(x)]
    /\ status' = [status EXCEPT ![g] = "ALLOCATED"]
    /\ allocation_result' = [allocation_result EXCEPT ![x] = "ALLOCATED"]
    /\ Advance(e)
    /\ UNCHANGED <<batchVars, batch_id, rollover_count, memberVars, active,
                   preferences, submitting, evaluation, officeVars>>

Allocate(e) ==
    LET g == Current(e)
        x == CurrentSubmission(e) IN
    /\ executor[e].pc = "allocate"
    /\ Unlocked(g)
    /\ ~ Ineligible(g)
    /\ Fitting(x) # {}
    /\ \A s \in Members(g) : upcoming[s] = NoRoom
    /\ upcoming' = [s \in Student |->
                       IF s \in Members(g) THEN selectPreferredRoom(x) ELSE upcoming[s]]
    /\ status' = [status EXCEPT ![g] = "ALLOCATED"]
    /\ allocation_result' = [allocation_result EXCEPT ![x] = "ALLOCATED"]
    /\ Advance(e)
    /\ UNCHANGED <<batchVars, batch_id, rollover_count, memberVars, active,
                   preferences, submitting, evaluation, officeVars>>

\* Faulty variant: the marking does not look at is_processed.
MarkFailedBlindly(e) ==
    /\ executor[e].pc = "mark"
    /\ allocation_result' = [allocation_result EXCEPT ![CurrentSubmission(e)] = "FAILED"]
    /\ Advance(e)
    /\ UNCHANGED <<batchVars, groupVars, memberVars, bedVars, preferences, submitting,
                   evaluation, officeVars>>

\* _markSubmission writes only over a row that is not processed yet.
MarkFailed(e) ==
    LET x == CurrentSubmission(e) IN
    /\ executor[e].pc = "mark"
    /\ allocation_result' = [allocation_result EXCEPT
                                ![x] = IF @ = "PENDING" THEN "FAILED" ELSE @]
    /\ Advance(e)
    /\ UNCHANGED <<batchVars, groupVars, memberVars, bedVars, preferences, submitting,
                   evaluation, officeVars>>

\* The marking itself fails; the error is swallowed and the round goes on.
MarkingFails(e) ==
    /\ executor[e].pc = "mark"
    /\ Advance(e)
    /\ UNCHANGED <<batchVars, groupVars, memberVars, bedVars, submissionVars,
                   evaluation, officeVars>>

-----------------------------------------------------------------------------
(* Batch end and runPostBatchEvaluation                                    *)

EndBatch(b) ==
    /\ batch_status[b] = "ACTIVE"
    /\ b \notin hardLockDue
    /\ batch_status' = [batch_status EXCEPT ![b] = "COMPLETED"]
    /\ evaluation' = [evaluation EXCEPT ![b].pc = "next"]
    /\ UNCHANGED <<hardLockDue, groupVars, memberVars, bedVars, submissionVars,
                   executor, officeVars>>

LaterBatches(b) == {c \in Batch : c > b /\ batch_status[c] = "PENDING"}

\* Faulty variant: the last batch, which has no next one, is not provided for.
FindNextBatchOrWait(b) ==
    /\ evaluation[b].pc = "next"
    /\ \E c \in LaterBatches(b) :
          evaluation' = [evaluation EXCEPT ![b] = [pc |-> "failed", todo |-> {}, next |-> c]]
    /\ UNCHANGED <<batchVars, groupVars, memberVars, bedVars, submissionVars,
                   executor, officeVars>>

FindNextBatch(b) ==
    LET later == LaterBatches(b) IN
    /\ evaluation[b].pc = "next"
    /\ evaluation' = [evaluation EXCEPT ![b] =
          [pc |-> "failed", todo |-> {},
           next |-> IF later = {} THEN NoBatch
                    ELSE CHOOSE c \in later : \A d \in later : c <= d]]
    /\ UNCHANGED <<batchVars, groupVars, memberVars, bedVars, submissionVars,
                   executor, officeVars>>

ListFailed(b) ==
    /\ evaluation[b].pc = "failed"
    /\ evaluation' = [evaluation EXCEPT ![b] =
          [pc |-> "rollover", next |-> @.next,
           todo |-> {g \in Group :
                /\ status[g] \notin {"ALLOCATED", "SHATTERED", "PENALIZED", "DELETED"}
                /\ \E k \in Round : allocation_result[<<g, b, k>>] = "FAILED"}]]
    /\ UNCHANGED <<batchVars, groupVars, memberVars, bedVars, submissionVars,
                   executor, officeVars>>

\* The status of the listed group is not looked at again.  Its batch is, in a statement
\* of its own, but only rollovers write it.
RolloverGroup(b, g) ==
    LET next == evaluation[b].next IN
    /\ evaluation[b].pc = "rollover"
    /\ g \in evaluation[b].todo
    /\ evaluation' = [evaluation EXCEPT ![b].todo = @ \ {g}]
    /\ IF next # NoBatch /\ status[g] # "DELETED" /\ batch_id[g] # next
       THEN /\ Unlocked(g)
            /\ batch_id' = [batch_id EXCEPT ![g] = next]
            /\ rollover_count' = [rollover_count EXCEPT ![g] = @ + 1]
       ELSE UNCHANGED <<batch_id, rollover_count>>
    /\ UNCHANGED <<batchVars, status, memberVars, bedVars, submissionVars,
                   executor, officeVars>>

\* An error ends the evaluator; evaluateRollovers swallows it.
RolloverAborts(b) ==
    /\ evaluation[b].pc = "rollover"
    /\ evaluation[b].todo # {}
    /\ evaluation' = [evaluation EXCEPT ![b].todo = {}]
    /\ UNCHANGED <<batchVars, groupVars, memberVars, bedVars, submissionVars,
                   executor, officeVars>>

ListGhosts(b) ==
    /\ evaluation[b].pc = "rollover"
    /\ evaluation[b].todo = {}
    /\ evaluation' = [evaluation EXCEPT ![b] =
          [pc |-> "penalize", next |-> @.next,
           todo |-> {g \in Group :
                /\ batch_id[g] = b
                /\ status[g] \in {"SOFT_LOCKED", "HARD_LOCKED", "FORMING"}
                /\ \A k \in Round : allocation_result[<<g, b, k>>] = "NONE"}]]
    /\ UNCHANGED <<batchVars, groupVars, memberVars, bedVars, submissionVars,
                   executor, officeVars>>

\* Faulty variant: what was true when the ghosts were listed is taken to be true still.
GhostWhenListed(g, b) == status[g] # "DELETED"

\* The checks of _penalizeGroup under the group's lock.
StillGhost(g, b) ==
    /\ status[g] \notin {"ALLOCATED", "PENALIZED", "DELETED"}
    /\ \A k \in Round : allocation_result[<<g, b, k>>] = "NONE"

\* Unlinking the members, leader included, makes handle_primary_applicant_leave
\* delete the group row, and with it its submissions and invitations.
DissolveGroup(g) ==
    /\ status' = [status EXCEPT ![g] = IF Members(g) = {} THEN "PENALIZED" ELSE "DELETED"]
    /\ group_id' = [s \in Student |-> IF s \in Members(g) THEN NoGroup ELSE group_id[s]]
    /\ invitations' = {q \in invitations : Members(g) = {} \/ q[2] # g}
    /\ allocation_result' = [x \in Submission |->
          IF x[1] = g /\ Members(g) # {} THEN "NONE" ELSE allocation_result[x]]
    /\ preferences' = [x \in Submission |->
          IF x[1] = g /\ Members(g) # {} THEN <<>> ELSE preferences[x]]

\* Faulty variant: the group's row is read without its lock.
PenalizeWithoutLock(b, g) ==
    /\ evaluation[b].pc = "penalize"
    /\ g \in evaluation[b].todo
    /\ evaluation' = [evaluation EXCEPT ![b].todo = @ \ {g}]
    /\ StillGhost(g, b)
    /\ DissolveGroup(g)
    /\ UNCHANGED <<batchVars, batch_id, rollover_count, joining, bedVars, submitting,
                   executor, officeVars>>

PenalizeGroup(b, g) ==
    /\ evaluation[b].pc = "penalize"
    /\ g \in evaluation[b].todo
    /\ Unlocked(g)
    /\ evaluation' = [evaluation EXCEPT ![b].todo = @ \ {g}]
    /\ IF StillGhost(g, b)
       THEN DissolveGroup(g)
       ELSE UNCHANGED <<status, group_id, invitations, allocation_result, preferences>>
    /\ UNCHANGED <<batchVars, batch_id, rollover_count, joining, bedVars, submitting,
                   executor, officeVars>>

\* The transaction fails; execute logs it and takes the next group.
PenaltyFails(b, g) ==
    /\ evaluation[b].pc = "penalize"
    /\ g \in evaluation[b].todo
    /\ evaluation' = [evaluation EXCEPT ![b].todo = @ \ {g}]
    /\ UNCHANGED <<batchVars, groupVars, memberVars, bedVars, submissionVars,
                   executor, officeVars>>

FinishEvaluation(b) ==
    /\ evaluation[b].pc = "penalize"
    /\ evaluation[b].todo = {}
    /\ evaluation' = [evaluation EXCEPT ![b].pc = "done"]
    /\ UNCHANGED <<batchVars, groupVars, memberVars, bedVars, submissionVars,
                   executor, officeVars>>

-----------------------------------------------------------------------------
(* Late members: respondToGroupRequest reads the group's status unlocked,  *)
(* and its UPDATE then waits for the group's lock in check_group_capacity. *)

AcceptInvitation(s, g) ==
    /\ <<s, g>> \in invitations \ joining
    /\ group_id[s] = NoGroup
    /\ status[g] \notin {"HARD_LOCKED", "ALLOCATED", "DELETED"}
    /\ status[g] = "SOFT_LOCKED" => Cardinality(Members(g)) < MaxGroupSize
    /\ joining' = joining \cup {<<s, g>>}
    /\ UNCHANGED <<batchVars, groupVars, group_id, invitations, bedVars,
                   submissionVars, executor, evaluation, officeVars>>

JoinGroup(s, g) ==
    /\ <<s, g>> \in joining
    /\ Unlocked(g)
    /\ status[g] # "DELETED"
    /\ group_id[s] = NoGroup
    /\ Cardinality(Members(g)) < MaxGroupSize
    /\ group_id' = [group_id EXCEPT ![s] = g]
    /\ invitations' = {q \in invitations : q[1] # s}
    /\ joining' = joining \ {<<s, g>>}
    /\ UNCHANGED <<batchVars, groupVars, bedVars, submissionVars, executor,
                   evaluation, officeVars>>

\* The group is full or gone, or the student's own group is locked: rolled back.
JoinFails(s, g) ==
    /\ <<s, g>> \in joining
    /\ joining' = joining \ {<<s, g>>}
    /\ UNCHANGED <<batchVars, groupVars, group_id, invitations, bedVars,
                   submissionVars, executor, evaluation, officeVars>>

-----------------------------------------------------------------------------
(* Bookings made by hand                                                   *)

OfficeCall ==
    /\ officeCalls < MaxOfficeCalls
    /\ officeCalls' = officeCalls + 1
    /\ UNCHANGED <<batchVars, groupVars, memberVars, submissionVars, executor, evaluation>>

\* assignResident first makes sure, in a statement of its own, that the student has no
\* room ...
CheckResident(s, r) ==
    /\ OfficeCall
    /\ upcoming[s] = NoRoom /\ active[s] = NoRoom
    /\ assigning' = assigning \cup {<<s, r>>}
    /\ UNCHANGED bedVars

\* ... and then calls assign_student_to_room, where the previous UPCOMING row, if there is
\* one after all, becomes PAST.
AssignResident(s, r) ==
    /\ <<s, r>> \in assigning
    /\ assigning' = assigning \ {<<s, r>>}
    /\ Occupancy(r) < Capacity[r]
    /\ upcoming' = [upcoming EXCEPT ![s] = r]
    /\ UNCHANGED <<batchVars, groupVars, memberVars, active, submissionVars, executor,
                   evaluation, officeCalls>>

\* The room is full, or a statement fails.
AssignFails(s, r) ==
    /\ <<s, r>> \in assigning
    /\ assigning' = assigning \ {<<s, r>>}
    /\ UNCHANGED <<batchVars, groupVars, memberVars, bedVars, submissionVars, executor,
                   evaluation, officeCalls>>

\* The unique index admits one ACTIVE row per student.
ForceAssignRoom(s, r) ==
    /\ OfficeCall
    /\ Occupancy(r) < Capacity[r]
    /\ active[s] = NoRoom
    /\ active' = [active EXCEPT ![s] = r]
    /\ UNCHANGED <<upcoming, assigning>>

RemoveResident(s, r) ==
    /\ OfficeCall
    /\ r \in {upcoming[s], active[s]}
    /\ upcoming' = [upcoming EXCEPT ![s] = IF @ = r THEN NoRoom ELSE @]
    /\ active' = [active EXCEPT ![s] = IF @ = r THEN NoRoom ELSE @]
    /\ UNCHANGED assigning

-----------------------------------------------------------------------------
Submit ==
    \/ \E g \in Group, b \in Batch, k \in Round : BeginSubmit(g, b, k)
    \/ \E g \in Group, p \in PreferenceList : CommitSubmit(g, p)
    \/ \E g \in Group : AbortSubmit(g)

Execute(e) ==
    \/ SkipProcessed(e) \/ PassGuard(e)
    \/ RollBack(e) \/ TurnAway(e) \/ Allocate(e)
    \/ MarkFailed(e)

Evaluate(b) ==
    \/ FindNextBatch(b) \/ ListFailed(b)
    \/ \E g \in Group : RolloverGroup(b, g)
    \/ ListGhosts(b)
    \/ \E g \in Group : PenalizeGroup(b, g)
    \/ FinishEvaluation(b)

Invite ==
    \E s \in Student, g \in Group :
        AcceptInvitation(s, g) \/ JoinGroup(s, g) \/ JoinFails(s, g)

Office ==
    \E s \in Student, r \in Room :
        \/ CheckResident(s, r) \/ AssignResident(s, r) \/ AssignFails(s, r)
        \/ ForceAssignRoom(s, r) \/ RemoveResident(s, r)

\* Statements that fail, and what the code does then.
Fault ==
    \/ \E b \in Batch : HardLockLost(b) \/ RolloverAborts(b)
    \/ \E b \in Batch, g \in Group : PenaltyFails(b, g)
    \/ \E e \in Executor : GuardReadFails(e) \/ TransactionFails(e) \/ MarkingFails(e)

QuietNext ==
    \/ \E b \in Batch : StartBatch(b) \/ HardLockGroups(b) \/ EndBatch(b) \/ Evaluate(b)
    \/ Submit
    \/ \E e \in Executor, b \in Batch, k \in Round : FetchRound(e, b, k)
    \/ \E e \in Executor : Execute(e)
    \/ Invite

Next == QuietNext \/ Office \/ Fault

Spec == Init /\ [][Next]_vars

\* No booking is made by hand and no statement fails.
QuietSpec == Init /\ [][QuietNext]_vars

\* A transaction whose statements return goes on.  A request for a group's lock waits
\* in PostgreSQL's queue while others take and release it, hence strong fairness.
Fairness ==
    /\ \A g \in Group : WF_vars(AbortSubmit(g) \/ \E p \in PreferenceList : CommitSubmit(g, p))
    /\ \A e \in Executor : SF_vars(Execute(e))
    /\ \A b \in Batch : SF_vars(Evaluate(b))

LiveSpec == Spec /\ Fairness

-----------------------------------------------------------------------------
(* Properties                                                              *)

\* Every variable has its type.
TypeOK ==
    /\ batch_status \in [Batch -> {"PENDING", "ACTIVE", "COMPLETED"}]
    /\ hardLockDue \subseteq Batch
    /\ status \in [Group -> GroupStatus]
    /\ batch_id \in [Group -> Batch]
    /\ rollover_count \in [Group -> Nat]
    /\ group_id \in [Student -> Group \cup {NoGroup}]
    /\ invitations \subseteq Student \X Group
    /\ joining \subseteq Student \X Group
    /\ upcoming \in [Student -> Room \cup {NoRoom}]
    /\ active \in [Student -> Room \cup {NoRoom}]
    /\ allocation_result \in [Submission -> Result]
    /\ preferences \in [Submission -> {<<>>} \cup PreferenceList]
    /\ submitting \in [Group -> {NoSubmission} \cup (Batch \X Round)]
    /\ executor \in [Executor -> {Idle} \cup
           [pc : {"check", "allocate", "mark"}, batch : Batch, round : Round,
            todo : (SUBSET Group) \ {{}}]]
    /\ evaluation \in [Batch ->
           [pc : {"idle", "next", "failed", "rollover", "penalize", "done"},
            next : Batch \cup {NoBatch}, todo : SUBSET Group]]
    /\ assigning \subseteq Student \X Room
    /\ officeCalls \in 0..MaxOfficeCalls

\* A room never has more ACTIVE and UPCOMING bookings than beds, whatever
\* executors, late members and the office do at the same time.
NoOverbooking ==
    \A r \in Room :
        Cardinality({s \in Student : upcoming[s] = r}) +
        Cardinality({s \in Student : active[s] = r}) <= Capacity[r]

\* roundallocator.js, invariant 6: a group is never double-allocated.  Over all
\* rounds, batches and executors it has one ALLOCATED submission when its status is
\* ALLOCATED and none otherwise.
AllocatedOnce ==
    /\ \A x, y \in Submission :
          (allocation_result[x] = "ALLOCATED" /\ allocation_result[y] = "ALLOCATED"
             /\ x[1] = y[1]) => x = y
    /\ \A g \in Group :
          status[g] = "ALLOCATED" <=>
             \E b \in Batch, k \in Round : allocation_result[<<g, b, k>>] = "ALLOCATED"

\* An ALLOCATED result is final: neither a late executor nor the marking of a
\* rolled back transaction nor a penalty takes it back.
AllocationIsFinal ==
    [][\A x \in Submission :
          allocation_result[x] = "ALLOCATED" => allocation_result'[x] = "ALLOCATED"]_vars

\* A group dissolved at the end of batch b has no submission in b, not even one whose
\* transaction was open while the batch ended and committed after the ghosts were listed.
GhostNeverSubmitted ==
    [][\A g \in Group, b \in Batch :
          (status[g] # "DELETED" /\ status'[g] = "DELETED"
             /\ evaluation'[b].todo # evaluation[b].todo)
                => \A k \in Round : allocation_result[<<g, b, k>>] = "NONE"]_vars

\* Nothing of a dissolved group is left behind: no member, no invitation, and no
\* submission that slipped in around the dissolution.
DissolvedLeavesNothing ==
    \A g \in Group : status[g] = "DELETED" =>
        /\ Members(g) = {}
        /\ \A s \in Student : <<s, g>> \notin invitations
        /\ \A b \in Batch, k \in Round : allocation_result[<<g, b, k>>] = "NONE"

\* Left alone, the engine turns a group away only for lack of beds: at no later time
\* does a preferred room of a FAILED submission have room for the group.
FailedMeansFull ==
    \A x \in Submission :
        (allocation_result[x] = "FAILED" /\ ~ Ineligible(x[1])) =>
            \A i \in DOMAIN preferences[x] :
                Occupancy(preferences[x][i]) + Cardinality(Members(x[1]))
                    > Capacity[preferences[x][i]]

\* However submissions hold the group locks, a round that was fetched comes to its end,
\* and so does the evaluation of every batch that ended.
EveryRoundEnds == \A e \in Executor : executor[e].pc # "idle" ~> executor[e].pc = "idle"

EveryEvaluationEnds ==
    \A b \in Batch : batch_status[b] = "COMPLETED" ~> evaluation[b].pc = "done"

\* What the engine promises to the groups (GroupPlacement).
Outcome ==
    [g \in Group |-> CASE status[g] = "ALLOCATED" -> "placed"
                       [] status[g] = "DELETED" -> "dissolved"
                       [] status[g] = "PENALIZED" -> "penalized"
                       [] OTHER -> "waiting"]

Placement ==
    INSTANCE GroupPlacement WITH group <- group_id, outcome <- Outcome,
                                 requests <- assigning, calls <- officeCalls

PlacementSpec == Placement!Spec

-----------------------------------------------------------------------------
(* Claims of the comments that the code does not keep: see README.md       *)

\* batchScheduler.js on startBatch: once a group is HARD_LOCKED, "no new members can
\* be accepted from this point".
HardLockClosesGroup ==
    [][\A s \in Student :
          group_id'[s] \in Group /\ group_id'[s] # group_id[s]
             => status[group_id'[s]] \notin {"HARD_LOCKED", "ALLOCATED"}]_vars

\* rolloverEvaluator.js, invariant 1: "never rollover an already-allocated group".
NoRolloverOfAllocated ==
    [][\A g \in Group :
          rollover_count'[g] # rollover_count[g] => status[g] # "ALLOCATED"]_vars
=============================================================================
