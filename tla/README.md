# Verification of the hostel backend

This directory holds the TLA+ specifications of the hostel backend: models of its
components translated from the source, TLC configurations that check them on small
instances, and theorems about them proved with TLAPS. Paths are relative to the root of
the repository.

## The system and its parts

The backend is an Express server on PostgreSQL, with Redis as a cache and Pusher for
broadcasts. Its core is the allocation of next year's rooms (`src/roomallocation`): an
*allocation event* moves through the phases `LOBBY`, `SOFT_LOCK`, `LIVE_BATCHES`,
`FINAL_SWEEP`, `ADMIN_MODE`; students form groups in the lobby; the soft lock ranks the
groups and spreads them over *batches*; each batch is a window of three *rounds*; groups
submit preferences and at the end of a round the engine books rooms in rank order; at the
end of a batch an evaluation rolls failed groups over and dissolves those that never
submitted. Beside it live the outpass desk and the gate, sessions, face enrolment and the
room administration.

| Component | State it keeps | Operations | Hard behaviour | What makes it correct |
|---|---|---|---|---|
| Round execution (`engine/roundallocator.js`, `roomSelector.js`, `locking.js`) | `allocation_submission`, `room_assignment`, `housing_group.status` | `processRound`, `_processSubmission`, `_markSubmission` | several executors of one round, stale idempotency guard, failing statements | a room is never overbooked; a group is allocated once, as a whole and for good; failing means that nothing fitted |
| Allocation service (`services/allocation.service.js`) | submissions and preferences | `submitPreferences`, `executeBatchRound`, `forceAssignRoom` | a submission open while its batch ends | one submission per group and round; nothing for a dissolved group |
| Post-batch evaluation (`schedulers/evaluationScheduler.js`, `engine/rolloverEvaluator.js`, `ghostPenalty.js`, `shatterProtocol.js`, `finalSweep.js`) | `batch_id`, `rollover_count`, dissolved groups | rollover, ghost penalty, shatter check, final sweep | lists read before they are used, errors swallowed one by one | who submitted is not a ghost; who is allocated stays |
| Batch and round schedulers (`schedulers/*.js`) | `batch.status`; timers and round state in memory | start, end, freeze, execute, advance, boot recovery | timers that fire together, a crash that loses them, a handler that awaits while another one runs | every round of a batch is executed before the batch is evaluated; a restart loses no work |
| Phases and soft lock (`services/phase.service.js`, `softLock.service.js`) | `allocation_event.status`, cached in Redis | `setCurrentPhase`, pause, resume, `assignGroupsToBatches` | check-then-act on a cached phase | the phase follows the order of the event |
| Housing groups (`services/group.service.js`, triggers) | `housing_group`, `group_request`, `student.group_id` | create, invite, accept, reject, leave, kick, transfer | transactions at READ COMMITTED on the same group, and the soft lock beside them | no group is larger than four; a leader is a member; nobody leaves a locked group |
| Room ledger (`controllers/roomController.js`, triggers of `db/newdb.sql`) | `room`, `room_assignment`, `current_occupancy` | assign, remove, update, delete a room | trigger counts over a snapshot, check-then-act | no booking goes into a full room; nobody with a room is moved by hand |
| Outpass and gate (`controllers/outpass.controller.js`, `student.controller.js`) | `outpass`, visit log | create, decide, cancel, scan, offline sync | two scans of one barcode, late and repeated offline records | whoever is out has an approved pass and one open visit; a log entry moves the student once, however often it is sent |
| Late return notifications (`src/notifications`) | `late_return_notification` | periodic scan, notice at check-in | overlapping scans, a failing record after the mail | who is late is reported, once |
| Sessions and OTP (`working-routes/auth.js`, `logging/repositories/session.repository.js`, `utils/otp.js`) | `user_session`, OTP table in memory | login, OTP, refresh, logout | concurrent logins and refreshes | a code lets one request in; a session that is over is not admitted again |
| Face enrolment (`face-auth/services`) | `student_face_enrollment`, faces at ZepIris | enrol, re-enrol, remove, verify | a transaction and a remote service, cleanup that fails | enrolled means that all faces exist; no orphans, but for faults |
| First-year allocation (`first-year-allocation`) | `room_assignment` | matcher, bulk allocator, manual allocation, rollback | bookings in bulk beside those of the office | a room that was filled by a layout fits it; a rollback leaves no resident |
| Complaints and attendants (`working-routes/complaint.js`, `assignAttendent`) | `complaint`, `complaint_upvote`, `attendant`; the pool's connections | post, list, work on, vote; assign an attendant | a transaction on a connection of its own, two taps at once, a statement that fails inside | the counter counts the votes; every connection goes back to the pool |
| Rank import | `individual_rank` in bulk | rank update | sequential, before the lobby opens | not modelled |
| Caches (`src/cache`) | Redis keys | read-through, invalidation | a reader that stores what a writer has outdated | a stale entry does not survive its invalidation |
| Day scholars, logs, imports, output, wiring | rows nothing else decides on | inserts and queries | none of their own | not modelled |

The schedulers call the allocation service, the service calls the engine, the engine works
on the database; triggers of the database recompute the occupancy of rooms and delete
empty groups. Students reach the same rows through the group and preference operations,
the hostel office through the room controller. `PROJECT.json` lists every component with
its status and every hazard with its line.

## Modules

| Module | What it is |
|---|---|
| `GroupPlacement` | what the engine promises, abstractly: every group waits until all who are its members at that moment get one room in one step, or it is dissolved; neither is undone, and a student's bed changes otherwise only by a call of the office about this student |
| `AllocationEngine` | the engine in detail, with submissions, executors, evaluations, late members and the office |
| `AllocationEngine_proofs` | theorems about it |
| `MCAllocationEngine` | its instances for TLC |
| `BatchTimetable` | what the schedulers promise, abstractly: batches are opened, closed and evaluated, in this order, in their time and once, and the event reaches `ADMIN_MODE` after the last one is closed |
| `BatchCycle` | the schedulers in detail, with the timers, the round cycle, the pipeline at the end of a batch, crashes and boot recovery |
| `BatchCycle_proofs` | theorems about it |
| `MCBatchCycle` | its instances for TLC |
| `HousingGroup`, `MCHousingGroup` | the lobby: groups, requests, the phase and the soft lock, statement by statement |
| `HousingGroup_proofs` | theorems about it |
| `RoomLedger`, `MCRoomLedger` | rooms and bookings: the hostel office and the first-year allocation, with the triggers |
| `RoomLedger_proofs` | theorems about it |
| `LayoutMatcher` | the matching algorithm of the first-year allocation, which `RoomLedger` runs |
| `Outpass` | the life of an outpass, from the request to the visit log, with the offline terminal |
| `LateReturn`, `MCLateReturn` | the late return notifications over `Outpass`, which it extends and composes |
| `LateReturn_proofs` | theorems about both |
| `Session`, `MCSession` | accounts, one-time codes and sessions |
| `Session_proofs` | theorems about it |
| `FaceEnrollment`, `MCFaceEnrollment` | face enrolment over the face service |
| `FaceEnrollment_proofs` | theorems about it |
| `Complaint`, `MCComplaint` | complaints, votes and attendants over the connection pool |
| `Complaint_proofs` | theorems about it |

### AllocationEngine

`AllocationEngine` starts after the soft lock has put every group into a batch and ranked
it. Its variables are the columns the code decides on and the local state of the handlers
that are under way:

* `batch_status`, `status`, `batch_id`, `rollover_count`, `group_id`,
  `allocation_result`, `preferences`, `invitations`, `upcoming`, `active` are columns of
  the database. `allocation_result` is `"NONE"` without a row and `"PENDING"` while
  `is_processed` is false; `status` is `"DELETED"` once the row is gone. A student's
  `room_assignment` rows are the functions `upcoming` and `active`, since a unique index
  admits one row of each kind.
* `submitting`, `executor`, `evaluation`, `joining`, `assigning`, `hardLockDue` are the
  handlers between two of their statements.

A transaction that locks the rows it decides on before it reads them is one action
(`Allocate`, `TurnAway`, `PenalizeGroup`, ...). A read outside of the transaction that
acts on it is an action of its own (`PassGuard`, `ListFailed`, `ListGhosts`,
`AcceptInvitation`, `CheckResident`). The lock of a group's row is held across actions
only by an open submission, and `Unlocked` guards everybody else. Failing statements are
the actions of `Fault`: they do what the surrounding `catch` does. Several executors stand
for what the code allows: a second server instance, boot recovery beside a running round,
an administrator's run of a round.

Left out: the shatter check and the final sweep, which refer to a column and a variable
that do not exist and so never commit a change; `recalculateGroupRanks`, because the rank
of a submission is the one it was stored with; the notification of results. The timers
belong to `BatchCycle`.

### Runs of AllocationEngine

All instances are subsets of: two groups, one of two students with the better rank and one
of a single student; a double (in `engine_placement` three beds, one of them taken) and a
single room; two batches; two rounds; two executors.
This is the smallest world in which a group does not fit where a smaller one does, two
submissions of one group meet, two executors meet on one submission, and a group can be
rolled over.

| Run | Shows | Instance |
|---|---|---|
| `engine_placement` | no overbooking; the status of a group agrees with its submissions; allocations are final; the engine implements `GroupPlacement` | two executors, a late member, one call of the office, a room of three beds with a resident in it |
| `engine_quiet` | a group is turned away only for lack of beds | no office, no failing statements, two rooms, two rounds, a late member |
| `engine_progress` | rounds and evaluations come to their end; a ghost has not submitted, and nothing of it is left | one group of two, one room, two batches that overlap, one executor, fairness |

`GroupPlacement` sees the engine through a mapping: a group is `placed` when it is
`ALLOCATED`, and its members are the students whose `group_id` it is; the calls of the
office under way are `assigning`. So `Place` is the `COMMIT` of `Allocate`, which has to
book everybody who is a member at that moment into one room; an engine that leaves a member
out, books a stranger or uses two rooms does not implement it. Three beds, of which one is
taken, let a group be placed while a late member and the office compete for the rest.

`MaxOfficeCalls` bounds the calls of the office; rounds, batches and submissions are finite
by themselves. `CHECK_DEADLOCK FALSE` is set because the engine stops when all batches are
evaluated. Executors are interchangeable, so `engine_placement` may use symmetry; the run
with liveness does not.

Two sentences of the comments are not what the code does and are modelled as the code has
it. `executeBatchRound` fetches "rollover groups first" (`allocation.service.js:255`), but
`processRound` sorts by rank alone (`Current`). "One failure doesn't block others"
(`roundallocator.js:112`), but a failing read of `is_processed` is not caught and ends the
round (`GuardReadFails`).

Fairness (`LiveSpec`): an open submission goes on to commit or abort, because its
statements return. An executor and an evaluation wait for a group's row lock that
submissions take and release; PostgreSQL queues the waiters, so each is strongly fair.
Nothing is assumed of students, of the office, of failures or of the start of rounds.

### BatchCycle

`BatchCycle` starts when an administrator has just moved the event to `SOFT_LOCK`: the
batches are created and their start timers are armed. Its variables fall into three parts.

* The database: `batch_status`, `phase`, and of the submissions only what the schedulers
  depend on, `pending` (how many of a batch and round are not processed) and `processed`
  (the rounds recovery finds a processed submission of). `evaluations` records each
  rollover evaluation with the next batch it found.
* The process: `startTimer` and `endTimer` are `_timers`, `cycle` is `_state` (its freeze
  timer is armed unless the round is frozen), and `executing`, `starting`, `ending` and
  `boot` are `executeRound`, `startBatch`, `endBatch` and `recoverOnBoot` at the await they
  have come to. A crash leaves the database only.
* The environment: the clock `now`, in rounds, and the counters that bound it.

Node runs one callback at a time, so what lies between two awaits is one action, and every
other handler may run at an await. `freezeRound`, `executeBatchRound`, each submission,
`advanceRound` before and after the shatter check are actions of their own; so are the
`UPDATE` of `endBatch`, the stop of the cycle, the evaluation, the check for remaining
batches, the sweep, the query of `activateNextBatch` and the timer it arms. Each batch runs
its own handlers, beside those of the others and beside recovery. `StartFails`, `RoundFails`,
`CloseFails`, `EvaluationFails`, `QueueFails` and `BootFails` are failing statements, with
what the `catch` around them does: a spent timer is not armed again before the next
restart.

The freeze timer has the absolute deadline of `_armFreezeTimer`; its anchor is the moment
the cycle was started, or `batch.start_time` after a restart. `NoTimerDue` keeps the clock
from passing a timer that is due: the event loop fires a timer within the ten minutes that
are the unit of time. A handler, in contrast, may take any number of rounds, and two
timers that are due together fire in either order.

`setCurrentPhase` is two actions for each of its three callers: the phase is read, perhaps
from the cache, and the transition validated against it (`AllowLiveBatches`,
`RunFinalSweep`, `QueueNextBatch`, with `ReadPhase`), and later the row is overwritten
without a condition (`OpenLiveBatches`, `EnterAdminMode`, `EnterFinalSweep`, with
`WritePhase`). So `FINAL_SWEEP` may overwrite `ADMIN_MODE`, and `LIVE_BATCHES` may
overwrite `FINAL_SWEEP`. `phases` is every phase the event has had, and `ReadPhase` may
answer with any of them at most `MaxStaleReads` times. The error is swallowed, as
`transitionSystemPhase` and `_transitionToAdminMode` do. Of the shatter check only the
await is left, because it fails before it changes anything, and of the final sweep whether
it returns (nobody or no room is left) or throws (the undeclared `hostelId`). There is one
server process.

`BatchTimetable` is finished when the event has reached `ADMIN_MODE`, which a late
`FINAL_SWEEP` may take back. That the phase itself only ever advances is not true and not
claimed.

### Runs of BatchCycle

| Run | Shows | Instance |
|---|---|---|
| `cycle_restart` | after any crash every batch has its timers again; no round overtakes an earlier one | two uneven batches of two rounds, two submissions in time, one crash, clock up to 4 |
| `cycle_progress` | a batch is evaluated once; `ADMIN_MODE` comes last; a batch that was opened is closed; the event leaves `LIVE_BATCHES`; the schedulers implement `BatchTimetable` | two uneven batches of one round, one crash, one failing handler, one stale answer of the cache, clock up to 3, fairness |

Two batches are the fewest of which one can be started while the other one ends. The
uneven ones, as an administrator may make them, are one shorter than its rounds or just as
long, and one longer: the first is cut off while a round is executed, and the second has a
time at which it is past its rounds and not over, which is where recovery has to tell the
two apart. Two rounds are the fewest of which one can overtake the other. Submissions
matter to the order of rounds only, so `cycle_progress` has none; and one failing handler,
one crash and one stale answer may all come in the same behaviour. `MaxTime` lets the clock
reach the end of the last batch; the handlers then run on without it. `MaxCrashes`,
`MaxFaults`, `MaxStaleReads` and `MaxSubmissions` are bounds on the environment.
`CHECK_DEADLOCK FALSE` is set because the event is over in the end.

Some of the properties state what they suppose of the environment; `cycle_restart` has the
crash only, `cycle_progress` the faults as well. `TimersMatchDatabase` and
`EveryBatchCloses` suppose that no handler fails: when the hard lock does after the
`UPDATE` to `ACTIVE` (`StartFails`), or the `UPDATE` to `COMPLETED` does (`CloseFails`),
the batch stays `ACTIVE` without an end timer until the next restart. `EventEnds` supposes
that nothing fails, that the cache is not stale, for a transition that is refused is not
tried again, and that the server does not crash: a crash after the last batch is
`COMPLETED` leaves the event in `LIVE_BATCHES` (`RestartLosesNoEvaluation` below).
`EvaluatedOnce`, `AdminModeComesLast` and
`TimetableSpec` suppose nothing.

`EarlierRoundsFirst` supposes `Punctual` clients, which submit between `ROUND_OPENED` and
`ROUND_FROZEN`, and neither a crash nor a failing round, after which a round may be left
half done. The server does not enforce the former: `freezeRound` says "no more submissions
accepted" (`roundScheduler.js:196`), but nothing that accepts a submission asks
`isRoundFrozen`, and without `Punctual` a submission for a frozen round is stored and never
fetched.

`ReopenRound` stores the state that `AdvanceRound` looked up before the shatter check, as
the code does, so a cycle that `stopRoundCycle` has stopped meanwhile is there again, with
its timer, and goes on after the evaluation of its batch. And the sweep runs before the
event is in `FINAL_SWEEP`, if it gets there at all: `phase.service.js:13` has the phase as
the "leftover assignment pass".

Fairness (`LiveSpec`): for each batch, its start, its rounds and its end are weakly fair,
because statements return and timers fire; recovery and the clock are weakly fair, which
makes a crashed server come back. Failing statements are in no fair action.

### HousingGroup

A request is a transaction at READ COMMITTED. Its first statement that may be answered
with an error is the action `...Check`, its writes are `...Write`, and what follows is
`...Commit`; the triggers of `newdb.sql` are part of the statement that fires them and have
their names (`check_group_capacity`, `prevent_illegal_group_modification`,
`handle_primary_applicant_leave`), but for the group's row that the last one writes, which
it may have to wait for (`WriteHeir`). `txn[t]` is what a transaction has read, and with
`HoldsStudents`, `HoldsGroups`, `HoldsRequests` and their `Wants...` the locks it has and
waits for; `Deadlock` is PostgreSQL's answer to a circle.

`setCurrentPhase` validates against `phases`, every phase the event has ever had, because
the cache of the phase may be filled late by a reader that missed it. `createGroup` reads
the row. `AssignRead`, `AssignGroup` and `AssignCommit` are `assignGroupsToBatches`, which
runs beside the students' requests. `places` counts how often a row of
`group_shatter_history` has let its student into a batch.

Left out: the reasons of a refusal, the group cache, the broadcast of an invitation.

### RoomLedger and LayoutMatcher

A request is a list of statements (`Stmt`), and each statement one or more actions: a
trigger that updates `room.current_occupancy` or the student's snapshot counts or looks
up first (`Lookup`, `Recount`) and writes when it gets the row (`WriteSnapshot`,
`WriteOccupancy`), so that it may write what is no longer true. `WaitsFor` and `Deadlock`
are the locks of rows. `assignResident`, `removeResident`, `deleteRoom`, `addRoom`,
`bulkUploadRooms`, `updateRoom` belong to the hostel office, `allocate`,
`executeManualAllocation`, `rollbackAllocations` to the first-year allocation.

`LayoutMatcher` is `matchConstraints` as folds: it goes through the target rooms
(`FillRoom`), for each through the nodes of the layout (`TakeNodes`), and takes the first
student of the pool who meets the node and the rule on branches (`TakeNode`). A room is in
its plan when a student has been found for each of its beds, so `LockEmptyRoom` books as
many as the layout has. `LayoutHolds` compares the plan with the layout.

### Outpass and LateReturn

A handler that reads the pass without a lock and later updates it by id is two actions
(`CreateCheck` and `CreateInsert`, `CancelCheck` and `CancelUpdate`, `BulkVerify` and
`BulkUpdate`, `RecordCheck` and `RecordExit` or `RecordEnter`); a conditional `UPDATE` or
a `SELECT ... FOR UPDATE` with what follows is one. The offline terminal records movements
(`RecordOffline`) and sends its log (`SendLogs`); the request stores each entry in a
transaction of its own (`SyncCheck`, then `SyncApply`) or fails at one (`SyncFails`).
Whether an entry is stored is asked before the pass is locked, and not again. The terminal
waits for one answer at a time, but when it gives up (`SyncGivenUp`) the server does not
know, and the request goes on while the log is sent again: up to `SyncSlot` requests are
handled at a time, and only the answer that is waited for (`waiting`) makes entries `acked`.
`SyncStops` is a server that stops in between. `overlapped` are the entries that were sent
again while an earlier request had yet to come to them.

`LateReturn` extends `Outpass`: its `Next` has the actions of both, `Enter` being the
guard's entry with the notice at check-in. `Overdue` is the query of the scan, `Notify`
the mails with the row that records them, and `NotRecorded` a failure of the row after the
mails went out.

### Session

Each handler of `auth.js` is a sequence of statements that commit one by one, and
`request[q]` says where it is. `StatementFails` is an error that the session service logs
and swallows; `Restart` empties `otpStore`, which lives in memory. `over` holds the
sessions that ended while no handler was at work on them. A signup starts a session
beside the login that may run for the same account, and its `Revoke` and `Start` are
copies (`WelcomeRevoke`, `WelcomeStart`), as in the code.

### FaceEnrollment

`call` is the request's call to ZepIris, which waits for the one mutex, has its effect
(`Effect`) and is answered (`Accepts`, `Refuses`) or not (`NoAnswer`, the 30 s timeout).
What the handler does next follows the answer: `ImageEnrolled` goes on to the next image,
`ImageFails` and `StatementFails` clean up the faces that were enrolled so far. When the
`ROLLBACK` fails as well (`RollbackFails`), the `catch` clause throws before it cleans up.
`RemovalFails` is a face that ZepIris does not delete, and `RemovalNotRecorded` a `DELETE`,
`UPDATE` or `COMMIT` that fails after all faces of the student are gone: both leave rows
without faces. `NothingDone` is a statement that fails before the first call, or the
`COMMIT` of a re-enrolment's removal that fails after it has taken effect.

`Fault` counts calls without an answer, failing statements and restarts; a face that one of
them came between, or whose removal was refused half-way, is `lost` and exempt from
`FacesAgree` until neither the row nor the face is left. A new face's id is one that
nothing refers to (`Fresh`), as a UUID is.

### Complaint

`pool.query` is one action. An upvote takes a connection and runs `UpvoteCheck`,
`UpvoteInsert`, `UpvoteCount`, `UpvoteCommit`; its votes show to others at the commit, and
two taps meet at the primary key (`HoldsVote`). `client[k]` is `"aborted"` when the
connection of an upvote that failed went back into the pool in its aborted transaction
(`UpvoteEscapes`); the next query on it fails and the pool drops it (`Recycle`).
`assignAttendent` is statement by statement (`Existing`, `DuplicateEmail`, `Taken`, ...).

### Runs of the other modules

| Run | Shows | Instance | Bounds |
|---|---|---|---|
| `lobby` | no group outgrows its limit, a leader is a member, a shattered student gets one late group, nobody leaves a locked group | three students, one of them shattered; two requests at a time | groups of two (four in the code), batches of one group (fifty), two groups, two requests pending, five calls, the administrator asks for `SOFT_LOCK` |
| `rooms` | no booking goes into a full room, a layout is met, a rollback empties its rooms, a manual allocation moves nobody | three students, one room that is there and one that may be built, two layouts; two requests at a time | capacities one and two, four calls |
| `gate` | nobody is out without an approval, whoever is out has an open visit, barcodes stand for approved passes, who is late is reported | one Outstation pass, one official, one guard, a log of an exit and an entry, one request of the terminal at a time | two visits, two synchronisations, one failure |
| `gate_resend` | a log entry that is sent again moves its student once, and one reported as synced is stored | one Local pass, one official, one guard, a log of an exit and an entry, two requests of the terminal at a time, no scan for late returns | two visits, three synchronisations |
| `sessions` | a code lets one request in, a session that is over stays so, what is admitted can be refreshed | a student and a guard, two machines; two requests at a time | two codes, two sessions |
| `faces` | database and face service agree; every request ends | one student; two requests at a time | two images (five in the code), one fault |
| `complaints` | the counter counts the votes; every request and every connection returns | two students, one attendant, two connections; two requests at a time | one complaint |

Why they are enough: each property is about two handlers that overlap at one row, so two
requests at a time, on one or two rows, with a third student to compete for the last
place, let every interleaving of statements happen. A limit of two is reached by two
acceptances, as four is by the last two of them; two batches of one group are filled and a
third group finds none. One pass with two visits has a return that belongs to an earlier
exit; two synchronisations are an attempt and its repetition, and with two requests
at the server a third repeats what either of them did. One fault leaves every handler with
something half done, at every point. With one connection for each request
every upvote may hold one while it waits for a row.

`CHECK_DEADLOCK FALSE` stands in the runs whose bounds end them (`lobby`, `rooms`, `gate`,
`gate_resend`, `sessions`). `faces` and `complaints` never stop and are checked for
deadlock. Transactions and executors are interchangeable and no temporal property of
`lobby`, `rooms` and `sessions` is a liveness property, so these runs use symmetry.

The exemptions in the properties are the behaviours of the code that are found below:
`LeaderIsMember` and `LockedMembersStay` leave out the groups in `raced`, which two
transactions changed at a time; `OverForGood` the sessions in `Session` that ended while a
handler was at work on them; `FacesAgree` the faces that a fault came between; `MovedOnce`
the entries in `overlapped`, which two requests may both apply.

Fairness: in `gate`, the timer of the scan fires and a mail is answered or times out, both
weakly fair. In `faces`, a handler goes on (weakly fair, a call ends by its timeout) and a
request that waits for a student's row is strongly fair, in `complaints` a request that
waits for a row, a key or a connection: PostgreSQL and pg queue the waiters. Nothing is
assumed of people, of failures and of restarts.

The type invariants of `HousingGroup`, `Session` and `Complaint` are proved
(`TypeCorrect` of their proof modules) and are not in a run.

## Known divergences

Sentences of the repository that the code does not keep. Each is a property of its module;
TLC refutes it with the changes to a configuration in the last column.

| Property | The repository says | The code | To reproduce |
|---|---|---|---|
| `HardLockClosesGroup` | "All SOFT_LOCKED groups … no new members can be accepted from this point" (`schedulers/batchScheduler.js:174`) | an acceptance that checked the status before the lock commits after it (`services/group.service.js:250`) | `engine_quiet.cfg` with `Room = {r1}`, `NumRounds = 1`, `InitialRoom <- MCNoResident` |
| `NoRolloverOfAllocated` | "Never rollover an already-allocated group" (`engine/rolloverEvaluator.js:12`) | the list is read before the groups are moved by id (`rolloverEvaluator.js:91`) | `engine_quiet.cfg` with `Student = {s1, s2}`, `Group = {g1}`, `NumBatches = 2`, `NumRounds = 2`, `InitialGroup <- MCInitialGroup`, `InitialRoom <- MCNoResident`, `Invitations <- MCNobodyInvited` |
| `DecidedWhenEvaluated` | "Round 3: 20–30 min (batch = 30 min total)" (`schedulers/roundScheduler.js:19`) | the end timer stops the cycle while the last round is not executed (`roundScheduler.js:132`) | `cycle_restart.cfg` with `NumBatches = 1`, `NumRounds = 3`, `StartTime <- MCSingleStart`, `EndTime <- MCSingleEnd`, `MaxCrashes = 0` |
| `RollsOverToNextBatch` | "carried forward to the next batch" (`rolloverEvaluator.js:4`) | only a `PENDING` batch is a next batch, and the next one has started (`rolloverEvaluator.js:43`) | `cycle_restart.cfg` with `StartTime <- MCBackToBackStart`, `EndTime <- MCBackToBackEnd`, `MaxTime = 6`, `MaxCrashes = 0` |
| `RestartLosesNoEvaluation` | "so a restart never loses work" (`batchScheduler.js:52`) | recovery looks at `PENDING` and `ACTIVE` batches, not at `COMPLETED` ones that were not evaluated (`batchScheduler.js:59`) | `cycle_progress.cfg` with `MaxFaults = 0`, `MaxStaleReads = 0` |
| `ExitsBeforeEntries` | "so exits process before entries" (`controllers/outpass.controller.js:1910`) | the entries of one request are sorted; an exit that failed is sent again after the entry was stored | `gate.cfg` as it is |
| `SyncedTwiceMovedOnce` | the lookup of the entry in `guard_action_log` before it is applied (`controllers/outpass.controller.js:1935-1943`) | it is made before `BEGIN` and `FOR UPDATE` and not repeated, and the `INSERT` does nothing on a conflict (2034): two requests with the same entry both apply it when the student is back in its old state between them | `gate_resend.cfg` as it is |
| `TwoMachinesRegistered` | "already registered on 2 authorized gate machines" (`working-routes/auth.js:455`) | the first free slot is taken without a look at the other one: a second login at one machine fills both (`auth.js:446-466`) | `sessions.cfg` as it is |
| `LeaderAlwaysMember` | "Primary applicant must belong to the same group" (`db/newdb.sql:460`) | the new leader of a transfer moves to a group of its own (`createGroup`) or leaves at the same time; the trigger of its departure sees the old leader | `lobby.cfg` as it is |
| `OccupancyInSync` | "DB triggers will auto-sync student fields and room occupancy" (`bulkAllocator.js:88`) | the trigger counts before it waits for the room (`newdb.sql:562`) | `rooms.cfg` with `Room = {r1}`, `Built = {r1}`, `Capacity = {2}`, `Layout = {}`, `Target = {}` |
| `PoolIsClean` | the `ROLLBACK` at `working-routes/complaint.js:488-501` | it stands behind a `return`; a failed vote escapes, and `finally` releases the connection in its aborted transaction | `complaints.cfg` as it is |
| `OneAttendantPerHostel` | "EXISTING ATTENDANT FOR THIS HOSTEL?" (`controllers/student.controller.js:460`) | two assignments both find none and insert | `complaints.cfg` with `Email = {e1, e2}` |

Met while reading, and part of the models where they change state:

* Outpass: `outpass.controller.js` uses the functions of `utils/barcode.js` (731, 1307)
  without importing them, so an approval ends in a `ReferenceError` and a rollback, and no
  `.sql` file has the barcode columns. `gate` has `BarcodeInScope = TRUE`, whose
  behaviours include the others. The `CHECK` of `outpass_remarks.admin_role` refuses
  `WARDEN`. Scanning a barcode twice is an exit and a return (2115).
* Lobby: an acceptance that races the leader's departure leaves the student without a
  group; an answer and a dissolution may deadlock; `createGroup` racing an acceptance moves
  the student; a student who has left cannot be invited again (the unique index
  `idx_unique_active_request`); a group created while `assignGroupsToBatches` runs stays
  `FORMING`; a late group may join a batch that has started; numbers of new batches may
  meet those of old ones; the group cache of 24 hours is not invalidated by the soft lock;
  `updateGroupStatus` has no caller.
* Rooms: `current_occupancy` and `is_allotted` may be stale; a student the matcher passes
  over goes to the end of the pool; a layout's capacity is not compared with the room's;
  `ON CONFLICT` of `bulkUploadRooms` never conflicts where `block` is NULL; no code makes
  an assignment `ACTIVE`; the bulk allocation does not invalidate the list of rooms.
* Allocation: `finalSweep.js` uses the undeclared `hostelId` (159, 170), `shatterProtocol`
  the missing column `b.hostel_id`; `validateAllocationPhase` and `isRoundFrozen` have no
  callers; the table `allocation_room_pool` does not exist; `POST /events` answers 500
  after its `COMMIT` (`event.routes.js:282`).
* Faces: a call without an answer can leave a face nobody refers to, which
  `cleanup-orphaned-faces.js` is for; failing cleanups are ignored, and a failing `ROLLBACK`
  skips them (`face.service.js:313`); a removal that fails half way, at ZepIris or at a
  statement after it, leaves rows without faces (342-367, 394, 562); a re-enrolment commits
  the removal before it enrols (386-406); the temporary face of a validation can be the
  best match of a concurrent verification (151-201); the 30 s of a call start after the
  mutex is taken, while the row and the connection are held.
* Schedulers: the phase is validated against what was read before, perhaps from the cache,
  and overwritten without a condition (`phase.service.js:123-144`), so that a late
  `FINAL_SWEEP` may take `ADMIN_MODE` back; a batch whose hard lock fails stays `ACTIVE`
  without rounds and without an end timer until the next restart
  (`batchScheduler.js:165-190`).
* Votes: the aborted connection fails the next `pool.query` that gets it, so a vote that
  fails costs somebody else's request.
* Sessions: the warden's signup inserts into `admin.password`, which `newdb.sql` calls
  `password_hash`.

### Theorems

`AllocationEngine_proofs` proves for every value of the constants that satisfies
`EngineAssumption` (finitely many students and rooms, distinct ranks, one to six beds):

| Theorem | Argument |
|---|---|
| `TypeCorrect` | `TypeOK` is inductive; that an executor at work has a non-empty list is part of it and is what makes `Current` a submission |
| `NeverOverbooked` | `NoOverbooking` is inductive with `TypeOK`. Only `Allocate` and the office book; the room that `selectPreferredRoom` chooses has beds for all members, and their bookings add at most their number |
| `GroupAllocatedOnce` | `AllocatedOnce` is inductive with `TypeOK`: only `Allocate` makes an `ALLOCATED` result, and only of a group that is not `ALLOCATED`; a dissolved group was not |
| `AllocatedForGood` | an action property from the same invariant: whoever overwrites a result either looks at it or holds a group that is not `ALLOCATED` |
| `DissolvedLeavesNothingBehind` | the invariant alone is not inductive: a submission that is open may commit. `SubmittingMeansOpen` adds that a group with an open submission is not dissolved, which the group's lock enforces |
| `EngineImplementsPlacement` | initial states map to initial states and each action to `Place`, `Dissolve`, `Join`, `Request`, `Answer`, `Move` or a stutter, with `TypeOK` and `NoOverbooking`. `Place` takes exactly the members of the group in the state before: `WhoMoves` says that only `JoinGroup`, a dissolution and the office change memberships and the office's calls, and `PlacementOffice` that the office changes the bed of the one student it was called for |

`BatchCycle_proofs` proves for every number of batches and rounds, all windows and all
bounds that satisfy `CycleAssumption` (a window is not empty):

| Theorem | Argument |
|---|---|
| `InvCorrect`, `TypeCorrect` | `TypeOK` is not inductive alone. `ExecutionInv` keeps an executor from taking more submissions than there are and from opening a round after the last one; `BatchInv` says that only a batch whose start time has come has left `PENDING`, which makes the round recovery computes from the clock a round; `BootInv` keeps recovery from passing the current round |
| `BatchEvaluatedOnce` | `BatchInv` places every batch in its life: one that is evaluated is `COMPLETED` and behind the evaluation in its pipeline, and only the `UPDATE` that makes an `ACTIVE` batch `COMPLETED` begins a pipeline |
| `AdminModeAfterAllBatches` | a pipeline comes to the sweep, and on to the `UPDATE` of the phase, only if all batches are `COMPLETED`, and they stay so, whatever the phase is overwritten with meanwhile |
| `TimersRecovered` | `TimersInv` says what recovery has still to do: an `ACTIVE` batch without its end timer is on the list until recovery has armed it or closed the batch |
| `SchedulersKeepTimetable` | each action is mapped to `Open`, `Close`, `Evaluate`, `Finish`, `Tick` or a stutter; the first `UPDATE` to `ADMIN_MODE` is `Finish`, and later changes of the phase are stutters, since `phases` only grows |

The last two of `AllocationEngine_proofs` and the last of `BatchCycle_proofs` rest on
invariants of their own:

| Theorem | Argument |
|---|---|
| `TurnedAwayForLackOfBeds` | `FailedMeansFull` is not inductive: that a group fails for another reason than beds is excluded by what its executor and its students cannot have done. `QuietInv` adds that a group with a submission keeps its members (`PeopledInv`), that only members of `ALLOCATED` groups have a bed, so that no `INSERT` of the engine is refused (`BedInv`), and that a transaction is rolled back only for a group that is decided already (`MarkInv`). Bookings are only added, so what did not fit never fits |
| `GhostsNeverSubmitted` | an action property: the list of ghosts may be stale, but the penalty looks for a submission again after it has locked the group |
| `RoundsInOrder` | `OrderInv`: while nothing fails and clients are punctual, a batch has pending submissions of one round only, of the open one or of the one that is executed, and no round is open while one is executed |

`LateReturn_proofs` proves for all passes, officials, guards and offline logs that satisfy
`OutpassAssumption` (passes and log entries have numeric ids), over the steps of `Outpass`
and `LateReturn` together:

| Theorem | Argument |
|---|---|
| `TypeCorrect` | with `SyncInv`: a synchronisation that is about to apply an entry has one |
| `OutWasApproved` | `ApprovalInv`: a guard's request that has read an approved pass lets its student out after the pass may have changed, but not after it may never have been approved |
| `OutHasOpenVisit` | inductive with the type: an exit opens a visit in the transaction that sets the status, and what closes the visits of a pass takes its student back in |
| `BarcodeRevoked` | `TokenInv`: the requests that read a pass before they write it have read one that exists, and no other request knows of a pass that is being created |
| `SyncMovesOnce` | `SyncInv`: an entry that moved its student is stored in the same transaction, and when no earlier request had yet to come to it, the entry a request is about to apply is not stored: of the requests that have an entry before them, two only if it is in `overlapped` |

`Complaint_proofs`, for every number of students, connections and requests
(`ComplaintAssumption`: each student has a hostel and is not of the staff):

| Theorem | Argument |
|---|---|
| `TypeCorrect` | with `FoundInv` and `UpvoteInv`: what a handler has found is a row |
| `UpvotesAreCounted` | the vote and the counter are written by two statements of one transaction. `HoldInv` says that no two transactions hold the same vote (the primary key) or the same row of `complaint` (its lock), and that a vote held is not counted; then a commit adds one vote and one to the counter |

`Session_proofs`, for all accounts, machines, codes and sessions (`SessionAssumption`):

| Theorem | Argument |
|---|---|
| `TypeCorrect` | with `LoginInv`: rows are filled in the order of their ids, each has a login, and a request works on a row that is there |
| `CodesAreAcceptedOnce` | `CodeInv`: a code in the store was sent, has not been accepted, and is one person's; accepting takes it out of the store in the same step |
| `OverSessionsStayOut` | `OverInv`: a session that is over is inactive and no request is at work on it; a login looks for an active session (`Latest`), so it finds none that is over |
| `AdmittedHasHash` | `HashInv`: whatever makes a session active sets its hash, and whatever clears the hash ends the session |

`HousingGroup_proofs`, for finitely many students and any number of transactions, groups,
batches and limits (`LobbyAssumption`):

| Theorem | Argument |
|---|---|
| `TypeCorrect` | groups, students, requests and memberships refer to rows that exist; `HandlerInv` and `LedInv` say what a transaction may be about to write |
| `NeverFive` | `CapacityInv`: whoever is about to join a group finds a place there until the commit, because the acceptance holds the group's row (`RowInv`) and nobody else adds a member |
| `LeadersAreMembers` | `LeadInv`: what a departure has read of the group it leaves (who leads it) holds until its commit, unless another transaction touched the group meanwhile, which `RacedInv` keeps in `raced` |
| `OneLatePlace` | `LateInv`: a student with a late place is locked into its group, so that no further group is created for him |
| `LockedStay` | an action property from `LeadInv`: a departure that found its group unlocked commits before the lock, or the group is in `raced` |

The lemma `Kinds` reduces every step to three kinds: it keeps members and places
(`Keeps`), it writes a student's row (`Arrives`), or it commits one (`Departs`). The
transactions that hold a row keep the others away from it (`Locks`, `ArrivalWaits`,
`HeirWaits`). `LedInv` also shows that the branch of `WriteHeir` for a group that is gone
is never taken.

`RoomLedger_proofs`, for finitely many students and rooms, any capacities from one to six
and any number of transactions (`RoomAssumption`: the query by rank returns each student
once):

| Theorem | Argument |
|---|---|
| `TypeCorrect` | an occupancy is written only under the lock of its room (`WriteInv`) and after the `CHECK`; who deletes a room has ended the assignments to it (`DropInv`) |
| `NothingOverfilled` | `GuardInv`: who inserts into a room has locked it, or has the statement that locks it before the insertion; `LockInv` gives a room to one transaction. So what the trigger counts after the insertion can only become too high until the commit, and `CountInv` says that the room then fits or the trigger has yet to count or to write, where the `CHECK` refuses. `current_occupancy`, which may be stale, has no part in it |
| `RollbackLeavesNobody` | an action property from `ClearInv`: a rollback has locked a room before it deletes the assignments to it, so nobody is inserted between that and its commit |
| `ManualAllocationMovesNobody` | an action property from `MoveInv`: the student's row is locked when the snapshot is read, and only under that lock is it written |
| `LayoutsHold` | by induction on the loops of the matcher. After each node (`FoundInv`), nobody is twice in the group or the pool or in both, and the group meets the nodes so far and the rule; after each room (`DoneInv`), the groups of the plan are for all beds, and apart from each other and from the pool, into which a group that cannot be completed goes back. Then no step but `allocate` changes a plan (`Kept`) |

The lemma `RunsInv` says what a transaction keeps when it goes on to its next statement;
`QuietStep`, `LockStep` and `BeginInv` carry it over to the others, and `Steps` lists the
actions that are left. The statements that a loop of the code makes are `Chain`s, of which
`ChainList` says what stands where.

A loop of the matcher is a `FoldLeft`, which the library defines as a function chosen by
its equation on the sets of indices. `LoopExists` shows that there is such a function, so
that the chosen one satisfies the equation, and `Rounds` that it then goes through the
indices one by one. The induction theorems of the library have an operator as parameter,
which the provers cannot instantiate; the inductions go through `LeastNatural` instead
(from `WFMin`: a set of naturals has a least element) and its corollary `UpTo`, which says
it with a set.

`FaceEnrollment_proofs`, for any number of students, requests, pictures and faults
(`FaceAssumption`: finitely many requests, at least one picture):

| Theorem | Argument |
|---|---|
| `FacesAreAgreed` | not inductive: it says nothing of what a request may be about to do. `Own` are the faces only one request knows of, and `ApartInv` says that two requests own no face in common and do not work under the lock of the same student's row; so no answer to one request changes a face of another (`WorkKept`). `InsertInv` says that what an enrollment has on its list is at ZepIris and what was refused or cleaned up is not (`GiveUpInv` that what a fault leaves over is `lost`), `DeleteInv` that a removal has still to delete what is there of its student. `StrayInv` and `MissingInv` are the two halves of the agreement, and `RowsInv` numbers the pictures of a student |

A step of one request goes through `TurnInv`, which asks what it keeps of the others'
faces and rows; `QuietTurn` serves the steps that change neither, `OutcomeInv` the answers
of ZepIris. `FreshIsNew` shows that there always is an id, because only finitely many faces
are referred to, and `CallTurn` and `AnswerTurn` that nobody waits for the mutex twice.

The assumptions are those of the modules, which TLC evaluates for the instances of the
runs. They bound no constant that the schema does not bound, and the bounds on behaviour
(`MaxAsked`, `MaxSessions`, ...) are arbitrary naturals.

Model-checked only is everything under fairness, as liveness and `ENABLED` are out of the
prover's reach: `EveryRoundEnds`, `EveryEvaluationEnds`, `EveryBatchCloses`, `EventEnds`,
`OverdueReported`, `EveryRequestEnds`.

## Plan

The core is modelled, and every property of the runs is proved for every value of the
constants, but for those under fairness.

What is worth modelling next: pause and resume of the event, the import of
ranks, an event's routes, a second server process for the schedulers.

## Not modelled

Rank import, caches as such, day scholars, activity and audit logs, imports, the REST
routes of the allocation, the output writer, websocket broadcasts, HTTP plumbing, seeds
and migrations: none of them has a protocol of its own, and nothing decides on what they
write, but for the cache of the phase (`BatchCycle`, `HousingGroup`) and the ranks, which
are constants. `PROJECT.json` gives the reason for each. `working-routes/outpass.js` is left
out because it is written for tables that no `.sql` file creates.
