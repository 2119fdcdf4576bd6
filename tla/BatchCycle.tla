----------------------------- MODULE BatchCycle -----------------------------
(***************************************************************************)
(* The schedulers of src/roomallocation/schedulers: the timers that open   *)
(* and close the batches of an event, the cycle of rounds within a batch,  *)
(* the pipeline at the end of a batch, the phases of the event, and what   *)
(* recoverOnBoot rebuilds of all this from the database after a crash.     *)
(*                                                                         *)
(* One server process.  A handler is cut into actions at its awaits, so    *)
(* that any other handler may run in between, and its position is lost by  *)
(* a crash, as the timers and the state of the round cycles are.  The unit *)
(* of time is a round.  What a round does with a submission is the         *)
(* business of AllocationEngine; here submissions are counted.             *)
(* setCurrentPhase reads the phase, through a cache, in one action and     *)
(* overwrites it in another, whatever the phase is by then.                *)
(***************************************************************************)
EXTENDS Integers, FiniteSets, Sequences

CONSTANTS
    NumBatches, NumRounds,  \* batches of the event, MAX_ROUNDS
    StartTime, EndTime,     \* batch.start_time, batch.end_time
    NoBatch,
    Punctual,               \* clients keep to the rounds they are told of
    MaxTime,                \* bound on the clock
    MaxSubmissions,         \* bound on the submissions
    MaxCrashes, MaxFaults,  \* bounds on crashes and on failing statements
    MaxStaleReads           \* bound on answers of the cache that are out of date

Batch == 1..NumBatches
Round == 1..NumRounds

ASSUME CycleAssumption ==
    /\ NumBatches \in Nat /\ NumRounds \in Nat \ {0}
    /\ StartTime \in [Batch -> Nat] /\ EndTime \in [Batch -> Nat]
    /\ \A b \in Batch : StartTime[b] < EndTime[b]
    /\ NoBatch \notin Batch /\ Punctual \in BOOLEAN
    /\ MaxTime \in Nat /\ MaxSubmissions \in Nat /\ MaxCrashes \in Nat /\ MaxFaults \in Nat
    /\ MaxStaleReads \in Nat

VARIABLES
    \* The database
    batch_status,   \* batch.status
    phase,          \* allocation_event.status
    phases,         \* the values it has had since the lobby (history)
    pending,        \* submissions of a batch and round with is_processed = false
    processed,      \* batches and rounds with a submission that is processed
    evaluations,    \* rollover evaluations so far: the batch, and the batch it rolls over to
    \* The process
    startTimer, endTimer,  \* armed timers of batchScheduler
    cycle,          \* _state of roundScheduler; the freeze timer is armed unless frozen
    executing,      \* executeRound of a batch
    starting,       \* startBatch of a batch
    ending,         \* endBatch of a batch
    boot,           \* recoverOnBoot, or "running" once it is over
    \* The environment
    now, submissions, crashes, faults, staleReads

eventVars == <<phase, phases>>
databaseVars == <<batch_status, eventVars, pending, processed, evaluations>>
timerVars == <<startTimer, endTimer>>
roundVars == <<cycle, executing>>
batchVars == <<starting, ending>>
countVars == <<submissions, crashes, faults, staleReads>>
vars == <<databaseVars, timerVars, roundVars, batchVars, boot, now, countVars>>

-----------------------------------------------------------------------------
NoCycle == [round |-> 0, frozen |-> TRUE, started |-> 0]
NotExecuting == [pc |-> "idle", round |-> 0, started |-> 0, left |-> 0]
NotEnding == [pc |-> "idle", queued |-> NoBatch]
Down == [pc |-> "down", todo |-> {}, batch |-> NoBatch, next |-> 0, current |-> 0]
Running == [Down EXCEPT !.pc = "running"]

ValidTransitions ==
    [ADMIN_MODE |-> {"LOBBY"},
     LOBBY |-> {"SOFT_LOCK", "ADMIN_MODE"},
     SOFT_LOCK |-> {"LIVE_BATCHES", "LOBBY", "ADMIN_MODE"},
     LIVE_BATCHES |-> {"FINAL_SWEEP", "ADMIN_MODE"},
     FINAL_SWEEP |-> {"ADMIN_MODE"}]

\* getCurrentPhase: the row or, until the cache forgets it, a phase the event has left.
ReadPhase(seen) ==
    /\ seen \in phases
    /\ seen # phase => staleReads < MaxStaleReads
    /\ staleReads' = IF seen = phase THEN staleReads ELSE staleReads + 1

\* The UPDATE of setCurrentPhase, without a condition on the phase.
WritePhase(target) ==
    phase' = target /\ phases' = phases \cup {target}

Alive == boot.pc # "down"

\* The first PENDING batch after b.
NextPending(b) ==
    LET later == {c \in Batch : c > b /\ batch_status[c] = "PENDING"} IN
    IF later = {} THEN NoBatch ELSE CHOOSE c \in later : \A d \in later : c <= d

\* setCurrentPhase has just entered SOFT_LOCK: assignGroupsToBatches has created the
\* batches and scheduleBatch has armed the start timer of each.
Init ==
    /\ batch_status = [b \in Batch |-> "PENDING"]
    /\ phase = "SOFT_LOCK" /\ phases = {"LOBBY", "SOFT_LOCK"}
    /\ pending = [x \in Batch \X Round |-> 0]
    /\ processed = {}
    /\ evaluations = <<>>
    /\ startTimer = Batch /\ endTimer = {}
    /\ cycle = [b \in Batch |-> NoCycle]
    /\ executing = [b \in Batch |-> NotExecuting]
    /\ starting = [b \in Batch |-> "idle"]
    /\ ending = [b \in Batch |-> NotEnding]
    /\ boot = Running
    /\ now = 0 /\ submissions = 0 /\ crashes = 0 /\ faults = 0 /\ staleReads = 0

-----------------------------------------------------------------------------
(* startBatch                                                              *)

\* Faulty variant: the status of the batch is not looked at.
StartBatchAnyway(b) ==
    /\ b \in startTimer /\ StartTime[b] <= now
    /\ startTimer' = startTimer \ {b}
    /\ batch_status' = [batch_status EXCEPT ![b] = "ACTIVE"]
    /\ starting' = [starting EXCEPT ![b] = "phase"]
    /\ UNCHANGED <<eventVars, pending, processed, evaluations, endTimer, roundVars, ending,
                   boot, now, countVars>>

\* The start timer fires; only a PENDING batch is activated.
StartBatch(b) ==
    /\ b \in startTimer /\ StartTime[b] <= now
    /\ startTimer' = startTimer \ {b}
    /\ IF batch_status[b] = "PENDING"
       THEN /\ batch_status' = [batch_status EXCEPT ![b] = "ACTIVE"]
            /\ starting' = [starting EXCEPT ![b] = "phase"]
       ELSE UNCHANGED <<batch_status, starting>>
    /\ UNCHANGED <<eventVars, pending, processed, evaluations, endTimer, roundVars, ending,
                   boot, now, countVars>>

\* After the hard lock of the groups, transitionSystemPhase: it returns when the event has
\* the phase, and logs and swallows a transition that is not valid from what it read ...
AllowLiveBatches(b) ==
    /\ starting[b] = "phase"
    /\ \E seen \in phases :
          /\ ReadPhase(seen)
          /\ starting' = [starting EXCEPT ![b] =
                IF phase # "LIVE_BATCHES" /\ "LIVE_BATCHES" \in ValidTransitions[seen]
                THEN "update" ELSE "cycle"]
    /\ UNCHANGED <<databaseVars, timerVars, roundVars, ending, boot, now, submissions,
                   crashes, faults>>

\* ... and one that is valid overwrites whatever the phase is now.
OpenLiveBatches(b) ==
    /\ starting[b] = "update"
    /\ WritePhase("LIVE_BATCHES")
    /\ starting' = [starting EXCEPT ![b] = "cycle"]
    /\ UNCHANGED <<batch_status, pending, processed, evaluations, timerVars, roundVars,
                   ending, boot, now, countVars>>

\* The end timer is armed and the cycle begins in one go, anchored at the clock.
StartRoundCycle(b) ==
    /\ starting[b] = "cycle"
    /\ endTimer' = endTimer \cup {b}
    /\ cycle' = [cycle EXCEPT ![b] = [round |-> 1, frozen |-> FALSE, started |-> now]]
    /\ starting' = [starting EXCEPT ![b] = "idle"]
    /\ UNCHANGED <<databaseVars, startTimer, executing, ending, boot, now, countVars>>

\* The timer is spent and the batch stays PENDING; or the hard lock fails, and startBatch
\* is abandoned with the batch ACTIVE; or the phase stays as it is, which is swallowed.
StartFails(b) ==
    /\ faults < MaxFaults
    /\ faults' = faults + 1
    /\ \/ /\ b \in startTimer /\ StartTime[b] <= now
          /\ startTimer' = startTimer \ {b} /\ UNCHANGED starting
       \/ /\ starting[b] = "phase" /\ starting' = [starting EXCEPT ![b] = "idle"]
          /\ UNCHANGED startTimer
       \/ /\ starting[b] \in {"phase", "update"}
          /\ starting' = [starting EXCEPT ![b] = "cycle"] /\ UNCHANGED startTimer
    /\ UNCHANGED <<databaseVars, endTimer, roundVars, ending, boot, now, submissions,
                   crashes, staleReads>>

-----------------------------------------------------------------------------
(* Rounds                                                                  *)

\* submitPreferences checks the batch, not the round.  A punctual client submits only
\* between ROUND_OPENED and ROUND_FROZEN of the round.
Submit(b, k) ==
    /\ Alive /\ submissions < MaxSubmissions
    /\ batch_status[b] = "ACTIVE"
    /\ StartTime[b] <= now /\ now <= EndTime[b]
    /\ Punctual => cycle[b].round = k /\ ~ cycle[b].frozen
    /\ pending' = [pending EXCEPT ![<<b, k>>] = @ + 1]
    /\ submissions' = submissions + 1
    /\ UNCHANGED <<batch_status, eventVars, processed, evaluations, timerVars, roundVars,
                   batchVars, boot, now, crashes, faults, staleReads>>

\* The freeze timer fires at its absolute deadline.
FreezeRound(b) ==
    /\ ~ cycle[b].frozen
    /\ cycle[b].started + cycle[b].round <= now
    /\ cycle' = [cycle EXCEPT ![b].frozen = TRUE]
    /\ executing' = [executing EXCEPT ![b] =
          [pc |-> "fetch", round |-> cycle[b].round, started |-> cycle[b].started, left |-> 0]]
    /\ UNCHANGED <<databaseVars, timerVars, batchVars, boot, now, countVars>>

ExecuteBatchRound(b) ==
    /\ executing[b].pc = "fetch"
    /\ executing' = [executing EXCEPT ![b].pc = "process",
                                      ![b].left = pending[<<b, executing[b].round>>]]
    /\ UNCHANGED <<databaseVars, timerVars, cycle, batchVars, boot, now, countVars>>

ProcessSubmission(b) ==
    LET x == <<b, executing[b].round>> IN
    /\ executing[b].pc = "process" /\ executing[b].left > 0
    /\ pending' = [pending EXCEPT ![x] = @ - 1]
    /\ processed' = processed \cup {x}
    /\ executing' = [executing EXCEPT ![b].left = @ - 1]
    /\ UNCHANGED <<batch_status, eventVars, evaluations, timerVars, cycle, batchVars, boot, now,
                   countVars>>

\* Faulty variant: the last round is followed by another one.
AdvancePastLastRound(b) ==
    /\ UNCHANGED cycle
    /\ executing' = [executing EXCEPT ![b] =
          IF cycle[b] = NoCycle THEN NotExecuting ELSE [@ EXCEPT !.pc = "shatter"]]

\* After the last round the cycle is stopped; after another one it goes on after the
\* shatter check, unless it has been stopped meanwhile.
AdvanceRound(b) ==
    LET last == executing[b].round = NumRounds IN
    /\ cycle' = IF last THEN [cycle EXCEPT ![b] = NoCycle] ELSE cycle
    /\ executing' = [executing EXCEPT ![b] =
          IF last \/ cycle[b] = NoCycle THEN NotExecuting ELSE [@ EXCEPT !.pc = "shatter"]]

\* Faulty variant: the result of executeBatchRound is not awaited.
RoundNotAwaited(b) ==
    /\ executing[b].pc = "process"
    /\ AdvanceRound(b)
    /\ UNCHANGED <<databaseVars, timerVars, batchVars, boot, now, countVars>>

RoundExecuted(b) ==
    /\ executing[b].pc = "process" /\ executing[b].left = 0
    /\ AdvanceRound(b)
    /\ UNCHANGED <<databaseVars, timerVars, batchVars, boot, now, countVars>>

\* executeRound catches the error of executeBatchRound and goes on.
RoundFails(b) ==
    /\ faults < MaxFaults
    /\ executing[b].pc \in {"fetch", "process"}
    /\ faults' = faults + 1
    /\ AdvanceRound(b)
    /\ UNCHANGED <<databaseVars, timerVars, batchVars, boot, now, submissions,
                   crashes, staleReads>>

\* The state object that was looked up before the shatter check is stored again.
ReopenRound(b) ==
    /\ executing[b].pc = "shatter"
    /\ cycle' = [cycle EXCEPT ![b] = [round |-> executing[b].round + 1, frozen |-> FALSE,
                                      started |-> executing[b].started]]
    /\ executing' = [executing EXCEPT ![b] = NotExecuting]
    /\ UNCHANGED <<databaseVars, timerVars, batchVars, boot, now, countVars>>

-----------------------------------------------------------------------------
(* endBatch                                                                *)

\* Only an ACTIVE batch is closed.
CloseBatch(b) ==
    IF batch_status[b] = "ACTIVE"
    THEN /\ batch_status' = [batch_status EXCEPT ![b] = "COMPLETED"]
         /\ ending' = [ending EXCEPT ![b].pc = "stop"]
    ELSE UNCHANGED <<batch_status, ending>>

EndBatch(b) ==
    /\ b \in endTimer /\ EndTime[b] <= now
    /\ endTimer' = endTimer \ {b}
    /\ CloseBatch(b)
    /\ UNCHANGED <<eventVars, pending, processed, evaluations, startTimer, roundVars, starting,
                   boot, now, countVars>>

StopRoundCycle(b) ==
    /\ ending[b].pc = "stop"
    /\ startTimer' = startTimer \ {b} /\ endTimer' = endTimer \ {b}
    /\ cycle' = [cycle EXCEPT ![b] = NoCycle]
    /\ ending' = [ending EXCEPT ![b].pc = "evaluate"]
    /\ UNCHANGED <<databaseVars, executing, starting, boot, now, countVars>>

\* The rollover evaluation; the ghost penalty and the shatter check follow it.
RunPostBatchEvaluation(b) ==
    /\ ending[b].pc = "evaluate"
    /\ evaluations' = Append(evaluations, [batch |-> b, next |-> NextPending(b)])
    /\ ending' = [ending EXCEPT ![b].pc = "remaining"]
    /\ UNCHANGED <<batch_status, eventVars, pending, processed, timerVars, roundVars, starting,
                   boot, now, countVars>>

\* Faulty variant: batches that are running are not counted as remaining.
CheckPending(b) ==
    /\ ending[b].pc = "remaining"
    /\ ending' = [ending EXCEPT ![b].pc =
          IF \E c \in Batch : batch_status[c] = "PENDING" THEN "next" ELSE "sweep"]
    /\ UNCHANGED <<databaseVars, timerVars, roundVars, starting, boot, now, countVars>>

\* The final sweep is for the last batch only.
CheckRemaining(b) ==
    /\ ending[b].pc = "remaining"
    /\ ending' = [ending EXCEPT ![b].pc =
          IF \E c \in Batch : batch_status[c] \in {"PENDING", "ACTIVE"} THEN "next"
          ELSE "sweep"]
    /\ UNCHANGED <<databaseVars, timerVars, roundVars, starting, boot, now, countVars>>

\* The UPDATE fails: the timer is spent and the batch stays ACTIVE.
CloseFails(b) ==
    /\ faults < MaxFaults
    /\ b \in endTimer /\ EndTime[b] <= now
    /\ faults' = faults + 1
    /\ endTimer' = endTimer \ {b}
    /\ UNCHANGED <<databaseVars, startTimer, roundVars, batchVars, boot, now, submissions,
                   crashes, staleReads>>

\* The rollover evaluation fails, and the pipeline goes on; or the query for the batches
\* that remain does, and the sweep is passed over; or a change of phase, and it is
\* swallowed.
EvaluationFails(b) ==
    /\ faults < MaxFaults
    /\ faults' = faults + 1
    /\ \/ ending[b].pc = "evaluate" /\ ending' = [ending EXCEPT ![b].pc = "remaining"]
       \/ /\ ending[b].pc \in {"remaining", "admin"}
          /\ ending' = [ending EXCEPT ![b].pc = "next"]
       \/ ending[b].pc = "final" /\ ending' = [ending EXCEPT ![b] = NotEnding]
    /\ UNCHANGED <<databaseVars, timerVars, roundVars, starting, boot, now, submissions,
                   crashes, staleReads>>

\* activateNextBatch fails, and with it endBatch and a boot that waits for it: the server
\* goes on with the timers it has.
QueueFails(b) ==
    /\ faults < MaxFaults
    /\ ending[b].pc = "next"
    /\ faults' = faults + 1
    /\ ending' = [ending EXCEPT ![b] = NotEnding]
    /\ boot' = IF boot.pc = "closing" /\ boot.batch = b THEN Running ELSE boot
    /\ UNCHANGED <<databaseVars, timerVars, roundVars, starting, now, submissions,
                   crashes, staleReads>>

\* The sweep returns when there is nobody or nothing left to assign and fails otherwise,
\* and only then ADMIN_MODE is asked for ...
RunFinalSweep(b) ==
    /\ ending[b].pc = "sweep"
    /\ \/ ending' = [ending EXCEPT ![b].pc = "next"] /\ UNCHANGED staleReads
       \/ \E seen \in phases :
             /\ ReadPhase(seen)
             /\ ending' = [ending EXCEPT ![b].pc =
                   IF "ADMIN_MODE" \in ValidTransitions[seen] THEN "admin" ELSE "next"]
    /\ UNCHANGED <<databaseVars, timerVars, roundVars, starting, boot, now, submissions,
                   crashes, faults>>

\* ... and written.
EnterAdminMode(b) ==
    /\ ending[b].pc = "admin"
    /\ WritePhase("ADMIN_MODE")
    /\ ending' = [ending EXCEPT ![b].pc = "next"]
    /\ UNCHANGED <<batch_status, pending, processed, evaluations, timerVars, roundVars,
                   starting, boot, now, countVars>>

\* activateNextBatch: a query ...
FindNextBatch(b) ==
    /\ ending[b].pc = "next"
    /\ ending' = [ending EXCEPT ![b] = [pc |-> "queue", queued |-> NextPending(b)]]
    /\ UNCHANGED <<databaseVars, timerVars, roundVars, starting, boot, now, countVars>>

\* Faulty variant: the last batch leaves the event as it is.
QueueOnly(b) ==
    LET next == ending[b].queued IN
    /\ ending[b].pc = "queue"
    /\ ending' = [ending EXCEPT ![b] = NotEnding]
    /\ startTimer' = IF next # NoBatch THEN startTimer \cup {next} ELSE startTimer
    /\ UNCHANGED <<databaseVars, endTimer, roundVars, starting, boot, now, countVars>>

\* ... and the timer of the batch it returned, or else FINAL_SWEEP is asked for ...
QueueNextBatch(b) ==
    LET next == ending[b].queued IN
    /\ ending[b].pc = "queue"
    /\ \/ /\ next # NoBatch
          /\ startTimer' = startTimer \cup {next}
          /\ ending' = [ending EXCEPT ![b] = NotEnding]
          /\ UNCHANGED staleReads
       \/ /\ next = NoBatch
          /\ \E seen \in phases :
                /\ ReadPhase(seen)
                /\ ending' = [ending EXCEPT ![b] =
                      IF phase # "FINAL_SWEEP" /\ "FINAL_SWEEP" \in ValidTransitions[seen]
                      THEN [@ EXCEPT !.pc = "final"] ELSE NotEnding]
          /\ UNCHANGED startTimer
    /\ UNCHANGED <<databaseVars, endTimer, roundVars, starting, boot, now, submissions,
                   crashes, faults>>

\* ... and written, whatever the phase is now.
EnterFinalSweep(b) ==
    /\ ending[b].pc = "final"
    /\ WritePhase("FINAL_SWEEP")
    /\ ending' = [ending EXCEPT ![b] = NotEnding]
    /\ UNCHANGED <<batch_status, pending, processed, evaluations, timerVars, roundVars,
                   starting, boot, now, countVars>>

-----------------------------------------------------------------------------
(* Crash and recoverOnBoot                                                 *)

\* Nothing but the database survives.
Crash ==
    /\ Alive /\ crashes < MaxCrashes
    /\ crashes' = crashes + 1
    /\ boot' = Down
    /\ startTimer' = {} /\ endTimer' = {}
    /\ cycle' = [b \in Batch |-> NoCycle]
    /\ executing' = [b \in Batch |-> NotExecuting]
    /\ starting' = [b \in Batch |-> "idle"]
    /\ ending' = [b \in Batch |-> NotEnding]
    /\ UNCHANGED <<databaseVars, now, submissions, faults, staleReads>>

\* The list of ACTIVE batches is read once.
Boot ==
    /\ boot.pc = "down"
    /\ boot' = [boot EXCEPT !.pc = "resume",
                            !.todo = {b \in Batch : batch_status[b] = "ACTIVE"}]
    /\ UNCHANGED <<databaseVars, timerVars, roundVars, batchVars, now, countVars>>

\* The round a batch is in, by the clock.
CurrentRound(b) == now - StartTime[b] + 1

\* Faulty variant: a batch counts as overdue once its last round is over.
CloseOverdueByRound(b) ==
    /\ boot.pc = "resume" /\ b \in boot.todo
    /\ CurrentRound(b) > NumRounds
    /\ CloseBatch(b)
    /\ boot' = [boot EXCEPT !.pc = "closing", !.batch = b]
    /\ UNCHANGED <<eventVars, pending, processed, evaluations, timerVars, roundVars, starting,
                   now, countVars>>

\* A batch that is overdue is closed, and boot waits for endBatch.
CloseOverdue(b) ==
    /\ boot.pc = "resume" /\ b \in boot.todo
    /\ EndTime[b] <= now
    /\ CloseBatch(b)
    /\ boot' = [boot EXCEPT !.pc = "closing", !.batch = b]
    /\ UNCHANGED <<eventVars, pending, processed, evaluations, timerVars, roundVars, starting,
                   now, countVars>>

OverdueClosed(b) ==
    /\ boot.pc = "closing" /\ boot.batch = b /\ ending[b].pc = "idle"
    /\ boot' = [boot EXCEPT !.pc = "resume", !.todo = @ \ {b}, !.batch = NoBatch]
    /\ UNCHANGED <<databaseVars, timerVars, roundVars, batchVars, now, countVars>>

\* Faulty variant: a batch past its last round is taken to be done with.
ResumeRoundsOnly(b) ==
    /\ boot.pc = "resume" /\ b \in boot.todo
    /\ now < EndTime[b]
    /\ IF CurrentRound(b) > NumRounds
       THEN boot' = [boot EXCEPT !.todo = @ \ {b}] /\ UNCHANGED endTimer
       ELSE /\ boot' = [boot EXCEPT !.pc = "rounds", !.batch = b, !.next = 1,
                                    !.current = CurrentRound(b)]
            /\ endTimer' = endTimer \cup {b}
    /\ UNCHANGED <<databaseVars, startTimer, roundVars, batchVars, now, countVars>>

\* Otherwise its end timer is armed and its rounds are looked at, unless it is past its
\* last round.
ResumeBatch(b) ==
    /\ boot.pc = "resume" /\ b \in boot.todo
    /\ now < EndTime[b]
    /\ endTimer' = endTimer \cup {b}
    /\ boot' = IF CurrentRound(b) > NumRounds
               THEN [boot EXCEPT !.todo = @ \ {b}]
               ELSE [boot EXCEPT !.pc = "rounds", !.batch = b, !.next = 1,
                                 !.current = CurrentRound(b)]
    /\ UNCHANGED <<databaseVars, startTimer, roundVars, batchVars, now, countVars>>

\* A round before the current one is executed now, unless one of its submissions was
\* processed.
RecoverRound(b) ==
    /\ boot.pc = "rounds" /\ boot.batch = b /\ executing[b].pc = "idle"
    /\ boot.next < boot.current
    /\ boot' = [boot EXCEPT !.next = @ + 1]
    /\ IF <<b, boot.next>> \in processed
       THEN UNCHANGED executing
       ELSE executing' = [executing EXCEPT ![b] =
               [pc |-> "fetch", round |-> boot.next, started |-> StartTime[b], left |-> 0]]
    /\ UNCHANGED <<databaseVars, timerVars, cycle, batchVars, now, countVars>>

RecoverCycle(b) ==
    /\ boot.pc = "rounds" /\ boot.batch = b /\ executing[b].pc = "idle"
    /\ boot.next = boot.current
    /\ cycle' = [cycle EXCEPT ![b] = [round |-> boot.current, frozen |-> FALSE,
                                      started |-> StartTime[b]]]
    /\ boot' = [Down EXCEPT !.pc = "resume", !.todo = boot.todo \ {b}]
    /\ UNCHANGED <<databaseVars, timerVars, executing, batchVars, now, countVars>>

\* At last the start timers of all PENDING batches are armed.
ArmPending ==
    /\ boot.pc = "resume" /\ boot.todo = {}
    /\ startTimer' = startTimer \cup {b \in Batch : batch_status[b] = "PENDING"}
    /\ boot' = Running
    /\ UNCHANGED <<databaseVars, endTimer, roundVars, batchVars, now, countVars>>

\* A query of recoverOnBoot fails: the server goes on with the timers it has.
BootFails ==
    /\ faults < MaxFaults
    /\ boot.pc \in {"down", "resume", "rounds"}
    /\ faults' = faults + 1
    /\ boot' = Running
    /\ UNCHANGED <<databaseVars, timerVars, roundVars, batchVars, now, submissions,
                   crashes, staleReads>>

-----------------------------------------------------------------------------
\* A timer that is due fires within the round: a round lasts ten minutes.
NoTimerDue ==
    /\ \A b \in startTimer : now < StartTime[b]
    /\ \A b \in endTimer : now < EndTime[b]
    /\ \A b \in Batch : cycle[b].frozen \/ now < cycle[b].started + cycle[b].round

Tick ==
    /\ now < MaxTime
    /\ NoTimerDue
    /\ now' = now + 1
    /\ UNCHANGED <<databaseVars, timerVars, roundVars, batchVars, boot, countVars>>

Start(b) ==
    StartBatch(b) \/ AllowLiveBatches(b) \/ OpenLiveBatches(b) \/ StartRoundCycle(b)

ExecuteRound(b) ==
    \/ FreezeRound(b) \/ ExecuteBatchRound(b) \/ ProcessSubmission(b)
    \/ RoundExecuted(b) \/ ReopenRound(b)

End(b) ==
    \/ EndBatch(b) \/ StopRoundCycle(b) \/ RunPostBatchEvaluation(b)
    \/ CheckRemaining(b) \/ RunFinalSweep(b) \/ EnterAdminMode(b)
    \/ FindNextBatch(b) \/ QueueNextBatch(b) \/ EnterFinalSweep(b)

Recover ==
    \/ Boot \/ ArmPending
    \/ \E b \in Batch : \/ CloseOverdue(b) \/ OverdueClosed(b) \/ ResumeBatch(b)
                        \/ RecoverRound(b) \/ RecoverCycle(b)

Schedule ==
    \/ \E b \in Batch : Start(b) \/ ExecuteRound(b) \/ End(b)
    \/ Crash \/ Recover \/ Tick
    \/ BootFails
    \/ \E b \in Batch : \/ StartFails(b) \/ RoundFails(b)
                        \/ CloseFails(b) \/ EvaluationFails(b) \/ QueueFails(b)

Next == Schedule \/ \E b \in Batch, k \in Round : Submit(b, k)

Spec == Init /\ [][Next]_vars

\* Handlers whose statements return go on, timers fire, a crashed server is restarted.
Fairness ==
    /\ \A b \in Batch : WF_vars(Start(b)) /\ WF_vars(ExecuteRound(b)) /\ WF_vars(End(b))
    /\ WF_vars(Recover)
    /\ WF_vars(Tick)

LiveSpec == Spec /\ Fairness

-----------------------------------------------------------------------------
(* Properties                                                              *)

Cycle == {NoCycle} \cup [round : Round, frozen : BOOLEAN, started : Nat]

Execution ==
    {NotExecuting} \cup
    [pc : {"fetch", "process", "shatter"}, round : Round, started : Nat, left : Nat]

Pipeline ==
    [pc : {"idle", "stop", "evaluate", "remaining", "sweep", "admin", "next", "queue",
           "final"},
     queued : Batch \cup {NoBatch}]

Recovery ==
    [pc : {"down", "resume", "closing", "rounds", "running"}, todo : SUBSET Batch,
     batch : Batch \cup {NoBatch}, next : 0..NumRounds, current : 0..NumRounds]

\* Every variable has its type.
TypeOK ==
    /\ batch_status \in [Batch -> {"PENDING", "ACTIVE", "COMPLETED"}]
    /\ phase \in phases /\ phases \subseteq DOMAIN ValidTransitions
    /\ pending \in [Batch \X Round -> Nat]
    /\ processed \subseteq Batch \X Round
    /\ evaluations \in Seq([batch : Batch, next : Batch \cup {NoBatch}])
    /\ startTimer \subseteq Batch /\ endTimer \subseteq Batch
    /\ cycle \in [Batch -> Cycle]
    /\ executing \in [Batch -> Execution]
    /\ starting \in [Batch -> {"idle", "phase", "update", "cycle"}]
    /\ ending \in [Batch -> Pipeline]
    /\ boot \in Recovery
    /\ now \in 0..MaxTime
    /\ submissions \in 0..MaxSubmissions
    /\ crashes \in 0..MaxCrashes /\ faults \in 0..MaxFaults
    /\ staleReads \in 0..MaxStaleReads

\* batchScheduler.js: timers are re-derived on startup.  Once recovery is over every
\* PENDING batch has its start timer, and every ACTIVE batch its end timer unless
\* startBatch is still under way, whatever has crashed before and unless a handler failed.
TimersMatchDatabase ==
    faults = 0 /\ boot.pc = "running" =>
        \A b \in Batch :
            /\ batch_status[b] = "PENDING" => b \in startTimer
            /\ batch_status[b] = "ACTIVE" => b \in endTimer \/ starting[b] # "idle"

\* A batch is evaluated once, although its start timer may be armed twice and both the
\* end timer and recovery may close it.
EvaluatedOnce ==
    \A i, j \in DOMAIN evaluations :
        evaluations[i].batch = evaluations[j].batch => i = j

\* The event goes to ADMIN_MODE only when every batch is COMPLETED.
AdminModeComesLast ==
    phase = "ADMIN_MODE" => \A b \in Batch : batch_status[b] = "COMPLETED"

\* When clients are punctual, no round fails and the server does not crash, a submission
\* is processed only after all submissions of the earlier rounds of its batch have been.
EarlierRoundsFirst ==
    [][Punctual /\ faults = 0 /\ crashes = 0 =>
          \A b \in Batch, k \in Round :
              pending'[<<b, k>>] < pending[<<b, k>>]
                  => \A j \in 1..(k - 1) : pending[<<b, j>>] = 0]_vars

\* Unless a statement fails, a batch that is open will be closed, even if the server
\* crashes in between.  (A failing statement spends the only timer: startBatch and endBatch
\* are not called again before the next restart.)
EveryBatchCloses ==
    [](faults = 0) =>
        \A b \in Batch : batch_status[b] = "ACTIVE" ~> batch_status[b] = "COMPLETED"

\* Unless the server crashes, a statement fails or the cache answers with a phase the event
\* has left, the event leaves LIVE_BATCHES for good, although overlapping starts and ends
\* overwrite each other's phase.
EventEnds ==
    [](crashes = 0 /\ faults = 0 /\ staleReads = 0)
        => <>[](phase \in {"FINAL_SWEEP", "ADMIN_MODE"})

\* What the schedulers promise (BatchTimetable).
Evaluated(b) == \E i \in DOMAIN evaluations : evaluations[i].batch = b

Stage ==
    [b \in Batch |-> CASE batch_status[b] = "PENDING" -> "waiting"
                       [] batch_status[b] = "ACTIVE" -> "open"
                       [] batch_status[b] = "COMPLETED" /\ Evaluated(b) -> "evaluated"
                       [] OTHER -> "closed"]

Timetable ==
    INSTANCE BatchTimetable WITH clock <- now, stage <- Stage,
                                 finished <- "ADMIN_MODE" \in phases

TimetableSpec == Timetable!Spec

-----------------------------------------------------------------------------
(* Claims of the comments that the code does not keep: see README.md       *)

\* roundScheduler.js: a batch of three rounds lasts three rounds, and its end timer
\* closes it after all rounds are complete.  When a batch is evaluated, no submission
\* that came in time is left over.
DecidedWhenEvaluated ==
    \A b \in Batch : Evaluated(b) /\ executing[b].pc = "idle" =>
        \A k \in Round : pending[<<b, k>>] = 0

\* rolloverEvaluator.js: failed groups are carried forward to the next batch; there is
\* none only after the last batch.
RollsOverToNextBatch ==
    \A i \in DOMAIN evaluations :
        evaluations[i].next = NoBatch => evaluations[i].batch = NumBatches

\* batchScheduler.js on recoverOnBoot: "a restart never loses work".  A batch that is
\* COMPLETED is evaluated.
RestartLosesNoEvaluation ==
    \A b \in Batch : batch_status[b] = "COMPLETED" ~> Evaluated(b)
=============================================================================
