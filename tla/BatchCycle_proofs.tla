------------------------- MODULE BatchCycle_proofs --------------------------
(***************************************************************************)
(* Proofs about BatchCycle: type correctness, a batch is evaluated once,   *)
(* the event is over only when every batch is, every batch has its timers  *)
(* again after a restart, no round overtakes an earlier one, and every     *)
(* step is a step or a stutter of BatchTimetable.                          *)
(***************************************************************************)
EXTENDS BatchCycle, WellFoundedInduction, TLAPS

-----------------------------------------------------------------------------
(* The inductive invariant                                                 *)

\* A round that is executed has been fetched completely, and is followed by another one
\* only if it is not the last.
ExecutionInv ==
    \A b \in Batch :
        /\ executing[b].pc = "process" =>
               executing[b].left <= pending[<<b, executing[b].round>>]
        /\ executing[b].pc = "shatter" => executing[b].round < NumRounds

\* A batch that is not PENDING has been opened in its time; one that is ending, or was
\* evaluated, is COMPLETED, and it is evaluated last.  All are when the sweep is due, while
\* ADMIN_MODE is being written, and ever after.
BatchInv ==
    \A b \in Batch :
        /\ batch_status[b] # "PENDING" => StartTime[b] <= now
        /\ ending[b].pc # "idle" \/ Evaluated(b) => batch_status[b] = "COMPLETED"
        /\ Evaluated(b) => ending[b].pc \notin {"stop", "evaluate"}
        /\ ending[b].pc \in {"sweep", "admin"} \/ "ADMIN_MODE" \in phases =>
               \A c \in Batch : batch_status[c] = "COMPLETED"

\* What recoverOnBoot works on: batches that were opened, and a current round that it has
\* not passed.
BootInv ==
    /\ \A b \in boot.todo : batch_status[b] # "PENDING"
    /\ boot.pc = "rounds" => boot.next \in Round /\ boot.current \in Round
                             /\ boot.next <= boot.current

Inv ==
    /\ TypeOK /\ ExecutionInv /\ BatchInv /\ BootInv
    /\ EvaluatedOnce /\ AdminModeComesLast

-----------------------------------------------------------------------------
(* Lemmas                                                                  *)

\* A non-empty set of naturals has a least element.
LEMMA LeastNatural ==
    ASSUME NEW T \in SUBSET Nat, T # {}
    PROVE  \E m \in T : \A n \in T : m <= n
<1>1. IsWellFoundedOn({p \in Nat \X Nat : p[1] < p[2]}, Nat)
  BY NatLessThanWellFounded, Zenon DEF OpToRel
<1>2. PICK less : less = {p \in Nat \X Nat : p[1] < p[2]} OBVIOUS
<1>3. PICK m \in T : \A n \in T : <<n, m>> \notin less BY <1>1, <1>2, WFMin
<1>4. \A n \in T : n < m => <<n, m>> \in less BY <1>2
<1>5. \A n \in T : ~ (n < m) BY <1>3, <1>4
<1>6. \A n \in T : m <= n BY <1>5
<1> QED BY <1>6

\* A batch that is found is a batch.
LEMMA NextPendingType ==
    ASSUME TypeOK, NEW b \in Batch
    PROVE  NextPending(b) \in Batch \cup {NoBatch}
<1> DEFINE later == {c \in Batch : c > b /\ batch_status[c] = "PENDING"}
<1>1. CASE later = {} BY <1>1 DEF NextPending
<1>2. CASE later # {}
  <2>1. later \in SUBSET Nat BY DEF Batch
  <2>2. PICK c \in later : \A d \in later : c <= d BY <1>2, <2>1, LeastNatural
  <2> QED BY <1>2, <2>2 DEF NextPending
<1> QED BY <1>1, <1>2

\* The UPDATE of a phase keeps the types of the event.
LEMMA WritePhaseType ==
    ASSUME TypeOK, NEW target \in {"LIVE_BATCHES", "FINAL_SWEEP", "ADMIN_MODE"},
           WritePhase(target)
    PROVE  phase' \in phases' /\ phases' \subseteq DOMAIN ValidTransitions
BY DEF TypeOK, WritePhase, ValidTransitions

\* A read of the phase is counted when it is out of date.
LEMMA ReadPhaseType ==
    ASSUME TypeOK, NEW seen \in phases, ReadPhase(seen)
    PROVE  staleReads' \in 0..MaxStaleReads
BY CycleAssumption DEF TypeOK, ReadPhase

-----------------------------------------------------------------------------
(* Type correctness                                                        *)

\* The states a handler starts and ends in.
LEMMA RestingStates ==
    /\ NoCycle \in Cycle /\ NotExecuting \in Execution /\ NotEnding \in Pipeline
    /\ Down \in Recovery /\ Running \in Recovery
    /\ NotExecuting.pc = "idle" /\ NotEnding.pc = "idle"
    /\ Down.pc = "down" /\ Running.pc = "running" /\ Down.todo = {} /\ Running.todo = {}
BY CycleAssumption
   DEF NoCycle, Cycle, NotExecuting, Execution, NotEnding, Pipeline, Down, Running, Recovery

RunningCycle == [round : Round, frozen : BOOLEAN, started : Nat]

\* A cycle whose round is open is not NoCycle.
LEMMA RunningCycleType ==
    ASSUME NEW c \in Cycle, ~ c.frozen
    PROVE  c \in RunningCycle
BY DEF Cycle, NoCycle, RunningCycle

BusyExecution ==
    [pc : {"fetch", "process", "shatter"}, round : Round, started : Nat, left : Nat]

\* Only an idle execution is without a round.
LEMMA BusyExecutionType ==
    ASSUME NEW x \in Execution, x.pc # "idle"
    PROVE  x \in BusyExecution
BY DEF Execution, NotExecuting, BusyExecution

\* advanceRound stops the cycle or waits for the shatter check.
LEMMA AdvanceRoundType ==
    ASSUME TypeOK, NEW b \in Batch, executing[b].pc \in {"fetch", "process"},
           AdvanceRound(b)
    PROVE  /\ cycle' \in [Batch -> Cycle] /\ executing' \in [Batch -> Execution]
           /\ \A c \in Batch : executing'[c].pc = "process" => executing'[c] = executing[c]
           /\ \A c \in Batch : executing'[c].pc = "shatter" =>
                  \/ executing'[c] = executing[c]
                  \/ executing'[c].round < NumRounds
<1> DEFINE shatter == [executing[b] EXCEPT !.pc = "shatter"]
           last == executing[b].round = NumRounds
<1>1. executing[b] \in BusyExecution BY BusyExecutionType DEF TypeOK
<1>2. shatter \in BusyExecution /\ shatter.pc = "shatter"
      /\ shatter.round = executing[b].round
  BY <1>1 DEF BusyExecution
<1>3. shatter \in Execution BY <1>2 DEF Execution, BusyExecution
<1>4. executing[b].round \in 1..NumRounds BY <1>1 DEF BusyExecution, Round
<1>5. \/ executing' = [executing EXCEPT ![b] = NotExecuting]
      \/ executing' = [executing EXCEPT ![b] = shatter] /\ ~ last
  BY DEF AdvanceRound
<1>6. cycle' \in [Batch -> Cycle] BY RestingStates DEF AdvanceRound, TypeOK
<1> HIDE DEF shatter
<1>7. CASE executing' = [executing EXCEPT ![b] = NotExecuting]
  BY <1>6, <1>7, RestingStates DEF TypeOK
<1>8. CASE executing' = [executing EXCEPT ![b] = shatter] /\ ~ last
  BY <1>2, <1>3, <1>4, <1>6, <1>8, CycleAssumption DEF TypeOK
<1> QED BY <1>5, <1>7, <1>8

\* endBatch leaves the batch, or completes it and begins its pipeline.
LEMMA CloseBatchType ==
    ASSUME TypeOK, NEW b \in Batch, CloseBatch(b)
    PROVE  /\ batch_status' \in [Batch -> {"PENDING", "ACTIVE", "COMPLETED"}]
           /\ ending' \in [Batch -> Pipeline]
<1>1. CASE batch_status[b] = "ACTIVE"
  <2>1. [ending EXCEPT ![b].pc = "stop"] \in [Batch -> Pipeline] BY DEF TypeOK, Pipeline
  <2>2. [batch_status EXCEPT ![b] = "COMPLETED"]
            \in [Batch -> {"PENDING", "ACTIVE", "COMPLETED"}]
    BY DEF TypeOK
  <2> QED BY <1>1, <2>1, <2>2 DEF CloseBatch
<1>2. CASE batch_status[b] # "ACTIVE" BY <1>2 DEF TypeOK, CloseBatch
<1> QED BY <1>1, <1>2

\* Initially the invariant holds.
LEMMA InitInv == Init => Inv
<1> SUFFICES ASSUME Init PROVE Inv OBVIOUS
<1> USE CycleAssumption
<1>1. TypeOK BY RestingStates DEF Init, TypeOK, ValidTransitions
<1>2. ExecutionInv BY RestingStates DEF Init, ExecutionInv
<1>3. BatchInv BY RestingStates DEF Init, BatchInv, Evaluated
<1>4. BootInv BY RestingStates DEF Init, BootInv
<1>5. EvaluatedOnce /\ AdminModeComesLast BY DEF Init, EvaluatedOnce, AdminModeComesLast
<1> QED BY <1>1, <1>2, <1>3, <1>4, <1>5 DEF Inv

\* Every step preserves the types.
LEMMA TypeStep == Inv /\ [Next]_vars => TypeOK'
<1> SUFFICES ASSUME Inv, [Next]_vars PROVE TypeOK' OBVIOUS
<1> USE DEF TypeOK, Inv, databaseVars, eventVars, timerVars, roundVars, batchVars, countVars
<1>1. CASE UNCHANGED vars BY <1>1 DEF vars
<1>2. ASSUME NEW b \in Batch, NEW k \in Round, Submit(b, k) PROVE TypeOK'
  BY <1>2, CycleAssumption DEF Submit
<1>3. ASSUME NEW b \in Batch, StartBatch(b) PROVE TypeOK'
  BY <1>3 DEF StartBatch
<1>4. ASSUME NEW b \in Batch, AllowLiveBatches(b) \/ OpenLiveBatches(b) PROVE TypeOK'
  <2>1. CASE AllowLiveBatches(b)
    <3>1. staleReads' \in 0..MaxStaleReads BY <2>1, ReadPhaseType DEF AllowLiveBatches
    <3>2. PICK pc \in {"update", "cycle"} : starting' = [starting EXCEPT ![b] = pc]
      BY <2>1 DEF AllowLiveBatches
    <3> QED BY <2>1, <3>1, <3>2 DEF AllowLiveBatches
  <2>2. CASE OpenLiveBatches(b) BY <2>2, WritePhaseType DEF OpenLiveBatches
  <2> QED BY <1>4, <2>1, <2>2
<1>5. ASSUME NEW b \in Batch, StartRoundCycle(b) PROVE TypeOK'
  BY <1>5, CycleAssumption DEF StartRoundCycle, Cycle, Round
<1>6. ASSUME NEW b \in Batch, StartFails(b) PROVE TypeOK'
  <2>1. faults' \in 0..MaxFaults BY <1>6, CycleAssumption DEF StartFails
  <2>2. /\ startTimer' \subseteq Batch
        /\ starting' \in [Batch -> {"idle", "phase", "update", "cycle"}]
    BY <1>6 DEF StartFails
  <2> QED BY <1>6, <2>1, <2>2 DEF StartFails
<1>7. ASSUME NEW b \in Batch, FreezeRound(b) PROVE TypeOK'
  <2>1. cycle[b] \in RunningCycle BY <1>7, RunningCycleType DEF FreezeRound
  <2>2. cycle' \in [Batch -> Cycle] BY <1>7, <2>1 DEF FreezeRound, Cycle, RunningCycle
  <2>3. executing' \in [Batch -> Execution]
    BY <1>7, <2>1 DEF FreezeRound, Execution, RunningCycle
  <2> QED BY <1>7, <2>2, <2>3 DEF FreezeRound
<1>8. ASSUME NEW b \in Batch, ExecuteBatchRound(b) PROVE TypeOK'
  <2>1. executing[b] \in BusyExecution BY <1>8, BusyExecutionType DEF ExecuteBatchRound
  <2>2. pending[<<b, executing[b].round>>] \in Nat BY <2>1 DEF BusyExecution
  <2>3. executing'[b] \in BusyExecution
    BY <1>8, <2>1, <2>2 DEF ExecuteBatchRound, BusyExecution
  <2>4. executing' \in [Batch -> Execution]
    BY <1>8, <2>3 DEF ExecuteBatchRound, Execution, BusyExecution
  <2> QED BY <1>8, <2>4 DEF ExecuteBatchRound
<1>9. ASSUME NEW b \in Batch, ProcessSubmission(b) PROVE TypeOK'
  <2> DEFINE x == <<b, executing[b].round>>
  <2>1. executing[b] \in BusyExecution BY <1>9, BusyExecutionType DEF ProcessSubmission
  <2>2. x \in Batch \X Round /\ executing[b].left \in Nat BY <2>1 DEF BusyExecution
  <2>3. pending[x] \in Nat /\ pending[x] > 0
    BY <1>9, <2>2 DEF ProcessSubmission, ExecutionInv
  <2>4. pending' \in [Batch \X Round -> Nat] /\ processed' \subseteq Batch \X Round
    BY <1>9, <2>2, <2>3 DEF ProcessSubmission
  <2>5. executing'[b] \in BusyExecution
    <3>1. executing'[b] = [executing[b] EXCEPT !.left = @ - 1]
          /\ executing[b].left - 1 \in Nat
      BY <1>9, <2>2 DEF ProcessSubmission
    <3> QED BY <2>1, <3>1 DEF BusyExecution
  <2>6. executing' \in [Batch -> Execution]
    BY <1>9, <2>5 DEF ProcessSubmission, Execution, BusyExecution
  <2> QED BY <1>9, <2>4, <2>6 DEF ProcessSubmission
<1>10. ASSUME NEW b \in Batch, RoundExecuted(b) PROVE TypeOK'
  <2>1. cycle' \in [Batch -> Cycle] /\ executing' \in [Batch -> Execution]
    BY <1>10, AdvanceRoundType DEF RoundExecuted
  <2> QED BY <1>10, <2>1 DEF RoundExecuted
<1>11. ASSUME NEW b \in Batch, RoundFails(b) PROVE TypeOK'
  <2>1. cycle' \in [Batch -> Cycle] /\ executing' \in [Batch -> Execution]
    BY <1>11, AdvanceRoundType DEF RoundFails
  <2> QED BY <1>11, <2>1, CycleAssumption DEF RoundFails
<1>12. ASSUME NEW b \in Batch, ReopenRound(b) PROVE TypeOK'
  <2>1. executing[b] \in BusyExecution BY <1>12, BusyExecutionType DEF ReopenRound
  <2>2. executing[b].round + 1 \in Round /\ executing[b].started \in Nat
    <3>1. executing[b].round < NumRounds BY <1>12 DEF ReopenRound, ExecutionInv
    <3> QED BY <2>1, <3>1, CycleAssumption DEF BusyExecution, Round
  <2>3. cycle' \in [Batch -> Cycle] BY <1>12, <2>2 DEF ReopenRound, Cycle
  <2>4. executing' \in [Batch -> Execution] BY <1>12, RestingStates DEF ReopenRound
  <2> QED BY <1>12, <2>3, <2>4 DEF ReopenRound
<1>13. ASSUME NEW b \in Batch, EndBatch(b) PROVE TypeOK'
  <2>1. batch_status' \in [Batch -> {"PENDING", "ACTIVE", "COMPLETED"}]
        /\ ending' \in [Batch -> Pipeline]
    BY <1>13, CloseBatchType DEF EndBatch
  <2> QED BY <1>13, <2>1 DEF EndBatch
<1>14. ASSUME NEW b \in Batch, StopRoundCycle(b) PROVE TypeOK'
  BY <1>14, RestingStates DEF StopRoundCycle, Pipeline
<1>15. ASSUME NEW b \in Batch, RunPostBatchEvaluation(b) PROVE TypeOK'
  <2>1. evaluations' \in Seq([batch : Batch, next : Batch \cup {NoBatch}])
    BY <1>15, NextPendingType DEF RunPostBatchEvaluation
  <2>2. ending' \in [Batch -> Pipeline] BY <1>15, ZenonT(40) DEF RunPostBatchEvaluation, Pipeline
  <2> QED BY <1>15, <2>1, <2>2 DEF RunPostBatchEvaluation
<1>16. ASSUME NEW b \in Batch, CheckRemaining(b) PROVE TypeOK'
  <2>1. PICK pc \in {"next", "sweep"} : ending' = [ending EXCEPT ![b].pc = pc]
    BY <1>16 DEF CheckRemaining
  <2>2. ending' \in [Batch -> Pipeline] BY <2>1, SMTT(30) DEF Pipeline
  <2> QED BY <1>16, <2>2 DEF CheckRemaining
<1>17. ASSUME NEW b \in Batch, EvaluationFails(b) PROVE TypeOK'
  <2>1. ending' \in [Batch -> Pipeline]
    <3>1. CASE ending' = [ending EXCEPT ![b].pc = "remaining"] BY <3>1 DEF Pipeline
    <3>2. CASE ending' = [ending EXCEPT ![b].pc = "next"] BY <3>2 DEF Pipeline
    <3>3. CASE ending' = [ending EXCEPT ![b] = NotEnding] BY <3>3, RestingStates
    <3> QED BY <1>17, <3>1, <3>2, <3>3 DEF EvaluationFails
  <2>2. faults' \in 0..MaxFaults BY <1>17, CycleAssumption DEF EvaluationFails
  <2> QED BY <1>17, <2>1, <2>2 DEF EvaluationFails
<1>18. ASSUME NEW b \in Batch, RunFinalSweep(b) \/ EnterAdminMode(b) PROVE TypeOK'
  <2>1. CASE RunFinalSweep(b)
    <3>1. staleReads' \in 0..MaxStaleReads BY <2>1, ReadPhaseType DEF RunFinalSweep
    <3>2. PICK pc \in {"admin", "next"} : ending' = [ending EXCEPT ![b].pc = pc]
      BY <2>1 DEF RunFinalSweep
    <3>3. ending' \in [Batch -> Pipeline] BY <3>2 DEF Pipeline
    <3> QED BY <2>1, <3>1, <3>3 DEF RunFinalSweep
  <2>2. CASE EnterAdminMode(b)
    <3>1. ending' = [ending EXCEPT ![b].pc = "next"] BY <2>2 DEF EnterAdminMode
    <3>2. ending' \in [Batch -> Pipeline] BY <3>1 DEF Pipeline
    <3> QED BY <2>2, <3>2, WritePhaseType DEF EnterAdminMode
  <2> QED BY <1>18, <2>1, <2>2
<1>19. ASSUME NEW b \in Batch, FindNextBatch(b) PROVE TypeOK'
  BY <1>19, NextPendingType DEF FindNextBatch, Pipeline
<1>20. ASSUME NEW b \in Batch, QueueNextBatch(b) \/ EnterFinalSweep(b) PROVE TypeOK'
  <2>1. CASE QueueNextBatch(b)
    <3> DEFINE last == [ending[b] EXCEPT !.pc = "final"]
    <3>1. staleReads' \in 0..MaxStaleReads BY <2>1, ReadPhaseType DEF QueueNextBatch
    <3>2. last \in Pipeline /\ ending[b].queued \in Batch \cup {NoBatch} BY DEF Pipeline
    <3>3. \/ ending' = [ending EXCEPT ![b] = NotEnding]
          \/ ending' = [ending EXCEPT ![b] = last]
      BY <2>1 DEF QueueNextBatch
    <3> HIDE DEF last
    <3>4. ending' \in [Batch -> Pipeline] BY <3>2, <3>3, RestingStates
    <3>5. startTimer' \subseteq Batch BY <2>1, <3>2 DEF QueueNextBatch
    <3> QED BY <2>1, <3>1, <3>4, <3>5 DEF QueueNextBatch
  <2>2. CASE EnterFinalSweep(b)
    BY <2>2, RestingStates, WritePhaseType DEF EnterFinalSweep
  <2> QED BY <1>20, <2>1, <2>2
<1>21. ASSUME NEW b \in Batch, CloseOverdue(b) PROVE TypeOK'
  <2>1. batch_status' \in [Batch -> {"PENDING", "ACTIVE", "COMPLETED"}]
        /\ ending' \in [Batch -> Pipeline]
    BY <1>21, CloseBatchType DEF CloseOverdue
  <2>2. boot' \in Recovery BY <1>21 DEF CloseOverdue, Recovery
  <2> QED BY <1>21, <2>1, <2>2 DEF CloseOverdue
<1>22. ASSUME NEW b \in Batch, OverdueClosed(b) PROVE TypeOK'
  BY <1>22 DEF OverdueClosed, Recovery
<1>23. ASSUME NEW b \in Batch, ResumeBatch(b) PROVE TypeOK'
  <2>1. CurrentRound(b) \in Nat \ {0}
    BY <1>23, CycleAssumption, SMTT(30) DEF ResumeBatch, CurrentRound, BootInv, BatchInv
  <2>2. boot' \in Recovery
    <3>1. CASE CurrentRound(b) > NumRounds BY <1>23, <3>1 DEF ResumeBatch, Recovery
    <3>2. CASE ~ (CurrentRound(b) > NumRounds)
      <4>1. CurrentRound(b) \in 0..NumRounds /\ 1 \in 0..NumRounds
        BY <2>1, <3>2, CycleAssumption
      <4>2. boot' = [boot EXCEPT !.pc = "rounds", !.batch = b, !.next = 1,
                                 !.current = CurrentRound(b)]
        BY <1>23, <3>2 DEF ResumeBatch
      <4> QED BY <4>1, <4>2 DEF Recovery
    <3> QED BY <3>1, <3>2
  <2> QED BY <1>23, <2>2 DEF ResumeBatch
<1>24. ASSUME NEW b \in Batch, RecoverRound(b) PROVE TypeOK'
  <2>1. boot.next \in Round /\ boot.current \in Round BY <1>24 DEF RecoverRound, BootInv
  <2>2. boot' \in Recovery
    <3>1. boot.next < boot.current BY <1>24 DEF RecoverRound
    <3>2. boot.next + 1 \in 0..NumRounds BY <2>1, <3>1, CycleAssumption DEF Round
    <3> QED BY <1>24, <3>2 DEF RecoverRound, Recovery
  <2>3. executing' \in [Batch -> Execution]
    <3> DEFINE x == [pc |-> "fetch", round |-> boot.next, started |-> StartTime[b],
                     left |-> 0]
    <3>1. x \in Execution BY <2>1, CycleAssumption DEF Execution
    <3>2. executing' = executing \/ executing' = [executing EXCEPT ![b] = x]
      BY <1>24 DEF RecoverRound
    <3> QED BY <3>1, <3>2
  <2> QED BY <1>24, <2>2, <2>3 DEF RecoverRound
<1>25. ASSUME NEW b \in Batch, RecoverCycle(b) PROVE TypeOK'
  BY <1>25, CycleAssumption, RestingStates DEF RecoverCycle, Recovery, BootInv, Cycle, Down
<1>26. CASE Crash BY <1>26, RestingStates, CycleAssumption DEF Crash
<1>27. CASE Boot BY <1>27 DEF Boot, Recovery
<1>28. CASE ArmPending BY <1>28, RestingStates DEF ArmPending
<1>29. CASE Tick BY <1>29, CycleAssumption DEF Tick
<1>30. ASSUME NEW b \in Batch, CloseFails(b) PROVE TypeOK'
  BY <1>30, CycleAssumption DEF CloseFails
<1>31. ASSUME NEW b \in Batch, QueueFails(b) PROVE TypeOK'
  <2>1. boot' \in Recovery BY <1>31, RestingStates DEF QueueFails
  <2> QED BY <1>31, <2>1, RestingStates, CycleAssumption DEF QueueFails
<1>32. CASE BootFails BY <1>32, RestingStates, CycleAssumption DEF BootFails
<1> QED
  BY <1>1, <1>2, <1>3, <1>4, <1>5, <1>6, <1>7, <1>8, <1>9, <1>10, <1>11, <1>12, <1>13,
     <1>14, <1>15, <1>16, <1>17, <1>18, <1>19, <1>20, <1>21, <1>22, <1>23, <1>24,
     <1>25, <1>26, <1>27, <1>28, <1>29, <1>30, <1>31, <1>32
     DEF Next, Schedule, Start, ExecuteRound, End, Recover

\* Every step preserves ExecutionInv.
LEMMA ExecutionStep == Inv /\ [Next]_vars => ExecutionInv'
<1> SUFFICES ASSUME Inv, [Next]_vars PROVE ExecutionInv' OBVIOUS
<1> USE DEF Inv, ExecutionInv, databaseVars, eventVars, timerVars, roundVars, batchVars,
            countVars
<1>1. CASE UNCHANGED <<executing, pending>> BY <1>1
<1>2. ASSUME NEW b \in Batch, NEW k \in Round, Submit(b, k) PROVE ExecutionInv'
  <2>1. pending \in [Batch \X Round -> Nat] /\ executing \in [Batch -> Execution]
    BY DEF TypeOK
  <2>2. executing' = executing /\ pending' = [pending EXCEPT ![<<b, k>>] = @ + 1]
    BY <1>2 DEF Submit
  <2> SUFFICES ASSUME NEW c \in Batch, executing[c].pc = "process"
               PROVE  executing[c].left <= pending'[<<c, executing[c].round>>]
    BY <2>2
  <2>3. executing[c] \in BusyExecution BY <2>1, BusyExecutionType
  <2>4. executing[c].left <= pending[<<c, executing[c].round>>] OBVIOUS
  <2> QED BY <2>1, <2>2, <2>3, <2>4 DEF BusyExecution
<1>3. ASSUME NEW b \in Batch, FreezeRound(b) PROVE ExecutionInv'
  BY <1>3 DEF FreezeRound, TypeOK
<1>4. ASSUME NEW b \in Batch, ExecuteBatchRound(b) PROVE ExecutionInv'
  <2> DEFINE x == [executing[b] EXCEPT !.pc = "process",
                                       !.left = pending[<<b, executing[b].round>>]]
  <2>1. executing[b] \in BusyExecution
    BY <1>4, BusyExecutionType DEF ExecuteBatchRound, TypeOK
  <2>2. pending[<<b, executing[b].round>>] \in Nat BY <2>1 DEF BusyExecution, TypeOK
  <2>3. x.pc = "process" /\ x.round = executing[b].round
        /\ x.left = pending[<<b, executing[b].round>>]
    BY <2>1 DEF BusyExecution
  <2>4. executing' = [executing EXCEPT ![b] = x] /\ pending' = pending
    BY <1>4, <2>1 DEF ExecuteBatchRound, TypeOK, BusyExecution
  <2> HIDE DEF x
  <2>5. executing \in [Batch -> Execution] BY DEF TypeOK
  <2>6. x.left <= pending'[<<b, x.round>>] BY <2>2, <2>3, <2>4
  <2>7. x.pc # "shatter" BY <2>3
  <2> QED BY <2>4, <2>5, <2>6, <2>7
<1>5. ASSUME NEW b \in Batch, ProcessSubmission(b) PROVE ExecutionInv'
  <2> DEFINE x == [executing[b] EXCEPT !.left = @ - 1]
             r == executing[b].round
  <2>1. executing[b] \in BusyExecution
    BY <1>5, BusyExecutionType DEF ProcessSubmission, TypeOK
  <2>2. x.pc = "process" /\ x.round = r /\ x.left = executing[b].left - 1
    BY <1>5, <2>1 DEF BusyExecution, ProcessSubmission
  <2>3. executing[b].left \in Nat /\ r \in Round BY <2>1 DEF BusyExecution
  <2>4. executing[b].left <= pending[<<b, r>>] BY <1>5 DEF ProcessSubmission
  <2>5. executing' = [executing EXCEPT ![b] = x]
        /\ pending' = [pending EXCEPT ![<<b, r>>] = @ - 1]
    BY <1>5 DEF ProcessSubmission
  <2>6. pending \in [Batch \X Round -> Nat] /\ executing \in [Batch -> Execution]
    BY DEF TypeOK
  <2> HIDE DEF x, r
  <2>7. ASSUME NEW c \in Batch, c # b, executing[c].pc = "process"
        PROVE  executing'[c].left <= pending'[<<c, executing'[c].round>>]
    BY <2>5, <2>6, <2>7
  <2>8. x.left <= pending'[<<b, x.round>>] BY <2>2, <2>3, <2>4, <2>5, <2>6
  <2> QED BY <2>2, <2>5, <2>6, <2>7, <2>8
<1>6. ASSUME NEW b \in Batch, RoundExecuted(b) PROVE ExecutionInv'
  BY <1>6, AdvanceRoundType DEF RoundExecuted
<1>7. ASSUME NEW b \in Batch, RoundFails(b) PROVE ExecutionInv'
  BY <1>7, AdvanceRoundType DEF RoundFails
<1>8. ASSUME NEW b \in Batch, ReopenRound(b) PROVE ExecutionInv'
  BY <1>8, RestingStates DEF ReopenRound, TypeOK
<1>9. ASSUME NEW b \in Batch, RecoverRound(b) PROVE ExecutionInv'
  <2> DEFINE x == [pc |-> "fetch", round |-> boot.next, started |-> StartTime[b],
                   left |-> 0]
  <2>1. executing' = executing \/ executing' = [executing EXCEPT ![b] = x]
    BY <1>9 DEF RecoverRound
  <2>2. pending' = pending BY <1>9 DEF RecoverRound
  <2>3. executing \in [Batch -> Execution] BY DEF TypeOK
  <2>4. x.pc = "fetch" OBVIOUS
  <2> HIDE DEF x
  <2> QED BY <2>1, <2>2, <2>3, <2>4
<1>10. CASE Crash BY <1>10, RestingStates DEF Crash
<1>11. ASSUME NEW b \in Batch,
              \/ Start(b) \/ StartFails(b) \/ End(b)
              \/ CloseFails(b) \/ EvaluationFails(b) \/ QueueFails(b)
              \/ CloseOverdue(b) \/ OverdueClosed(b) \/ ResumeBatch(b) \/ RecoverCycle(b)
       PROVE  ExecutionInv'
  BY <1>1, <1>11
     DEF Start, StartBatch, AllowLiveBatches, OpenLiveBatches, StartRoundCycle, StartFails,
         End, EndBatch, StopRoundCycle, RunPostBatchEvaluation, CheckRemaining, RunFinalSweep,
         EnterAdminMode, FindNextBatch, QueueNextBatch, EnterFinalSweep, CloseFails,
         EvaluationFails, QueueFails, CloseOverdue, OverdueClosed, ResumeBatch, RecoverCycle
<1>12. CASE Boot \/ BootFails \/ ArmPending \/ Tick \/ UNCHANGED vars
  BY <1>1, <1>12 DEF Boot, BootFails, ArmPending, Tick, vars
<1> QED
  BY <1>2, <1>3, <1>4, <1>5, <1>6, <1>7, <1>8, <1>9, <1>10, <1>11, <1>12
     DEF Next, Schedule, ExecuteRound, Recover

\* The rollover evaluation of a batch adds this batch to those that were evaluated.
LEMMA EvaluatedStep ==
    ASSUME TypeOK, NEW b \in Batch, RunPostBatchEvaluation(b)
    PROVE  /\ \A c \in Batch : Evaluated(c)' <=> Evaluated(c) \/ c = b
           /\ EvaluatedOnce /\ ~ Evaluated(b) => EvaluatedOnce'
<1> DEFINE e == [batch |-> b, next |-> NextPending(b)]
           n == Len(evaluations)
<1>1. evaluations' = Append(evaluations, e) BY DEF RunPostBatchEvaluation
<1>2. evaluations \in Seq([batch : Batch, next : Batch \cup {NoBatch}]) BY DEF TypeOK
<1>3. e \in [batch : Batch, next : Batch \cup {NoBatch}] BY NextPendingType
<1>4. n \in Nat /\ DOMAIN evaluations = 1..n /\ DOMAIN evaluations' = 1..(n + 1)
      /\ (\A i \in 1..n : evaluations'[i] = evaluations[i]) /\ evaluations'[n + 1] = e
  BY <1>1, <1>2, <1>3
<1>5. e.batch = b OBVIOUS
<1> HIDE DEF e, n
<1>6. \A i \in 1..(n + 1) : i \in 1..n \/ i = n + 1 BY <1>4
<1>7. 1..n \subseteq 1..(n + 1) /\ n + 1 \in 1..(n + 1) BY <1>4
<1>8. \A c \in Batch : Evaluated(c)' <=> Evaluated(c) \/ c = b
  BY <1>4, <1>5, <1>6, <1>7 DEF Evaluated
<1>9. EvaluatedOnce /\ ~ Evaluated(b) => EvaluatedOnce'
  BY <1>4, <1>5, <1>6 DEF EvaluatedOnce, Evaluated
<1> QED BY <1>8, <1>9

\* Every step preserves BatchInv, EvaluatedOnce and AdminModeComesLast.
LEMMA BatchStep ==
    Inv /\ [Next]_vars => BatchInv' /\ EvaluatedOnce' /\ AdminModeComesLast'
<1> DEFINE P == BatchInv /\ EvaluatedOnce /\ AdminModeComesLast
<1> SUFFICES ASSUME Inv, [Next]_vars PROVE P' OBVIOUS
<1> USE DEF Inv, databaseVars, eventVars, timerVars, roundVars, batchVars, countVars
<1>1. /\ batch_status \in [Batch -> {"PENDING", "ACTIVE", "COMPLETED"}]
      /\ ending \in [Batch -> Pipeline]
      /\ phase \in phases /\ now \in Nat
  BY CycleAssumption DEF TypeOK
<1>2. CASE UNCHANGED <<batch_status, ending, evaluations, eventVars, now>>
  BY <1>2 DEF BatchInv, EvaluatedOnce, AdminModeComesLast, Evaluated
<1>3. ASSUME NEW b \in Batch, StartBatch(b) PROVE P'
  <2>1. CASE batch_status[b] = "PENDING"
    BY <1>1, <1>3, <2>1
       DEF StartBatch, BatchInv, EvaluatedOnce, AdminModeComesLast, Evaluated
  <2>2. CASE batch_status[b] # "PENDING" BY <1>2, <1>3, <2>2 DEF StartBatch
  <2> QED BY <2>1, <2>2
<1>4. ASSUME NEW b \in Batch, CloseBatch(b), UNCHANGED <<evaluations, eventVars, now>> PROVE P'
  <2>1. CASE batch_status[b] = "ACTIVE"
    <3>1. ending' = [ending EXCEPT ![b].pc = "stop"] /\ ending'[b].pc = "stop"
      BY <1>1, <1>4, <2>1 DEF CloseBatch, Pipeline
    <3>2. batch_status' = [batch_status EXCEPT ![b] = "COMPLETED"]
      BY <1>4, <2>1 DEF CloseBatch
    <3> QED BY <1>1, <1>4, <2>1, <3>1, <3>2
            DEF BatchInv, EvaluatedOnce, AdminModeComesLast, Evaluated
  <2>2. CASE batch_status[b] # "ACTIVE" BY <1>2, <1>4, <2>2 DEF CloseBatch
  <2> QED BY <2>1, <2>2
<1>5. ASSUME NEW b \in Batch, RunPostBatchEvaluation(b) PROVE P'
  <2>1. \A c \in Batch : ending'[c].pc = IF c = b THEN "remaining" ELSE ending[c].pc
    BY <1>1, <1>5 DEF RunPostBatchEvaluation, Pipeline
  <2>2. batch_status[b] = "COMPLETED" /\ ~ Evaluated(b)
    BY <1>5 DEF RunPostBatchEvaluation, BatchInv
  <2>3. /\ \A c \in Batch : Evaluated(c)' <=> Evaluated(c) \/ c = b
        /\ EvaluatedOnce'
    BY <1>5, <2>2, EvaluatedStep
  <2>4. UNCHANGED <<batch_status, eventVars, now>> BY <1>5 DEF RunPostBatchEvaluation
  <2>5. BatchInv' BY <2>1, <2>2, <2>3, <2>4 DEF BatchInv
  <2>6. AdminModeComesLast' BY <2>4 DEF AdminModeComesLast
  <2> QED BY <2>3, <2>5, <2>6
\* The pipeline of b goes on behind its evaluation.
<1>6. ASSUME NEW b \in Batch, ending[b].pc # "idle",
             NEW p \in {"evaluate", "remaining", "sweep", "admin", "next", "queue", "final",
                        "idle"},
             ending[b].pc = "stop" \/ p # "evaluate",
             p \in {"sweep", "admin"} => \A c \in Batch : batch_status[c] = "COMPLETED",
             \A c \in Batch : ending'[c].pc = IF c = b THEN p ELSE ending[c].pc,
             UNCHANGED <<batch_status, evaluations, now>>,
             phase' \in phases' /\ phases' \subseteq phases \cup {phase'},
             phase' = "ADMIN_MODE" =>
                 "ADMIN_MODE" \in phases \/ ending[b].pc = "admin"
      PROVE  P'
  <2>1. "ADMIN_MODE" \in phases' => \A c \in Batch : batch_status[c] = "COMPLETED"
    BY <1>6 DEF BatchInv
  <2>2. AdminModeComesLast' BY <1>6, <2>1 DEF AdminModeComesLast
  <2>3. \A c \in Batch : Evaluated(c)' = Evaluated(c) BY <1>6 DEF Evaluated
  <2>4. BatchInv' BY <1>6, <2>1, <2>3 DEF BatchInv
  <2>5. EvaluatedOnce' BY <1>6 DEF EvaluatedOnce
  <2> QED BY <2>2, <2>4, <2>5
<1>7. ASSUME NEW b \in Batch, StopRoundCycle(b) PROVE P'
  <2>1. \A c \in Batch : ending'[c].pc = IF c = b THEN "evaluate" ELSE ending[c].pc
    BY <1>1, <1>7 DEF StopRoundCycle, Pipeline
  <2> QED BY <1>1, <1>6, <1>7, <2>1 DEF StopRoundCycle
<1>8. ASSUME NEW b \in Batch, CheckRemaining(b) PROVE P'
  <2>1. PICK p \in {"next", "sweep"} :
            /\ p = "sweep" => ~ \E c \in Batch : batch_status[c] \in {"PENDING", "ACTIVE"}
            /\ ending' = [ending EXCEPT ![b].pc = p]
    BY <1>8 DEF CheckRemaining
  <2>2. \A c \in Batch : ending'[c].pc = IF c = b THEN p ELSE ending[c].pc
    BY <1>1, <2>1 DEF Pipeline
  <2>3. p = "sweep" => \A c \in Batch : batch_status[c] = "COMPLETED" BY <1>1, <2>1
  <2>4. UNCHANGED <<batch_status, evaluations, eventVars, now>> /\ ending[b].pc = "remaining"
    BY <1>8 DEF CheckRemaining, databaseVars
  <2>5. phase' \in phases' /\ phases' \subseteq phases \cup {phase'}
    BY <1>1, <2>4 DEF eventVars
  <2>6. phase' = "ADMIN_MODE" => "ADMIN_MODE" \in phases
    BY <1>1, <2>4 DEF eventVars
  <2> QED BY <1>6, <2>2, <2>3, <2>4, <2>5, <2>6
<1>9. ASSUME NEW b \in Batch, EvaluationFails(b) \/ QueueFails(b) PROVE P'
  <2>1. UNCHANGED <<batch_status, evaluations, eventVars, now>> /\ ending[b].pc # "idle"
    BY <1>9 DEF EvaluationFails, QueueFails
  <2>2. CASE ending' = [ending EXCEPT ![b] = NotEnding]
    <3>1. \A c \in Batch : ending'[c].pc = IF c = b THEN "idle" ELSE ending[c].pc
      BY <1>1, <2>2, RestingStates
    <3> QED BY <1>1, <1>6, <2>1, <3>1
  <2>3. ASSUME NEW p \in {"next", "remaining"}, ending' = [ending EXCEPT ![b].pc = p]
        PROVE  P'
    <3>1. \A c \in Batch : ending'[c].pc = IF c = b THEN p ELSE ending[c].pc
      BY <1>1, <2>3 DEF Pipeline
    <3> QED BY <1>1, <1>6, <2>1, <3>1
  <2>4. \/ ending' = [ending EXCEPT ![b] = NotEnding]
        \/ \E p \in {"next", "remaining"} : ending' = [ending EXCEPT ![b].pc = p]
    BY <1>9 DEF EvaluationFails, QueueFails
  <2> HIDE DEF P
  <2> QED BY <2>2, <2>3, <2>4
<1>10. ASSUME NEW b \in Batch, RunFinalSweep(b) PROVE P'
  <2>1. PICK p \in {"admin", "next"} : ending' = [ending EXCEPT ![b].pc = p]
    BY <1>10 DEF RunFinalSweep
  <2>2. \A c \in Batch : ending'[c].pc = IF c = b THEN p ELSE ending[c].pc
    BY <1>1, <2>1 DEF Pipeline
  <2>3. \A c \in Batch : batch_status[c] = "COMPLETED" BY <1>10 DEF RunFinalSweep, BatchInv
  <2> QED BY <1>1, <1>6, <1>10, <2>2, <2>3 DEF RunFinalSweep
<1>19. ASSUME NEW b \in Batch, EnterAdminMode(b) PROVE P'
  <2>1. \A c \in Batch : ending'[c].pc = IF c = b THEN "next" ELSE ending[c].pc
    BY <1>1, <1>19 DEF EnterAdminMode, Pipeline
  <2>2. phase' \in phases' /\ phases' \subseteq phases \cup {phase'}
    BY <1>19 DEF EnterAdminMode, WritePhase
  <2> QED BY <1>6, <1>19, <2>1, <2>2 DEF EnterAdminMode
<1>11. ASSUME NEW b \in Batch, FindNextBatch(b) PROVE P'
  <2>1. \A c \in Batch : ending'[c].pc = IF c = b THEN "queue" ELSE ending[c].pc
    BY <1>1, <1>11 DEF FindNextBatch
  <2> QED BY <1>1, <1>6, <1>11, <2>1 DEF FindNextBatch
<1>12. ASSUME NEW b \in Batch, QueueNextBatch(b) PROVE P'
  <2>1. PICK p \in {"final", "idle"} :
            \A c \in Batch : ending'[c].pc = IF c = b THEN p ELSE ending[c].pc
    <3>1. CASE ending' = [ending EXCEPT ![b] = NotEnding]
      <4>1. \A c \in Batch : ending'[c].pc = IF c = b THEN "idle" ELSE ending[c].pc
        BY <1>1, <3>1, RestingStates
      <4> QED BY <4>1
    <3>2. CASE ending' = [ending EXCEPT ![b] = [@ EXCEPT !.pc = "final"]]
      <4>1. \A c \in Batch : ending'[c].pc = IF c = b THEN "final" ELSE ending[c].pc
        BY <1>1, <3>2 DEF Pipeline
      <4> QED BY <4>1
    <3> QED BY <1>12, <3>1, <3>2 DEF QueueNextBatch
  <2>2. UNCHANGED <<batch_status, evaluations, eventVars, now>> /\ ending[b].pc # "idle"
    BY <1>12 DEF QueueNextBatch
  <2> QED BY <1>1, <1>6, <2>1, <2>2
<1>20. ASSUME NEW b \in Batch, EnterFinalSweep(b) PROVE P'
  <2>1. \A c \in Batch : ending'[c].pc = IF c = b THEN "idle" ELSE ending[c].pc
    BY <1>1, <1>20, RestingStates DEF EnterFinalSweep
  <2>2. phase' = "FINAL_SWEEP" /\ phases' = phases \cup {"FINAL_SWEEP"}
    BY <1>20 DEF EnterFinalSweep, WritePhase
  <2> QED BY <1>6, <1>20, <2>1, <2>2 DEF EnterFinalSweep
<1>13. ASSUME NEW b \in Batch, OpenLiveBatches(b) PROVE P'
  <2>1. phase' = "LIVE_BATCHES" /\ phases' = phases \cup {"LIVE_BATCHES"}
    BY <1>13 DEF OpenLiveBatches, WritePhase
  <2> QED BY <1>13, <2>1
          DEF OpenLiveBatches, BatchInv, EvaluatedOnce, AdminModeComesLast, Evaluated
<1>14. CASE Crash
  BY <1>14, RestingStates DEF Crash, BatchInv, EvaluatedOnce, AdminModeComesLast, Evaluated
<1>15. CASE Tick
  BY <1>1, <1>15, CycleAssumption
     DEF Tick, BatchInv, EvaluatedOnce, AdminModeComesLast, Evaluated
<1>16. ASSUME NEW b \in Batch,
              \/ AllowLiveBatches(b) \/ StartRoundCycle(b) \/ StartFails(b) \/ CloseFails(b)
              \/ ExecuteRound(b) \/ RoundFails(b)
              \/ OverdueClosed(b) \/ ResumeBatch(b) \/ RecoverRound(b) \/ RecoverCycle(b)
              \/ \E k \in Round : Submit(b, k)
       PROVE  P'
  BY <1>2, <1>16
     DEF AllowLiveBatches, StartRoundCycle, StartFails, CloseFails, ExecuteRound,
         FreezeRound, ExecuteBatchRound,
         ProcessSubmission, RoundExecuted, ReopenRound, RoundFails, OverdueClosed,
         ResumeBatch, RecoverRound, RecoverCycle, Submit
<1>17. CASE Boot \/ BootFails \/ ArmPending \/ UNCHANGED vars
  BY <1>2, <1>17 DEF Boot, BootFails, ArmPending, vars
<1>18. ASSUME NEW b \in Batch, EndBatch(b) \/ CloseOverdue(b) PROVE P'
  BY <1>4, <1>18 DEF EndBatch, CloseOverdue
<1> HIDE DEF P
<1> QED
  BY <1>3, <1>5, <1>7, <1>8, <1>9, <1>10, <1>11, <1>12, <1>13, <1>14, <1>15, <1>16, <1>17,
     <1>18, <1>19, <1>20
     DEF Next, Schedule, Start, End, Recover

\* Every step preserves BootInv.
LEMMA BootStep == Inv /\ [Next]_vars => BootInv'
<1> SUFFICES ASSUME Inv, [Next]_vars PROVE BootInv' OBVIOUS
<1> USE DEF Inv, databaseVars, eventVars, timerVars, roundVars, batchVars, countVars
<1>1. /\ batch_status \in [Batch -> {"PENDING", "ACTIVE", "COMPLETED"}]
      /\ boot \in Recovery
  BY DEF TypeOK
<1>2. CASE UNCHANGED <<batch_status, boot>> BY <1>2 DEF BootInv
<1>3. ASSUME NEW b \in Batch, StartBatch(b) PROVE BootInv'
  BY <1>1, <1>3 DEF StartBatch, BootInv, Recovery
<1>4. ASSUME NEW b \in Batch, EndBatch(b) PROVE BootInv'
  BY <1>1, <1>4 DEF EndBatch, CloseBatch, BootInv, Recovery
<1>5. ASSUME NEW b \in Batch, CloseOverdue(b) PROVE BootInv'
  <2>1. boot'.todo = boot.todo /\ boot'.pc = "closing"
    BY <1>1, <1>5 DEF CloseOverdue, Recovery
  <2> QED BY <1>1, <1>5, <2>1 DEF CloseOverdue, CloseBatch, BootInv, Recovery
<1>6. ASSUME NEW b \in Batch, OverdueClosed(b) PROVE BootInv'
  <2>1. boot'.todo \subseteq boot.todo /\ boot'.pc = "resume"
    BY <1>1, <1>6 DEF OverdueClosed, Recovery
  <2> QED BY <1>6, <2>1 DEF OverdueClosed, BootInv
<1>7. ASSUME NEW b \in Batch, ResumeBatch(b) PROVE BootInv'
  <2>1. CurrentRound(b) \in Nat \ {0}
    BY <1>7, CycleAssumption, SMTT(30) DEF ResumeBatch, CurrentRound, BootInv, BatchInv, TypeOK
  <2>2. CASE CurrentRound(b) > NumRounds
    <3>1. boot'.todo \subseteq boot.todo /\ boot'.pc = "resume"
      BY <1>1, <1>7, <2>2 DEF ResumeBatch, Recovery
    <3> QED BY <1>7, <3>1 DEF ResumeBatch, BootInv
  <2>3. CASE ~ (CurrentRound(b) > NumRounds)
    <3>1. boot'.todo = boot.todo /\ boot'.next = 1 /\ boot'.current = CurrentRound(b)
      BY <1>1, <1>7, <2>3 DEF ResumeBatch, Recovery
    <3> QED BY <1>7, <2>1, <2>3, <3>1, CycleAssumption DEF ResumeBatch, BootInv, Round
  <2> QED BY <2>2, <2>3
<1>8. ASSUME NEW b \in Batch, RecoverRound(b) PROVE BootInv'
  <2>1. boot'.todo = boot.todo /\ boot'.next = boot.next + 1 /\ boot'.current = boot.current
    BY <1>1, <1>8 DEF RecoverRound, Recovery
  <2>2. boot.next \in Round /\ boot.current \in Round /\ boot.next < boot.current
    BY <1>8 DEF RecoverRound, BootInv
  <2>3. boot.next + 1 \in Round /\ boot.next + 1 <= boot.current
    BY <2>2, CycleAssumption DEF Round
  <2> QED BY <1>8, <2>1, <2>2, <2>3 DEF RecoverRound, BootInv
<1>9. ASSUME NEW b \in Batch, RecoverCycle(b) PROVE BootInv'
  <2>1. boot'.todo \subseteq boot.todo /\ boot'.pc = "resume"
    BY <1>9 DEF RecoverCycle, Down
  <2> QED BY <1>9, <2>1 DEF RecoverCycle, BootInv
<1>10. CASE Crash BY <1>10, RestingStates DEF Crash, BootInv
<1>11. CASE Boot
  <2>1. boot'.todo = {b \in Batch : batch_status[b] = "ACTIVE"} /\ boot'.pc = "resume"
    BY <1>1, <1>11 DEF Boot, Recovery
  <2> QED BY <1>11, <2>1 DEF Boot, BootInv
<1>12. CASE ArmPending BY <1>12, RestingStates DEF ArmPending, BootInv
<1>13. ASSUME NEW b \in Batch,
              \/ AllowLiveBatches(b) \/ OpenLiveBatches(b) \/ StartRoundCycle(b)
              \/ StartFails(b) \/ ExecuteRound(b) \/ RoundFails(b)
              \/ CloseFails(b) \/ EvaluationFails(b)
              \/ StopRoundCycle(b) \/ RunPostBatchEvaluation(b) \/ CheckRemaining(b)
              \/ RunFinalSweep(b) \/ EnterAdminMode(b)
              \/ FindNextBatch(b) \/ QueueNextBatch(b) \/ EnterFinalSweep(b)
              \/ \E k \in Round : Submit(b, k)
       PROVE  BootInv'
  BY <1>2, <1>13
     DEF AllowLiveBatches, OpenLiveBatches, StartRoundCycle, StartFails, ExecuteRound,
         FreezeRound, ExecuteBatchRound, ProcessSubmission, RoundExecuted, ReopenRound,
         RoundFails, CloseFails, EvaluationFails, StopRoundCycle, RunPostBatchEvaluation,
         CheckRemaining, RunFinalSweep, EnterAdminMode, FindNextBatch, QueueNextBatch,
         EnterFinalSweep, Submit
<1>14. CASE Tick \/ UNCHANGED vars BY <1>2, <1>14 DEF Tick, vars
<1>15. ASSUME NEW b \in Batch, QueueFails(b) PROVE BootInv'
  <2>1. boot' \in {boot, Running} /\ UNCHANGED batch_status
    BY <1>15 DEF QueueFails
  <2>2. CASE boot' = Running BY <2>1, <2>2, RestingStates DEF BootInv
  <2>3. CASE boot' = boot BY <1>2, <2>1, <2>3
  <2> QED BY <2>1, <2>2, <2>3
<1>16. CASE BootFails BY <1>16, RestingStates DEF BootFails, BootInv
<1> QED
  BY <1>3, <1>4, <1>5, <1>6, <1>7, <1>8, <1>9, <1>10, <1>11, <1>12, <1>13, <1>14, <1>15,
     <1>16
     DEF Next, Schedule, Start, End, Recover

-----------------------------------------------------------------------------
(* Invariants of the schedulers                                            *)

\* The inductive invariant holds in every reachable state.
THEOREM InvCorrect == Spec => []Inv
<1>1. Inv /\ [Next]_vars => Inv'
  BY TypeStep, ExecutionStep, BatchStep, BootStep DEF Inv
<1> QED BY InitInv, <1>1, PTL DEF Spec

\* Every variable of BatchCycle has its type.
THEOREM TypeCorrect == Spec => []TypeOK
<1>1. Inv => TypeOK BY DEF Inv
<1> QED BY InvCorrect, <1>1, PTL

\* A batch is evaluated at most once, however its timers and recovery interleave.
THEOREM BatchEvaluatedOnce == Spec => []EvaluatedOnce
<1>1. Inv => EvaluatedOnce BY DEF Inv
<1> QED BY InvCorrect, <1>1, PTL

\* The event is in ADMIN_MODE only when all batches are COMPLETED.
THEOREM AdminModeAfterAllBatches == Spec => []AdminModeComesLast
<1>1. Inv => AdminModeComesLast BY DEF Inv
<1> QED BY InvCorrect, <1>1, PTL

-----------------------------------------------------------------------------
(* Timers                                                                  *)

\* What recoverOnBoot has still to do: while it is under way, an ACTIVE batch without an
\* end timer is on its list, unless startBatch is about to arm the timer; and the batch it
\* is working on is on the list, COMPLETED or with its timer.
TimersInv ==
    faults = 0 =>
        /\ boot.pc # "down" =>
               \A b \in Batch : batch_status[b] = "ACTIVE" =>
                   b \in endTimer \/ starting[b] # "idle" \/ b \in boot.todo
        /\ boot.pc = "running" =>
               /\ boot.todo = {}
               /\ \A b \in Batch : batch_status[b] = "PENDING" => b \in startTimer
        /\ boot.pc \in {"closing", "rounds"} => boot.batch \in boot.todo
        /\ boot.pc = "closing" => batch_status[boot.batch] = "COMPLETED"
        /\ boot.pc = "rounds" =>
               boot.batch \in endTimer \/ batch_status[boot.batch] = "COMPLETED"

\* Initially every start timer is armed.
LEMMA TimersInit == Init => TimersInv
BY RestingStates DEF Init, TimersInv

\* Every step preserves TimersInv.
LEMMA TimersStep == Inv /\ TimersInv /\ [Next]_vars => TimersInv'
<1> SUFFICES ASSUME Inv, TimersInv, [Next]_vars PROVE TimersInv' OBVIOUS
<1> USE DEF databaseVars, eventVars, timerVars, roundVars, batchVars, countVars
<1>1. /\ batch_status \in [Batch -> {"PENDING", "ACTIVE", "COMPLETED"}]
      /\ starting \in [Batch -> {"idle", "phase", "update", "cycle"}]
      /\ startTimer \subseteq Batch /\ endTimer \subseteq Batch
      /\ boot \in Recovery /\ faults \in Nat
      /\ ending \in [Batch -> Pipeline]
  BY CycleAssumption DEF Inv, TypeOK
<1>2. \A b \in boot.todo : b \in Batch /\ batch_status[b] # "PENDING"
  BY <1>1 DEF Inv, BootInv, Recovery
<1>3. CASE UNCHANGED <<batch_status, starting, startTimer, endTimer, boot, faults>>
  BY <1>3 DEF TimersInv
<1>4. ASSUME NEW b \in Batch, StartBatch(b) PROVE TimersInv'
  BY <1>1, <1>2, <1>4 DEF StartBatch, TimersInv
<1>5. ASSUME NEW b \in Batch, AllowLiveBatches(b) \/ OpenLiveBatches(b) PROVE TimersInv'
  <2>1. PICK pc \in {"update", "cycle"} : starting' = [starting EXCEPT ![b] = pc]
    BY <1>5 DEF AllowLiveBatches, OpenLiveBatches
  <2>2. UNCHANGED <<batch_status, startTimer, endTimer, boot, faults>>
        /\ starting[b] # "idle"
    BY <1>5 DEF AllowLiveBatches, OpenLiveBatches
  <2> QED BY <1>1, <2>1, <2>2 DEF TimersInv
<1>6. ASSUME NEW b \in Batch, StartRoundCycle(b) PROVE TimersInv'
  BY <1>1, <1>6 DEF StartRoundCycle, TimersInv
<1>7. ASSUME NEW b \in Batch, EndBatch(b) PROVE TimersInv'
  BY <1>1, <1>2, <1>7 DEF EndBatch, CloseBatch, TimersInv
<1>8. ASSUME NEW b \in Batch, StopRoundCycle(b) PROVE TimersInv'
  <2>1. batch_status[b] = "COMPLETED" BY <1>8 DEF StopRoundCycle, Inv, BatchInv
  <2> QED BY <1>1, <1>8, <2>1 DEF StopRoundCycle, TimersInv
<1>9. ASSUME NEW b \in Batch, QueueNextBatch(b) PROVE TimersInv'
  BY <1>1, <1>9 DEF QueueNextBatch, TimersInv
<1>10. ASSUME NEW b \in Batch, CloseOverdue(b) PROVE TimersInv'
  <2>1. /\ boot'.todo = boot.todo /\ boot'.pc = "closing" /\ boot'.batch = b
        /\ b \in boot.todo /\ boot.pc = "resume"
    BY <1>1, <1>10 DEF CloseOverdue, Recovery
  <2>2. /\ batch_status'[b] = "COMPLETED"
        /\ \A c \in Batch : batch_status'[c] = "ACTIVE" => batch_status[c] = "ACTIVE"
    BY <1>1, <1>2, <1>10, <2>1 DEF CloseOverdue, CloseBatch
  <2> QED BY <1>10, <2>1, <2>2 DEF CloseOverdue, TimersInv
<1>11. ASSUME NEW b \in Batch, OverdueClosed(b) PROVE TimersInv'
  <2>1. boot'.todo = boot.todo \ {b} /\ boot'.pc = "resume"
    BY <1>1, <1>11 DEF OverdueClosed, Recovery
  <2> QED BY <1>11, <2>1 DEF OverdueClosed, TimersInv
<1>12. ASSUME NEW b \in Batch, ResumeBatch(b) PROVE TimersInv'
  <2>1. CASE CurrentRound(b) > NumRounds
    <3>1. boot'.todo = boot.todo \ {b} /\ boot'.pc = "resume"
      BY <1>1, <1>12, <2>1 DEF ResumeBatch, Recovery
    <3> QED BY <1>12, <3>1 DEF ResumeBatch, TimersInv
  <2>2. CASE ~ (CurrentRound(b) > NumRounds)
    <3>1. boot'.todo = boot.todo /\ boot'.pc = "rounds" /\ boot'.batch = b
      BY <1>1, <1>12, <2>2 DEF ResumeBatch, Recovery
    <3> QED BY <1>12, <3>1 DEF ResumeBatch, TimersInv
  <2> QED BY <2>1, <2>2
<1>13. ASSUME NEW b \in Batch, RecoverRound(b) PROVE TimersInv'
  <2>1. boot'.todo = boot.todo /\ boot'.pc = "rounds" /\ boot'.batch = boot.batch
        /\ boot.pc = "rounds"
    BY <1>1, <1>13 DEF RecoverRound, Recovery
  <2> QED BY <1>13, <2>1 DEF RecoverRound, TimersInv
<1>14. ASSUME NEW b \in Batch, RecoverCycle(b) PROVE TimersInv'
  <2>1. boot'.todo = boot.todo \ {b} /\ boot'.pc = "resume"
    BY <1>14 DEF RecoverCycle, Down
  <2> QED BY <1>14, <2>1 DEF RecoverCycle, TimersInv
<1>15. CASE Crash BY <1>15, RestingStates DEF Crash, TimersInv
<1>16. CASE Boot
  <2>1. boot'.todo = {b \in Batch : batch_status[b] = "ACTIVE"} /\ boot'.pc = "resume"
    BY <1>1, <1>16 DEF Boot, Recovery
  <2> QED BY <1>16, <2>1 DEF Boot, TimersInv
<1>17. CASE ArmPending BY <1>17, RestingStates DEF ArmPending, TimersInv
<1>18. ASSUME NEW b \in Batch, StartFails(b) \/ RoundFails(b) \/ CloseFails(b)
                                \/ EvaluationFails(b) \/ QueueFails(b)
       PROVE  TimersInv'
  <2>1. faults' # 0
    BY <1>1, <1>18 DEF StartFails, RoundFails, CloseFails, EvaluationFails, QueueFails
  <2> QED BY <2>1 DEF TimersInv
<1>19. ASSUME NEW b \in Batch,
              \/ ExecuteRound(b) \/ RunPostBatchEvaluation(b) \/ CheckRemaining(b)
              \/ RunFinalSweep(b) \/ EnterAdminMode(b) \/ FindNextBatch(b)
              \/ EnterFinalSweep(b) \/ \E k \in Round : Submit(b, k)
       PROVE  TimersInv'
  BY <1>3, <1>19
     DEF ExecuteRound, FreezeRound, ExecuteBatchRound, ProcessSubmission, RoundExecuted,
         ReopenRound, RunPostBatchEvaluation, CheckRemaining, RunFinalSweep,
         EnterAdminMode, FindNextBatch, EnterFinalSweep, Submit
<1>20. CASE Tick \/ UNCHANGED vars BY <1>3, <1>20 DEF Tick, vars
<1>21. CASE BootFails
  <2>1. faults' # 0 BY <1>1, <1>21 DEF BootFails
  <2> QED BY <2>1 DEF TimersInv
<1> QED
  BY <1>4, <1>5, <1>6, <1>7, <1>8, <1>9, <1>10, <1>11, <1>12, <1>13, <1>14, <1>15, <1>16,
     <1>17, <1>18, <1>19, <1>20, <1>21
     DEF Next, Schedule, Start, End, Recover

\* Whenever recovery is over every PENDING batch has its start timer and every ACTIVE one
\* its end timer, unless a handler has failed.
THEOREM TimersRecovered == Spec => []TimersMatchDatabase
<1>1. TimersInv => TimersMatchDatabase BY DEF TimersInv, TimersMatchDatabase
<1> QED BY InvCorrect, TimersInit, TimersStep, <1>1, PTL DEF Spec

-----------------------------------------------------------------------------
(* Refinement                                                              *)

\* Every step of the schedulers is a step or a stutter of BatchTimetable.
LEMMA TimetableStep == Inv /\ Inv' /\ [Next]_vars => [Timetable!Next]_(Timetable!vars)
<1> SUFFICES ASSUME Inv, Inv', [Next]_vars PROVE [Timetable!Next]_(Timetable!vars)
  OBVIOUS
<1> DEFINE finished == "ADMIN_MODE" \in phases
<1> USE DEF databaseVars, eventVars, timerVars, roundVars, batchVars, countVars
<1>1. /\ batch_status \in [Batch -> {"PENDING", "ACTIVE", "COMPLETED"}]
      /\ ending \in [Batch -> Pipeline]
  BY DEF Inv, TypeOK
\* The stage of a batch depends on its status and on whether it was evaluated.
<1>2. /\ Stage \in [Batch -> {"waiting", "open", "closed", "evaluated"}]
      /\ \A b \in Batch :
             /\ Stage[b] = "waiting" <=> batch_status[b] = "PENDING"
             /\ Stage[b] = "open" <=> batch_status[b] = "ACTIVE"
             /\ Stage[b] = "closed" <=> batch_status[b] = "COMPLETED" /\ ~ Evaluated(b)
             /\ Stage[b] = "evaluated" <=> batch_status[b] = "COMPLETED" /\ Evaluated(b)
  BY <1>1 DEF Stage
<1>3. /\ batch_status' \in [Batch -> {"PENDING", "ACTIVE", "COMPLETED"}]
      /\ Stage' \in [Batch -> {"waiting", "open", "closed", "evaluated"}]
      /\ \A b \in Batch :
             /\ Stage'[b] = "waiting" <=> batch_status'[b] = "PENDING"
             /\ Stage'[b] = "open" <=> batch_status'[b] = "ACTIVE"
             /\ Stage'[b] = "closed" <=> batch_status'[b] = "COMPLETED" /\ ~ Evaluated(b)'
             /\ Stage'[b] = "evaluated" <=> batch_status'[b] = "COMPLETED" /\ Evaluated(b)'
  <2>1. batch_status' \in [Batch -> {"PENDING", "ACTIVE", "COMPLETED"}] BY DEF Inv, TypeOK
  <2> QED BY <2>1 DEF Stage
<1>4. ASSUME UNCHANGED <<batch_status, evaluations>> PROVE Stage' = Stage
  BY <1>4 DEF Stage, Evaluated
<1>5. CASE UNCHANGED <<batch_status, evaluations, phases, now>>
  BY <1>4, <1>5 DEF Timetable!vars
<1>6. ASSUME NEW b \in Batch, StartBatch(b) PROVE [Timetable!Next]_(Timetable!vars)
  <2>1. CASE batch_status[b] = "PENDING"
    <3>1. batch_status' = [batch_status EXCEPT ![b] = "ACTIVE"]
          /\ UNCHANGED <<evaluations, phases, now>> /\ StartTime[b] <= now
      BY <1>6, <2>1 DEF StartBatch
    <3>2. Stage' = [Stage EXCEPT ![b] = "open"]
      <4>1. \A c \in Batch : Evaluated(c)' = Evaluated(c) BY <3>1 DEF Evaluated
      <4>2. \A c \in Batch : Stage'[c] = IF c = b THEN "open" ELSE Stage[c]
        BY <1>1, <1>2, <1>3, <3>1, <4>1
      <4> QED BY <1>2, <1>3, <4>2
    <3>3. Timetable!Open(b) BY <1>2, <2>1, <3>1, <3>2 DEF Timetable!Open
    <3> QED BY <3>3 DEF Timetable!Next
  <2>2. CASE batch_status[b] # "PENDING" BY <1>5, <1>6, <2>2 DEF StartBatch
  <2> QED BY <2>1, <2>2
<1>7. ASSUME NEW b \in Batch, CloseBatch(b), EndTime[b] <= now,
             UNCHANGED <<evaluations, phases, now>>
      PROVE  [Timetable!Next]_(Timetable!vars)
  <2>1. CASE batch_status[b] = "ACTIVE"
    <3>1. batch_status' = [batch_status EXCEPT ![b] = "COMPLETED"]
      BY <1>7, <2>1 DEF CloseBatch
    <3>2. ~ Evaluated(b) BY <2>1 DEF Inv, BatchInv
    <3>3. Stage' = [Stage EXCEPT ![b] = "closed"]
      BY <1>1, <1>7, <3>1, <3>2 DEF Stage, Evaluated
    <3>4. Timetable!Close(b) BY <1>2, <1>7, <2>1, <3>3 DEF Timetable!Close
    <3> QED BY <3>4 DEF Timetable!Next
  <2>2. CASE batch_status[b] # "ACTIVE" BY <1>5, <1>7, <2>2 DEF CloseBatch
  <2> QED BY <2>1, <2>2
<1>8. ASSUME NEW b \in Batch, EndBatch(b) \/ CloseOverdue(b)
      PROVE  [Timetable!Next]_(Timetable!vars)
  BY <1>7, <1>8 DEF EndBatch, CloseOverdue
<1>9. ASSUME NEW b \in Batch, RunPostBatchEvaluation(b)
      PROVE  [Timetable!Next]_(Timetable!vars)
  <2>1. batch_status[b] = "COMPLETED" /\ ~ Evaluated(b)
    BY <1>9 DEF RunPostBatchEvaluation, Inv, BatchInv
  <2>2. UNCHANGED <<batch_status, phases, now>> BY <1>9 DEF RunPostBatchEvaluation
  <2>3. \A c \in Batch : Evaluated(c)' <=> Evaluated(c) \/ c = b
    BY <1>9, EvaluatedStep DEF Inv
  <2>4. \A c \in Batch : Stage'[c] = IF c = b THEN "evaluated" ELSE Stage[c]
    BY <1>1, <1>2, <1>3, <2>1, <2>2, <2>3
  <2>5. Stage' = [Stage EXCEPT ![b] = "evaluated"] BY <1>2, <1>3, <2>4
  <2>6. Timetable!Evaluate(b) BY <1>2, <2>1, <2>2, <2>5 DEF Timetable!Evaluate
  <2> QED BY <2>6 DEF Timetable!Next
\* Once ADMIN_MODE has been reached it has been, whatever overwrites it.
<1>10. ASSUME UNCHANGED <<batch_status, evaluations, now>>, finished => finished'
       PROVE  [Timetable!Next]_(Timetable!vars)
  <2>1. Stage' = Stage BY <1>4, <1>10
  <2>2. CASE finished' = finished BY <1>10, <2>1, <2>2 DEF Timetable!vars
  <2>3. CASE finished'
    <3>1. \A b \in Batch : batch_status[b] = "COMPLETED"
      BY <1>10, <2>3 DEF Inv, BatchInv
    <3>2. Timetable!Finish BY <1>1, <1>2, <1>10, <2>1, <2>3, <3>1 DEF Timetable!Finish
    <3> QED BY <3>2 DEF Timetable!Next
  <2> QED BY <1>10, <2>2, <2>3
<1>11. ASSUME NEW b \in Batch,
              OpenLiveBatches(b) \/ EnterAdminMode(b) \/ EnterFinalSweep(b)
       PROVE  [Timetable!Next]_(Timetable!vars)
  <2>1. UNCHANGED <<batch_status, evaluations, now>>
    BY <1>11 DEF OpenLiveBatches, EnterAdminMode, EnterFinalSweep
  <2>2. finished => finished'
    BY <1>11 DEF OpenLiveBatches, EnterAdminMode, EnterFinalSweep, WritePhase
  <2> QED BY <1>10, <2>1, <2>2
<1>12. CASE Tick
  <2>1. Stage' = Stage /\ now' = now + 1 /\ phases' = phases BY <1>4, <1>12 DEF Tick
  <2>2. Timetable!Tick BY <2>1 DEF Timetable!Tick
  <2> QED BY <2>2 DEF Timetable!Next
<1>13. ASSUME NEW b \in Batch,
              \/ AllowLiveBatches(b) \/ StartRoundCycle(b) \/ StartFails(b)
              \/ ExecuteRound(b) \/ RoundFails(b) \/ CloseFails(b) \/ QueueFails(b)
              \/ StopRoundCycle(b) \/ CheckRemaining(b) \/ EvaluationFails(b)
              \/ RunFinalSweep(b) \/ QueueNextBatch(b)
              \/ FindNextBatch(b) \/ OverdueClosed(b) \/ ResumeBatch(b)
              \/ RecoverRound(b) \/ RecoverCycle(b) \/ \E k \in Round : Submit(b, k)
       PROVE  [Timetable!Next]_(Timetable!vars)
  BY <1>5, <1>13
     DEF AllowLiveBatches, StartRoundCycle, StartFails, ExecuteRound, FreezeRound,
         ExecuteBatchRound, ProcessSubmission, RoundExecuted, ReopenRound, RoundFails,
         CloseFails, QueueFails, StopRoundCycle, CheckRemaining, EvaluationFails,
         RunFinalSweep, QueueNextBatch, FindNextBatch, OverdueClosed, ResumeBatch,
         RecoverRound, RecoverCycle, Submit
<1>14. CASE Crash \/ Boot \/ BootFails \/ ArmPending \/ UNCHANGED vars
  BY <1>5, <1>14 DEF Crash, Boot, BootFails, ArmPending, vars
<1> QED
  BY <1>6, <1>8, <1>9, <1>11, <1>12, <1>13, <1>14 DEF Next, Schedule, Start, End, Recover

\* The schedulers implement BatchTimetable.
THEOREM SchedulersKeepTimetable == Spec => TimetableSpec
<1>1. Init => Timetable!Init BY DEF Init, Timetable!Init, Stage
<1> QED BY <1>1, TimetableStep, InvCorrect, PTL DEF Spec, TimetableSpec, Timetable!Spec
-----------------------------------------------------------------------------
(* No round overtakes an earlier one                                       *)

\* No submission of b is pending but those of round k.
PendingOnlyOf(b, k) == \A j \in Round \ {k} : pending[<<b, j>>] = 0

\* While nothing goes wrong, a batch has pending submissions of one round: of the one that
\* is open, or of the one that is executed, and no round is open while one is executed.
InOrder(b) ==
    /\ batch_status[b] = "PENDING" => starting[b] = "idle"
    /\ batch_status[b] = "PENDING" \/ starting[b] # "idle" =>
           cycle[b] = NoCycle /\ executing[b].pc = "idle" /\ PendingOnlyOf(b, 0)
    /\ ~ cycle[b].frozen => executing[b].pc = "idle" /\ PendingOnlyOf(b, cycle[b].round)
    /\ executing[b].pc \in {"fetch", "process"} => PendingOnlyOf(b, executing[b].round)
    /\ executing[b].pc = "process" =>
           executing[b].left = pending[<<b, executing[b].round>>]
    /\ executing[b].pc = "shatter" => PendingOnlyOf(b, 0)

Orderly == Punctual /\ faults = 0 /\ crashes = 0

OrderInv == Orderly => boot.pc = "running" /\ \A b \in Batch : InOrder(b)

\* A batch that a step leaves alone stays in order.
LEMMA InOrderKept ==
    ASSUME TypeOK, NEW c \in Batch, InOrder(c),
           batch_status'[c] = batch_status[c], starting'[c] = starting[c],
           cycle'[c] = cycle[c], executing'[c] = executing[c],
           \A k \in Round : pending'[<<c, k>>] = pending[<<c, k>>]
    PROVE  InOrder(c)'
<1>1. \A k : PendingOnlyOf(c, k) => \A j \in Round \ {k} : pending'[<<c, j>>] = 0
  BY DEF PendingOnlyOf
<1>2. executing[c].pc = "process" => executing[c].round \in Round
  BY BusyExecutionType DEF TypeOK, BusyExecution
<1> QED BY <1>1, <1>2 DEF InOrder, PendingOnlyOf

\* Neither faults nor crashes are forgotten, and while there are none the server runs.
LEMMA OrderlyBefore ==
    ASSUME TypeOK, OrderInv, [Next]_vars, Orderly'
    PROVE  /\ Orderly /\ boot' = boot
           /\ \A b \in Batch :
                 /\ ~ StartFails(b) /\ ~ RoundFails(b) /\ ~ CloseFails(b)
                 /\ ~ EvaluationFails(b) /\ ~ QueueFails(b)
           /\ ~ Crash /\ ~ BootFails /\ ~ Recover
<1>1. /\ faults \in Nat /\ crashes \in Nat /\ faults' = 0 /\ crashes' = 0 /\ Punctual
  BY CycleAssumption DEF TypeOK, Orderly
<1>2. \A b \in Batch :
          /\ ~ StartFails(b) /\ ~ RoundFails(b) /\ ~ CloseFails(b)
          /\ ~ EvaluationFails(b) /\ ~ QueueFails(b)
  BY <1>1 DEF StartFails, RoundFails, CloseFails, EvaluationFails, QueueFails
<1>3. ~ Crash /\ ~ BootFails BY <1>1 DEF Crash, BootFails
<1>4. UNCHANGED <<faults, crashes>>
  BY <1>2, <1>3
     DEF Next, Schedule, Start, ExecuteRound, End, Recover, vars, countVars,
         StartBatch, AllowLiveBatches, OpenLiveBatches, StartRoundCycle, Submit, FreezeRound,
         ExecuteBatchRound, ProcessSubmission, RoundExecuted, ReopenRound, EndBatch,
         StopRoundCycle, RunPostBatchEvaluation, CheckRemaining, RunFinalSweep,
         EnterAdminMode, FindNextBatch, QueueNextBatch, EnterFinalSweep,
         Boot, CloseOverdue, OverdueClosed, ResumeBatch, RecoverRound, RecoverCycle,
         ArmPending, Tick
<1>5. Orderly BY <1>1, <1>4 DEF Orderly
<1>6. boot.pc = "running" BY <1>5 DEF OrderInv
<1>7. ~ Recover
  BY <1>6 DEF Recover, Boot, CloseOverdue, OverdueClosed, ResumeBatch, RecoverRound,
     RecoverCycle, ArmPending
<1>8. boot' = boot
  BY <1>2, <1>3, <1>7
     DEF Next, Schedule, Start, ExecuteRound, End, vars,
         StartBatch, AllowLiveBatches, OpenLiveBatches, StartRoundCycle, Submit, FreezeRound,
         ExecuteBatchRound, ProcessSubmission, RoundExecuted, ReopenRound, EndBatch,
         StopRoundCycle, RunPostBatchEvaluation, CheckRemaining, RunFinalSweep,
         EnterAdminMode, FindNextBatch, QueueNextBatch, EnterFinalSweep,
         Tick
<1> QED BY <1>2, <1>3, <1>5, <1>7, <1>8

\* Every step keeps the rounds of a batch in order, as long as nothing goes wrong.
LEMMA OrderStep == Inv /\ OrderInv /\ [Next]_vars => OrderInv'
<1> SUFFICES ASSUME Inv, OrderInv, [Next]_vars, Orderly'
             PROVE  boot'.pc = "running" /\ \A b \in Batch : InOrder(b)'
  BY DEF OrderInv
<1> USE DEF databaseVars, eventVars, timerVars, roundVars, batchVars, countVars
<1>1. TypeOK BY DEF Inv
<1>2. Orderly /\ boot' = boot BY <1>1, OrderlyBefore
<1>3. boot.pc = "running" /\ \A b \in Batch : InOrder(b) BY <1>2 DEF OrderInv
<1>4. /\ batch_status \in [Batch -> {"PENDING", "ACTIVE", "COMPLETED"}]
      /\ pending \in [Batch \X Round -> Nat]
      /\ cycle \in [Batch -> Cycle] /\ executing \in [Batch -> Execution]
      /\ starting \in [Batch -> {"idle", "phase", "update", "cycle"}]
  BY <1>1 DEF TypeOK
<1>5. CASE UNCHANGED <<batch_status, starting, cycle, executing, pending>>
  BY <1>1, <1>2, <1>3, <1>5, InOrderKept
<1> SUFFICES ASSUME NEW c \in Batch PROVE InOrder(c)' BY <1>2, <1>3
<1>20. ASSUME NEW b \in Batch, ~ cycle[b].frozen
       PROVE  /\ batch_status[b] # "PENDING" /\ starting[b] = "idle"
              /\ executing[b].pc = "idle" /\ PendingOnlyOf(b, cycle[b].round)
  <2>1. InOrder(b) BY <1>3
  <2>2. cycle[b] # NoCycle BY <1>20 DEF NoCycle
  <2> QED BY <1>20, <2>1, <2>2 DEF InOrder
<1>6. ASSUME NEW b \in Batch, NEW k \in Round, Submit(b, k) PROVE InOrder(c)'
  <2>1. CASE c # b BY <1>1, <1>3, <1>4, <1>6, <2>1, InOrderKept DEF Submit
  <2>2. CASE c = b
    <3>1. cycle[b].round = k /\ ~ cycle[b].frozen BY <1>2, <1>6 DEF Submit, Orderly
    <3>2. executing[b].pc = "idle" /\ PendingOnlyOf(b, k) BY <1>20, <3>1
    <3>3. batch_status[b] # "PENDING" /\ starting[b] = "idle" BY <1>20, <3>1
    <3>4. \A j \in Round \ {k} : pending'[<<b, j>>] = 0
      BY <1>4, <1>6, <3>2 DEF Submit, PendingOnlyOf
    <3> QED BY <1>6, <2>2, <3>1, <3>2, <3>3, <3>4 DEF Submit, InOrder, PendingOnlyOf
  <2> QED BY <2>1, <2>2
<1>7. ASSUME NEW b \in Batch, StartBatch(b) \/ AllowLiveBatches(b) \/ OpenLiveBatches(b)
      PROVE  InOrder(c)'
  <2>1. CASE c # b
    BY <1>1, <1>3, <1>4, <1>7, <2>1, InOrderKept
       DEF StartBatch, AllowLiveBatches, OpenLiveBatches
  <2>2. CASE c = b
    <3>1. UNCHANGED <<cycle, executing, pending>>
      BY <1>7 DEF StartBatch, AllowLiveBatches, OpenLiveBatches
    <3>2. CASE UNCHANGED <<batch_status, starting>>
      BY <1>1, <1>3, <2>2, <3>1, <3>2, InOrderKept
    <3>3. CASE ~ UNCHANGED <<batch_status, starting>>
      <4>1. batch_status[b] = "PENDING" \/ starting[b] # "idle"
        BY <1>7, <3>3 DEF StartBatch, AllowLiveBatches, OpenLiveBatches
      <4>2. cycle[b] = NoCycle /\ executing[b].pc = "idle" /\ PendingOnlyOf(b, 0)
        BY <1>3, <4>1 DEF InOrder
      <4>3. batch_status'[b] # "PENDING"
        BY <1>3, <1>4, <1>7, <4>1 DEF StartBatch, AllowLiveBatches, OpenLiveBatches, InOrder
      <4>4. NoCycle.frozen BY DEF NoCycle
      <4> QED BY <2>2, <3>1, <4>2, <4>3, <4>4 DEF InOrder, PendingOnlyOf
    <3> QED BY <3>2, <3>3
  <2> QED BY <2>1, <2>2
<1>8. ASSUME NEW b \in Batch, StartRoundCycle(b) PROVE InOrder(c)'
  <2>1. CASE c # b
    BY <1>1, <1>3, <1>4, <1>8, <2>1, InOrderKept DEF StartRoundCycle
  <2>2. CASE c = b
    <3>1. /\ executing[b].pc = "idle" /\ PendingOnlyOf(b, 0) /\ batch_status[b] # "PENDING"
      BY <1>3, <1>8 DEF StartRoundCycle, InOrder
    <3>2. /\ cycle'[b] = [round |-> 1, frozen |-> FALSE, started |-> now]
          /\ starting'[b] = "idle"
          /\ UNCHANGED <<batch_status, executing, pending>>
      BY <1>4, <1>8 DEF StartRoundCycle
    <3> QED BY <2>2, <3>1, <3>2 DEF InOrder, PendingOnlyOf, Round
  <2> QED BY <2>1, <2>2
<1>9. ASSUME NEW b \in Batch, FreezeRound(b) PROVE InOrder(c)'
  <2>1. CASE c # b
    BY <1>1, <1>3, <1>4, <1>9, <2>1, InOrderKept DEF FreezeRound
  <2>2. CASE c = b
    <3>1. /\ PendingOnlyOf(b, cycle[b].round) /\ starting[b] = "idle"
          /\ batch_status[b] # "PENDING"
      BY <1>9, <1>20 DEF FreezeRound
    <3>2. cycle[b] \in RunningCycle BY <1>4, <1>9, RunningCycleType DEF FreezeRound
    <3>3. cycle'[b].frozen BY <1>4, <1>9, <3>2 DEF FreezeRound, RunningCycle
    <3>4. /\ executing'[b].pc = "fetch" /\ executing'[b].round = cycle[b].round
          /\ UNCHANGED <<batch_status, starting, pending>>
      BY <1>4, <1>9 DEF FreezeRound
    <3> QED BY <2>2, <3>1, <3>3, <3>4 DEF InOrder, PendingOnlyOf
  <2> QED BY <2>1, <2>2
<1>10. ASSUME NEW b \in Batch, ExecuteBatchRound(b) PROVE InOrder(c)'
  <2>1. CASE c # b
    BY <1>1, <1>3, <1>4, <1>10, <2>1, InOrderKept DEF ExecuteBatchRound
  <2>2. CASE c = b
    <3>1. executing[b] \in BusyExecution
      BY <1>4, <1>10, BusyExecutionType DEF ExecuteBatchRound
    <3>2. /\ executing'[b].pc = "process" /\ executing'[b].round = executing[b].round
          /\ executing'[b].left = pending[<<b, executing[b].round>>]
          /\ UNCHANGED <<batch_status, starting, cycle, pending>>
      BY <1>4, <1>10, <3>1 DEF ExecuteBatchRound, BusyExecution
    <3>3. executing[b].pc = "fetch" BY <1>10 DEF ExecuteBatchRound
    <3> QED BY <1>3, <2>2, <3>2, <3>3 DEF InOrder, PendingOnlyOf
  <2> QED BY <2>1, <2>2
<1>11. ASSUME NEW b \in Batch, ProcessSubmission(b) PROVE InOrder(c)'
  <2>1. CASE c # b
    BY <1>1, <1>3, <1>4, <1>11, <2>1, InOrderKept DEF ProcessSubmission
  <2>2. CASE c = b
    <3> DEFINE r == executing[b].round
    <3>1. executing[b] \in BusyExecution /\ executing[b].pc = "process"
      BY <1>4, <1>11, BusyExecutionType DEF ProcessSubmission
    <3>2. r \in Round /\ executing[b].left \in Nat BY <3>1 DEF BusyExecution
    <3>3. /\ executing'[b].pc = "process" /\ executing'[b].round = r
          /\ executing'[b].left = executing[b].left - 1
          /\ UNCHANGED <<batch_status, starting, cycle>>
      BY <1>4, <1>11, <3>1 DEF ProcessSubmission, BusyExecution
    <3>4. pending' = [pending EXCEPT ![<<b, r>>] = @ - 1] BY <1>11 DEF ProcessSubmission
    <3>5. executing[b].left = pending[<<b, r>>] /\ PendingOnlyOf(b, r)
      BY <1>3, <3>1 DEF InOrder
    <3>6. pending'[<<b, r>>] = executing[b].left - 1 BY <1>4, <3>2, <3>4, <3>5
    <3>7. \A j \in Round \ {r} : pending'[<<b, j>>] = 0
      BY <1>4, <3>2, <3>4, <3>5 DEF PendingOnlyOf
    <3>8. cycle[b].frozen /\ batch_status[b] # "PENDING" /\ starting[b] = "idle"
      BY <1>3, <3>1 DEF InOrder
    <3> HIDE DEF r
    <3> QED BY <2>2, <3>3, <3>6, <3>7, <3>8 DEF InOrder, PendingOnlyOf
  <2> QED BY <2>1, <2>2
<1>12. ASSUME NEW b \in Batch, RoundExecuted(b) PROVE InOrder(c)'
  <2>1. CASE c # b
    BY <1>1, <1>3, <1>4, <1>12, <2>1, InOrderKept DEF RoundExecuted, AdvanceRound
  <2>2. CASE c = b
    <3> DEFINE r == executing[b].round
    <3>1. executing[b] \in BusyExecution /\ executing[b].pc = "process"
      BY <1>4, <1>12, BusyExecutionType DEF RoundExecuted
    <3>2. pending[<<b, r>>] = 0 /\ PendingOnlyOf(b, r)
      BY <1>3, <1>12, <3>1 DEF InOrder, RoundExecuted
    <3>3. PendingOnlyOf(b, 0) BY <3>2 DEF PendingOnlyOf
    <3>4. cycle[b].frozen /\ batch_status[b] # "PENDING" /\ starting[b] = "idle"
      BY <1>3, <3>1 DEF InOrder
    <3>5. executing'[b].pc \in {"idle", "shatter"}
      BY <1>4, <1>12, <3>1 DEF RoundExecuted, AdvanceRound, NotExecuting, BusyExecution
    <3>6. cycle'[b] \in {NoCycle, cycle[b]} BY <1>4, <1>12 DEF RoundExecuted, AdvanceRound
    <3>7. cycle'[b].frozen BY <3>4, <3>6 DEF NoCycle
    <3>8. UNCHANGED <<batch_status, starting, pending>> BY <1>12 DEF RoundExecuted
    <3> HIDE DEF r
    <3> QED BY <2>2, <3>3, <3>4, <3>5, <3>7, <3>8 DEF InOrder, PendingOnlyOf
  <2> QED BY <2>1, <2>2
<1>13. ASSUME NEW b \in Batch, ReopenRound(b) PROVE InOrder(c)'
  <2>1. CASE c # b
    BY <1>1, <1>3, <1>4, <1>13, <2>1, InOrderKept DEF ReopenRound
  <2>2. CASE c = b
    <3>1. /\ PendingOnlyOf(b, 0) /\ starting[b] = "idle" /\ batch_status[b] # "PENDING"
      BY <1>3, <1>13 DEF ReopenRound, InOrder
    <3>2. executing'[b].pc = "idle" BY <1>4, <1>13 DEF ReopenRound, NotExecuting
    <3>3. UNCHANGED <<batch_status, starting, pending>> BY <1>13 DEF ReopenRound
    <3>4. \A j \in Round : pending[<<b, j>>] = 0 BY <3>1 DEF PendingOnlyOf, Round
    <3> QED BY <2>2, <3>1, <3>2, <3>3, <3>4 DEF InOrder, PendingOnlyOf
  <2> QED BY <2>1, <2>2
<1>14. ASSUME NEW b \in Batch, EndBatch(b) PROVE InOrder(c)'
  <2>1. /\ \/ batch_status'[c] = batch_status[c]
           \/ batch_status[c] = "ACTIVE" /\ batch_status'[c] = "COMPLETED"
        /\ UNCHANGED <<starting, cycle, executing, pending>>
    BY <1>4, <1>14 DEF EndBatch, CloseBatch
  <2>2. CASE batch_status'[c] = batch_status[c]
    BY <1>1, <1>3, <2>1, <2>2, InOrderKept
  <2>3. CASE batch_status[c] = "ACTIVE" /\ batch_status'[c] = "COMPLETED"
    BY <1>3, <2>1, <2>3 DEF InOrder, PendingOnlyOf
  <2> QED BY <2>1, <2>2, <2>3
<1>15. ASSUME NEW b \in Batch, StopRoundCycle(b) PROVE InOrder(c)'
  <2>1. CASE c # b
    BY <1>1, <1>3, <1>4, <1>15, <2>1, InOrderKept DEF StopRoundCycle
  <2>2. CASE c = b
    <3>1. cycle'[b] = NoCycle /\ UNCHANGED <<batch_status, starting, executing, pending>>
      BY <1>4, <1>15 DEF StopRoundCycle
    <3> QED BY <1>3, <2>2, <3>1 DEF InOrder, PendingOnlyOf, NoCycle
  <2> QED BY <2>1, <2>2
<1>16. ASSUME NEW b \in Batch,
              \/ RunPostBatchEvaluation(b) \/ CheckRemaining(b) \/ RunFinalSweep(b)
              \/ EnterAdminMode(b) \/ FindNextBatch(b) \/ QueueNextBatch(b)
              \/ EnterFinalSweep(b)
       PROVE  InOrder(c)'
  BY <1>5, <1>16 DEF RunPostBatchEvaluation, CheckRemaining, RunFinalSweep, EnterAdminMode,
     FindNextBatch, QueueNextBatch, EnterFinalSweep
<1>17. CASE Tick \/ UNCHANGED vars BY <1>5, <1>17 DEF Tick, vars
<1> QED
  BY <1>1, <1>6, <1>7, <1>8, <1>9, <1>10, <1>11, <1>12, <1>13, <1>14, <1>15, <1>16, <1>17,
     OrderlyBefore DEF Next, Schedule, Start, ExecuteRound, End

\* When clients are punctual, no handler fails and the server does not crash, then for any
\* batches and rounds a submission is processed only after all of the earlier rounds.
THEOREM RoundsInOrder == Spec => EarlierRoundsFirst
<1>1. Init => OrderInv
  BY RestingStates DEF Init, OrderInv, InOrder, PendingOnlyOf, NoCycle, Running, Down
<1>2. Inv /\ OrderInv /\ [Next]_vars =>
          [Punctual /\ faults = 0 /\ crashes = 0 =>
             \A b \in Batch, k \in Round :
                 pending'[<<b, k>>] < pending[<<b, k>>]
                     => \A j \in 1..(k - 1) : pending[<<b, j>>] = 0]_vars
  <2> SUFFICES ASSUME Inv, OrderInv, [Next]_vars, Orderly, NEW b \in Batch, NEW k \in Round,
                      pending'[<<b, k>>] < pending[<<b, k>>]
               PROVE  \A j \in 1..(k - 1) : pending[<<b, j>>] = 0
    BY DEF Orderly
  <2>1. pending \in [Batch \X Round -> Nat] BY DEF Inv, TypeOK
  <2>2. ASSUME NEW c \in Batch, NEW l \in Round, Submit(c, l) PROVE FALSE
    <3>1. pending' = [pending EXCEPT ![<<c, l>>] = @ + 1] BY <2>2 DEF Submit
    <3>2. pending[<<b, k>>] \in Nat /\ pending[<<c, l>>] \in Nat BY <2>1
    <3> QED BY <2>1, <3>1, <3>2
  <2>3. ~ UNCHANGED pending
    <3>1. pending[<<b, k>>] \in Nat BY <2>1
    <3> QED BY <3>1
  <2>4. PICK c \in Batch : ProcessSubmission(c)
    BY <2>2, <2>3
       DEF Next, Schedule, Start, ExecuteRound, End, Recover, vars, databaseVars,
           StartBatch, AllowLiveBatches, OpenLiveBatches, StartRoundCycle, FreezeRound,
           ExecuteBatchRound, RoundExecuted, ReopenRound, EndBatch, StopRoundCycle,
           RunPostBatchEvaluation, CheckRemaining, RunFinalSweep, EnterAdminMode,
           FindNextBatch, QueueNextBatch, EnterFinalSweep, Boot, CloseOverdue,
           OverdueClosed, ResumeBatch, RecoverRound, RecoverCycle, ArmPending, Tick,
           StartFails, RoundFails, CloseFails, EvaluationFails, QueueFails, BootFails, Crash
  <2>5. <<b, k>> = <<c, executing[c].round>>
    BY <2>1, <2>3, <2>4 DEF ProcessSubmission
  <2>6. PendingOnlyOf(b, k)
    BY <2>4, <2>5 DEF ProcessSubmission, OrderInv, InOrder
  <2> SUFFICES ASSUME NEW j \in 1..(k - 1) PROVE j \in Round \ {k}
    BY <2>6 DEF PendingOnlyOf
  <2>7. k \in Nat /\ k <= NumRounds /\ NumRounds \in Nat BY CycleAssumption DEF Round
  <2> QED BY <2>7 DEF Round
<1> QED BY <1>1, <1>2, OrderStep, InvCorrect, PTL DEF Spec, EarlierRoundsFirst
=============================================================================
