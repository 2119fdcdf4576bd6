--------------------------- MODULE BatchTimetable ---------------------------
(***************************************************************************)
(* What the schedulers promise of the batches of an allocation event: every *)
(* batch is opened, closed and evaluated, in this order and each at most   *)
(* once, not opened before its start time nor closed before its end time,  *)
(* and the event reaches its end only after its last batch is closed.  That *)
(* it stays there is not promised: an event may be taken back to an earlier *)
(* phase once it has reached its end.                                      *)
(***************************************************************************)
EXTENDS Integers

CONSTANTS
    Batch,                \* batches of the event
    StartTime, EndTime    \* window of a batch

VARIABLES
    clock,
    stage,      \* what has become of a batch
    finished    \* the event has reached its end, whatever became of it later

vars == <<clock, stage, finished>>

Init ==
    /\ clock = 0
    /\ stage = [b \in Batch |-> "waiting"]
    /\ finished = FALSE

Tick == clock' = clock + 1 /\ UNCHANGED <<stage, finished>>

Open(b) ==
    /\ stage[b] = "waiting" /\ StartTime[b] <= clock
    /\ stage' = [stage EXCEPT ![b] = "open"]
    /\ UNCHANGED <<clock, finished>>

Close(b) ==
    /\ stage[b] = "open" /\ EndTime[b] <= clock
    /\ stage' = [stage EXCEPT ![b] = "closed"]
    /\ UNCHANGED <<clock, finished>>

Evaluate(b) ==
    /\ stage[b] = "closed"
    /\ stage' = [stage EXCEPT ![b] = "evaluated"]
    /\ UNCHANGED <<clock, finished>>

Finish ==
    /\ \A b \in Batch : stage[b] \in {"closed", "evaluated"}
    /\ finished' = TRUE
    /\ UNCHANGED <<clock, stage>>

Next == Tick \/ Finish \/ \E b \in Batch : Open(b) \/ Close(b) \/ Evaluate(b)

Spec == Init /\ [][Next]_vars
=============================================================================
