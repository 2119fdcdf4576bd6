----------------------------- MODULE LateReturn -----------------------------
(* Late returns: src/notifications/.  A timer lists the Outstation passes  *)
(* whose student is still out after the declared arrival and mails parent  *)
(* and chief wardens about each; the guard's entry does the same for a     *)
(* student who comes back late.  Each attempt is recorded in a table,      *)
(* whether the mails went out or not, and the timer's attempts are what    *)
(* keeps a pass from being listed again.                                   *)
EXTENDS Outpass

CONSTANTS
    ScanSlot,       \* scans that may be under way at the same time
    MaxFailures     \* bound on the statements of a scan that fail

ASSUME LateAssumption == MaxFailures \in Nat

VARIABLES
    overdue,        \* passes whose arrival_datetime is past
    scan,           \* scan[n]: the passes a scan has listed and not mailed about yet
    checkedIn,      \* passes entered late, about which the check-in hook is yet to mail
    notified,       \* passes with a SCHEDULED_SCAN row in late_return_notification
    late,           \* passes with a CHECK_IN row
    failures

lateVars == <<overdue, scan, checkedIn, notified, late, failures>>
vars == <<passVars, lateVars>>

Init ==
    /\ PassInit
    /\ overdue = {} /\ checkedIn = {} /\ notified = {} /\ late = {}
    /\ scan = [n \in ScanSlot |-> {}]
    /\ failures = 0

\* The declared arrival of a pass goes by.
ArrivalPasses(o) ==
    /\ outp_status[o] # "None" /\ o \notin overdue
    /\ overdue' = overdue \cup {o}
    /\ UNCHANGED <<passVars, scan, checkedIn, notified, late, failures>>

\* isLateOutstationReturn, of a pass as it was read before the entry.
IsLate(o) == PassType[o] = "Outstation" /\ o \in overdue

\* recordEntry's entry starts the check-in hook when its transaction is committed.
Enter(g) ==
    /\ RecordEnter(g)
    /\ checkedIn' = IF IsLate(recording[g].id) THEN checkedIn \cup {recording[g].id}
                    ELSE checkedIn
    /\ UNCHANGED <<overdue, scan, notified, late, failures>>

\* The hook mails and records; what fails in it is only logged.
NotifyCheckIn(o) ==
    /\ o \in checkedIn
    /\ checkedIn' = checkedIn \ {o}
    /\ late' = late \cup {o}
    /\ UNCHANGED <<passVars, overdue, scan, notified, failures>>

CheckInFails(o) ==
    /\ o \in checkedIn
    /\ checkedIn' = checkedIn \ {o}
    /\ UNCHANGED <<passVars, overdue, scan, notified, late, failures>>

\* Faulty variant of Overdue: a pass that was closed or cancelled does not count (used
\* by a mutant).
OverdueActive ==
    {o \in Outpass : IsLate(o) /\ std_status[o] = "Out" /\ is_active[o] /\ o \notin notified}

\* getOverdueOutstationOutpasses.
Overdue == {o \in Outpass : IsLate(o) /\ std_status[o] = "Out" /\ o \notin notified}

\* scanOnce lists them ...
Scanned(n) ==
    /\ scan[n] = {} /\ Overdue # {}
    /\ scan' = [scan EXCEPT ![n] = Overdue]
    /\ UNCHANGED <<passVars, overdue, checkedIn, notified, late, failures>>

\* ... and awaits the mails of one after the other.  A mail that fails is recorded like
\* one that went out.
Notify(n, o) ==
    /\ o \in scan[n]
    /\ scan' = [scan EXCEPT ![n] = @ \ {o}]
    /\ notified' = notified \cup {o}
    /\ UNCHANGED <<passVars, overdue, checkedIn, late, failures>>

\* The INSERT that records it fails.
NotRecorded(n, o) ==
    /\ o \in scan[n] /\ failures < MaxFailures
    /\ failures' = failures + 1
    /\ scan' = [scan EXCEPT ![n] = @ \ {o}]
    /\ UNCHANGED <<passVars, overdue, checkedIn, notified, late>>

Remind ==
    \/ \E o \in Outpass : ArrivalPasses(o) \/ NotifyCheckIn(o) \/ CheckInFails(o)
    \/ \E g \in Guard : Enter(g)
    \/ \E n \in ScanSlot :
          Scanned(n) \/ \E o \in Outpass : Notify(n, o) \/ NotRecorded(n, o)

Next ==
    \/ (StudentStep \/ OfficialStep \/ GateStep \/ Terminal) /\ UNCHANGED lateVars
    \/ Remind

Spec == Init /\ [][Next]_vars

\* The timer keeps firing, and a mail is answered or times out.
Fairness ==
    \A n \in ScanSlot :
        /\ WF_vars(Scanned(n))
        /\ \A o \in Outpass : WF_vars(Notify(n, o) \/ NotRecorded(n, o))

LiveSpec == Spec /\ Fairness

-----------------------------------------------------------------------------
(* Properties                                                              *)

\* Every variable has its type.
TypeOK ==
    /\ PassTypeOK
    /\ overdue \subseteq Outpass /\ checkedIn \subseteq Outpass
    /\ notified \subseteq Outpass /\ late \subseteq Outpass
    /\ scan \in [ScanSlot -> SUBSET Outpass]
    /\ failures \in 0..MaxFailures

\* startLateReturnScheduler: a student who stays out past the arrival of an Outstation
\* pass is reported in the end, even if the pass was cancelled or closed meanwhile and
\* though recording a report may fail.
OverdueReported ==
    \A o \in Outpass :
        std_status[o] = "Out" /\ IsLate(o) ~> o \in notified \/ std_status[o] = "In"
=============================================================================
