------------------------------ MODULE Outpass ------------------------------
(* The life of an outpass: src/controllers/outpass.controller.js and       *)
(* bulkRecordEntry of student.controller.js.  A student asks for a pass    *)
(* and may cancel it, attendants and wardens decide it, and guards record  *)
(* the student's exit and return: by hand, for many at once, by scanning   *)
(* the barcode of the pass, or offline at a terminal that sends its log    *)
(* later.  Requests run concurrently; a handler that reads a row without a *)
(* lock and then updates it by id is two steps, a conditional UPDATE or a  *)
(* SELECT ... FOR UPDATE with what follows it is one.                      *)
(*                                                                         *)
(* Every request is for passes of the right hostel and well formed.  The   *)
(* texts of a pass, remarks and guards' names are left out.  created_at of *)
(* a visit follows the order in which the exits commit.                    *)
EXTENDS Integers, Sequences, FiniteSets, FiniteSetsExt, SequencesExt

CONSTANTS
    Outpass,        \* rows the outpass table may get, numbered: its SERIAL ids
    Owner,          \* Owner[o]: the student who asks for o
    PassType,       \* PassType[o]: the kind of pass asked for
    Official,       \* attendants and wardens at work on a list of passes
    Guard,          \* guards who record by hand
    Log,            \* movements recorded offline, numbered by their timestamps
    LogPass,        \* LogPass[l]: the pass ...
    LogAction,      \* ... and LogAction[l]: "exit" or "enter"
    MaxVisits,      \* bound on the visits of one pass
    SyncSlot,       \* numbers of the requests of the terminal at the server at a time
    MaxSyncs,       \* bound on the requests the terminal sends
    BarcodeInScope  \* whether generateBarcodeToken and its like are defined

\* The controller does not import utils/barcode.js: at this commit BarcodeInScope is
\* FALSE, an approval ends in a ReferenceError and is rolled back, and so does a scan.
\* The behaviours for FALSE are among those for TRUE, where these handlers work.

ASSUME OutpassAssumption ==
    /\ Outpass \subseteq Nat /\ Log \subseteq Nat /\ SyncSlot \subseteq Nat
    /\ PassType \in [Outpass -> {"Local", "Home", "Outstation"}]
    /\ LogPass \in [Log -> Outpass]
    /\ LogAction \in [Log -> {"exit", "enter"}]
    /\ MaxVisits \in Nat /\ MaxSyncs \in Nat
    /\ BarcodeInScope \in BOOLEAN

VARIABLES
    outp_status,      \* the columns of the table outpass; "None": no such row
    is_active,
    std_status,
    barcode_token,    \* whether the column is set
    visit_log,        \* visit_log[o]: the visits of o, oldest first, "open" or "closed"
    granted,          \* history: the passes an official has ever approved
    creating,         \* requests that found no open pass and are about to insert one
    deciding,         \* deciding[a]: the passes a bulk action has verified, and the action
    cancelling,       \* passes whose cancellation was allowed and is not written yet
    recording,        \* recording[g]: the pass and the movement a guard's request allowed
    shown,            \* passes whose present barcode the student has on a screen
    terminal,         \* passes on the offline terminal's list
    recorded,         \* movements the terminal has recorded
    acked,            \* movements the terminal was told are stored
    sync,             \* sync[n]: a request with which the terminal has sent its log
    waiting,          \* the request whose answer the terminal waits for, if any ...
    synced,           \* ... and the movements that answer will report as synced
    syncs,
    guard_action_log, \* the table: movements that are stored
    applied,          \* history: applied[l]: how often the movement of l was made
    overlapped        \* history: movements sent while another request was about to
                      \* handle them

decisions == <<creating, deciding, cancelling>>
row == <<outp_status, is_active, std_status, barcode_token>>
syncVars == <<sync, waiting, synced, syncs, overlapped>>
offline == <<terminal, recorded, acked, syncVars, guard_action_log, applied>>
passVars == <<row, visit_log, granted, decisions, recording, shown, offline>>

Nothing == [ids |-> {}, action |-> "none"]
NotRecording == [id |-> 0, action |-> "none"]
NotSyncing == [pc |-> "idle", todo |-> {}]

PassInit ==
    /\ outp_status = [o \in Outpass |-> "None"]
    /\ is_active = [o \in Outpass |-> FALSE]
    /\ std_status = [o \in Outpass |-> "In"]
    /\ barcode_token = [o \in Outpass |-> FALSE]
    /\ visit_log = [o \in Outpass |-> <<>>]
    /\ granted = {}
    /\ creating = {}
    /\ deciding = [a \in Official |-> Nothing]
    /\ cancelling = {}
    /\ recording = [g \in Guard |-> NotRecording]
    /\ shown = {} /\ terminal = {} /\ recorded = {} /\ acked = {}
    /\ sync = [n \in SyncSlot |-> NotSyncing] /\ waiting = {} /\ synced = {}
    /\ syncs = 0 /\ overlapped = {}
    /\ guard_action_log = {}
    /\ applied = [l \in Log |-> 0]

-----------------------------------------------------------------------------
(* The student                                                             *)

LongTrip(o) == PassType[o] \in {"Home", "Outstation"}

\* The passes that stand in the way of o.
Conflicting(o) ==
    {p \in Outpass : /\ Owner[p] = Owner[o] /\ LongTrip(p) = LongTrip(o)
                     /\ is_active[p] /\ outp_status[p] \in {"Pending", "Approved"}}

\* createOutpass reads the open passes of the student without a lock ...
CreateCheck(o) ==
    /\ outp_status[o] = "None" /\ o \notin creating
    /\ Conflicting(o) = {}
    /\ creating' = creating \cup {o}
    /\ UNCHANGED <<row, visit_log, granted, deciding, cancelling, recording, shown, offline>>

\* Faulty variant of CreateInsert: the status of working-routes/outpass.js (used by a
\* mutant).
CreateInsertLowerCase(o) ==
    /\ o \in creating
    /\ creating' = creating \ {o}
    /\ outp_status' = [outp_status EXCEPT ![o] = "pending"]
    /\ is_active' = [is_active EXCEPT ![o] = TRUE]
    /\ UNCHANGED <<std_status, barcode_token, visit_log, granted, deciding, cancelling,
                   recording, shown, offline>>

\* ... and inserts its own.  The other columns have their defaults.
CreateInsert(o) ==
    /\ o \in creating
    /\ creating' = creating \ {o}
    /\ outp_status' = [outp_status EXCEPT ![o] = "Pending"]
    /\ is_active' = [is_active EXCEPT ![o] = TRUE]
    /\ UNCHANGED <<std_status, barcode_token, visit_log, granted, deciding, cancelling,
                   recording, shown, offline>>

\* cancelOutpass reads the pass without a lock ...
CancelCheck(o) ==
    /\ o \notin cancelling
    /\ is_active[o]
    /\ outp_status[o] \in {"Pending", "Approved"}
    /\ std_status[o] # "Out"
    /\ cancelling' = cancelling \cup {o}
    /\ UNCHANGED <<row, visit_log, granted, creating, deciding, recording, shown, offline>>

\* Faulty variant of CancelUpdate: the barcode is not revoked (used by a mutant).
CancelKeepingBarcode(o) ==
    /\ o \in cancelling
    /\ cancelling' = cancelling \ {o}
    /\ outp_status' = [outp_status EXCEPT ![o] = "Rejected"]
    /\ is_active' = [is_active EXCEPT ![o] = FALSE]
    /\ UNCHANGED <<std_status, barcode_token, visit_log, granted, creating, deciding,
                   recording, shown, offline>>

\* ... and writes by id whatever has become of it.
CancelUpdate(o) ==
    /\ o \in cancelling
    /\ cancelling' = cancelling \ {o}
    /\ outp_status' = [outp_status EXCEPT ![o] = "Rejected"]
    /\ is_active' = [is_active EXCEPT ![o] = FALSE]
    /\ barcode_token' = [barcode_token EXCEPT ![o] = FALSE]
    /\ shown' = shown \ {o}
    /\ UNCHANGED <<std_status, visit_log, granted, creating, deciding, recording, offline>>

\* getOutpassBarcode: the student sees the barcode of an approved, active pass.
ShowBarcode(o) ==
    /\ BarcodeInScope
    /\ outp_status[o] = "Approved" /\ is_active[o] /\ barcode_token[o]
    /\ shown' = shown \cup {o}
    /\ UNCHANGED <<row, visit_log, granted, decisions, recording, offline>>

-----------------------------------------------------------------------------
(* Attendants and wardens                                                  *)

Undecided(o) == outp_status[o] = "Pending" /\ is_active[o]

\* What an approval writes, and a rejection.  A new token takes the place of an old one.
SetApproved(ids) ==
    /\ outp_status' = [o \in Outpass |-> IF o \in ids THEN "Approved" ELSE outp_status[o]]
    /\ is_active' = [o \in Outpass |-> o \in ids \/ is_active[o]]
    /\ barcode_token' = [o \in Outpass |-> o \in ids \/ barcode_token[o]]
    /\ shown' = shown \ ids
    /\ granted' = granted \cup ids

SetRejected(ids) ==
    /\ outp_status' = [o \in Outpass |-> IF o \in ids THEN "Rejected" ELSE outp_status[o]]
    /\ is_active' = [o \in Outpass |-> o \notin ids /\ is_active[o]]
    /\ barcode_token' = [o \in Outpass |-> o \notin ids /\ barcode_token[o]]
    /\ shown' = shown \ ids
    /\ UNCHANGED granted

\* approveOutpass and rejectOutpass: the UPDATE repeats the condition of the check.
Approve(o) ==
    /\ BarcodeInScope
    /\ Undecided(o)
    /\ SetApproved({o})
    /\ UNCHANGED <<std_status, visit_log, decisions, recording, offline>>

Reject(o) ==
    /\ Undecided(o)
    /\ SetRejected({o})
    /\ UNCHANGED <<std_status, visit_log, decisions, recording, offline>>

\* bulkOutpassAction lists the undecided ones among the ids it was sent ...
BulkVerify(a, ids, action) ==
    /\ deciding[a] = Nothing
    /\ ids # {} /\ \A o \in ids : Undecided(o)
    /\ action = "approve" => BarcodeInScope
    /\ deciding' = [deciding EXCEPT ![a] = [ids |-> ids, action |-> action]]
    /\ UNCHANGED <<row, visit_log, granted, creating, cancelling, recording, shown, offline>>

\* ... and updates them by id, all or none, without the condition.
BulkUpdate(a) ==
    /\ \/ deciding[a].action = "approve" /\ SetApproved(deciding[a].ids)
       \/ deciding[a].action = "reject" /\ SetRejected(deciding[a].ids)
    /\ deciding' = [deciding EXCEPT ![a] = Nothing]
    /\ UNCHANGED <<std_status, visit_log, creating, cancelling, recording, offline>>

-----------------------------------------------------------------------------
(* The gate                                                                *)

\* The latest visit is closed, even when it is closed already.
CloseLatest(visits) ==
    IF visits = <<>> THEN visits ELSE [visits EXCEPT ![Len(visits)] = "closed"]

CloseAll(visits) == [i \in DOMAIN visits |-> "closed"]

\* Faulty variant of Leave: a pass gets one visit only (used by a mutant).
LeaveOnce(ids) ==
    /\ visit_log' = [o \in Outpass |->
           IF o \in ids /\ visit_log[o] = <<>> THEN <<"open">> ELSE visit_log[o]]
    /\ std_status' = [o \in Outpass |-> IF o \in ids THEN "Out" ELSE std_status[o]]
    /\ UNCHANGED <<outp_status, is_active, barcode_token, shown, granted>>

\* Students leave on the passes ids, and return.
Leave(ids) ==
    /\ \A o \in ids : Len(visit_log[o]) < MaxVisits
    /\ visit_log' = [o \in Outpass |->
           IF o \in ids THEN Append(visit_log[o], "open") ELSE visit_log[o]]
    /\ std_status' = [o \in Outpass |-> IF o \in ids THEN "Out" ELSE std_status[o]]
    /\ UNCHANGED <<outp_status, is_active, barcode_token, shown, granted>>

Return(ids) ==
    /\ visit_log' = [o \in Outpass |->
           IF o \in ids THEN CloseLatest(visit_log[o]) ELSE visit_log[o]]
    /\ std_status' = [o \in Outpass |-> IF o \in ids THEN "In" ELSE std_status[o]]
    /\ is_active' = [o \in Outpass |-> o \notin ids /\ is_active[o]]
    /\ barcode_token' = [o \in Outpass |-> o \notin ids /\ barcode_token[o]]
    /\ shown' = shown \ ids
    /\ UNCHANGED <<outp_status, granted>>

\* Faulty variant of RecordCheck: whether the pass was approved is not asked (used by
\* a mutant).
RecordCheckUnapproved(g, o, action) ==
    /\ recording[g] = NotRecording
    /\ outp_status[o] # "None"
    /\ action = "exit" <=> std_status[o] # "Out"
    /\ recording' = [recording EXCEPT ![g] = [id |-> o, action |-> action]]
    /\ UNCHANGED <<row, visit_log, granted, decisions, shown, offline>>

\* recordEntry reads the pass without a lock; whether it is active is not asked ...
RecordCheck(g, o, action) ==
    /\ recording[g] = NotRecording
    /\ outp_status[o] # "None"
    /\ \/ action = "exit" /\ outp_status[o] = "Approved" /\ std_status[o] # "Out"
       \/ action = "enter" /\ std_status[o] = "Out"
    /\ recording' = [recording EXCEPT ![g] = [id |-> o, action |-> action]]
    /\ UNCHANGED <<row, visit_log, granted, decisions, shown, offline>>

\* ... and records the movement by id.
RecordExit(g) ==
    /\ recording[g].action = "exit"
    /\ Leave({recording[g].id})
    /\ recording' = [recording EXCEPT ![g] = NotRecording]
    /\ UNCHANGED <<decisions, offline>>

RecordEnter(g) ==
    /\ recording[g].action = "enter"
    /\ Return({recording[g].id})
    /\ recording' = [recording EXCEPT ![g] = NotRecording]
    /\ UNCHANGED <<decisions, offline>>

\* bulkRecordEntry decides and records in one statement.
BulkExit(ids) ==
    /\ ids # {}
    /\ \A o \in ids : outp_status[o] = "Approved" /\ std_status[o] # "Out"
    /\ Leave(ids)
    /\ UNCHANGED <<decisions, recording, offline>>

BulkEnter(ids) ==
    /\ ids # {}
    /\ \A o \in ids : std_status[o] = "Out"
    /\ Return(ids)
    /\ UNCHANGED <<decisions, recording, offline>>

\* scanOutpassBarcode finds and locks the pass by its token; the first scan is the exit
\* and the second one the return, which closes the pass.
Scan(o) ==
    /\ BarcodeInScope
    /\ o \in shown /\ barcode_token[o]
    /\ outp_status[o] = "Approved" /\ is_active[o]
    /\ IF std_status[o] = "Out" THEN Return({o}) ELSE Leave({o})
    /\ UNCHANGED <<decisions, recording, offline>>

-----------------------------------------------------------------------------
(* The offline terminal                                                    *)

\* monitorDashboard: what is approved and active.  The delta feed only ever adds.
Monitor ==
    /\ terminal' = terminal \cup
           {o \in Outpass : outp_status[o] = "Approved" /\ is_active[o]}
    /\ UNCHANGED <<row, visit_log, granted, decisions, recording, shown,
                   recorded, acked, syncVars, guard_action_log, applied>>

\* A guard records a movement while the terminal has no connection.
RecordOffline(l) ==
    /\ l \notin recorded
    /\ LogPass[l] \in terminal
    /\ \A k \in Log : k < l => k \in recorded
    /\ recorded' = recorded \cup {l}
    /\ UNCHANGED <<row, visit_log, granted, decisions, recording, shown,
                   terminal, acked, syncVars, guard_action_log, applied>>

\* The terminal sends what it has not been told is stored.  It waits for one answer at a
\* time, but a request it no longer waits for may still be handled.
SendLogs(n) ==
    LET todo == recorded \ acked IN
    /\ waiting = {} /\ syncs < MaxSyncs
    /\ sync[n] = NotSyncing /\ \A m \in SyncSlot : m < n => sync[m] # NotSyncing
    /\ todo # {}
    /\ sync' = [sync EXCEPT ![n] = [pc |-> "check", todo |-> todo]]
    /\ waiting' = {n} /\ synced' = {} /\ syncs' = syncs + 1
    /\ overlapped' = overlapped \cup
           {l \in todo : \E m \in SyncSlot \ {n} : l \in sync[m].todo}
    /\ UNCHANGED <<row, visit_log, granted, decisions, recording, shown,
                   terminal, recorded, acked, guard_action_log, applied>>

\* syncGuardLogs handles the movements in the order of their timestamps.
NextLog(n) == Min(sync[n].todo)

Handled(n, stored) ==
    /\ sync' = [sync EXCEPT ![n] = [pc |-> "check", todo |-> @.todo \ {NextLog(n)}]]
    /\ synced' = IF stored /\ n \in waiting THEN synced \cup {NextLog(n)} ELSE synced
    /\ UNCHANGED <<waiting, syncs, overlapped>>

\* Faulty variant of SyncCheck: what is stored is not looked up (used by a mutant).
SyncUnchecked(n) ==
    /\ sync[n].pc = "check" /\ sync[n].todo # {}
    /\ sync' = [sync EXCEPT ![n].pc = "apply"]
    /\ UNCHANGED <<row, visit_log, granted, decisions, recording, shown, terminal, recorded,
                   acked, waiting, synced, syncs, overlapped, guard_action_log, applied>>

\* A movement that is stored is answered as synced; the others are handled ...
SyncCheck(n) ==
    /\ sync[n].pc = "check" /\ sync[n].todo # {}
    /\ IF NextLog(n) \in guard_action_log
       THEN Handled(n, TRUE)
       ELSE /\ sync' = [sync EXCEPT ![n].pc = "apply"]
            /\ UNCHANGED <<waiting, synced, syncs, overlapped>>
    /\ UNCHANGED <<row, visit_log, granted, decisions, recording, shown,
                   terminal, recorded, acked, guard_action_log, applied>>

\* ... in a transaction that locks the pass, and does not ask again whether the movement
\* is stored.  A movement whose state is reached already is stored all the same.  An exit
\* asks for an approved pass, not for an active one; a return closes every open visit and
\* leaves the token.
SyncMove(o, action) ==
    /\ action = "exit" => outp_status[o] = "Approved"
    /\ IF action = "exit" THEN Leave({o})
       ELSE /\ visit_log' = [visit_log EXCEPT ![o] = CloseAll(visit_log[o])]
            /\ std_status' = [std_status EXCEPT ![o] = "In"]
            /\ is_active' = [is_active EXCEPT ![o] = FALSE]
            /\ UNCHANGED <<outp_status, barcode_token, shown, granted>>

SyncApply(n) ==
    LET l == NextLog(n)
        o == LogPass[l]
        there == IF LogAction[l] = "exit" THEN "Out" ELSE "In" IN
    /\ sync[n].pc = "apply"
    /\ IF std_status[o] = there
       THEN UNCHANGED <<row, visit_log, granted, shown, applied>>
       ELSE /\ SyncMove(o, LogAction[l])
            /\ applied' = [applied EXCEPT ![l] = @ + 1]
    /\ guard_action_log' = guard_action_log \cup {l}
    /\ Handled(n, TRUE)
    /\ UNCHANGED <<decisions, recording, terminal, recorded, acked>>

\* The movement is refused, or a statement fails: the transaction is rolled back, and
\* the next movement is handled.
SyncFails(n) ==
    /\ sync[n].pc = "apply"
    /\ Handled(n, FALSE)
    /\ UNCHANGED <<row, visit_log, granted, decisions, recording, shown,
                   terminal, recorded, acked, guard_action_log, applied>>

\* The answer reaches the terminal if it still waits for it.
SyncAnswer(n) ==
    /\ sync[n].pc = "check" /\ sync[n].todo = {}
    /\ sync' = [sync EXCEPT ![n] = NotSyncing]
    /\ IF n \in waiting
       THEN waiting' = {} /\ acked' = acked \cup synced /\ synced' = {}
       ELSE UNCHANGED <<waiting, acked, synced>>
    /\ UNCHANGED <<row, visit_log, granted, decisions, recording, shown,
                   terminal, recorded, syncs, overlapped, guard_action_log, applied>>

\* The terminal gives up waiting; the server knows nothing of it.
SyncGivenUp ==
    /\ waiting # {}
    /\ waiting' = {} /\ synced' = {}
    /\ UNCHANGED <<row, visit_log, granted, decisions, recording, shown, terminal,
                   recorded, acked, sync, syncs, overlapped, guard_action_log, applied>>

\* Or the connection breaks and the request is not handled any further: the server stops.
SyncStops(n) ==
    /\ sync[n] # NotSyncing
    /\ sync' = [sync EXCEPT ![n] = NotSyncing]
    /\ IF n \in waiting THEN waiting' = {} /\ synced' = {} ELSE UNCHANGED <<waiting, synced>>
    /\ UNCHANGED <<row, visit_log, granted, decisions, recording, shown, terminal,
                   recorded, acked, syncs, overlapped, guard_action_log, applied>>

-----------------------------------------------------------------------------
StudentStep ==
    \E o \in Outpass : CreateCheck(o) \/ CreateInsert(o) \/ CancelCheck(o) \/ CancelUpdate(o)
                         \/ ShowBarcode(o)

OfficialStep ==
    \/ \E o \in Outpass : Approve(o) \/ Reject(o)
    \/ \E a \in Official :
          \/ BulkUpdate(a)
          \/ \E ids \in SUBSET Outpass, action \in {"approve", "reject"} :
                BulkVerify(a, ids, action)

Terminal ==
    \/ Monitor \/ \E l \in Log : RecordOffline(l)
    \/ \E n \in SyncSlot : \/ SendLogs(n) \/ SyncCheck(n) \/ SyncApply(n)
                           \/ SyncFails(n) \/ SyncAnswer(n) \/ SyncStops(n)
    \/ SyncGivenUp

\* RecordEnter is left to LateReturn, which adds what happens after its commit.
GateStep ==
    \/ \E g \in Guard : \/ RecordExit(g)
                        \/ \E o \in Outpass, action \in {"exit", "enter"} :
                              RecordCheck(g, o, action)
    \/ \E ids \in SUBSET Outpass : BulkExit(ids) \/ BulkEnter(ids)
    \/ \E o \in Outpass : Scan(o)

-----------------------------------------------------------------------------
(* Properties                                                              *)

\* Every variable of a pass has its type.
PassTypeOK ==
    /\ outp_status \in [Outpass -> {"None", "Pending", "Approved", "Rejected"}]
    /\ is_active \in [Outpass -> BOOLEAN]
    /\ std_status \in [Outpass -> {"In", "Out"}]
    /\ barcode_token \in [Outpass -> BOOLEAN]
    /\ visit_log \in [Outpass -> Seq({"open", "closed"})]
    /\ granted \subseteq Outpass /\ creating \subseteq Outpass /\ cancelling \subseteq Outpass
    /\ deciding \in [Official ->
           [ids : SUBSET Outpass, action : {"none", "approve", "reject"}]]
    /\ recording \in [Guard ->
           [id : Outpass \cup {0}, action : {"none", "exit", "enter"}]]
    /\ shown \subseteq Outpass /\ terminal \subseteq Outpass
    /\ recorded \subseteq Log /\ acked \subseteq Log /\ guard_action_log \subseteq Log
    /\ sync \in [SyncSlot -> [pc : {"idle", "check", "apply"}, todo : SUBSET Log]]
    /\ waiting \subseteq SyncSlot /\ synced \subseteq Log /\ overlapped \subseteq Log
    /\ syncs \in 0..MaxSyncs
    /\ applied \in [Log -> Nat]

\* recordEntry, bulkRecordEntry, syncGuardLogs and scanOutpassBarcode: whatever requests
\* overlap, nobody is out on a pass that no official ever approved.
OutNeedsApproval == \A o \in Outpass : std_status[o] = "Out" => o \in granted

\* A student who is out has a visit without arrival: the return of one of two overlapping
\* requests never closes the visit of an exit that came after it.
OutMeansOpenVisit ==
    \A o \in Outpass : std_status[o] = "Out" =>
        \E i \in DOMAIN visit_log[o] : visit_log[o][i] = "open"

\* Every way out of the status Approved revokes the barcode, also when a cancellation
\* and a bulk action write over each other.
TokenMeansApproved ==
    \A o \in Outpass : barcode_token[o] => outp_status[o] = "Approved"

\* syncGuardLogs: a movement that the terminal sends again, because it gave up waiting or
\* the server stopped, is made once, and one reported as synced is stored.  Excepted is a
\* movement sent again while the earlier request was yet to handle it: whether it is stored
\* is asked before the pass is locked, and both requests may make it (see README.md).
MovedOnce ==
    \A l \in Log : /\ applied[l] <= 1 \/ l \in overlapped
                   /\ l \in acked => l \in guard_action_log

-----------------------------------------------------------------------------
(* What the code does not keep: see README.md                              *)

\* syncGuardLogs looks a movement up in guard_action_log so as not to make it twice.
SyncedTwiceMovedOnce == \A l \in Log : applied[l] <= 1

\* syncGuardLogs on sorting: "so exits process before entries".  No exit is made after
\* a later entry on the same pass has been stored.
ExitsBeforeEntries ==
    [][\A k, l \in Log :
          (k < l /\ LogPass[k] = LogPass[l] /\ LogAction[k] = "exit"
             /\ LogAction[l] = "enter" /\ applied'[k] # applied[k])
                => l \notin guard_action_log]_passVars
=============================================================================
