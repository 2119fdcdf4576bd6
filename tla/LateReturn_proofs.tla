------------------------- MODULE LateReturn_proofs --------------------------
(***************************************************************************)
(* Proofs about Outpass and LateReturn: type correctness, nobody is out on *)
(* a pass that was never approved, whoever is out has an open visit, only  *)
(* an approved pass has a barcode, and a movement recorded offline is made *)
(* once.                                                                   *)
(***************************************************************************)
EXTENDS LateReturn, SequenceTheorems, WellFoundedInduction, TLAPS

-----------------------------------------------------------------------------
(* The inductive invariant                                                 *)

\* What was once read stays true of it: a pass that is approved, and one that a guard's
\* request has let out, was granted by an official.
ApprovalInv ==
    /\ \A o \in Outpass : outp_status[o] = "Approved" => o \in granted
    /\ \A g \in Guard : recording[g].action = "exit" => recording[g].id \in granted
    /\ OutNeedsApproval

\* A request that creates a pass is the only one that knows of it.
TokenInv ==
    /\ \A o \in creating : outp_status[o] = "None"
    /\ \A o \in cancelling : outp_status[o] # "None"
    /\ \A a \in Official : \A o \in deciding[a].ids : outp_status[o] # "None"
    /\ TokenMeansApproved

\* The movement a request is about to make is not stored, unless two requests have it to
\* handle; and one that was made is stored.
SyncInv ==
    /\ \A n \in SyncSlot : sync[n].pc = "apply" =>
           sync[n].todo # {} /\ (NextLog(n) \in guard_action_log => NextLog(n) \in overlapped)
    /\ \A m, n \in SyncSlot : m # n => sync[m].todo \cap sync[n].todo \subseteq overlapped
    /\ synced \subseteq guard_action_log
    /\ \A l \in Log : applied[l] = 0 \/ l \in guard_action_log
    /\ MovedOnce

Inv == TypeOK /\ ApprovalInv /\ OutMeansOpenVisit /\ TokenInv /\ SyncInv
-----------------------------------------------------------------------------
(* Lemmas                                                                  *)

\* A non-empty set of naturals has a least element.
LEMMA LeastNatural ==
    ASSUME NEW T \in SUBSET Nat, T # {}
    PROVE  \E m \in T : \A n \in T : m <= n
<1>1. IsWellFoundedOn({p \in Nat \X Nat : p[1] < p[2]}, Nat)
  BY NatLessThanWellFounded, Zenon DEF OpToRel
<1>2. PICK less : less = {p \in Nat \X Nat : p[1] < p[2]} OBVIOUS
<1>3. PICK m \in T : \A n \in T : <<n, m>> \notin less BY <1>1, <1>2, WFMin
<1>4. \A n \in T : n < m => <<n, m>> \in less BY <1>2
<1>5. \A n \in T : ~ (n < m) BY <1>3, <1>4
<1>6. \A n \in T : m <= n BY <1>5
<1> QED BY <1>6

\* The movement that is handled is one of those to be handled.
LEMMA NextLogType ==
    ASSUME TypeOK, NEW n \in SyncSlot, sync[n].todo # {}
    PROVE  NextLog(n) \in sync[n].todo /\ NextLog(n) \in Log
<1>1. sync[n].todo \in SUBSET Log BY DEF TypeOK, PassTypeOK
<1>2. sync[n].todo \in SUBSET Nat BY <1>1, OutpassAssumption
<1>3. PICK m \in sync[n].todo : \A k \in sync[n].todo : m <= k BY <1>2, LeastNatural
<1>4. NextLog(n) \in sync[n].todo BY <1>3 DEF NextLog, Min
<1> QED BY <1>1, <1>4

\* What a request does at the server without making a movement.
Quiet(n) == SendLogs(n) \/ SyncCheck(n) \/ SyncFails(n) \/ SyncAnswer(n) \/ SyncStops(n)

\* The visits after an exit or a return are visits, none of which disappears.
LEMMA VisitsType ==
    ASSUME NEW visits \in Seq({"open", "closed"})
    PROVE  /\ CloseLatest(visits) \in Seq({"open", "closed"})
           /\ CloseAll(visits) \in Seq({"open", "closed"})
           /\ Append(visits, "open") \in Seq({"open", "closed"})
           /\ Len(visits) + 1 \in DOMAIN Append(visits, "open")
           /\ Append(visits, "open")[Len(visits) + 1] = "open"
<1>1. CloseLatest(visits) \in Seq({"open", "closed"})
  BY ExceptSeq, EmptySeq DEF CloseLatest
<1>2. CloseAll(visits) \in Seq({"open", "closed"})
  <2>1. CloseAll(visits) \in [1..Len(visits) -> {"open", "closed"}]
    BY LenProperties DEF CloseAll
  <2> QED BY <2>1, LenProperties, SeqDef
<1>3. Append(visits, "open") \in Seq({"open", "closed"})
      /\ Len(visits) + 1 \in DOMAIN Append(visits, "open")
      /\ Append(visits, "open")[Len(visits) + 1] = "open"
  BY LenProperties, AppendProperties
<1> QED BY <1>1, <1>2, <1>3

RowTypeOK ==
    /\ outp_status \in [Outpass -> {"None", "Pending", "Approved", "Rejected"}]
    /\ is_active \in [Outpass -> BOOLEAN]
    /\ std_status \in [Outpass -> {"In", "Out"}]
    /\ barcode_token \in [Outpass -> BOOLEAN]
    /\ visit_log \in [Outpass -> Seq({"open", "closed"})]
    /\ granted \subseteq Outpass
    /\ shown \subseteq Outpass

\* A decision or a movement leaves the rows of the passes well typed.
LEMMA RowType ==
    ASSUME TypeOK, NEW ids \in SUBSET (Outpass \cup {0})
    PROVE  /\ /\ ids \subseteq Outpass /\ SetApproved(ids)
              /\ UNCHANGED <<std_status, visit_log>>
              => RowTypeOK'
           /\ SetRejected(ids) /\ UNCHANGED <<std_status, visit_log>> => RowTypeOK'
           /\ Leave(ids) => RowTypeOK'
           /\ Return(ids) => RowTypeOK'
<1> USE DEF TypeOK, PassTypeOK, RowTypeOK
<1>1. ASSUME ids \subseteq Outpass, SetApproved(ids), UNCHANGED <<std_status, visit_log>>
      PROVE  RowTypeOK'
  BY <1>1 DEF SetApproved
<1>2. ASSUME SetRejected(ids), UNCHANGED <<std_status, visit_log>> PROVE RowTypeOK'
  BY <1>2 DEF SetRejected
<1>3. ASSUME Leave(ids) PROVE RowTypeOK'
  <2>1. visit_log' \in [Outpass -> Seq({"open", "closed"})] BY <1>3, VisitsType DEF Leave
  <2> QED BY <1>3, <2>1 DEF Leave
<1>4. ASSUME Return(ids) PROVE RowTypeOK'
  <2>1. visit_log' \in [Outpass -> Seq({"open", "closed"})] BY <1>4, VisitsType DEF Return
  <2> QED BY <1>4, <2>1 DEF Return
<1> QED BY <1>1, <1>2, <1>3, <1>4

\* Initially the invariant holds.
LEMMA InitInv == Init => Inv
<1> SUFFICES ASSUME Init PROVE Inv OBVIOUS
<1> USE DEF Init, PassInit, NotSyncing, Nothing, NotRecording
<1>1. TypeOK
  <2>1. PassTypeOK BY OutpassAssumption DEF PassTypeOK
  <2> QED BY <2>1, LateAssumption DEF TypeOK
<1>2. ApprovalInv BY DEF ApprovalInv, OutNeedsApproval
<1>3. OutMeansOpenVisit BY DEF OutMeansOpenVisit
<1>4. TokenInv BY DEF TokenInv, TokenMeansApproved
<1>5. SyncInv BY OutpassAssumption DEF SyncInv, MovedOnce
<1> QED BY <1>1, <1>2, <1>3, <1>4, <1>5 DEF Inv

-----------------------------------------------------------------------------
(* Type correctness                                                        *)

\* Every step leaves the variables of the passes well typed.
LEMMA PassTypeStep ==
    ASSUME Inv, [Next]_vars
    PROVE  PassTypeOK'
<1> USE DEF Inv, TypeOK, PassTypeOK, passVars, row, decisions, offline, syncVars
<1>1. ASSUME NEW o \in Outpass, CreateCheck(o) PROVE PassTypeOK' BY <1>1 DEF CreateCheck
<1>2. ASSUME NEW o \in Outpass, CreateInsert(o) PROVE PassTypeOK' BY <1>2 DEF CreateInsert
<1>3. ASSUME NEW o \in Outpass, CancelCheck(o) PROVE PassTypeOK' BY <1>3 DEF CancelCheck
<1>4. ASSUME NEW o \in Outpass, CancelUpdate(o) PROVE PassTypeOK' BY <1>4 DEF CancelUpdate
<1>5. ASSUME NEW o \in Outpass, ShowBarcode(o) PROVE PassTypeOK' BY <1>5 DEF ShowBarcode
<1>6. ASSUME NEW o \in Outpass, Approve(o) PROVE PassTypeOK'
  <2>1. RowTypeOK' BY <1>6, RowType DEF Approve
  <2> QED BY <1>6, <2>1 DEF Approve, RowTypeOK
<1>7. ASSUME NEW o \in Outpass, Reject(o) PROVE PassTypeOK'
  <2>1. RowTypeOK' BY <1>7, RowType DEF Reject
  <2> QED BY <1>7, <2>1 DEF Reject, RowTypeOK
<1>8. ASSUME NEW a \in Official, NEW ids \in SUBSET Outpass,
             NEW action \in {"approve", "reject"}, BulkVerify(a, ids, action)
      PROVE  PassTypeOK'
  BY <1>8 DEF BulkVerify
<1>9. ASSUME NEW a \in Official, BulkUpdate(a) PROVE PassTypeOK'
  <2>1. deciding[a].ids \in SUBSET Outpass OBVIOUS
  <2>2. RowTypeOK' BY <1>9, <2>1, RowType DEF BulkUpdate
  <2>3. deciding' \in [Official ->
           [ids : SUBSET Outpass, action : {"none", "approve", "reject"}]]
    BY <1>9 DEF BulkUpdate, Nothing
  <2> QED BY <1>9, <2>2, <2>3 DEF BulkUpdate, RowTypeOK
<1>10. ASSUME NEW g \in Guard, NEW o \in Outpass, NEW action \in {"exit", "enter"},
              RecordCheck(g, o, action)
       PROVE  PassTypeOK'
  BY <1>10 DEF RecordCheck
<1>11. ASSUME NEW g \in Guard, RecordExit(g) \/ RecordEnter(g) PROVE PassTypeOK'
  <2>1. {recording[g].id} \in SUBSET (Outpass \cup {0}) OBVIOUS
  <2>2. RowTypeOK' BY <1>11, <2>1, RowType DEF RecordExit, RecordEnter
  <2>3. recording' \in [Guard ->
           [id : Outpass \cup {0}, action : {"none", "exit", "enter"}]]
    BY <1>11 DEF RecordExit, RecordEnter, NotRecording
  <2> QED BY <1>11, <2>2, <2>3 DEF RecordExit, RecordEnter, RowTypeOK
<1>12. ASSUME NEW ids \in SUBSET Outpass, BulkExit(ids) \/ BulkEnter(ids) PROVE PassTypeOK'
  <2>1. RowTypeOK' BY <1>12, RowType DEF BulkExit, BulkEnter
  <2> QED BY <1>12, <2>1 DEF BulkExit, BulkEnter, RowTypeOK
<1>13. ASSUME NEW o \in Outpass, Scan(o) PROVE PassTypeOK'
  <2>1. RowTypeOK' BY <1>13, RowType DEF Scan
  <2> QED BY <1>13, <2>1 DEF Scan, RowTypeOK
<1>14. ASSUME Monitor PROVE PassTypeOK' BY <1>14 DEF Monitor
<1>15. ASSUME NEW l \in Log, RecordOffline(l) PROVE PassTypeOK' BY <1>15 DEF RecordOffline
<1>16. ASSUME NEW n \in SyncSlot, SendLogs(n) PROVE PassTypeOK'
  <2>1. sync' \in [SyncSlot -> [pc : {"idle", "check", "apply"}, todo : SUBSET Log]]
    BY <1>16 DEF SendLogs
  <2>2. syncs' \in 0..MaxSyncs BY <1>16, OutpassAssumption DEF SendLogs
  <2>3. waiting' \subseteq SyncSlot /\ synced' \subseteq Log /\ overlapped' \subseteq Log
    BY <1>16 DEF SendLogs
  <2> QED BY <1>16, <2>1, <2>2, <2>3 DEF SendLogs
<1>17. ASSUME NEW n \in SyncSlot, SyncCheck(n) PROVE PassTypeOK'
  <2>1. NextLog(n) \in Log BY <1>17, NextLogType DEF SyncCheck
  <2>2. /\ sync' \in [SyncSlot -> [pc : {"idle", "check", "apply"}, todo : SUBSET Log]]
        /\ synced' \subseteq Log /\ UNCHANGED <<waiting, syncs, overlapped>>
    <3>1. CASE NextLog(n) \in guard_action_log
      <4>1. /\ sync' = [sync EXCEPT ![n] =
                          [pc |-> "check", todo |-> sync[n].todo \ {NextLog(n)}]]
            /\ synced' \subseteq synced \cup {NextLog(n)}
            /\ UNCHANGED <<waiting, syncs, overlapped>>
        BY <1>17, <3>1 DEF SyncCheck, Handled
      <4> QED BY <2>1, <4>1
    <3>2. CASE NextLog(n) \notin guard_action_log
      <4>1. sync' = [sync EXCEPT ![n].pc = "apply"]
            /\ UNCHANGED <<waiting, synced, syncs, overlapped>>
        BY <1>17, <3>2 DEF SyncCheck
      <4> QED BY <4>1
    <3> QED BY <3>1, <3>2
  <2> QED BY <1>17, <2>2 DEF SyncCheck
<1>18. ASSUME NEW n \in SyncSlot, SyncApply(n) PROVE PassTypeOK'
  <2>1. NextLog(n) \in Log BY <1>18, NextLogType DEF SyncApply, SyncInv
  <2>2. LogPass[NextLog(n)] \in Outpass BY <2>1, OutpassAssumption
  <2>3. applied' \in [Log -> Nat]
    <3>1. applied' = applied \/ applied' = [applied EXCEPT ![NextLog(n)] = @ + 1]
      BY <1>18 DEF SyncApply
    <3>2. applied \in [Log -> Nat] OBVIOUS
    <3> HIDE DEF TypeOK, PassTypeOK, Inv
    <3> QED BY <2>1, <3>1, <3>2
  <2>4. ASSUME SyncMove(LogPass[NextLog(n)], LogAction[NextLog(n)]) PROVE RowTypeOK'
    <3>1. CASE LogAction[NextLog(n)] = "exit"
      BY <2>2, <2>4, <3>1, RowType DEF SyncMove
    <3>2. CASE LogAction[NextLog(n)] # "exit"
      <4> DEFINE o == LogPass[NextLog(n)]
      <4>1. CloseAll(visit_log[o]) \in Seq({"open", "closed"}) BY <2>2, VisitsType
      <4>2. visit_log' = [visit_log EXCEPT ![o] = CloseAll(visit_log[o])]
        BY <2>4, <3>2 DEF SyncMove
      <4>3. visit_log' \in [Outpass -> Seq({"open", "closed"})]
        BY <4>1, <4>2
      <4> QED BY <2>2, <2>4, <3>2, <4>3 DEF SyncMove, RowTypeOK
    <3> QED BY <3>1, <3>2
  <2>5. RowTypeOK' BY <1>18, <2>4 DEF SyncApply, RowTypeOK
  <2>6. /\ sync' \in [SyncSlot -> [pc : {"idle", "check", "apply"}, todo : SUBSET Log]]
        /\ synced' \subseteq Log /\ guard_action_log' \subseteq Log
        /\ UNCHANGED <<waiting, syncs, overlapped>>
    BY <1>18, <2>1 DEF SyncApply, Handled
  <2> QED BY <1>18, <2>3, <2>5, <2>6 DEF SyncApply, RowTypeOK
<1>19. ASSUME NEW n \in SyncSlot, SyncFails(n) PROVE PassTypeOK'
  BY <1>19 DEF SyncFails, Handled
<1>20. ASSUME NEW n \in SyncSlot, SyncAnswer(n) PROVE PassTypeOK'
  BY <1>20 DEF SyncAnswer, NotSyncing
<1>21. ASSUME NEW n \in SyncSlot, SyncStops(n) PROVE PassTypeOK'
  <2>1. /\ sync' = [sync EXCEPT ![n] = [pc |-> "idle", todo |-> {}]]
        /\ waiting' \subseteq waiting /\ synced' \subseteq synced
    BY <1>21 DEF SyncStops, NotSyncing
  <2> QED BY <1>21, <2>1 DEF SyncStops
<1>23. ASSUME SyncGivenUp PROVE PassTypeOK' BY <1>23 DEF SyncGivenUp
<1>22. ASSUME UNCHANGED passVars PROVE PassTypeOK' BY <1>22
<1> HIDE DEF Inv, TypeOK, PassTypeOK
<1> QED
  BY <1>1, <1>2, <1>3, <1>4, <1>5, <1>6, <1>7, <1>8, <1>9, <1>10, <1>11, <1>12, <1>13,
     <1>14, <1>15, <1>16, <1>17, <1>18, <1>19, <1>20, <1>21, <1>22, <1>23
  DEF Next, vars, StudentStep, OfficialStep, GateStep, Terminal, Quiet, Remind, Enter,
      ArrivalPasses, NotifyCheckIn, CheckInFails, Scanned, Notify, NotRecorded

\* The movement that is made is one of the log, and its pass is a pass.
LEMMA SyncedPass ==
    ASSUME Inv, NEW n \in SyncSlot, SyncApply(n)
    PROVE  NextLog(n) \in Log /\ LogPass[NextLog(n)] \in Outpass
BY NextLogType, OutpassAssumption DEF SyncApply, Inv, SyncInv

\* Every step leaves the variables of the reports well typed.
LEMMA TypeStep ==
    ASSUME Inv, [Next]_vars
    PROVE  TypeOK'
<1>1. PassTypeOK' BY PassTypeStep
<1> USE DEF Inv, TypeOK, lateVars
<1>2. ASSUME NEW o \in Outpass, ArrivalPasses(o) \/ NotifyCheckIn(o) \/ CheckInFails(o)
      PROVE  TypeOK'
  BY <1>1, <1>2 DEF ArrivalPasses, NotifyCheckIn, CheckInFails
<1>3. ASSUME NEW g \in Guard, Enter(g) PROVE TypeOK'
  <2>1. IsLate(recording[g].id) => recording[g].id \in Outpass BY DEF IsLate
  <2> QED BY <1>1, <1>3, <2>1 DEF Enter
<1>4. ASSUME NEW n \in ScanSlot, Scanned(n) PROVE TypeOK'
  BY <1>1, <1>4 DEF Scanned, Overdue
<1>5. ASSUME NEW n \in ScanSlot, NEW o \in Outpass, Notify(n, o) PROVE TypeOK'
  BY <1>1, <1>5 DEF Notify
<1>6. ASSUME NEW n \in ScanSlot, NEW o \in Outpass, NotRecorded(n, o) PROVE TypeOK'
  BY <1>1, <1>6, LateAssumption DEF NotRecorded
<1>7. ASSUME UNCHANGED lateVars PROVE TypeOK' BY <1>1, <1>7
<1> HIDE DEF Inv, TypeOK
<1> QED BY <1>2, <1>3, <1>4, <1>5, <1>6, <1>7 DEF Next, vars, Remind, lateVars

-----------------------------------------------------------------------------
(* The other parts of the invariant                                        *)

\* Every step keeps whoever is out on a pass that was granted.
LEMMA ApprovalStep ==
    ASSUME Inv, [Next]_vars
    PROVE  ApprovalInv'
<1> USE DEF Inv, TypeOK, PassTypeOK, passVars, row, decisions, offline, syncVars,
            ApprovalInv, OutNeedsApproval
<1>1. ASSUME NEW o \in Outpass, CreateCheck(o) PROVE ApprovalInv' BY <1>1 DEF CreateCheck
<1>2. ASSUME NEW o \in Outpass, CreateInsert(o) PROVE ApprovalInv'
  BY <1>2 DEF CreateInsert
<1>3. ASSUME NEW o \in Outpass, CancelCheck(o) PROVE ApprovalInv' BY <1>3 DEF CancelCheck
<1>4. ASSUME NEW o \in Outpass, CancelUpdate(o) PROVE ApprovalInv'
  BY <1>4 DEF CancelUpdate
<1>5. ASSUME NEW o \in Outpass, ShowBarcode(o) PROVE ApprovalInv' BY <1>5 DEF ShowBarcode
<1>6. ASSUME NEW o \in Outpass, Approve(o) PROVE ApprovalInv'
  BY <1>6 DEF Approve, SetApproved, Undecided
<1>7. ASSUME NEW o \in Outpass, Reject(o) PROVE ApprovalInv'
  BY <1>7 DEF Reject, SetRejected, Undecided
<1>8. ASSUME NEW a \in Official, NEW ids \in SUBSET Outpass,
             NEW action \in {"approve", "reject"}, BulkVerify(a, ids, action)
      PROVE  ApprovalInv'
  BY <1>8 DEF BulkVerify, Undecided
<1>9. ASSUME NEW a \in Official, BulkUpdate(a) PROVE ApprovalInv'
  BY <1>9 DEF BulkUpdate, SetApproved, SetRejected, Nothing
<1>10. ASSUME NEW g \in Guard, NEW o \in Outpass, NEW action \in {"exit", "enter"},
              RecordCheck(g, o, action)
       PROVE  ApprovalInv'
  BY <1>10 DEF RecordCheck
<1>11. ASSUME NEW g \in Guard, RecordExit(g) PROVE ApprovalInv'
  BY <1>11 DEF RecordExit, Leave, NotRecording
<1>12. ASSUME NEW g \in Guard, RecordEnter(g) PROVE ApprovalInv'
  BY <1>12 DEF RecordEnter, Return, NotRecording
<1>13. ASSUME NEW ids \in SUBSET Outpass, BulkExit(ids) PROVE ApprovalInv'
  BY <1>13 DEF BulkExit, Leave
<1>14. ASSUME NEW ids \in SUBSET Outpass, BulkEnter(ids) PROVE ApprovalInv'
  BY <1>14 DEF BulkEnter, Return
<1>15. ASSUME NEW o \in Outpass, Scan(o) PROVE ApprovalInv'
  BY <1>15 DEF Scan, Leave, Return
<1>16. ASSUME \/ Monitor \/ SyncGivenUp \/ \E n \in SyncSlot : Quiet(n)
              \/ \E l \in Log : RecordOffline(l)
       PROVE  ApprovalInv'
  BY <1>16 DEF Monitor, RecordOffline, Quiet, SendLogs, SyncCheck, SyncFails, SyncAnswer,
     SyncStops, SyncGivenUp
<1>17. ASSUME NEW n \in SyncSlot, SyncApply(n) PROVE ApprovalInv'
  BY <1>17, SyncedPass DEF SyncApply, SyncMove, Leave
<1>18. ASSUME UNCHANGED passVars PROVE ApprovalInv' BY <1>18
<1> HIDE DEF Inv, TypeOK, PassTypeOK, ApprovalInv, OutNeedsApproval
<1> QED
  BY <1>1, <1>2, <1>3, <1>4, <1>5, <1>6, <1>7, <1>8, <1>9, <1>10, <1>11, <1>12, <1>13,
     <1>14, <1>15, <1>16, <1>17, <1>18
  DEF Next, vars, StudentStep, OfficialStep, GateStep, Terminal, Quiet, Remind, Enter,
      ArrivalPasses, NotifyCheckIn, CheckInFails, Scanned, Notify, NotRecorded

\* An exit leaves an open visit, and a return does not take one from another pass.
LEMMA MovementKeepsVisit ==
    ASSUME TypeOK, OutMeansOpenVisit, NEW ids, Leave(ids) \/ Return(ids)
    PROVE  OutMeansOpenVisit'
<1> SUFFICES ASSUME NEW o \in Outpass, std_status'[o] = "Out"
             PROVE  \E i \in DOMAIN visit_log'[o] : visit_log'[o][i] = "open"
  BY DEF OutMeansOpenVisit
<1> USE DEF TypeOK, PassTypeOK
<1>1. CASE o \in ids
  <2>1. Leave(ids) BY <1>1 DEF Leave, Return
  <2>2. visit_log'[o] = Append(visit_log[o], "open") BY <1>1, <2>1 DEF Leave
  <2>3. visit_log[o] \in Seq({"open", "closed"}) OBVIOUS
  <2>4. \E i \in DOMAIN Append(visit_log[o], "open") :
           Append(visit_log[o], "open")[i] = "open"
    BY <2>3, VisitsType
  <2> QED BY <2>2, <2>4
<1>2. CASE o \notin ids
  <2>1. std_status'[o] = std_status[o] /\ visit_log'[o] = visit_log[o]
    <3>1. CASE Leave(ids) BY <1>2, <3>1 DEF Leave
    <3>2. CASE Return(ids) BY <1>2, <3>2 DEF Return
    <3> QED BY <3>1, <3>2
  <2> QED BY <2>1 DEF OutMeansOpenVisit
<1> QED BY <1>1, <1>2

\* Every step keeps an open visit of whoever is out.
LEMMA VisitStep ==
    ASSUME Inv, [Next]_vars
    PROVE  OutMeansOpenVisit'
<1> USE DEF Inv, passVars, row
<1>1. ASSUME UNCHANGED <<std_status, visit_log>> PROVE OutMeansOpenVisit'
  BY <1>1 DEF OutMeansOpenVisit
<1>2. ASSUME NEW g \in Guard, RecordExit(g) \/ RecordEnter(g) PROVE OutMeansOpenVisit'
  BY <1>2, MovementKeepsVisit DEF RecordExit, RecordEnter
<1>3. ASSUME NEW ids \in SUBSET Outpass, BulkExit(ids) \/ BulkEnter(ids)
      PROVE  OutMeansOpenVisit'
  BY <1>3, MovementKeepsVisit DEF BulkExit, BulkEnter
<1>4. ASSUME NEW o \in Outpass, Scan(o) PROVE OutMeansOpenVisit'
  BY <1>4, MovementKeepsVisit DEF Scan
<1>5. ASSUME NEW n \in SyncSlot, SyncApply(n) PROVE OutMeansOpenVisit'
  <2> DEFINE o == LogPass[NextLog(n)]
  <2>1. o \in Outpass BY <1>5, SyncedPass
  <2>2. CASE SyncMove(o, "exit") BY <2>2, MovementKeepsVisit DEF SyncMove
  <2>3. CASE SyncMove(o, "enter")
    <3>1. /\ std_status' = [std_status EXCEPT ![o] = "In"]
          /\ visit_log' = [visit_log EXCEPT ![o] = CloseAll(visit_log[o])]
      BY <2>3 DEF SyncMove
    <3>2. \A p \in Outpass : std_status'[p] = "Out" =>
              std_status[p] = "Out" /\ visit_log'[p] = visit_log[p]
      BY <2>1, <3>1 DEF TypeOK, PassTypeOK
    <3> QED BY <3>2 DEF OutMeansOpenVisit
  <2>4. CASE UNCHANGED row /\ UNCHANGED visit_log BY <1>1, <2>4
  <2>5. LogAction[NextLog(n)] \in {"exit", "enter"} BY <1>5, SyncedPass, OutpassAssumption
  <2> QED BY <1>5, <2>2, <2>3, <2>4, <2>5 DEF SyncApply
<1>6. ASSUME NEW o \in Outpass,
             \/ CreateCheck(o) \/ CreateInsert(o) \/ CancelCheck(o) \/ CancelUpdate(o)
             \/ ShowBarcode(o) \/ Approve(o) \/ Reject(o)
      PROVE  OutMeansOpenVisit'
  BY <1>1, <1>6 DEF CreateCheck, CreateInsert, CancelCheck, CancelUpdate, ShowBarcode,
                    Approve, Reject
<1>7. ASSUME NEW a \in Official,
             \/ BulkUpdate(a)
             \/ \E ids \in SUBSET Outpass, action \in {"approve", "reject"} :
                   BulkVerify(a, ids, action)
      PROVE  OutMeansOpenVisit'
  BY <1>1, <1>7 DEF BulkUpdate, BulkVerify
<1>8. ASSUME NEW g \in Guard, NEW o \in Outpass, NEW action \in {"exit", "enter"},
             RecordCheck(g, o, action)
      PROVE  OutMeansOpenVisit'
  BY <1>1, <1>8 DEF RecordCheck
<1>9. ASSUME \/ Monitor \/ SyncGivenUp \/ \E n \in SyncSlot : Quiet(n)
             \/ \E l \in Log : RecordOffline(l)
      PROVE  OutMeansOpenVisit'
  BY <1>1, <1>9 DEF Monitor, RecordOffline, Quiet, SendLogs, SyncCheck, SyncFails,
                    SyncAnswer, SyncStops, SyncGivenUp
<1>10. ASSUME UNCHANGED passVars PROVE OutMeansOpenVisit' BY <1>1, <1>10
<1> HIDE DEF Inv
<1> QED
  BY <1>2, <1>3, <1>4, <1>5, <1>6, <1>7, <1>8, <1>9, <1>10
  DEF Next, vars, StudentStep, OfficialStep, GateStep, Terminal, Quiet, Remind, Enter,
      ArrivalPasses, NotifyCheckIn, CheckInFails, Scanned, Notify, NotRecorded

\* Every step keeps the barcodes on approved passes.
LEMMA TokenStep ==
    ASSUME Inv, [Next]_vars
    PROVE  TokenInv'
<1> USE DEF Inv, TypeOK, PassTypeOK, passVars, row, decisions, offline, syncVars,
            TokenInv, TokenMeansApproved
<1>1. ASSUME NEW o \in Outpass, CreateCheck(o) PROVE TokenInv' BY <1>1 DEF CreateCheck
<1>2. ASSUME NEW o \in Outpass, CreateInsert(o) PROVE TokenInv' BY <1>2 DEF CreateInsert
<1>3. ASSUME NEW o \in Outpass, CancelCheck(o) PROVE TokenInv' BY <1>3 DEF CancelCheck
<1>4. ASSUME NEW o \in Outpass, CancelUpdate(o) PROVE TokenInv' BY <1>4 DEF CancelUpdate
<1>5. ASSUME NEW o \in Outpass, ShowBarcode(o) PROVE TokenInv' BY <1>5 DEF ShowBarcode
<1>6. ASSUME NEW o \in Outpass, Approve(o) PROVE TokenInv'
  BY <1>6 DEF Approve, SetApproved, Undecided
<1>7. ASSUME NEW o \in Outpass, Reject(o) PROVE TokenInv'
  BY <1>7 DEF Reject, SetRejected, Undecided
<1>8. ASSUME NEW a \in Official, NEW ids \in SUBSET Outpass,
             NEW action \in {"approve", "reject"}, BulkVerify(a, ids, action)
      PROVE  TokenInv'
  BY <1>8 DEF BulkVerify, Undecided
<1>9. ASSUME NEW a \in Official, BulkUpdate(a) PROVE TokenInv'
  <2>1. CASE SetApproved(deciding[a].ids)
    BY <1>9, <2>1 DEF BulkUpdate, SetApproved, Nothing
  <2>2. CASE SetRejected(deciding[a].ids)
    BY <1>9, <2>2, ZenonT(40) DEF BulkUpdate, SetRejected, Nothing
  <2> QED BY <1>9, <2>1, <2>2 DEF BulkUpdate
<1>10. ASSUME NEW g \in Guard, NEW o \in Outpass, NEW action \in {"exit", "enter"},
              RecordCheck(g, o, action)
       PROVE  TokenInv'
  BY <1>10 DEF RecordCheck
<1>11. ASSUME NEW g \in Guard, RecordExit(g) PROVE TokenInv'
  BY <1>11 DEF RecordExit, Leave, NotRecording
<1>12. ASSUME NEW g \in Guard, RecordEnter(g) PROVE TokenInv'
  BY <1>12 DEF RecordEnter, Return, NotRecording
<1>13. ASSUME NEW ids \in SUBSET Outpass, BulkExit(ids) PROVE TokenInv'
  BY <1>13 DEF BulkExit, Leave
<1>14. ASSUME NEW ids \in SUBSET Outpass, BulkEnter(ids) PROVE TokenInv'
  BY <1>14 DEF BulkEnter, Return
<1>15. ASSUME NEW o \in Outpass, Scan(o) PROVE TokenInv' BY <1>15 DEF Scan, Leave, Return
<1>16. ASSUME \/ Monitor \/ SyncGivenUp \/ \E n \in SyncSlot : Quiet(n)
              \/ \E l \in Log : RecordOffline(l)
       PROVE  TokenInv'
  BY <1>16 DEF Monitor, RecordOffline, Quiet, SendLogs, SyncCheck, SyncFails, SyncAnswer,
     SyncStops, SyncGivenUp
<1>17. ASSUME NEW n \in SyncSlot, SyncApply(n) PROVE TokenInv'
  BY <1>17, SyncedPass DEF SyncApply, SyncMove, Leave
<1>18. ASSUME UNCHANGED passVars PROVE TokenInv' BY <1>18
<1> HIDE DEF Inv, TypeOK, PassTypeOK, TokenInv, TokenMeansApproved
<1> QED
  BY <1>1, <1>2, <1>3, <1>4, <1>5, <1>6, <1>7, <1>8, <1>9, <1>10, <1>11, <1>12, <1>13,
     <1>14, <1>15, <1>16, <1>17, <1>18
  DEF Next, vars, StudentStep, OfficialStep, GateStep, Terminal, Quiet, Remind, Enter,
      ArrivalPasses, NotifyCheckIn, CheckInFails, Scanned, Notify, NotRecorded

\* Every step keeps the movements that were made stored.
LEMMA SyncStep ==
    ASSUME Inv, [Next]_vars
    PROVE  SyncInv'
<1> USE DEF Inv, TypeOK, PassTypeOK, passVars, row, decisions, offline, syncVars,
            SyncInv, MovedOnce
<1>1. ASSUME UNCHANGED <<syncVars, guard_action_log, acked, applied>> PROVE SyncInv'
  BY <1>1 DEF syncVars, NextLog
\* A request that has at most as much to do as before, and makes no movement, keeps it.
<1>2. ASSUME NEW n \in SyncSlot,
             sync' = [sync EXCEPT ![n] = sync'[n]],
             sync'[n].todo \subseteq sync[n].todo,
             sync'[n].pc = "apply" =>
                 sync'[n].todo # {} /\ (NextLog(n)' \in guard_action_log
                                           => NextLog(n)' \in overlapped),
             UNCHANGED <<guard_action_log, applied, overlapped>>,
             synced' \subseteq guard_action_log, acked' \subseteq acked \cup synced
      PROVE  SyncInv'
  <2>1. \A m \in SyncSlot \ {n} : sync'[m] = sync[m] /\ NextLog(m)' = NextLog(m)
    BY <1>2 DEF NextLog
  <2>2. \A m \in SyncSlot : sync'[m].pc = "apply" =>
            sync'[m].todo # {} /\ (NextLog(m)' \in guard_action_log'
                                      => NextLog(m)' \in overlapped')
    BY <1>2, <2>1
  <2>3. \A m \in SyncSlot : sync'[m].todo \subseteq sync[m].todo BY <1>2, <2>1
  <2>4. \A m, k \in SyncSlot : m # k => sync'[m].todo \cap sync'[k].todo \subseteq overlapped'
    BY <1>2, <2>3
  <2>5. MovedOnce' BY <1>2
  <2> HIDE DEF MovedOnce, TypeOK, PassTypeOK
  <2> QED BY <1>2, <2>2, <2>4, <2>5
<1>3. ASSUME NEW n \in SyncSlot, SendLogs(n) PROVE SyncInv'
  <2> DEFINE todo == recorded \ acked
  <2>1. /\ sync' = [sync EXCEPT ![n] = [pc |-> "check", todo |-> todo]]
        /\ overlapped' = overlapped \cup
               {l \in todo : \E m \in SyncSlot \ {n} : l \in sync[m].todo}
        /\ synced' = {} /\ UNCHANGED <<acked, guard_action_log, applied>>
    BY <1>3 DEF SendLogs
  <2>2. \A m \in SyncSlot \ {n} : sync'[m] = sync[m] /\ NextLog(m)' = NextLog(m)
    BY <2>1 DEF NextLog
  <2>3. sync'[n].pc = "check" /\ sync'[n].todo = todo BY <2>1
  <2>4. overlapped \subseteq overlapped'
        /\ \A m \in SyncSlot \ {n} : sync[m].todo \cap todo \subseteq overlapped'
    BY <2>1
  <2> HIDE DEF todo
  <2>5. \A m \in SyncSlot : sync'[m].pc = "apply" =>
            sync'[m].todo # {} /\ (NextLog(m)' \in guard_action_log'
                                      => NextLog(m)' \in overlapped')
    BY <2>1, <2>2, <2>3, <2>4
  <2>6. \A m, k \in SyncSlot : m # k => sync'[m].todo \cap sync'[k].todo \subseteq overlapped'
    BY <2>2, <2>3, <2>4
  <2>7. MovedOnce' BY <2>1, <2>4
  <2> HIDE DEF MovedOnce, TypeOK, PassTypeOK
  <2> QED BY <2>1, <2>5, <2>6, <2>7
<1>4. ASSUME NEW n \in SyncSlot, SyncCheck(n) PROVE SyncInv'
  <2>1. CASE NextLog(n) \in guard_action_log
    <3>1. sync' = [sync EXCEPT ![n] = [pc |-> "check", todo |-> @.todo \ {NextLog(n)}]]
          /\ synced' \subseteq synced \cup {NextLog(n)} /\ UNCHANGED overlapped
      BY <1>4, <2>1 DEF SyncCheck, Handled
    <3>2. sync'[n].pc = "check" /\ sync'[n].todo = sync[n].todo \ {NextLog(n)} BY <3>1
    <3> QED BY <1>2, <1>4, <2>1, <3>1, <3>2 DEF SyncCheck
  <2>2. CASE NextLog(n) \notin guard_action_log
    <3>1. sync' = [sync EXCEPT ![n].pc = "apply"] /\ UNCHANGED <<synced, overlapped>>
      BY <1>4, <2>2 DEF SyncCheck
    <3>2. sync'[n].todo = sync[n].todo BY <3>1
    <3>3. NextLog(n)' = NextLog(n) BY <3>2 DEF NextLog
    <3> QED BY <1>2, <1>4, <2>2, <3>1, <3>2, <3>3 DEF SyncCheck
  <2> QED BY <2>1, <2>2
<1>5. ASSUME NEW n \in SyncSlot, SyncApply(n) PROVE SyncInv'
  <2> DEFINE l == NextLog(n)
  <2>1. l \in Log /\ l \in sync[n].todo /\ (l \in guard_action_log => l \in overlapped)
    BY <1>5, SyncedPass, NextLogType DEF SyncApply
  <2>2. /\ sync' = [sync EXCEPT ![n] = [pc |-> "check", todo |-> @.todo \ {l}]]
        /\ guard_action_log' = guard_action_log \cup {l}
        /\ synced' \subseteq synced \cup {l}
        /\ UNCHANGED <<acked, overlapped>>
    BY <1>5 DEF SyncApply, Handled
  <2>3. applied' = applied \/ applied' = [applied EXCEPT ![l] = @ + 1] BY <1>5 DEF SyncApply
  <2> HIDE DEF l
  <2>4. \A k \in Log \ {l} : applied'[k] = applied[k] BY <2>1, <2>3
  <2>5. applied'[l] <= 1 \/ l \in overlapped
    <3>1. CASE l \in guard_action_log BY <2>1, <3>1
    <3>2. CASE l \notin guard_action_log
      <4>1. applied[l] = 0 BY <2>1, <3>2
      <4> QED BY <2>1, <2>3, <4>1
    <3> QED BY <3>1, <3>2
  <2>6. MovedOnce' BY <2>2, <2>4, <2>5
  <2>7. sync'[n].pc = "check" /\ sync'[n].todo = sync[n].todo \ {l}
        /\ \A m \in SyncSlot \ {n} : sync'[m] = sync[m] /\ NextLog(m)' = NextLog(m)
    BY <2>2 DEF NextLog
  <2>8. \A m \in SyncSlot \ {n} : sync[m].pc = "apply" => NextLog(m) \in sync[m].todo
    BY NextLogType
  <2>9. \A m \in SyncSlot : sync'[m].pc = "apply" =>
            sync'[m].todo # {} /\ (NextLog(m)' \in guard_action_log'
                                      => NextLog(m)' \in overlapped')
    <3> SUFFICES ASSUME NEW m \in SyncSlot \ {n}, sync[m].pc = "apply"
                 PROVE  sync[m].todo # {}
                        /\ (NextLog(m) \in guard_action_log \cup {l}
                               => NextLog(m) \in overlapped)
      BY <2>2, <2>7
    <3>1. NextLog(m) = l => l \in sync[m].todo \cap sync[n].todo BY <2>1, <2>8
    <3>2. sync[m].todo \cap sync[n].todo \subseteq overlapped OBVIOUS
    <3> QED BY <3>1, <3>2
  <2>10. \A m \in SyncSlot : sync'[m].todo \subseteq sync[m].todo BY <2>7
  <2>11. \A m, k \in SyncSlot : m # k => sync'[m].todo \cap sync'[k].todo \subseteq overlapped'
    BY <2>2, <2>10
  <2>12. \A k \in Log : applied'[k] = 0 \/ k \in guard_action_log' BY <2>2, <2>4
  <2> HIDE DEF MovedOnce, TypeOK, PassTypeOK
  <2> QED BY <2>2, <2>6, <2>9, <2>11, <2>12
<1>6. ASSUME NEW n \in SyncSlot, SyncFails(n) PROVE SyncInv'
  <2>1. /\ sync' = [sync EXCEPT ![n] = [pc |-> "check", todo |-> @.todo \ {NextLog(n)}]]
        /\ UNCHANGED <<synced, overlapped, acked, guard_action_log, applied>>
    BY <1>6 DEF SyncFails, Handled
  <2>2. sync'[n].pc = "check" /\ sync'[n].todo \subseteq sync[n].todo BY <2>1
  <2> QED BY <1>2, <2>1, <2>2
<1>7. ASSUME NEW n \in SyncSlot, SyncAnswer(n) \/ SyncStops(n) PROVE SyncInv'
  <2>1. /\ sync' = [sync EXCEPT ![n] = NotSyncing]
        /\ synced' \subseteq synced /\ acked' \subseteq acked \cup synced
        /\ UNCHANGED <<overlapped, guard_action_log, applied>>
    BY <1>7 DEF SyncAnswer, SyncStops
  <2>2. sync'[n].pc = "idle" /\ sync'[n].todo = {} BY <2>1 DEF NotSyncing
  <2> QED BY <1>2, <2>1, <2>2
<1>14. ASSUME SyncGivenUp PROVE SyncInv'
  BY <1>14 DEF SyncGivenUp, NextLog
<1>8. ASSUME NEW o \in Outpass,
             \/ CreateCheck(o) \/ CreateInsert(o) \/ CancelCheck(o) \/ CancelUpdate(o)
             \/ ShowBarcode(o) \/ Approve(o) \/ Reject(o) \/ Scan(o)
      PROVE  SyncInv'
  BY <1>1, <1>8 DEF CreateCheck, CreateInsert, CancelCheck, CancelUpdate, ShowBarcode,
                    Approve, Reject, Scan
<1>9. ASSUME NEW a \in Official,
             \/ BulkUpdate(a)
             \/ \E ids \in SUBSET Outpass, action \in {"approve", "reject"} :
                   BulkVerify(a, ids, action)
      PROVE  SyncInv'
  BY <1>1, <1>9 DEF BulkUpdate, BulkVerify
<1>10. ASSUME NEW g \in Guard,
              \/ RecordExit(g) \/ RecordEnter(g)
              \/ \E o \in Outpass, action \in {"exit", "enter"} : RecordCheck(g, o, action)
       PROVE  SyncInv'
  BY <1>1, <1>10 DEF RecordExit, RecordEnter, RecordCheck
<1>11. ASSUME NEW ids \in SUBSET Outpass, BulkExit(ids) \/ BulkEnter(ids) PROVE SyncInv'
  BY <1>1, <1>11 DEF BulkExit, BulkEnter
<1>12. ASSUME Monitor \/ \E l \in Log : RecordOffline(l) PROVE SyncInv'
  BY <1>1, <1>12 DEF Monitor, RecordOffline
<1>13. ASSUME UNCHANGED passVars PROVE SyncInv' BY <1>1, <1>13
<1> HIDE DEF Inv, TypeOK, PassTypeOK, SyncInv, MovedOnce
<1> QED
  BY <1>3, <1>4, <1>5, <1>6, <1>7, <1>8, <1>9, <1>10, <1>11, <1>12, <1>13, <1>14
  DEF Next, vars, StudentStep, OfficialStep, GateStep, Terminal, Quiet, Remind, Enter,
      ArrivalPasses, NotifyCheckIn, CheckInFails, Scanned, Notify, NotRecorded

\* The invariant is inductive.
LEMMA StepInv == Inv /\ [Next]_vars => Inv'
<1> SUFFICES ASSUME Inv, [Next]_vars PROVE Inv' OBVIOUS
<1> QED BY TypeStep, ApprovalStep, VisitStep, TokenStep, SyncStep DEF Inv

-----------------------------------------------------------------------------
(* The theorems                                                            *)

\* Every state satisfies the invariant.
THEOREM InvHolds == Spec => []Inv
BY InitInv, StepInv, PTL DEF Spec

\* Every variable of the passes, the gate, the offline terminal and the reports of late
\* returns has its type.
THEOREM TypeCorrect == Spec => []TypeOK
<1>1. Inv => TypeOK BY DEF Inv
<1> QED BY <1>1, InvHolds, PTL

\* recordEntry, bulkRecordEntry, syncGuardLogs and scanOutpassBarcode: however many
\* guards, officials and requests overlap, nobody is out on a pass that was never approved.
THEOREM OutWasApproved == Spec => []OutNeedsApproval
<1>1. Inv => OutNeedsApproval BY DEF Inv, ApprovalInv
<1> QED BY <1>1, InvHolds, PTL

\* Whoever is out has a visit without arrival, which the return will close.
THEOREM OutHasOpenVisit == Spec => []OutMeansOpenVisit
<1>1. Inv => OutMeansOpenVisit BY DEF Inv
<1> QED BY <1>1, InvHolds, PTL

\* cancelOutpass, rejectOutpass, bulkOutpassAction and the gate: only an approved pass has
\* a barcode, also when requests that read it earlier write over each other.
THEOREM BarcodeRevoked == Spec => []TokenMeansApproved
<1>1. Inv => TokenMeansApproved BY DEF Inv, TokenInv
<1> QED BY <1>1, InvHolds, PTL

\* syncGuardLogs: however often the terminal sends a movement again, it is made at most
\* once, unless it was sent again while the earlier request was yet to handle it; and what
\* is reported as synced is stored.
THEOREM SyncMovesOnce == Spec => []MovedOnce
<1>1. Inv => MovedOnce BY DEF Inv, SyncInv
<1> QED BY <1>1, InvHolds, PTL
=============================================================================
