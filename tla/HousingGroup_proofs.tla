------------------------ MODULE HousingGroup_proofs -------------------------
(* Proofs about the lobby: a group never has more members than the limit,  *)
(* ids refer to rows that exist, a late place is given once, and a group   *)
(* that no two transactions touched at once has its leader and, when it is *)
(* locked, its members.                                                    *)
(*                                                                         *)
(* The argument is about row locks.  A transaction that has written its    *)
(* student's row keeps it, and with it the group of that student; one that *)
(* has admitted a member to a group keeps the group's row; one that        *)
(* dissolves a group keeps its members out of every other transaction.     *)
EXTENDS HousingGroup, FiniteSetTheorems, WellFoundedInduction, TLAPS

Movers == {"create", "accept", "leave", "kick"}

\* A transaction and a group have their columns.
Columns(r) ==
    r = [pc |-> r.pc, op |-> r.op, student |-> r.student, group |-> r.group,
         request |-> r.request, batch |-> r.batch, late |-> r.late, led |-> r.led,
         heir |-> r.heir, cancels |-> r.cancels, plan |-> r.plan, next |-> r.next,
         hit |-> r.hit]

GroupColumns(r) == r = [status |-> r.status, leader |-> r.leader, batch |-> r.batch]

TablesShape ==
    /\ group_id \in [Student -> 0..MaxGroups]
    /\ housing_group = [g \in GroupId |-> housing_group[g]]
    /\ \A g \in GroupId : GroupColumns(housing_group[g])
    /\ group_request \in [RequestId -> [group : 0..MaxGroups, student : Student \cup {NoStudent}]]
    /\ places \in [Student -> Nat]

TxnShape == txn = [t \in Txn |-> txn[t]] /\ \A t \in Txn : Columns(txn[t])

Shape == TablesShape /\ TxnShape

\* A transaction works on students and groups, in the order of its handler.
Handler(r) ==
    /\ r.student \in Student \cup {NoStudent} /\ r.heir \in Student \cup {NoStudent}
    /\ r.group \in 0..MaxGroups /\ r.led \in 0..MaxGroups
    /\ r.op \in Movers \cup {"transfer", "send"} => r.student \in Student
    /\ r.op \in {"accept", "leave", "kick", "transfer"} => r.group \in GroupId
    /\ r.op \in Movers <=> r.pc \in {"write", "heir", "cancel", "commit"} /\ r.op \notin {"transfer", "assign"}
    /\ r.pc \in {"assign", "lock"} => r.op = "assign"
    /\ r.pc = "insert" => r.op = "send"
    /\ r.pc = "cancel" => r.op = "accept"
    /\ r.pc = "heir" => r.led # 0
    /\ r.led # 0 => /\ r.op \in Movers /\ r.pc \in {"heir", "cancel", "commit"}
                    /\ r.heir # r.student
    /\ r.hit # {} => r.op = "assign"

HandlerInv == \A t \in Txn : Handler(txn[t])

\* Where the student of t goes, 0 for a group of one's own and for nowhere.
Target(t) == IF txn[t].op = "accept" THEN txn[t].group ELSE 0
GroupOf(t) == group_id[txn[t].student]

\* A written row is locked: the student's, and that of the group that is joined.
RowInv ==
    \A t, u \in Txn : t # u /\ Moved(t) /\ Moved(u) =>
        /\ txn[t].student # txn[u].student
        /\ txn[t].op = "accept" /\ txn[u].op = "accept" => txn[t].group # txn[u].group

\* The group a leader is about to leave is still the leader's; one that is about to be
\* dissolved neither gains nor loses a member to another transaction.
LedInv ==
    /\ \A t \in Txn : txn[t].led # 0 => GroupOf(t) = txn[t].led /\ Target(t) # txn[t].led
    /\ \A t \in Txn : Moved(t) /\ txn[t].op = "accept" => Exists(txn[t].group)
    /\ \A t \in Txn : Moved(t) /\ txn[t].op \in {"leave", "kick"} => GroupOf(t) = txn[t].group
    /\ \A t, u \in Txn :
          t # u /\ Moved(t) /\ Settled(u) /\ Dissolves(u) =>
              GroupOf(t) # txn[u].led /\ Target(t) # txn[u].led

\* Whoever is about to join a group finds a place there.
CapacityInv ==
    \A t \in Txn : Moved(t) /\ txn[t].op = "accept" =>
        check_group_capacity(txn[t].student, txn[t].group)

\* A student with a late place is locked into its group.
LateInv ==
    \A s \in Student : places[s] # 0 =>
        /\ places[s] = 1 /\ Frozen(group_id[s])
        /\ \A t \in Txn : /\ txn[t].led # group_id[s]
                          /\ Moved(t) /\ txn[t].student = s =>
                                txn[t].op = "accept" /\ txn[t].group = group_id[s]

\* A group that the soft lock has written exists until the soft lock commits.
HitInv ==
    \A t \in Txn : \A g \in GroupId : g \in txn[t].hit =>
        Exists(g) /\ \A u \in Txn : Settled(u) => txn[u].led # g

\* raced has every group that two transactions touch.
RacedInv ==
    \A t, u \in Txn : \A g \in GroupId : t # u /\ g \in Touches(t) /\ g \in Touches(u) => g \in raced

\* What a departure has read of the group that is left still holds.
LeadInv ==
    \A t \in Txn :
        Moved(t) /\ Exists(GroupOf(t)) /\ GroupOf(t) \notin raced /\ GroupOf(t) # Target(t) =>
            /\ ~ Frozen(GroupOf(t))
            /\ txn[t].led = 0 => housing_group[GroupOf(t)].leader # txn[t].student

Inv == /\ Shape /\ HandlerInv /\ TypeOK /\ RowInv /\ LedInv /\ CapacityInv /\ AtMostFour
       /\ LateInv /\ HitInv /\ RacedInv /\ LeaderIsMember /\ LeadInv

-----------------------------------------------------------------------------
(* What the steps do to the groups.                                        *)

\* A step that changes neither members nor places and writes no student's row: a group's
\* leader comes from a transfer, its lock from the soft lock.
Keeps ==
    /\ group_id' = group_id /\ places' = places
    /\ \A g \in GroupId :
          /\ Exists(g)' = Exists(g)
          /\ Frozen(g) => Frozen(g)'
          /\ Frozen(g)' => Frozen(g) \/ \E t \in Txn : txn[t].op = "assign" /\ g \in txn[t].hit
          /\ \/ housing_group'[g].leader = housing_group[g].leader
             \/ \E t \in Txn : /\ txn[t].op = "transfer" /\ txn[t].group = g
                               /\ housing_group'[g].leader = txn[t].student
                               /\ GroupOf(t) = g
    /\ \A t \in Txn : Moved(t)' =>
          /\ Moved(t)
          /\ txn'[t].op = txn[t].op /\ txn'[t].student = txn[t].student
          /\ txn'[t].group = txn[t].group /\ txn'[t].led = txn[t].led
          /\ txn'[t].heir = txn[t].heir
          /\ Settled(t)' => Settled(t) \/ (txn[t].pc = "heir" /\ Runs(t))
    /\ \A t \in Txn : \A g \in GroupId : g \in txn'[t].hit =>
          \/ g \in txn[t].hit
          \/ Exists(g) /\ \A u \in Txn : u # t /\ Settled(u)' => txn[u].led # g

\* The student of t is written, with the triggers.
Arrives(t) ==
    /\ UNCHANGED <<group_id, housing_group, places>>
    /\ txn[t].op \in Movers /\ txn[t].pc = "write" /\ Runs(t)
    /\ \A u \in Txn : u # t => txn'[u] = txn[u]
    /\ txn'[t].op = txn[t].op /\ txn'[t].student = txn[t].student
    /\ txn'[t].group = txn[t].group
    /\ Frozen(GroupOf(t)) => GroupOf(t) = Target(t)
    /\ txn[t].op = "accept" =>
          check_group_capacity(txn[t].student, txn[t].group) /\ Exists(txn[t].group)
    /\ txn[t].op \in {"leave", "kick"} => GroupOf(t) = txn[t].group
    /\ \/ /\ Leads(txn[t].student, GroupOf(t)) /\ GroupOf(t) # Target(t)
          /\ txn'[t].pc = "heir" /\ txn'[t].led = GroupOf(t)
       \/ /\ Leads(txn[t].student, GroupOf(t)) => GroupOf(t) = Target(t)
          /\ txn'[t].pc \in {"cancel", "commit"} /\ txn'[t].led = 0

\* t commits and its student is in the group to.
Departs(t, to) ==
    /\ txn[t].op \in Movers /\ txn[t].pc = "commit" /\ validate_primary_applicant(t)
    /\ group_id' = Members(t, to)
    /\ txn'[t] = Closed /\ \A u \in Txn : u # t => txn'[u] = txn[u]
    /\ \/ /\ txn[t].op = "create" /\ to \in GroupId /\ housing_group[to].status = "unused"
          /\ \E status \in {"FORMING", "SOFT_LOCKED"} :
                housing_group' = [Groups(t) EXCEPT ![to] = [status |-> status, leader |-> txn[t].student,
                                                            batch |-> txn[t].batch]]
          /\ \/ places' = places
             \/ /\ housing_group'[to].status = "SOFT_LOCKED"
                /\ places' = [places EXCEPT ![txn[t].student] = @ + 1]
       \/ /\ txn[t].op # "create" /\ to = Target(t)
          /\ housing_group' = Groups(t) /\ places' = places

-----------------------------------------------------------------------------
(* Writing a transaction.                                                  *)

\* One transaction is written, the others stay.
LEMMA TxnWritten ==
    ASSUME TxnShape, HandlerInv, NEW t \in Txn, NEW r, Columns(r), Handler(r),
           txn' = [txn EXCEPT ![t] = r]
    PROVE  /\ TxnShape' /\ HandlerInv'
           /\ txn'[t] = r /\ \A u \in Txn : u # t => txn'[u] = txn[u]
<1>1. txn'[t] = r /\ \A u \in Txn : u # t => txn'[u] = txn[u] BY DEF TxnShape
<1>2. TxnShape' BY <1>1 DEF TxnShape
<1>3. HandlerInv' BY <1>1 DEF HandlerInv
<1> QED BY <1>1, <1>2, <1>3

\* A transaction that is over has written nothing.
LEMMA Ends ==
    ASSUME TxnShape, HandlerInv, NEW t \in Txn, Rollback(t)
    PROVE  /\ TxnShape' /\ HandlerInv'
           /\ txn'[t] = Closed /\ \A u \in Txn : u # t => txn'[u] = txn[u]
<1>1. Columns(Closed) BY DEF Closed, Columns
<1>2. Handler(Closed) BY LobbyAssumption DEF Closed, Handler, Movers
<1> QED BY <1>1, <1>2, TxnWritten DEF Rollback

\* A transaction that begins has written nothing.
LEMMA Begins ==
    ASSUME TxnShape, HandlerInv, NEW t \in Txn, NEW r, Columns(r), Handler(r), Begin(t, r)
    PROVE  /\ TxnShape' /\ HandlerInv'
           /\ txn'[t] = r /\ \A u \in Txn : u # t => txn'[u] = txn[u]
BY TxnWritten DEF Begin

\* A transaction that goes on.
LEMMA Goes ==
    ASSUME TxnShape, HandlerInv, NEW t \in Txn, NEW pc, Step(t, pc),
           Handler([txn[t] EXCEPT !.pc = pc])
    PROVE  /\ TxnShape' /\ HandlerInv'
           /\ txn'[t] = [txn[t] EXCEPT !.pc = pc]
           /\ \A u \in Txn : u # t => txn'[u] = txn[u]
<1> DEFINE r == [txn[t] EXCEPT !.pc = pc]
<1>1. Columns(r) BY DEF TxnShape, Columns
<1>2. txn' = [txn EXCEPT ![t] = r] BY DEF Step, TxnShape
<1> HIDE DEF r
<1>3. Handler(r) BY DEF r
<1>4. /\ TxnShape' /\ HandlerInv' /\ txn'[t] = r
      /\ \A u \in Txn : u # t => txn'[u] = txn[u]
  BY <1>1, <1>2, <1>3, TxnWritten
<1> QED BY <1>4 DEF r

\* A step of t that leaves the tables alone, with nothing written by t after it, keeps the
\* groups as they are.
LEMMA Quiet ==
    ASSUME NEW t \in Txn, UNCHANGED <<group_id, housing_group, places>>, ~ Moved(t)',
           \A u \in Txn : u # t => txn'[u] = txn[u],
           \A g \in txn'[t].hit \cap GroupId : g \notin txn[t].hit =>
               Exists(g) /\ \A u \in Txn : u # t /\ Settled(u) => txn[u].led # g
    PROVE  Keeps
<1>1. \A g \in GroupId : Exists(g)' = Exists(g) /\ Frozen(g)' = Frozen(g)
  BY DEF Exists, Frozen
<1>2. \A u \in Txn : Moved(u)' => u # t /\ Moved(u) /\ txn'[u] = txn[u]
  BY DEF Moved
<1>3. \A u \in Txn : txn'[u] = txn[u] => (Settled(u)' => Settled(u)) BY DEF Settled
<1> QED BY <1>1, <1>2, <1>3 DEF Keeps

-----------------------------------------------------------------------------
(* The steps, one by one.                                                  *)

\* What a check has read is in order.
LEMMA Opened ==
    ASSUME NEW r, r.led = 0, r.heir = NoStudent, r.hit = {},
           r.student \in Student, r.group \in 0..MaxGroups,
           \/ r.pc = "write" /\ r.op = "create"
           \/ r.pc = "write" /\ r.op \in {"accept", "leave", "kick", "transfer"} /\ r.group # 0
           \/ r.pc = "insert" /\ r.op = "send"
    PROVE  Handler(r)
<1>1. r.group # 0 => r.group \in GroupId BY LobbyAssumption DEF GroupId
<1>2. r.led \in 0..MaxGroups BY LobbyAssumption
<1> QED BY <1>1, <1>2 DEF Handler, Movers

\* The checks of a handler, before anything is written.
LEMMA CheckSteps ==
    ASSUME Inv, NEW t \in Txn,
           \/ \E s \in Student : CreateCheck(t, s)
           \/ \E g \in GroupId, s \in Student : SendCheck(t, g, s)
           \/ \E r \in RequestId : AcceptCheck(t, r)
           \/ \E s \in Student : LeaveCheck(t, s)
           \/ \E g \in GroupId, s, u \in Student : KickCheck(t, u, s, g)
           \/ \E g \in GroupId, s \in Student : TransferCheck(t, g, s)
    PROVE  TxnShape' /\ HandlerInv' /\ Keeps /\ UNCHANGED <<event, tables, places>>
<1>0. TxnShape /\ HandlerInv BY DEF Inv, Shape
<1>1. UNCHANGED <<event, tables, places>>
  BY DEF CreateCheck, SendCheck, AcceptCheck, LeaveCheck, KickCheck, TransferCheck
<1>2. PICK r : /\ Begin(t, r) /\ Columns(r) /\ Handler(r)
               /\ r.pc \in {"write", "insert"} /\ r.hit = {}
  <2> DEFINE b(op, pc, s, g) == [Closed EXCEPT !.op = op, !.pc = pc, !.student = s, !.group = g]
  <2>1. \A s \in Student, g \in 0..MaxGroups :
            /\ Columns(b("send", "insert", s, g)) /\ b("send", "insert", s, g).pc = "insert"
            /\ b("send", "insert", s, g).hit = {}
            /\ Handler(b("send", "insert", s, g))
    <3> SUFFICES ASSUME NEW s \in Student, NEW g \in 0..MaxGroups, NEW r,
                        r = b("send", "insert", s, g)
                 PROVE  Columns(r) /\ r.pc = "insert" /\ r.hit = {} /\ Handler(r)
      OBVIOUS
    <3>1. /\ r.op = "send" /\ r.pc = "insert" /\ r.student = s /\ r.group = g /\ r.led = 0
          /\ r.heir = NoStudent /\ r.hit = {} /\ Columns(r)
      BY DEF Closed, Columns
    <3> QED BY <3>1, Opened
  <2>2. \A s \in Student, g \in GroupId, op \in {"leave", "kick", "transfer"} :
            /\ Columns(b(op, "write", s, g)) /\ b(op, "write", s, g).pc = "write"
            /\ b(op, "write", s, g).hit = {}
            /\ Handler(b(op, "write", s, g))
    <3> SUFFICES ASSUME NEW s \in Student, NEW g \in GroupId,
                        NEW op \in {"leave", "kick", "transfer"}, NEW r,
                        r = b(op, "write", s, g)
                 PROVE  Columns(r) /\ r.pc = "write" /\ r.hit = {} /\ Handler(r)
      BY ZenonT(40)
    <3>1. /\ r.op = op /\ r.pc = "write" /\ r.student = s /\ r.group = g /\ r.led = 0
          /\ r.heir = NoStudent /\ r.hit = {} /\ Columns(r)
      BY DEF Closed, Columns
    <3>2. g \in 0..MaxGroups /\ g # 0 BY LobbyAssumption DEF GroupId
    <3> QED BY <3>1, <3>2, Opened
  <2>3. ASSUME NEW s \in Student, CreateCheck(t, s)
        PROVE  \E r : Begin(t, r) /\ Columns(r) /\ Handler(r) /\ r.hit = {}
                      /\ r.pc \in {"write", "insert"}
    <3> DEFINE r1 == [Closed EXCEPT !.op = "create", !.pc = "write", !.student = s, !.late = TRUE,
                                    !.batch = LateBatch(s)]
               r2 == [Closed EXCEPT !.op = "create", !.pc = "write", !.student = s]
    <3>1. Begin(t, r1) \/ Begin(t, r2) BY <2>3 DEF CreateCheck
    <3>2. Columns(r1) /\ Handler(r1) /\ r1.pc = "write" /\ r1.hit = {}
      <4> SUFFICES ASSUME NEW r, r = r1 PROVE Columns(r) /\ Handler(r) /\ r.pc = "write" /\ r.hit = {}
        OBVIOUS
      <4>1. /\ r.op = "create" /\ r.pc = "write" /\ r.student = s /\ r.group = 0
            /\ r.led = 0 /\ r.heir = NoStudent /\ r.hit = {} /\ Columns(r)
        BY DEF Closed, Columns
      <4>2. 0 \in 0..MaxGroups BY LobbyAssumption
      <4> QED BY <4>1, <4>2, Opened
    <3>3. Columns(r2) /\ Handler(r2) /\ r2.pc = "write" /\ r2.hit = {}
      <4> SUFFICES ASSUME NEW r, r = r2 PROVE Columns(r) /\ Handler(r) /\ r.pc = "write" /\ r.hit = {}
        OBVIOUS
      <4>1. /\ r.op = "create" /\ r.pc = "write" /\ r.student = s /\ r.group = 0
            /\ r.led = 0 /\ r.heir = NoStudent /\ r.hit = {} /\ Columns(r)
        BY DEF Closed, Columns
      <4>2. 0 \in 0..MaxGroups BY LobbyAssumption
      <4> QED BY <4>1, <4>2, Opened
    <3> HIDE DEF r1, r2
    <3> QED BY <3>1, <3>2, <3>3
  <2>4. ASSUME NEW i \in RequestId, AcceptCheck(t, i)
        PROVE  \E r : Begin(t, r) /\ Columns(r) /\ Handler(r) /\ r.hit = {}
                      /\ r.pc \in {"write", "insert"}
    <3> DEFINE g == group_request[i].group
               s == group_request[i].student
               r == [Closed EXCEPT !.op = "accept", !.pc = "write", !.student = s, !.group = g,
                                   !.request = i]
    <3>1. Begin(t, r) BY <2>4 DEF AcceptCheck
    <3>2. g \in GroupId /\ s \in Student BY <2>4 DEF AcceptCheck, Inv, TypeOK, Exists
    <3> HIDE DEF g, s
    <3>3. Columns(r) /\ Handler(r) /\ r.pc = "write" /\ r.hit = {}
      <4> SUFFICES ASSUME NEW q, q = r PROVE Columns(q) /\ Handler(q) /\ q.pc = "write" /\ q.hit = {}
        OBVIOUS
      <4>1. /\ q.op = "accept" /\ q.pc = "write" /\ q.student = s /\ q.group = g
            /\ q.led = 0 /\ q.heir = NoStudent /\ q.hit = {} /\ Columns(q)
        BY DEF Closed, Columns
      <4>2. g \in 0..MaxGroups /\ g # 0 BY <3>2, LobbyAssumption DEF GroupId
      <4> QED BY <3>2, <4>1, <4>2, Opened
    <3> QED BY <3>1, <3>3
  <2>5. ASSUME NEW g \in GroupId, NEW s \in Student, SendCheck(t, g, s)
        PROVE  \E r : Begin(t, r) /\ Columns(r) /\ Handler(r) /\ r.hit = {}
                      /\ r.pc \in {"write", "insert"}
    <3>1. Begin(t, b("send", "insert", s, g)) BY <2>5 DEF SendCheck
    <3> HIDE DEF b
    <3> QED BY <2>1, <3>1 DEF GroupId
  <2>6. ASSUME NEW s \in Student, LeaveCheck(t, s)
        PROVE  \E r : Begin(t, r) /\ Columns(r) /\ Handler(r) /\ r.hit = {}
                      /\ r.pc \in {"write", "insert"}
    <3>1. Begin(t, b("leave", "write", s, group_id[s])) BY <2>6 DEF LeaveCheck
    <3>2. group_id[s] # 0 BY <2>6 DEF LeaveCheck
    <3>3. group_id[s] \in GroupId BY <3>2 DEF Inv, TypeOK, Exists
    <3> HIDE DEF b
    <3> QED BY <2>2, <3>1, <3>3
  <2>7. ASSUME NEW g \in GroupId, NEW s \in Student, NEW u \in Student, KickCheck(t, u, s, g)
        PROVE  \E r : Begin(t, r) /\ Columns(r) /\ Handler(r) /\ r.hit = {}
                      /\ r.pc \in {"write", "insert"}
    <3>1. Begin(t, b("kick", "write", s, g)) BY <2>7 DEF KickCheck
    <3> HIDE DEF b
    <3> QED BY <2>2, <3>1
  <2>8. ASSUME NEW g \in GroupId, NEW s \in Student, TransferCheck(t, g, s)
        PROVE  \E r : Begin(t, r) /\ Columns(r) /\ Handler(r) /\ r.hit = {}
                      /\ r.pc \in {"write", "insert"}
    <3>1. Begin(t, b("transfer", "write", s, g)) BY <2>8 DEF TransferCheck
    <3> HIDE DEF b
    <3> QED BY <2>2, <3>1
  <2> QED BY <2>3, <2>4, <2>5, <2>6, <2>7, <2>8
<1>3. /\ TxnShape' /\ HandlerInv' /\ txn'[t] = r
      /\ \A u \in Txn : u # t => txn'[u] = txn[u]
  BY <1>0, <1>2, Begins
<1>4. ~ Moved(t)' /\ txn'[t].hit = {} BY <1>2, <1>3 DEF Moved
<1> QED BY <1>1, <1>3, <1>4, Quiet DEF tables

\* A step that ends t without a write keeps the groups as they are.
LEMMA EndKeeps ==
    ASSUME Inv, NEW t \in Txn, Rollback(t), UNCHANGED <<group_id, housing_group, places>>
    PROVE  TxnShape' /\ HandlerInv' /\ Keeps
<1>1. /\ TxnShape' /\ HandlerInv'
      /\ txn'[t] = Closed /\ \A u \in Txn : u # t => txn'[u] = txn[u]
  BY Ends DEF Inv, Shape
<1>2. ~ Moved(t)' /\ txn'[t].hit = {} BY <1>1 DEF Moved, Closed
<1> QED BY <1>1, <1>2, Quiet

\* The steps of the soft lock before it commits, and the write of a transfer.
LEMMA AssignSteps ==
    ASSUME Inv, NEW t \in Txn, AssignRead(t) \/ AssignGroup(t) \/ TransferWrite(t)
    PROVE  TxnShape' /\ HandlerInv' /\ Keeps
<1>0. TxnShape /\ HandlerInv /\ Columns(txn[t]) /\ Handler(txn[t])
  BY DEF Inv, Shape, TxnShape, HandlerInv
<1>1. UNCHANGED <<group_id, housing_group, places>>
  BY DEF AssignRead, AssignGroup, TransferWrite, tables
<1>2. CASE Rollback(t) BY <1>1, <1>2, EndKeeps
<1>3. ASSUME ~ Rollback(t)
      PROVE  \E r : /\ txn' = [txn EXCEPT ![t] = r] /\ Columns(r) /\ Handler(r)
                    /\ r.op \notin Movers
                    /\ \A g \in r.hit \cap GroupId : g \notin txn[t].hit =>
                          Exists(g) /\ \A u \in Txn : u # t /\ Settled(u) => txn[u].led # g
  <2>1. CASE AssignRead(t)
    <3>1. PICK plan : txn' = [txn EXCEPT ![t].pc = "lock", ![t].plan = plan]
      BY <1>3, <2>1 DEF AssignRead
    <3>2. txn[t].op = "assign" BY <1>0, <2>1 DEF AssignRead, Handler
    <3>w. PICK w : w = txn[t] OBVIOUS
    <3>r. PICK r : r = [w EXCEPT !.pc = "lock", !.plan = plan] OBVIOUS
    <3>3. txn' = [txn EXCEPT ![t] = r] BY <1>0, <3>1, <3>w, <3>r DEF TxnShape, Columns
    <3>4. /\ Columns(r) /\ r.op = w.op /\ r.pc = "lock" /\ r.student = w.student
          /\ r.heir = w.heir /\ r.group = w.group /\ r.led = w.led /\ r.hit = w.hit
      BY <1>0, <3>w, <3>r DEF Columns
    <3>5. Handler(r) BY <1>0, <3>2, <3>4, <3>w DEF Handler, Movers
    <3> QED BY <3>2, <3>3, <3>4, <3>5, <3>w DEF Movers
  <2>2. CASE AssignGroup(t)
    <3> DEFINE g == txn[t].plan[txn[t].next][1]
               next == txn[t].next + 1
               pc == IF txn[t].next = Len(txn[t].plan) THEN "commit" ELSE "lock"
               hit == IF housing_group[g].status = "FORMING" THEN txn[t].hit \cup {g}
                      ELSE txn[t].hit
    <3>1. /\ pc \in {"lock", "commit"}
          /\ txn' = [txn EXCEPT ![t].next = next, ![t].pc = pc, ![t].hit = hit]
      BY <2>2 DEF AssignGroup
    <3>6. \A h \in hit \cap GroupId : h \notin txn[t].hit =>
              Exists(h) /\ \A u \in Txn : u # t /\ Settled(u) => txn[u].led # h
      <4> SUFFICES ASSUME g \in GroupId, g \notin txn[t].hit, housing_group[g].status = "FORMING"
                   PROVE  Exists(g) /\ \A u \in Txn : u # t /\ Settled(u) => txn[u].led # g
        OBVIOUS
      <4>1. g \in WantsGroups(t) /\ Runs(t) BY <2>2 DEF AssignGroup, WantsGroups
      <4> HIDE DEF g
      <4>3. g \in GroupId /\ Exists(g) BY DEF Exists
      <4>2. \A u \in Txn : u # t /\ Settled(u) /\ txn[u].led = g => g \in HoldsGroups(u)
        BY <4>3 DEF HoldsGroups
      <4> QED BY <4>1, <4>2, <4>3 DEF Runs, WaitsFor
    <3> HIDE DEF next, pc, hit
    <3>2. txn[t].op = "assign" BY <1>0, <2>2 DEF AssignGroup, Handler
    <3>w. PICK w : w = txn[t] OBVIOUS
    <3>r. PICK r : r = [w EXCEPT !.next = next, !.pc = pc, !.hit = hit] OBVIOUS
    <3>3. txn' = [txn EXCEPT ![t] = r] BY <1>0, <3>1, <3>w, <3>r DEF TxnShape, Columns
    <3>4. /\ Columns(r) /\ r.op = w.op /\ r.pc = pc /\ r.student = w.student
          /\ r.heir = w.heir /\ r.group = w.group /\ r.led = w.led /\ r.hit = hit
      BY <1>0, <3>w, <3>r DEF Columns
    <3>5. Handler(r) BY <1>0, <3>1, <3>2, <3>4, <3>w DEF Handler, Movers
    <3> QED BY <3>6, <3>2, <3>3, <3>4, <3>5, <3>w DEF Movers
  <2>3. CASE TransferWrite(t)
    <3>1. Step(t, "commit") BY <1>3, <2>3 DEF TransferWrite
    <3> DEFINE r == [txn[t] EXCEPT !.pc = "commit"]
    <3>2. txn[t].op = "transfer" BY <2>3 DEF TransferWrite
    <3>3. txn' = [txn EXCEPT ![t] = r] BY <1>0, <3>1 DEF TxnShape, Columns, Step
    <3>4. \A q : q = r => /\ Columns(q) /\ q.op = "transfer" /\ q.pc = "commit"
                          /\ q.student = txn[t].student /\ q.heir = txn[t].heir
                          /\ q.group = txn[t].group /\ q.led = txn[t].led
                          /\ q.hit = txn[t].hit
      BY <1>0, <3>2 DEF Columns
    <3> HIDE DEF r
    <3>5. Handler(r) BY <1>0, <3>2, <3>4 DEF Handler, Movers
    <3> QED BY <3>3, <3>4, <3>5 DEF Movers
  <2> QED BY <2>1, <2>2, <2>3
<1>4. CASE ~ Rollback(t)
  <2>1. PICK r : /\ txn' = [txn EXCEPT ![t] = r] /\ Columns(r) /\ Handler(r)
                 /\ r.op \notin Movers
                 /\ \A g \in r.hit \cap GroupId : g \notin txn[t].hit =>
                       Exists(g) /\ \A u \in Txn : u # t /\ Settled(u) => txn[u].led # g
    BY <1>3, <1>4
  <2>2. /\ TxnShape' /\ HandlerInv' /\ txn'[t] = r
        /\ \A u \in Txn : u # t => txn'[u] = txn[u]
    BY <1>0, <2>1, TxnWritten
  <2>3. ~ Moved(t)' BY <2>1, <2>2 DEF Moved, Movers
  <2> QED BY <1>1, <2>1, <2>2, <2>3, Quiet
<1> QED BY <1>2, <1>4

\* The write of the group's row by the leader's trigger, and the UPDATE of the requests.
LEMMA LaterWrites ==
    ASSUME Inv, NEW t \in Txn, WriteHeir(t) \/ AcceptCancel(t)
    PROVE  TxnShape' /\ HandlerInv' /\ Keeps
<1>0. TxnShape /\ HandlerInv /\ Columns(txn[t]) /\ Handler(txn[t])
  BY DEF Inv, Shape, TxnShape, HandlerInv
<1>1. UNCHANGED <<group_id, housing_group, places>>
  BY DEF WriteHeir, AcceptCancel, tables
<1>2. PICK r : /\ txn' = [txn EXCEPT ![t] = r] /\ Columns(r)
               /\ r.op = txn[t].op /\ r.student = txn[t].student
               /\ r.group = txn[t].group /\ r.led = txn[t].led /\ r.heir = txn[t].heir
               /\ r.hit = txn[t].hit
               /\ r.pc = IF txn[t].pc = "heir" /\ txn[t].op = "accept" THEN "cancel" ELSE "commit"
  <2>1. CASE WriteHeir(t)
    <3>1. Exists(txn[t].led)
      <4>1. txn[t].led # 0 /\ txn[t].student \in Student
        BY <1>0, <2>1 DEF WriteHeir, Handler, Movers
      <4>2. group_id[txn[t].student] = txn[t].led BY <4>1 DEF Inv, LedInv, GroupOf
      <4> QED BY <4>1, <4>2 DEF Inv, TypeOK
    <3> DEFINE pc == IF txn[t].op = "accept" THEN "cancel" ELSE "commit"
               r == [txn[t] EXCEPT !.pc = pc]
    <3>2. txn' = [txn EXCEPT ![t].pc = pc, ![t].led = txn[t].led]
      BY <2>1, <3>1 DEF WriteHeir
    <3> HIDE DEF pc
    <3>3. txn' = [txn EXCEPT ![t] = r] BY <1>0, <3>2 DEF TxnShape, Columns
    <3>4. \A q : q = r => /\ Columns(q) /\ q.op = txn[t].op /\ q.pc = pc
                          /\ q.student = txn[t].student /\ q.heir = txn[t].heir
                          /\ q.group = txn[t].group /\ q.led = txn[t].led
                          /\ q.hit = txn[t].hit
      BY <1>0 DEF Columns
    <3>5. txn[t].pc = "heir" BY <2>1 DEF WriteHeir
    <3> HIDE DEF r
    <3> QED BY <3>3, <3>4, <3>5 DEF pc
  <2>2. CASE AcceptCancel(t)
    <3>1. PICK cancels : txn' = [txn EXCEPT ![t].pc = "commit", ![t].cancels = cancels]
      BY <2>2 DEF AcceptCancel
    <3>w. PICK w : w = txn[t] OBVIOUS
    <3>r. PICK r : r = [w EXCEPT !.pc = "commit", !.cancels = cancels] OBVIOUS
    <3>3. txn' = [txn EXCEPT ![t] = r] BY <1>0, <3>1, <3>w, <3>r DEF TxnShape, Columns
    <3>4. /\ Columns(r) /\ r.op = w.op /\ r.pc = "commit" /\ r.student = w.student
          /\ r.heir = w.heir /\ r.group = w.group /\ r.led = w.led /\ r.hit = w.hit
      BY <1>0, <3>w, <3>r DEF Columns
    <3>5. txn[t].pc = "cancel" BY <2>2 DEF AcceptCancel
    <3> QED BY <3>3, <3>4, <3>5, <3>w
  <2> QED BY <2>1, <2>2
<1>3. txn[t].op \in Movers /\ txn[t].pc \in {"heir", "cancel"}
  BY <1>0 DEF WriteHeir, AcceptCancel, Handler, Movers
<1>4. Handler(r) BY <1>0, <1>2, <1>3 DEF Handler, Movers
<1>5. /\ TxnShape' /\ HandlerInv' /\ txn'[t] = r
      /\ \A u \in Txn : u # t => txn'[u] = txn[u]
  BY <1>0, <1>2, <1>4, TxnWritten
<1>6. \A g \in GroupId : Exists(g)' = Exists(g) /\ Frozen(g)' = Frozen(g)
  BY <1>1 DEF Exists, Frozen
<1>7. Moved(t) BY <1>3 DEF Moved, Movers
<1>8. Settled(t)' => Settled(t) \/ (txn[t].pc = "heir" /\ Runs(t))
  BY <1>2, <1>3, <1>5 DEF Settled, WriteHeir, AcceptCancel
<1>9. \A u \in Txn : u # t => (Moved(u)' => Moved(u)) /\ (Settled(u)' => Settled(u))
  BY <1>5 DEF Moved, Settled
<1>10. \A u \in Txn : /\ txn'[u].op = txn[u].op /\ txn'[u].student = txn[u].student
                      /\ txn'[u].group = txn[u].group /\ txn'[u].led = txn[u].led
                      /\ txn'[u].heir = txn[u].heir /\ txn'[u].hit = txn[u].hit
  BY <1>2, <1>5
<1> QED BY <1>1, <1>5, <1>6, <1>7, <1>8, <1>9, <1>10 DEF Keeps

\* A non-empty set of naturals has a least element.
LEMMA LeastNatural ==
    ASSUME NEW T \in SUBSET Nat, T # {}
    PROVE  \E m \in T : \A n \in T : m <= n
<1>1. IsWellFoundedOn({p \in Nat \X Nat : p[1] < p[2]}, Nat)
  BY NatLessThanWellFounded, Zenon DEF OpToRel
<1>2. PICK less : less = {p \in Nat \X Nat : p[1] < p[2]} OBVIOUS
<1>3. PICK m \in T : \A n \in T : <<n, m>> \notin less BY <1>1, <1>2, WFMin
<1>4. \A n \in T : n < m => <<n, m>> \in less BY <1>2
<1>5. \A n \in T : ~ (n < m) BY <1>3, <1>4
<1>6. \A n \in T : m <= n BY <1>5
<1> QED BY <1>6

\* Of some students one has the best rank.
LEMMA BestIsOne ==
    ASSUME NEW S \in SUBSET Student, S # {}
    PROVE  Best(S) \in S
<1> DEFINE ranks == {individual_rank[s] : s \in S}
<1>1. individual_rank \in [Student -> Nat \ {0}] BY LobbyAssumption
<1>2. ranks \in SUBSET Nat /\ ranks # {} BY <1>1
<1>3. PICK m \in ranks : \A n \in ranks : m <= n BY <1>2, LeastNatural
<1>4. \E s \in S : \A u \in S : individual_rank[s] <= individual_rank[u] BY <1>3
<1> QED BY <1>4 DEF Best

\* handle_primary_applicant_leave: a leader's group waits to be written.
LEMMA Handled ==
    ASSUME Inv, NEW t \in Txn, txn[t].op \in Movers, txn[t].pc = "write",
           NEW next \in {"cancel", "commit"}, next = "cancel" => txn[t].op = "accept",
           handle_primary_applicant_leave(t, txn[t].student, Target(t), next)
    PROVE  /\ TxnShape' /\ HandlerInv'
           /\ \A u \in Txn : u # t => txn'[u] = txn[u]
           /\ txn'[t].op = txn[t].op /\ txn'[t].student = txn[t].student
           /\ txn'[t].group = txn[t].group
           /\ \/ /\ Leads(txn[t].student, GroupOf(t)) /\ GroupOf(t) # Target(t)
                 /\ txn'[t].pc = "heir" /\ txn'[t].led = GroupOf(t)
              \/ /\ Leads(txn[t].student, GroupOf(t)) => GroupOf(t) = Target(t)
                 /\ txn'[t].pc \in {"cancel", "commit"} /\ txn'[t].led = 0
<1>0. TxnShape /\ HandlerInv /\ Columns(txn[t]) /\ Handler(txn[t])
  BY DEF Inv, Shape, TxnShape, HandlerInv
<1>1. txn[t].led = 0 /\ txn[t].student \in Student /\ txn[t].hit = {}
  BY <1>0 DEF Handler, Movers
<1>2. PICK w : w = txn[t] OBVIOUS
<1>3. CASE Leads(w.student, GroupOf(t)) /\ GroupOf(t) # Target(t)
  <2> DEFINE rest == members(GroupOf(t)) \ {w.student}
             heir == IF rest = {} THEN NoStudent ELSE Best(rest)
  <2>1. txn' = [txn EXCEPT ![t].led = GroupOf(t), ![t].pc = "heir", ![t].heir = heir]
    BY <1>2, <1>3 DEF handle_primary_applicant_leave, GroupOf
  <2>2. heir \in Student \cup {NoStudent} /\ heir # w.student
    <3>1. rest \in SUBSET Student /\ w.student \notin rest BY DEF members
    <3>2. w.student # NoStudent BY <1>1, <1>2, LobbyAssumption
    <3> HIDE DEF rest
    <3> QED BY <3>1, <3>2, BestIsOne
  <2> HIDE DEF heir
  <2>3. PICK r : r = [w EXCEPT !.led = GroupOf(t), !.pc = "heir", !.heir = heir] OBVIOUS
  <2>4. txn' = [txn EXCEPT ![t] = r] BY <1>0, <1>2, <2>1, <2>3 DEF TxnShape, Columns
  <2>5. /\ Columns(r) /\ r.op = w.op /\ r.pc = "heir" /\ r.student = w.student
        /\ r.heir = heir /\ r.group = w.group /\ r.led = GroupOf(t) /\ r.hit = w.hit
    BY <1>0, <1>2, <2>3 DEF Columns
  <2>6. GroupOf(t) # 0 /\ GroupOf(t) \in 0..MaxGroups
    BY <1>3, LobbyAssumption DEF Leads, Exists, GroupId
  <2>7. Handler(r) BY <1>0, <1>1, <1>2, <2>2, <2>5, <2>6 DEF Handler, Movers
  <2>8. /\ TxnShape' /\ HandlerInv' /\ txn'[t] = r
        /\ \A u \in Txn : u # t => txn'[u] = txn[u]
    BY <1>0, <2>4, <2>5, <2>7, TxnWritten
  <2> QED BY <1>2, <1>3, <2>5, <2>8
<1>4. CASE ~ (Leads(w.student, GroupOf(t)) /\ GroupOf(t) # Target(t))
  <2>1. Step(t, next) BY <1>2, <1>4 DEF handle_primary_applicant_leave, GroupOf
  <2>2. PICK r : r = [w EXCEPT !.pc = next] OBVIOUS
  <2>3. /\ r.op = w.op /\ r.pc = next /\ r.student = w.student
        /\ r.heir = w.heir /\ r.group = w.group /\ r.led = w.led /\ r.hit = w.hit
    BY <1>0, <1>2, <2>2 DEF Columns
  <2>4. Handler(r) BY <1>0, <1>1, <1>2, <2>3 DEF Handler, Movers
  <2>5. /\ TxnShape' /\ HandlerInv' /\ txn'[t] = r
        /\ \A u \in Txn : u # t => txn'[u] = txn[u]
    BY <1>0, <1>2, <2>1, <2>2, <2>4, Goes
  <2> QED BY <1>1, <1>2, <1>4, <2>3, <2>5
<1> QED BY <1>3, <1>4

\* The UPDATE of the student, which the triggers may refuse.
LEMMA StudentWrites ==
    ASSUME Inv, NEW t \in Txn, CreateWrite(t) \/ AcceptWrite(t) \/ DepartWrite(t)
    PROVE  TxnShape' /\ HandlerInv' /\ (Keeps \/ Arrives(t))
<1>1. UNCHANGED <<group_id, housing_group, places>>
  BY DEF CreateWrite, AcceptWrite, DepartWrite, tables
<1>2. CASE Rollback(t) BY <1>1, <1>2, EndKeeps
<1>3. CASE ~ Rollback(t)
  <2>1. /\ txn[t].op \in Movers /\ txn[t].pc = "write" /\ Runs(t)
    BY DEF CreateWrite, AcceptWrite, DepartWrite, Movers
  <2>2. \E next \in {"cancel", "commit"} :
            /\ next = "cancel" => txn[t].op = "accept"
            /\ handle_primary_applicant_leave(t, txn[t].student, Target(t), next)
    BY <1>3 DEF CreateWrite, AcceptWrite, DepartWrite, Target
  <2>3. Frozen(GroupOf(t)) => GroupOf(t) = Target(t)
    BY <1>3 DEF CreateWrite, AcceptWrite, DepartWrite, Target, GroupOf,
                prevent_illegal_group_modification
  <2>4. txn[t].op = "accept" =>
            check_group_capacity(txn[t].student, txn[t].group) /\ Exists(txn[t].group)
    BY <1>3 DEF CreateWrite, AcceptWrite, DepartWrite
  <2>5. txn[t].op \in {"leave", "kick"} => GroupOf(t) = txn[t].group
    BY <1>3 DEF CreateWrite, AcceptWrite, DepartWrite, GroupOf
  <2> QED BY <1>1, <2>1, <2>2, <2>3, <2>4, <2>5, Handled DEF Arrives
<1> QED BY <1>2, <1>3

\* A handler's commit moves its student, or is refused.
LEMMA Commits ==
    ASSUME Inv, NEW t \in Txn, CreateCommit(t) \/ AcceptCommit(t) \/ DepartCommit(t)
    PROVE  /\ TxnShape' /\ HandlerInv'
           /\ \/ Keeps /\ UNCHANGED <<housing_group, group_request, joined>>
              \/ /\ \E to \in 0..MaxGroups : Departs(t, to)
                 /\ group_request' = Requests(t) /\ joined' = Joins(t)
<1>0. TxnShape /\ HandlerInv /\ TablesShape /\ Handler(txn[t])
  BY DEF Inv, Shape, HandlerInv
<1>1. Rollback(t) BY DEF CreateCommit, AcceptCommit, DepartCommit
<1>2. /\ TxnShape' /\ HandlerInv'
      /\ txn'[t] = Closed /\ \A u \in Txn : u # t => txn'[u] = txn[u]
  BY <1>0, <1>1, Ends
<1>3. CASE ~ validate_primary_applicant(t)
  <2>1. UNCHANGED <<group_id, housing_group, group_request, joined, places>>
    BY <1>3 DEF CreateCommit, AcceptCommit, DepartCommit, tables
  <2> QED BY <1>1, <2>1, EndKeeps
<1>4. CASE validate_primary_applicant(t) /\ ~ CreateCommit(t)
  <2>1. /\ txn[t].op \in Movers \ {"create"} /\ txn[t].pc = "commit"
        /\ group_id' = Members(t, Target(t)) /\ housing_group' = Groups(t)
        /\ places' = places /\ group_request' = Requests(t) /\ joined' = Joins(t)
    BY <1>4 DEF AcceptCommit, DepartCommit, Movers, Target
  <2>2. Target(t) \in 0..MaxGroups BY <1>0, LobbyAssumption DEF Target, Handler
  <2> QED BY <1>2, <1>4, <2>1, <2>2 DEF Departs
<1>5. CASE validate_primary_applicant(t) /\ CreateCommit(t)
  <2> DEFINE free == {g \in GroupId : housing_group[g].status = "unused"}
             to == Min(free)
             status == IF txn[t].batch = 0 THEN "FORMING" ELSE "SOFT_LOCKED"
             row == [status |-> status, leader |-> txn[t].student, batch |-> txn[t].batch]
  <2>1. /\ txn[t].op = "create" /\ txn[t].pc = "commit" /\ free # {}
        /\ group_id' = Members(t, to) /\ group_request' = Requests(t) /\ joined' = Joins(t)
        /\ housing_group' = [Groups(t) EXCEPT ![to] = row]
        /\ places' = [places EXCEPT ![txn[t].student] = IF txn[t].batch = 0 THEN @ ELSE @ + 1]
    BY <1>5 DEF CreateCommit
  <2>2. to \in free
    <3>1. free \in SUBSET Nat BY DEF GroupId
    <3>2. \E m \in free : \A n \in free : m <= n BY <2>1, <3>1, LeastNatural
    <3> QED BY <3>2 DEF Min
  <2>3. to \in 0..MaxGroups /\ to \in GroupId /\ housing_group[to].status = "unused"
    BY <2>2, LobbyAssumption DEF GroupId
  <2>4. housing_group'[to] = row
    <3>1. to \in DOMAIN Groups(t) BY <1>0, <2>3 DEF Groups, TablesShape
    <3> HIDE DEF to, row
    <3> QED BY <2>1, <3>1
  <2>5. \/ places' = places
        \/ /\ housing_group'[to].status = "SOFT_LOCKED"
           /\ places' = [places EXCEPT ![txn[t].student] = @ + 1]
    <3>1. CASE txn[t].batch = 0
      <4>1. places' = [places EXCEPT ![txn[t].student] = @] BY <2>1, <3>1
      <4> QED BY <1>0, <4>1 DEF TablesShape
    <3>2. CASE txn[t].batch # 0 BY <2>1, <2>4, <3>2
    <3> QED BY <3>1, <3>2
  <2>6. status \in {"FORMING", "SOFT_LOCKED"} OBVIOUS
  <2> HIDE DEF to, status
  <2>7. Departs(t, to)
    BY <1>2, <1>5, <2>1, <2>3, <2>5, <2>6 DEF Departs, Movers
  <2> QED BY <1>2, <2>1, <2>3, <2>7
<1> QED BY <1>3, <1>4, <1>5

\* A step that changes no transaction, no member and no place, and locks the groups of a
\* batch, keeps the groups.
LEMMA Untouched ==
    ASSUME UNCHANGED <<group_id, places, txn>>,
           \A g \in GroupId :
              /\ Exists(g)' = Exists(g) /\ Frozen(g)' = Frozen(g)
              /\ housing_group'[g].leader = housing_group[g].leader
    PROVE  Keeps
<1>1. \A t \in Txn : (Moved(t)' => Moved(t)) /\ (Settled(t)' => Settled(t))
  BY DEF Moved, Settled
<1> QED BY <1>1 DEF Keeps

\* A request that fails, the answer to a request, and the phase.
LEMMA OtherSteps ==
    ASSUME Inv,
           \/ \E t \in Txn : SendInsert(t) \/ Deadlock(t)
           \/ \E r \in RequestId : Reject(r)
           \/ \E t \in Txn, new \in Phase : setCurrentPhase(t, new)
    PROVE  TxnShape' /\ HandlerInv' /\ Keeps
<1>0. TxnShape /\ HandlerInv BY DEF Inv, Shape
<1>1. UNCHANGED <<group_id, housing_group, places>>
  BY DEF SendInsert, Deadlock, Reject, setCurrentPhase, tables
<1>2. ASSUME NEW t \in Txn, SendInsert(t) \/ Deadlock(t)
      PROVE  TxnShape' /\ HandlerInv' /\ Keeps
  <2>1. Rollback(t) BY <1>2 DEF SendInsert, Deadlock
  <2> QED BY <1>1, <2>1, EndKeeps
<1>3. CASE UNCHANGED txn
  <2>1. \A g \in GroupId : Exists(g)' = Exists(g) /\ Frozen(g)' = Frozen(g)
    BY <1>1 DEF Exists, Frozen
  <2>2. Keeps BY <1>1, <1>3, <2>1, Untouched
  <2>3. TxnShape' /\ HandlerInv' BY <1>0, <1>3 DEF TxnShape, HandlerInv
  <2> QED BY <2>2, <2>3
<1>4. ASSUME NEW t \in Txn, Begin(t, [Closed EXCEPT !.op = "assign", !.pc = "assign"])
      PROVE  TxnShape' /\ HandlerInv' /\ Keeps
  <2>1. PICK r : r = [Closed EXCEPT !.op = "assign", !.pc = "assign"] OBVIOUS
  <2>2. /\ Columns(r) /\ r.op = "assign" /\ r.pc = "assign" /\ r.led = 0 /\ r.hit = {}
        /\ r.student = NoStudent /\ r.heir = NoStudent /\ r.group = 0
    BY <2>1 DEF Closed, Columns
  <2>3. Handler(r) BY <2>2, LobbyAssumption DEF Handler, Movers
  <2>4. /\ TxnShape' /\ HandlerInv' /\ txn'[t] = r
        /\ \A u \in Txn : u # t => txn'[u] = txn[u]
    BY <1>0, <1>4, <2>1, <2>2, <2>3, Begins
  <2>5. ~ Moved(t)' /\ txn'[t].hit = {} BY <2>2, <2>4 DEF Moved
  <2> QED BY <1>1, <2>4, <2>5, Quiet
<1> QED BY <1>2, <1>3, <1>4 DEF Reject, setCurrentPhase

\* The commits of a transfer and of the soft lock, and the hard lock of a batch.
LEMMA GroupWrites ==
    ASSUME Inv,
           \/ \E t \in Txn : TransferCommit(t) \/ AssignCommit(t)
           \/ \E b \in BatchId : StartBatch(b)
    PROVE  TxnShape' /\ HandlerInv' /\ Keeps
<1>0. TxnShape /\ HandlerInv /\ TablesShape BY DEF Inv, Shape
<1>1. UNCHANGED <<group_id, places>> BY DEF TransferCommit, AssignCommit, StartBatch
<1>2. ASSUME NEW b \in BatchId, StartBatch(b)
      PROVE  TxnShape' /\ HandlerInv' /\ Keeps
  <2>1. txn' = txn BY <1>2 DEF StartBatch
  <2>2. \A g \in GroupId :
            \/ housing_group'[g] = housing_group[g]
            \/ /\ housing_group[g].status = "SOFT_LOCKED"
               /\ housing_group'[g] = [housing_group[g] EXCEPT !.status = "HARD_LOCKED"]
    BY <1>2 DEF StartBatch
  <2>3. \A g \in GroupId :
              /\ Exists(g)' = Exists(g) /\ Frozen(g)' = Frozen(g)
              /\ housing_group'[g].leader = housing_group[g].leader
    <3> SUFFICES ASSUME NEW g \in GroupId
                 PROVE  /\ Exists(g)' = Exists(g) /\ Frozen(g)' = Frozen(g)
                        /\ housing_group'[g].leader = housing_group[g].leader
      OBVIOUS
    <3>1. GroupColumns(housing_group[g]) BY <1>0 DEF TablesShape
    <3>2. CASE housing_group'[g] = housing_group[g] BY <3>2 DEF Exists, Frozen
    <3>3. CASE /\ housing_group[g].status = "SOFT_LOCKED"
               /\ housing_group'[g] = [housing_group[g] EXCEPT !.status = "HARD_LOCKED"]
      <4>1. PICK old : old = housing_group[g] OBVIOUS
      <4>2. PICK new : new = [old EXCEPT !.status = "HARD_LOCKED"] OBVIOUS
      <4>3. new.status = "HARD_LOCKED" /\ new.leader = old.leader
        BY <3>1, <4>1, <4>2 DEF GroupColumns
      <4> QED BY <3>3, <4>1, <4>2, <4>3 DEF Exists, Frozen
    <3> QED BY <2>2, <3>2, <3>3
  <2>4. Keeps BY <1>1, <2>1, <2>3, Untouched
  <2>5. TxnShape' /\ HandlerInv' BY <1>0, <2>1 DEF TxnShape, HandlerInv
  <2> QED BY <2>4, <2>5
<1>3. ASSUME NEW t \in Txn, TransferCommit(t) \/ AssignCommit(t)
      PROVE  TxnShape' /\ HandlerInv' /\ Keeps
  <2>1. Rollback(t) BY <1>3 DEF TransferCommit, AssignCommit
  <2>2. /\ TxnShape' /\ HandlerInv'
        /\ txn'[t] = Closed /\ \A u \in Txn : u # t => txn'[u] = txn[u]
    BY <1>0, <2>1, Ends
  <2>3. ~ Moved(t)' /\ txn'[t].hit = {} BY <2>2 DEF Moved, Closed
  <2>4. \A u \in Txn : Moved(u)' => u # t /\ Moved(u) /\ txn'[u] = txn[u]
    BY <2>2, <2>3 DEF Moved
  <2>5. \A u \in Txn : txn'[u] = txn[u] => (Settled(u)' => Settled(u)) BY DEF Settled
  <2>6. ASSUME NEW g \in GroupId
        PROVE  /\ Exists(g)' = Exists(g)
               /\ Frozen(g) => Frozen(g)'
               /\ Frozen(g)' => Frozen(g) \/ (txn[t].op = "assign" /\ g \in txn[t].hit)
               /\ \/ housing_group'[g].leader = housing_group[g].leader
                  \/ /\ txn[t].op = "transfer" /\ txn[t].group = g
                     /\ housing_group'[g].leader = txn[t].student
                     /\ GroupOf(t) = g
    <3>1. GroupColumns(housing_group[g]) BY <1>0 DEF TablesShape
    <3>2. PICK old : old = housing_group[g] OBVIOUS
    <3>3. CASE housing_group'[g] = housing_group[g] BY <3>3 DEF Exists, Frozen
    <3>4. CASE /\ txn[t].op = "transfer" /\ txn[t].group = g /\ GroupOf(t) = g
               /\ housing_group'[g] = [housing_group[g] EXCEPT !.leader = txn[t].student]
      <4>1. PICK new : new = [old EXCEPT !.leader = txn[t].student] OBVIOUS
      <4>2. new.status = old.status /\ new.leader = txn[t].student
        BY <3>1, <3>2, <4>1 DEF GroupColumns
      <4> QED BY <3>2, <3>4, <4>1, <4>2 DEF Exists, Frozen
    <3>5. ASSUME NEW batch, txn[t].op = "assign", g \in txn[t].hit,
                 housing_group'[g] = [housing_group[g] EXCEPT !.status = "SOFT_LOCKED",
                                                              !.batch = batch]
          PROVE  /\ Exists(g)' = Exists(g) /\ Frozen(g)'
                 /\ housing_group'[g].leader = housing_group[g].leader
      <4>1. PICK new : new = [old EXCEPT !.status = "SOFT_LOCKED", !.batch = batch] OBVIOUS
      <4>2. new.status = "SOFT_LOCKED" /\ new.leader = old.leader
        BY <3>1, <3>2, <4>1 DEF GroupColumns
      <4>3. Exists(g) BY <3>5 DEF Inv, HitInv
      <4> QED BY <3>2, <3>5, <4>1, <4>2, <4>3 DEF Exists, Frozen
    <3>6. CASE TransferCommit(t)
      <4>1. \/ housing_group' = housing_group
            \/ /\ GroupOf(t) = txn[t].group
               /\ housing_group' = [housing_group EXCEPT ![txn[t].group].leader = txn[t].student]
        BY <3>6 DEF TransferCommit, validate_primary_applicant, GroupOf
      <4>2. txn[t].op = "transfer" BY <3>6 DEF TransferCommit
      <4> QED BY <1>0, <3>3, <3>4, <4>1, <4>2 DEF TablesShape
    <3>7. CASE AssignCommit(t)
      <4>1. txn[t].op = "assign" BY <3>7 DEF AssignCommit
      <4>2. CASE g \notin txn[t].hit
        <5>1. housing_group'[g] = housing_group[g] BY <3>7, <4>2 DEF AssignCommit
        <5> QED BY <3>3, <5>1
      <4>3. CASE g \in txn[t].hit
        <5>1. housing_group'[g] =
                  [housing_group[g] EXCEPT !.status = "SOFT_LOCKED",
                      !.batch = (CHOOSE p \in ToSet(txn[t].plan) : p[1] = g)[2]]
          BY <3>7, <4>3 DEF AssignCommit
        <5> QED BY <3>5, <4>1, <4>3, <5>1
      <4> QED BY <4>2, <4>3
    <3> QED BY <1>3, <3>6, <3>7
  <2>7. Keeps BY <1>1, <2>2, <2>3, <2>4, <2>5, <2>6 DEF Keeps
  <2> QED BY <2>2, <2>7
<1> QED BY <1>2, <1>3

\* Every step keeps the groups, writes a student or commits one.
LEMMA Kinds ==
    ASSUME Inv, Next
    PROVE  /\ TxnShape' /\ HandlerInv'
           /\ \/ Keeps
              \/ \E t \in Txn : Arrives(t)
              \/ \E t \in Txn, to \in 0..MaxGroups : Departs(t, to)
<1> DEFINE Kind == /\ TxnShape' /\ HandlerInv'
                   /\ \/ Keeps
                      \/ \E t \in Txn : Arrives(t)
                      \/ \E t \in Txn, to \in 0..MaxGroups : Departs(t, to)
<1>1. ASSUME NEW t \in Txn,
             \/ \E s \in Student : CreateCheck(t, s)
             \/ \E g \in GroupId, s \in Student : SendCheck(t, g, s)
             \/ \E r \in RequestId : AcceptCheck(t, r)
             \/ \E s \in Student : LeaveCheck(t, s)
             \/ \E g \in GroupId, s, u \in Student : KickCheck(t, u, s, g)
             \/ \E g \in GroupId, s \in Student : TransferCheck(t, g, s)
      PROVE  Kind
  BY <1>1, CheckSteps
<1>2. ASSUME NEW t \in Txn, CreateWrite(t) \/ AcceptWrite(t) \/ DepartWrite(t) PROVE Kind
  BY <1>2, StudentWrites
<1>3. ASSUME NEW t \in Txn, WriteHeir(t) \/ AcceptCancel(t) PROVE Kind BY <1>3, LaterWrites
<1>4. ASSUME NEW t \in Txn, CreateCommit(t) \/ AcceptCommit(t) \/ DepartCommit(t) PROVE Kind
  BY <1>4, Commits
<1>5. ASSUME NEW t \in Txn, AssignRead(t) \/ AssignGroup(t) \/ TransferWrite(t) PROVE Kind
  BY <1>5, AssignSteps
<1>6. ASSUME \/ \E t \in Txn : SendInsert(t) \/ Deadlock(t)
             \/ \E r \in RequestId : Reject(r)
             \/ \E t \in Txn, new \in Phase : setCurrentPhase(t, new)
      PROVE  Kind
  BY <1>6, OtherSteps
<1>7. ASSUME \/ \E t \in Txn : TransferCommit(t) \/ AssignCommit(t)
             \/ \E b \in BatchId : StartBatch(b)
      PROVE  Kind
  BY <1>7, GroupWrites
<1> HIDE DEF Kind
<1>8. Kind BY <1>1, <1>2, <1>3, <1>4, <1>5, <1>6, <1>7 DEF Next
<1> QED BY <1>8 DEF Kind

\* What a commit does to members and groups.
LEMMA Departure ==
    ASSUME Inv, NEW t \in Txn, NEW to \in 0..MaxGroups, Departs(t, to)
    PROVE  /\ \A s \in Student :
                 group_id'[s] = IF s = txn[t].student THEN to
                                ELSE IF Dissolves(t) /\ group_id[s] = txn[t].led THEN 0
                                ELSE group_id[s]
           /\ txn[t].student \in Student /\ Moved(t)
           /\ txn[t].led # 0 => Settled(t)
           /\ \A u \in Txn : Moved(u)' => u # t /\ Moved(u) /\ txn'[u] = txn[u]
           /\ txn[t].op = "create" =>
                 /\ to \in GroupId /\ ~ Exists(to) /\ Exists(to)'
                 /\ housing_group'[to].leader = txn[t].student
           /\ txn[t].op # "create" => to = Target(t)
           /\ \A g \in GroupId : (txn[t].op = "create" => g # to) =>
                 /\ Exists(g)' <=> Exists(g) /\ ~ (Dissolves(t) /\ g = txn[t].led)
                 /\ Exists(g)' =>
                      /\ Frozen(g)' = Frozen(g)
                      /\ housing_group'[g].leader = IF g = txn[t].led THEN txn[t].heir
                                                    ELSE housing_group[g].leader
<1>0. /\ TablesShape /\ Handler(txn[t])
      /\ txn[t].op \in Movers /\ txn[t].pc = "commit" /\ group_id' = Members(t, to)
      /\ txn'[t] = Closed /\ \A u \in Txn : u # t => txn'[u] = txn[u]
  BY DEF Inv, Shape, HandlerInv, Departs
<1>1. \A s \in Student :
          group_id'[s] = IF s = txn[t].student THEN to
                         ELSE IF Dissolves(t) /\ group_id[s] = txn[t].led THEN 0
                         ELSE group_id[s]
  BY <1>0 DEF Members
<1>2. txn[t].student \in Student /\ Moved(t) /\ (txn[t].led # 0 => Settled(t))
  BY <1>0 DEF Handler, Moved, Settled, Movers
<1>3. \A u \in Txn : Moved(u)' => u # t /\ Moved(u) /\ txn'[u] = txn[u]
  BY <1>0 DEF Moved, Closed
<1>4. ASSUME NEW g \in GroupId
      PROVE  /\ txn[t].led = 0 \/ g # txn[t].led => Groups(t)[g] = housing_group[g]
             /\ txn[t].led # 0 /\ g = txn[t].led =>
                   IF Dissolves(t) THEN Groups(t)[g].status = "deleted"
                   ELSE /\ Groups(t)[g].status = housing_group[g].status
                        /\ Groups(t)[g].leader = txn[t].heir
  <2>1. PICK old : old = housing_group[g] OBVIOUS
  <2>2. GroupColumns(old) BY <1>0, <2>1 DEF TablesShape
  <2>3. CASE txn[t].led = 0 BY <2>3 DEF Groups
  <2>4. CASE txn[t].led # 0 /\ Dissolves(t)
    <3>1. [NoGroup EXCEPT !.status = "deleted"].status = "deleted" BY DEF NoGroup
    <3>2. Groups(t) = [housing_group EXCEPT ![txn[t].led] = [NoGroup EXCEPT !.status = "deleted"]]
      BY <2>4 DEF Groups
    <3> QED BY <1>0, <2>4, <3>1, <3>2 DEF TablesShape
  <2>5. CASE txn[t].led # 0 /\ ~ Dissolves(t)
    <3>1. Groups(t) = [housing_group EXCEPT ![txn[t].led].leader = txn[t].heir]
      BY <2>5 DEF Groups
    <3>2. PICK new : new = [old EXCEPT !.leader = txn[t].heir] OBVIOUS
    <3>3. new.status = old.status /\ new.leader = txn[t].heir
      BY <2>2, <3>2 DEF GroupColumns
    <3>4. g = txn[t].led => Groups(t)[g] = new BY <1>0, <2>1, <3>1, <3>2 DEF TablesShape
    <3>5. g # txn[t].led => Groups(t)[g] = housing_group[g] BY <1>0, <3>1 DEF TablesShape
    <3> QED BY <2>1, <2>5, <3>3, <3>4, <3>5
  <2> QED BY <2>3, <2>4, <2>5
<1>5. DOMAIN Groups(t) = GroupId BY <1>0 DEF Groups, TablesShape
<1>6. ASSUME txn[t].op = "create"
      PROVE  /\ to \in GroupId /\ ~ Exists(to) /\ Exists(to)'
             /\ housing_group'[to].leader = txn[t].student
             /\ \A g \in GroupId : g # to => housing_group'[g] = Groups(t)[g]
  <2>1. PICK status \in {"FORMING", "SOFT_LOCKED"} :
            /\ to \in GroupId /\ housing_group[to].status = "unused"
            /\ housing_group' = [Groups(t) EXCEPT ![to] = [status |-> status, leader |-> txn[t].student,
                                                           batch |-> txn[t].batch]]
    BY <1>6 DEF Departs
  <2>2. /\ housing_group'[to].status = status /\ housing_group'[to].leader = txn[t].student
        /\ \A g \in GroupId : g # to => housing_group'[g] = Groups(t)[g]
    BY <1>5, <2>1
  <2> QED BY <2>1, <2>2 DEF Exists
<1>7. txn[t].op # "create" => to = Target(t) /\ housing_group' = Groups(t) BY DEF Departs
<1>8. ASSUME NEW g \in GroupId, txn[t].op = "create" => g # to
      PROVE  /\ Exists(g)' <=> Exists(g) /\ ~ (Dissolves(t) /\ g = txn[t].led)
             /\ Exists(g)' =>
                      /\ Frozen(g)' = Frozen(g)
                      /\ housing_group'[g].leader = IF g = txn[t].led THEN txn[t].heir
                                                    ELSE housing_group[g].leader
  <2>1. housing_group'[g] = Groups(t)[g] BY <1>6, <1>7, <1>8
  <2>2. txn[t].led = 0 => g # txn[t].led BY LobbyAssumption DEF GroupId
  <2>3. Dissolves(t) => txn[t].led # 0 BY DEF Dissolves
  <2> QED BY <1>4, <2>1, <2>2, <2>3 DEF Exists, Frozen
<1> QED BY <1>1, <1>2, <1>3, <1>6, <1>7, <1>8

-----------------------------------------------------------------------------
(* The row locks.                                                          *)

\* The locks that a transaction holds which has written its student.
LEMMA Locks ==
    ASSUME Inv, NEW u \in Txn, Moved(u)
    PROVE  /\ txn[u].student \in Student /\ txn[u].op \in Movers
           /\ txn[u].student \in HoldsStudents(u)
           /\ txn[u].op = "accept" => txn[u].group \in HoldsGroups(u)
           /\ Settled(u) => txn[u].led \in HoldsGroups(u)
           /\ Settled(u) /\ Dissolves(u) =>
                 \A s \in Student : group_id[s] = txn[u].led => s \in HoldsStudents(u)
<1>1. Handler(txn[u]) BY DEF Inv, HandlerInv
<1>2. txn[u].student \in Student /\ txn[u].op \in Movers
  BY <1>1 DEF Handler, Moved, Movers
<1>3. txn[u].op = "accept" => txn[u].group \in GroupId BY <1>1 DEF Handler
<1>4. Settled(u) => txn[u].led \in GroupId
  BY <1>1, LobbyAssumption DEF Handler, Settled, GroupId
<1> QED BY <1>2, <1>3, <1>4 DEF HoldsStudents, HoldsGroups

\* The rows that the UPDATE of a student waits for.
LEMMA ArrivalWaits ==
    ASSUME Inv, NEW t \in Txn, Arrives(t), NEW u \in Txn, u # t, Moved(u)
    PROVE  /\ txn[u].student # txn[t].student
           /\ txn[t].op = "accept" /\ txn[u].op = "accept" => txn[u].group # txn[t].group
           /\ Settled(u) => Target(t) # txn[u].led
           /\ Settled(u) /\ Dissolves(u) => GroupOf(t) # txn[u].led
<1>1. /\ txn[t].pc = "write" /\ txn[t].op \in Movers /\ ~ WaitsFor(t, u)
      /\ txn[t].student \in Student
  BY DEF Arrives, Runs, Inv, HandlerInv, Handler
<1>2. WantsStudents(t) = {txn[t].student} BY <1>1 DEF WantsStudents, Movers
<1>3. txn[t].op = "accept" => WantsGroups(t) = {txn[t].group} BY <1>1 DEF WantsGroups
<1>4. /\ WantsStudents(t) \cap HoldsStudents(u) = {}
      /\ WantsGroups(t) \cap HoldsGroups(u) = {}
  BY <1>1 DEF WaitsFor
<1>5. txn[t].op # "accept" /\ Settled(u) => Target(t) # txn[u].led BY DEF Target, Settled
<1>6. txn[t].op = "accept" => Target(t) = txn[t].group BY DEF Target
<1> QED BY <1>1, <1>2, <1>3, <1>4, <1>5, <1>6, Locks DEF GroupOf

\* The rows that the write of the left group waits for.
LEMMA HeirWaits ==
    ASSUME Inv, NEW u \in Txn, txn[u].pc = "heir", Runs(u), NEW t \in Txn, t # u
    PROVE  /\ txn[u].led \notin HoldsGroups(t)
           /\ Moved(t) => Target(t) # txn[u].led
           /\ Moved(t) /\ Dissolves(u) => GroupOf(t) # txn[u].led
<1>1. ~ WaitsFor(u, t) /\ txn[u].led # 0 BY DEF Runs, Inv, HandlerInv, Handler
<1>2. WantsGroups(u) = {txn[u].led} BY DEF WantsGroups
<1>3. txn[u].led \notin HoldsGroups(t) BY <1>1, <1>2 DEF WaitsFor
<1>4. Moved(t) => Target(t) # txn[u].led BY <1>1, <1>3, Locks DEF Target
<1>5. Dissolves(u) => WantsStudents(u) = members(txn[u].led) BY DEF WantsStudents
<1>6. Moved(t) /\ Dissolves(u) => txn[t].student \notin members(txn[u].led)
  BY <1>1, <1>5, Locks DEF WaitsFor
<1>7. Moved(t) /\ Dissolves(u) => GroupOf(t) # txn[u].led BY <1>6, Locks DEF members, GroupOf
<1> QED BY <1>3, <1>4, <1>7

\* Only t is new among the transactions that have written a student.
LEMMA Arrival ==
    ASSUME Inv, NEW t \in Txn, Arrives(t)
    PROVE  /\ ~ Settled(t)'
           /\ \A u \in Txn : u # t => /\ txn'[u] = txn[u]
                                      /\ Moved(u)' = Moved(u) /\ Settled(u)' = Settled(u)
                                      /\ Dissolves(u)' = Dissolves(u)
                                      /\ GroupOf(u)' = GroupOf(u) /\ Target(u)' = Target(u)
           /\ GroupOf(t)' = GroupOf(t) /\ Target(t)' = Target(t)
           /\ \A g \in GroupId : Exists(g)' = Exists(g) /\ Frozen(g)' = Frozen(g)
<1>1. ~ Settled(t)' BY DEF Arrives, Settled
<1>2. \A u \in Txn : u # t => /\ txn'[u] = txn[u]
                              /\ Moved(u)' = Moved(u) /\ Settled(u)' = Settled(u)
                              /\ Dissolves(u)' = Dissolves(u)
                              /\ GroupOf(u)' = GroupOf(u) /\ Target(u)' = Target(u)
  BY DEF Arrives, Moved, Settled, Dissolves, GroupOf, Target
<1>3. GroupOf(t)' = GroupOf(t) /\ Target(t)' = Target(t) BY DEF Arrives, GroupOf, Target
<1>4. \A g \in GroupId : Exists(g)' = Exists(g) /\ Frozen(g)' = Frozen(g)
  BY DEF Arrives, Exists, Frozen
<1> QED BY <1>1, <1>2, <1>3, <1>4

\* Two transactions never hold the same student, or admit to the same group.
LEMMA RowStep ==
    ASSUME Inv, Next
    PROVE  RowInv'
<1>0. RowInv BY DEF Inv
<1>1. CASE Keeps BY <1>0, <1>1 DEF RowInv, Keeps
<1>2. ASSUME NEW t \in Txn, Arrives(t) PROVE RowInv'
  <2>1. txn'[t].op = txn[t].op /\ txn'[t].student = txn[t].student /\ txn'[t].group = txn[t].group
    BY <1>2 DEF Arrives
  <2> QED BY <1>0, <1>2, <2>1, Arrival, ArrivalWaits DEF RowInv
<1>3. ASSUME NEW t \in Txn, NEW to \in 0..MaxGroups, Departs(t, to) PROVE RowInv'
  <2>1. \A u \in Txn : Moved(u)' => Moved(u) /\ txn'[u] = txn[u] BY <1>3, Departure
  <2> QED BY <1>0, <2>1 DEF RowInv
<1> QED BY <1>1, <1>2, <1>3, Kinds

\* A step by another transaction does not move a student whose row is written.
LEMMA StaysPut ==
    ASSUME Inv, NEW t \in Txn, NEW to \in 0..MaxGroups, Departs(t, to),
           NEW u \in Txn, Moved(u)'
    PROVE  /\ u # t /\ Moved(u) /\ txn'[u] = txn[u]
           /\ txn[u].student # txn[t].student
           /\ Dissolves(t) => GroupOf(u) # txn[t].led /\ Target(u) # txn[t].led
           /\ GroupOf(u)' = GroupOf(u) /\ Target(u)' = Target(u)
<1>1. /\ u # t /\ Moved(u) /\ txn'[u] = txn[u] /\ Moved(t) /\ (txn[t].led # 0 => Settled(t))
      /\ txn[u].student \in Student
  BY Departure, Locks
<1>2. txn[u].student # txn[t].student BY <1>1 DEF Inv, RowInv
<1>3. Dissolves(t) => GroupOf(u) # txn[t].led /\ Target(u) # txn[t].led
  BY <1>1 DEF Inv, LedInv, Dissolves
<1>4. GroupOf(u)' = GroupOf(u) BY <1>1, <1>2, <1>3, Departure DEF GroupOf
<1>5. Target(u)' = Target(u) BY <1>1 DEF Target
<1> QED BY <1>1, <1>2, <1>3, <1>4, <1>5

\* The group that is left stays the leader's, and a group that is dissolved stays closed.
LEMMA LedStep ==
    ASSUME Inv, Next
    PROVE  LedInv'
<1>0. /\ LedInv /\ HandlerInv' /\ \A t \in Txn : txn'[t].led # 0 => Moved(t)'
  <2>1. HandlerInv' BY Kinds
  <2>2. \A t \in Txn : txn'[t].led # 0 => Moved(t)' BY <2>1 DEF HandlerInv, Handler, Moved, Movers
  <2> QED BY <2>1, <2>2 DEF Inv
<1>s. \A u \in Txn : Settled(u)' => Moved(u)' BY <1>0 DEF Settled
<1>1. CASE Keeps
  <2>1. \A t \in Txn : Moved(t)' =>
            /\ Moved(t) /\ GroupOf(t)' = GroupOf(t) /\ Target(t)' = Target(t)
            /\ txn'[t].op = txn[t].op /\ txn'[t].group = txn[t].group
            /\ txn'[t].led = txn[t].led /\ Dissolves(t)' = Dissolves(t)
    BY <1>1 DEF Keeps, GroupOf, Target, Dissolves
  <2>2. \A t \in Txn : Moved(t) /\ txn[t].op = "accept" => txn[t].group \in GroupId
    BY DEF Inv, LedInv, Exists
  <2>3. \A g \in GroupId : Exists(g)' = Exists(g) BY <1>1 DEF Keeps
  <2>4. ASSUME NEW t \in Txn, NEW u \in Txn, t # u, Moved(t)', Settled(u)', Dissolves(u)'
        PROVE  (GroupOf(t) # txn[u].led /\ Target(t) # txn[u].led)'
    <3>1. CASE Settled(u) BY <1>0, <1>s, <2>1, <2>4, <3>1 DEF LedInv
    <3>2. CASE ~ Settled(u)
      <4>1. txn[u].pc = "heir" /\ Runs(u) BY <1>1, <1>s, <2>4, <3>2 DEF Keeps
      <4> QED BY <1>s, <2>1, <2>4, <4>1, HeirWaits
    <3> QED BY <3>1, <3>2
  <2> QED BY <1>0, <2>1, <2>2, <2>3, <2>4 DEF LedInv
<1>2. ASSUME NEW t \in Txn, Arrives(t) PROVE LedInv'
  <2>1. /\ txn'[t].op = txn[t].op /\ txn'[t].group = txn[t].group
        /\ txn'[t].led # 0 => txn'[t].led = GroupOf(t) /\ GroupOf(t) # Target(t)
        /\ txn[t].op = "accept" => Exists(txn[t].group) /\ txn[t].group \in GroupId
        /\ txn[t].op \in {"leave", "kick"} => GroupOf(t) = txn[t].group
    BY <1>2 DEF Arrives, Exists
  <2>2. \A u \in Txn : u # t /\ Moved(u) /\ txn[u].op = "accept" => txn[u].group \in GroupId
    BY DEF Inv, LedInv, Exists
  <2>3. \A u \in Txn : Settled(u)' => u # t /\ Settled(u) /\ Moved(u) /\ txn'[u] = txn[u]
    BY <1>2, <1>s, Arrival
  <2>4. ASSUME NEW u \in Txn, NEW v \in Txn, u # v, Moved(u)', Settled(v)', Dissolves(v)'
        PROVE  (GroupOf(u) # txn[v].led /\ Target(u) # txn[v].led)'
    <3>1. CASE u = t BY <1>2, <2>3, <2>4, <3>1, Arrival, ArrivalWaits
    <3>2. CASE u # t BY <1>0, <1>2, <2>3, <2>4, <3>2, Arrival DEF LedInv
    <3> QED BY <3>1, <3>2
  <2>5. \A u \in Txn : txn'[u].led # 0 => GroupOf(u)' = txn'[u].led /\ Target(u)' # txn'[u].led
    BY <1>0, <1>2, <2>1, Arrival DEF LedInv
  <2>6. \A u \in Txn : Moved(u)' /\ txn'[u].op = "accept" => Exists(txn[u].group)'
    <3>1. \A g \in GroupId : Exists(g)' = Exists(g) BY <1>2, Arrival
    <3> QED BY <1>0, <1>2, <2>1, <2>2, <3>1, Arrival DEF LedInv
  <2>7. \A u \in Txn : Moved(u)' /\ txn'[u].op \in {"leave", "kick"} => GroupOf(u)' = txn'[u].group
    BY <1>0, <1>2, <2>1, Arrival DEF LedInv
  <2> QED BY <2>4, <2>5, <2>6, <2>7 DEF LedInv
<1>3. ASSUME NEW t \in Txn, NEW to \in 0..MaxGroups, Departs(t, to) PROVE LedInv'
  <2>1. \A u \in Txn : txn'[u].led # 0 => GroupOf(u)' = txn'[u].led /\ Target(u)' # txn'[u].led
    BY <1>0, <1>3, StaysPut DEF LedInv
  <2>2. \A u \in Txn : Moved(u)' /\ txn'[u].op = "accept" => Exists(txn[u].group)'
    <3> SUFFICES ASSUME NEW u \in Txn, Moved(u)', txn'[u].op = "accept"
                 PROVE  Exists(txn[u].group)'
      OBVIOUS
    <3>1. /\ txn'[u] = txn[u] /\ Moved(u) /\ txn[u].op = "accept"
          /\ Dissolves(t) => Target(u) # txn[t].led
      BY <1>3, StaysPut
    <3>2. Exists(txn[u].group) /\ txn[u].group \in GroupId /\ Target(u) = txn[u].group
      BY <1>0, <3>1 DEF LedInv, Exists, Target
    <3>3. txn[t].op = "create" => txn[u].group # to BY <1>3, <3>2, Departure
    <3> QED BY <1>3, <3>1, <3>2, <3>3, Departure
  <2>3. \A u \in Txn : Moved(u)' /\ txn'[u].op \in {"leave", "kick"} => GroupOf(u)' = txn'[u].group
    BY <1>0, <1>3, StaysPut DEF LedInv
  <2>4. \A u, v \in Txn : u # v /\ Moved(u)' /\ Settled(v)' /\ Dissolves(v)' =>
            GroupOf(u)' # txn'[v].led /\ Target(u)' # txn'[v].led
    <3>1. \A v \in Txn : Moved(v)' => Settled(v)' = Settled(v) /\ Dissolves(v)' = Dissolves(v)
      BY <1>3, StaysPut DEF Settled, Dissolves
    <3> QED BY <1>0, <1>s, <1>3, <3>1, StaysPut DEF LedInv
  <2> QED BY <2>1, <2>2, <2>3, <2>4 DEF LedInv
<1> QED BY <1>1, <1>2, <1>3, Kinds

-----------------------------------------------------------------------------
(* The limit.                                                              *)

\* A group's members are finitely many, and fewer of them are not more.
LEMMA MembersFinite ==
    ASSUME NEW S \in SUBSET Student
    PROVE  /\ IsFiniteSet(S) /\ Cardinality(S) \in Nat
           /\ \A T \in SUBSET S : Cardinality(T) \in Nat /\ Cardinality(T) <= Cardinality(S)
<1>1. IsFiniteSet(S) BY LobbyAssumption, FS_Subset
<1>2. \A T \in SUBSET S : IsFiniteSet(T) /\ Cardinality(T) <= Cardinality(S)
  BY <1>1, FS_Subset
<1> QED BY <1>1, <1>2, FS_CardinalityType

\* A commit adds its student to the group it goes to and nobody to any other.
LEMMA MembersMove ==
    ASSUME Inv, NEW t \in Txn, NEW to \in 0..MaxGroups, Departs(t, to), NEW g \in GroupId
    PROVE  /\ g # to => members(g)' \subseteq members(g)
           /\ g = to => /\ members(g)' \subseteq (members(g) \ {txn[t].student}) \cup {txn[t].student}
                        /\ txn[t].op = "create" => members(g)' = {txn[t].student}
<1>1. 0 \notin GroupId BY LobbyAssumption DEF GroupId
<1>2. \A s \in Student :
          group_id'[s] = IF s = txn[t].student THEN to
                         ELSE IF Dissolves(t) /\ group_id[s] = txn[t].led THEN 0
                         ELSE group_id[s]
  BY Departure
<1>3. txn[t].op = "create" /\ g = to => members(g) = {}
  <2> SUFFICES ASSUME txn[t].op = "create", g = to, NEW s \in Student, group_id[s] = g
               PROVE  FALSE
    BY DEF members
  <2>1. ~ Exists(g) BY Departure
  <2> QED BY <1>1, <2>1 DEF Inv, TypeOK
<1>4. txn[t].student \in Student BY Departure
<1> QED BY <1>1, <1>2, <1>3, <1>4 DEF members

\* check_group_capacity counts with the group locked: the limit holds.
LEMMA CapacityStep ==
    ASSUME Inv, Next
    PROVE  CapacityInv' /\ AtMostFour'
<1>0. CapacityInv /\ AtMostFour BY DEF Inv
<1>1. CASE Keeps
  <2>1. \A s, g : check_group_capacity(s, g)' = check_group_capacity(s, g)
    BY <1>1 DEF Keeps, check_group_capacity, members
  <2>2. \A g \in GroupId : members(g)' = members(g) BY <1>1 DEF Keeps, members
  <2> QED BY <1>0, <1>1, <2>1, <2>2 DEF Keeps, CapacityInv, AtMostFour
<1>2. ASSUME NEW t \in Txn, Arrives(t) PROVE CapacityInv' /\ AtMostFour'
  <2>1. \A s, g : check_group_capacity(s, g)' = check_group_capacity(s, g)
    BY <1>2 DEF Arrives, check_group_capacity, members
  <2>2. \A g \in GroupId : members(g)' = members(g) BY <1>2 DEF Arrives, members
  <2>3. /\ txn'[t].op = txn[t].op /\ txn'[t].student = txn[t].student
        /\ txn'[t].group = txn[t].group
        /\ txn[t].op = "accept" => check_group_capacity(txn[t].student, txn[t].group)
    BY <1>2 DEF Arrives
  <2> QED BY <1>0, <1>2, <2>1, <2>2, <2>3, Arrival DEF CapacityInv, AtMostFour
<1>3. ASSUME NEW t \in Txn, NEW to \in 0..MaxGroups, Departs(t, to)
      PROVE  CapacityInv' /\ AtMostFour'
  <2>1. ASSUME NEW u \in Txn, Moved(u)', txn'[u].op = "accept"
        PROVE  (Cardinality(members(txn[u].group) \ {txn[u].student}) < GroupLimit)'
    <3>g. PICK g : g = txn[u].group OBVIOUS
    <3>s. PICK s : s = txn[u].student OBVIOUS
    <3>1. txn'[u] = txn[u] /\ Moved(u) /\ u # t /\ Moved(t) BY <1>3, <2>1, StaysPut, Departure
    <3>2. Exists(g) /\ g \in GroupId BY <2>1, <3>1, <3>g DEF Inv, LedInv, Exists
    <3>3. g # to
      <4>1. CASE txn[t].op = "create" BY <1>3, <3>2, <4>1, Departure
      <4>2. CASE txn[t].op = "accept" BY <1>3, <2>1, <3>1, <3>g, <4>2, Departure DEF Inv, RowInv, Target
      <4>3. CASE txn[t].op \notin {"create", "accept"}
        BY <1>3, <3>2, <4>3, Departure DEF Target, GroupId
      <4> QED BY <4>1, <4>2, <4>3
    <3>4. members(g)' \ {s} \subseteq members(g) \ {s} BY <1>3, <3>2, <3>3, MembersMove
    <3>5. Cardinality(members(g) \ {s}) < GroupLimit
      BY <1>0, <2>1, <3>1, <3>g, <3>s DEF CapacityInv, check_group_capacity
    <3>6. members(g) \ {s} \in SUBSET Student BY DEF members
    <3>7. Cardinality(members(g)' \ {s}) < GroupLimit
      <4> DEFINE A == members(g) \ {s}
                 B == members(g)' \ {s}
      <4>1. A \in SUBSET Student /\ B \in SUBSET A /\ Cardinality(A) < GroupLimit
        BY <3>4, <3>5, <3>6
      <4> HIDE DEF A, B
      <4>2. Cardinality(B) \in Nat /\ Cardinality(A) \in Nat /\ Cardinality(B) <= Cardinality(A)
        BY <4>1, MembersFinite
      <4>3. Cardinality(B) < GroupLimit BY <4>1, <4>2, LobbyAssumption
      <4> QED BY <4>3 DEF B
    <3> QED BY <3>1, <3>7, <3>g, <3>s DEF members
  <2>2. ASSUME NEW g \in GroupId PROVE Cardinality(members(g)') <= GroupLimit
    <3> DEFINE s == txn[t].student
               A == members(g)
               B == members(g)'
    <3>1. A \in SUBSET Student /\ Cardinality(A) <= GroupLimit BY <1>0 DEF AtMostFour, members
    <3>2. s \in Student BY <1>3, Departure
    <3>3. CASE g # to
      <4>1. B \in SUBSET A BY <1>3, <3>3, MembersMove
      <4> HIDE DEF A, B
      <4>2. Cardinality(B) \in Nat /\ Cardinality(A) \in Nat /\ Cardinality(B) <= Cardinality(A)
        BY <3>1, <4>1, MembersFinite
      <4>3. Cardinality(B) <= GroupLimit BY <3>1, <4>2, LobbyAssumption
      <4> QED BY <4>3 DEF B
    <3>4. CASE g = to /\ txn[t].op = "create"
      <4>1. members(g)' = {s} BY <1>3, <3>4, MembersMove
      <4>2. Cardinality({s}) = 1 BY FS_Singleton
      <4> QED BY <4>1, <4>2, LobbyAssumption
    <3>5. CASE g = to /\ txn[t].op # "create"
      <4>1. to = Target(t) /\ Moved(t) BY <1>3, <3>5, Departure
      <4>2. txn[t].op = "accept" /\ g = txn[t].group
        BY <3>5, <4>1 DEF Target, GroupId
      <4>3. Cardinality(A \ {s}) < GroupLimit
        BY <1>0, <4>1, <4>2 DEF CapacityInv, check_group_capacity
      <4>4. B \subseteq (A \ {s}) \cup {s} BY <1>3, <3>5, MembersMove
      <4> HIDE DEF A, B
      <4>5. IsFiniteSet(A \ {s}) /\ Cardinality(A \ {s}) \in Nat
        <5>1. A \ {s} \in SUBSET Student BY <3>1
        <5> QED BY <5>1, MembersFinite
      <4>6. Cardinality((A \ {s}) \cup {s}) = Cardinality(A \ {s}) + 1
        <5>1. s \notin A \ {s} OBVIOUS
        <5> QED BY <4>5, <5>1, FS_AddElement
      <4>7. Cardinality(B) \in Nat /\ Cardinality(B) <= Cardinality((A \ {s}) \cup {s})
        <5>1. (A \ {s}) \cup {s} \in SUBSET Student BY <3>1, <3>2
        <5> QED BY <4>4, <5>1, MembersFinite
      <4>8. Cardinality(B) <= GroupLimit BY <4>3, <4>5, <4>6, <4>7, LobbyAssumption
      <4> QED BY <4>8 DEF B
    <3> QED BY <3>3, <3>4, <3>5
  <2> QED BY <2>1, <2>2 DEF CapacityInv, AtMostFour, check_group_capacity
<1> QED BY <1>1, <1>2, <1>3, Kinds

-----------------------------------------------------------------------------
(* Late places.                                                            *)

\* A late place is given to a student without one, who stays in its group from then on.
LEMMA LateStep ==
    ASSUME Inv, Next
    PROVE  LateInv'
<1>0. LateInv /\ LedInv /\ RowInv /\ TypeOK BY DEF Inv
<1>f. \A g : Frozen(g) => Exists(g) /\ g \in GroupId /\ g # 0
  BY LobbyAssumption DEF Frozen, Exists, GroupId
<1>1. CASE Keeps
  <2>1. \A t \in Txn : Moved(t)' =>
            /\ Moved(t) /\ txn'[t].op = txn[t].op /\ txn'[t].student = txn[t].student
            /\ txn'[t].group = txn[t].group /\ txn'[t].led = txn[t].led
    BY <1>1 DEF Keeps
  <2>2. \A t \in Txn : txn'[t].led # 0 => Moved(t)'
    BY Kinds DEF HandlerInv, Handler, Moved, Movers
  <2>3. group_id' = group_id /\ places' = places /\ \A g \in GroupId : Frozen(g) => Frozen(g)'
    BY <1>1 DEF Keeps
  <2> SUFFICES ASSUME NEW s \in Student, places[s] # 0
               PROVE  /\ places[s] = 1 /\ Frozen(group_id[s])'
                      /\ \A t \in Txn : /\ txn'[t].led # group_id[s]
                                        /\ Moved(t)' /\ txn'[t].student = s =>
                                              txn'[t].op = "accept" /\ txn'[t].group = group_id[s]
    BY <2>3 DEF LateInv
  <2>4. /\ places[s] = 1 /\ Frozen(group_id[s])
        /\ \A t \in Txn : /\ txn[t].led # group_id[s]
                          /\ Moved(t) /\ txn[t].student = s =>
                                txn[t].op = "accept" /\ txn[t].group = group_id[s]
    BY <1>0 DEF LateInv
  <2>5. Frozen(group_id[s])' BY <1>f, <2>3, <2>4
  <2> QED BY <1>f, <2>1, <2>2, <2>4, <2>5
<1>2. ASSUME NEW t \in Txn, Arrives(t) PROVE LateInv'
  <2>1. /\ group_id' = group_id /\ places' = places
        /\ txn'[t].op = txn[t].op /\ txn'[t].student = txn[t].student
        /\ txn'[t].group = txn[t].group
        /\ Frozen(GroupOf(t)) => GroupOf(t) = Target(t)
        /\ txn'[t].led # 0 => txn'[t].led = GroupOf(t) /\ GroupOf(t) # Target(t)
    BY <1>2 DEF Arrives
  <2>2. \A u \in Txn : u # t => txn'[u] = txn[u] /\ Moved(u)' = Moved(u) BY <1>2, Arrival
  <2>3. \A g \in GroupId : Frozen(g)' = Frozen(g) BY <1>2, Arrival
  <2> SUFFICES ASSUME NEW s \in Student, places[s] # 0
               PROVE  /\ places[s] = 1 /\ Frozen(group_id[s])'
                      /\ \A u \in Txn : /\ txn'[u].led # group_id[s]
                                        /\ Moved(u)' /\ txn'[u].student = s =>
                                              txn'[u].op = "accept" /\ txn'[u].group = group_id[s]
    BY <2>1 DEF LateInv
  <2>4. /\ places[s] = 1 /\ Frozen(group_id[s])
        /\ \A u \in Txn : /\ txn[u].led # group_id[s]
                          /\ Moved(u) /\ txn[u].student = s =>
                                txn[u].op = "accept" /\ txn[u].group = group_id[s]
    BY <1>0 DEF LateInv
  <2>5. Frozen(group_id[s])' /\ group_id[s] # 0
    <3>1. PICK g : g = group_id[s] OBVIOUS
    <3>2. g \in GroupId /\ Frozen(g)' BY <1>f, <2>3, <2>4, <3>1
    <3> QED BY <1>f, <2>1, <2>4, <3>1, <3>2
  <2>6. txn'[t].led # group_id[s] BY <2>1, <2>4, <2>5
  <2>7. txn[t].student = s => txn[t].op = "accept" /\ txn[t].group = group_id[s]
    BY <2>1, <2>4, <2>5 DEF GroupOf, Target
  <2> QED BY <2>1, <2>2, <2>4, <2>5, <2>6, <2>7
<1>3. ASSUME NEW t \in Txn, NEW to \in 0..MaxGroups, Departs(t, to) PROVE LateInv'
  <2>1. txn'[t] = Closed /\ Closed.led = 0 /\ \A u \in Txn : u # t => txn'[u] = txn[u]
    BY <1>3 DEF Departs, Closed
  <2>2. \A u \in Txn : Moved(u)' => u # t /\ Moved(u) /\ txn[u].student # txn[t].student
    BY <1>3, StaysPut
  <2>3. Moved(t) /\ txn[t].student \in Student BY <1>3, Departure
  <2> SUFFICES ASSUME NEW s \in Student, NEW g, places'[s] # 0, g = group_id'[s]
               PROVE  /\ places'[s] = 1 /\ Frozen(g)'
                      /\ \A u \in Txn : /\ txn'[u].led # g
                                        /\ Moved(u)' /\ txn'[u].student = s =>
                                              txn'[u].op = "accept" /\ txn'[u].group = g
    BY DEF LateInv
  <2>4. CASE places[s] # 0
    <3>1. /\ places[s] = 1 /\ Frozen(group_id[s])
          /\ \A u \in Txn : /\ txn[u].led # group_id[s]
                            /\ Moved(u) /\ txn[u].student = s =>
                                  txn[u].op = "accept" /\ txn[u].group = group_id[s]
      BY <1>0, <2>4 DEF LateInv
    <3>2. s = txn[t].student => txn[t].op = "accept" /\ txn[t].group = group_id[s]
      BY <2>3, <3>1
    <3>3. g = group_id[s]
      <4>1. s = txn[t].student => to = group_id[s] BY <1>3, <3>2, Departure DEF Target
      <4> QED BY <1>3, <3>1, <4>1, Departure
    <3>4. places'[s] = places[s]
      BY <1>3, <3>2 DEF Departs, Inv, Shape, TablesShape
    <3>5. Frozen(g)'
      <4>1. g \in GroupId /\ Exists(g) /\ Frozen(g) /\ g # txn[t].led BY <1>f, <3>1, <3>3
      <4>2. txn[t].op = "create" => g # to BY <1>3, <4>1, Departure
      <4> QED BY <1>3, <4>1, <4>2, Departure
    <3>6. group_id[s] # 0 BY <1>f, <3>1
    <3> QED BY <2>1, <2>2, <3>1, <3>3, <3>4, <3>5, <3>6
  <2>5. CASE places[s] = 0
    <3>1. /\ txn[t].op = "create" /\ s = txn[t].student
          /\ housing_group'[to].status = "SOFT_LOCKED"
          /\ places' = [places EXCEPT ![txn[t].student] = @ + 1]
      BY <1>3, <2>3, <2>5 DEF Departs, Inv, Shape, TablesShape
    <3>2. places'[s] = 1 /\ g = to
      BY <1>3, <2>5, <3>1, Departure DEF Inv, Shape, TablesShape
    <3>3. to \in GroupId /\ ~ Exists(to) /\ Exists(to)' BY <1>3, <3>1, Departure
    <3>4. Frozen(to)' BY <3>1, <3>3 DEF Frozen
    <3>5. \A u \in Txn : txn[u].led # 0 => Exists(txn[u].led)
      <4> SUFFICES ASSUME NEW u \in Txn, txn[u].led # 0 PROVE Exists(txn[u].led)
        OBVIOUS
      <4>1. GroupOf(u) = txn[u].led BY <1>0 DEF LedInv
      <4>2. txn[u].student \in Student BY DEF Inv, HandlerInv, Handler
      <4> QED BY <1>0, <4>1, <4>2 DEF TypeOK, GroupOf
    <3>6. to # 0 BY <3>3 DEF GroupId
    <3> QED BY <2>1, <2>2, <3>1, <3>2, <3>3, <3>4, <3>5, <3>6
  <2> QED BY <2>4, <2>5
<1> QED BY <1>1, <1>2, <1>3, Kinds

-----------------------------------------------------------------------------
(* Leaders and locked groups.                                              *)

\* The soft lock keeps the groups it has written.
LEMMA HitStep ==
    ASSUME Inv, Next
    PROVE  HitInv'
<1>0. HitInv BY DEF Inv
<1>m. \A u \in Txn : txn'[u].hit # {} => ~ Moved(u)' /\ ~ Settled(u)'
  BY Kinds DEF HandlerInv, Handler, Moved, Settled, Movers
<1>n. \A u \in Txn : /\ txn[u].hit # {} => ~ Moved(u) /\ ~ Settled(u) /\ txn[u].pc # "heir"
                     /\ Settled(u)' => Moved(u)'
  BY Kinds DEF Inv, HandlerInv, Handler, Moved, Settled, Movers
<1>1. CASE Keeps
  <2> SUFFICES ASSUME NEW t \in Txn, NEW g \in GroupId, g \in txn'[t].hit
               PROVE  Exists(g)' /\ \A u \in Txn : Settled(u)' => txn'[u].led # g
    BY DEF HitInv
  <2>1. CASE g \in txn[t].hit
    <3>1. Exists(g) /\ (\A u \in Txn : Settled(u) => txn[u].led # g) /\ g \in HoldsGroups(t)
      BY <1>0, <2>1 DEF HitInv, HoldsGroups
    <3>2. ASSUME NEW u \in Txn, Settled(u)' PROVE txn'[u].led # g
      <4>1. Moved(u)' /\ txn'[u].led = txn[u].led BY <1>1, <1>n, <3>2 DEF Keeps
      <4>2. CASE Settled(u) BY <3>1, <4>1, <4>2
      <4>3. CASE txn[u].pc = "heir" /\ Runs(u)
        <5>1. u # t BY <1>n, <2>1, <4>3
        <5> QED BY <3>1, <4>1, <4>3, <5>1, HeirWaits
      <4> QED BY <1>1, <3>2, <4>1, <4>2, <4>3 DEF Keeps
    <3> QED BY <1>1, <3>1, <3>2 DEF Keeps
  <2>2. CASE g \notin txn[t].hit
    <3>1. Exists(g) /\ \A u \in Txn : u # t /\ Settled(u)' => txn[u].led # g
      BY <1>1, <2>2 DEF Keeps
    <3>2. ~ Settled(t)' BY <1>m
    <3>3. \A u \in Txn : Settled(u)' => txn'[u].led = txn[u].led BY <1>1, <1>n DEF Keeps
    <3> QED BY <1>1, <3>1, <3>2, <3>3 DEF Keeps
  <2> QED BY <2>1, <2>2
<1>2. ASSUME NEW t \in Txn, Arrives(t) PROVE HitInv'
  <2>1. Moved(t)' BY <1>2 DEF Arrives, Moved, Movers
  <2>2. txn'[t].hit = {} BY <1>m, <2>1
  <2> QED BY <1>0, <1>2, <2>2, Arrival DEF HitInv
<1>3. ASSUME NEW t \in Txn, NEW to \in 0..MaxGroups, Departs(t, to) PROVE HitInv'
  <2>1. txn'[t] = Closed /\ Closed.hit = {} /\ \A u \in Txn : u # t => txn'[u] = txn[u]
    BY <1>3 DEF Departs, Closed
  <2>2. \A u \in Txn : Settled(u)' => Settled(u) /\ txn'[u] = txn[u]
    BY <1>3, <1>n, StaysPut DEF Settled
  <2> SUFFICES ASSUME NEW u \in Txn, NEW g \in GroupId, g \in txn'[u].hit
               PROVE  Exists(g)' /\ \A v \in Txn : Settled(v)' => txn'[v].led # g
    BY DEF HitInv
  <2>3. Exists(g) /\ \A v \in Txn : Settled(v) => txn[v].led # g BY <1>0, <2>1 DEF HitInv
  <2>4. ~ (Dissolves(t) /\ g = txn[t].led)
    BY <1>3, <2>3, Departure DEF Dissolves
  <2>5. txn[t].op = "create" => g # to BY <1>3, <2>3, Departure
  <2> QED BY <1>3, <2>2, <2>3, <2>4, <2>5, Departure
<1> QED BY <1>1, <1>2, <1>3, Kinds

\* raced keeps the groups it has, until they are gone, and gets every group that two
\* transactions touch.
LEMMA RacedStep ==
    ASSUME Inv, Next
    PROVE  RacedInv' /\ \A g \in GroupId : g \in raced /\ Exists(g) => g \in raced'
<1>1. Record BY DEF Next
<1>2. raced' = {g \in GroupId : \/ g \in raced /\ Exists(g)
                                \/ \E t, u \in Txn : t # u /\ g \in (Touches(t) \cap Touches(u))'}
  BY <1>1 DEF Record
<1> QED BY <1>2 DEF RacedInv

\* A transaction that has written its student touches the group of that student.
LEMMA TouchesOwn ==
    ASSUME Inv, NEW t \in Txn, Moved(t), NEW g \in GroupId, GroupOf(t) = g
    PROVE  g \in Touches(t)
<1>1. txn[t].op \in {"leave", "kick"} => txn[t].group = g BY DEF Inv, LedInv
<1>2. txn[t].op \in Movers BY Locks
<1> QED BY <1>1, <1>2 DEF Touches, GroupOf, Movers

\* The departures' view of leaders and locks.
LEMMA LeadStep ==
    ASSUME Inv, Next
    PROVE  LeadInv'
<1>0. LeadInv /\ RacedInv BY DEF Inv
<1>r. \A g \in GroupId : g \in raced /\ Exists(g) => g \in raced' BY RacedStep
<1>1. CASE Keeps
  <2> SUFFICES ASSUME NEW t \in Txn, NEW g, Moved(t)', GroupOf(t)' = g, Exists(g)', g \notin raced',
                      g # Target(t)'
               PROVE  /\ ~ Frozen(g)'
                      /\ txn'[t].led = 0 => housing_group'[g].leader # txn'[t].student
    BY DEF LeadInv
  <2>1. /\ Moved(t) /\ GroupOf(t) = g /\ Target(t) = Target(t)' /\ txn'[t].led = txn[t].led
        /\ txn'[t].student = txn[t].student
    BY <1>1 DEF Keeps, GroupOf, Target
  <2>2. g \in GroupId /\ Exists(g) /\ g \notin raced BY <1>1, <1>r DEF Keeps, Exists
  <2>3. ~ Frozen(g) /\ (txn[t].led = 0 => housing_group[g].leader # txn[t].student)
    BY <1>0, <2>1, <2>2 DEF LeadInv
  <2>4. g \in Touches(t) /\ txn[t].op \in Movers BY <2>1, <2>2, TouchesOwn, Locks
  <2>5. \A u \in Txn : u # t => g \notin Touches(u) BY <1>0, <2>2, <2>4 DEF RacedInv
  <2>6. ~ \E u \in Txn : txn[u].op = "assign" /\ g \in txn[u].hit
    BY <2>2, <2>4, <2>5 DEF Touches, Movers
  <2>7. ~ \E u \in Txn : txn[u].op = "transfer" /\ txn[u].group = g
    BY <2>2, <2>4, <2>5 DEF Touches, Movers
  <2> QED BY <1>1, <2>1, <2>2, <2>3, <2>6, <2>7 DEF Keeps
<1>2. ASSUME NEW t \in Txn, Arrives(t) PROVE LeadInv'
  <2>1. housing_group' = housing_group BY <1>2 DEF Arrives
  <2>2. /\ txn'[t].student = txn[t].student
        /\ Frozen(GroupOf(t)) => GroupOf(t) = Target(t)
        /\ \/ txn'[t].led # 0
           \/ Leads(txn[t].student, GroupOf(t)) => GroupOf(t) = Target(t)
    <3>1. Leads(txn[t].student, GroupOf(t)) => GroupOf(t) # 0
      BY LobbyAssumption DEF Leads, Exists, GroupId
    <3> QED BY <1>2, <3>1 DEF Arrives
  <2> SUFFICES ASSUME NEW u \in Txn, NEW g, Moved(u)', GroupOf(u)' = g, Exists(g)', g \notin raced',
                      g # Target(u)'
               PROVE  /\ ~ Frozen(g)'
                      /\ txn'[u].led = 0 => housing_group'[g].leader # txn'[u].student
    BY DEF LeadInv
  <2>3. g \in GroupId /\ Exists(g) /\ g \notin raced /\ Frozen(g)' = Frozen(g)
    BY <1>2, <1>r, Arrival DEF Exists
  <2>4. CASE u = t
    <3>1. GroupOf(t) = g /\ Target(t) # g BY <1>2, <2>4, Arrival
    <3> QED BY <2>1, <2>2, <2>3, <2>4, <3>1 DEF Leads
  <2>5. CASE u # t
    <3>1. Moved(u) /\ GroupOf(u) = g /\ Target(u) # g /\ txn'[u] = txn[u]
      BY <1>2, <2>5, Arrival
    <3> QED BY <1>0, <2>1, <2>3, <3>1 DEF LeadInv
  <2> QED BY <2>4, <2>5
<1>3. ASSUME NEW t \in Txn, NEW to \in 0..MaxGroups, Departs(t, to) PROVE LeadInv'
  <2> SUFFICES ASSUME NEW u \in Txn, NEW g, Moved(u)', GroupOf(u)' = g, Exists(g)', g \notin raced',
                      g # Target(u)'
               PROVE  /\ ~ Frozen(g)'
                      /\ txn'[u].led = 0 => housing_group'[g].leader # txn'[u].student
    BY DEF LeadInv
  <2>1. /\ u # t /\ Moved(u) /\ txn'[u] = txn[u] /\ GroupOf(u) = g /\ Target(u) # g
        /\ Moved(t)
    BY <1>3, StaysPut, Departure
  <2>2. g # 0 /\ g \in GroupId BY LobbyAssumption DEF Exists, GroupId
  <2>3. Exists(g)
    <3>1. txn[u].student \in Student BY <2>1, Locks
    <3> QED BY <2>1, <2>2, <3>1 DEF Inv, TypeOK, GroupOf
  <2>4. g \notin raced BY <1>r, <2>2, <2>3
  <2>5. ~ Frozen(g) /\ (txn[u].led = 0 => housing_group[g].leader # txn[u].student)
    BY <1>0, <2>1, <2>3, <2>4 DEF LeadInv
  <2>6. txn[t].led # g
    <3>1. ASSUME txn[t].led = g PROVE FALSE
      <4>1. GroupOf(t) = g BY <2>2, <3>1 DEF Inv, LedInv
      <4>2. g \in Touches(t) /\ g \in Touches(u) BY <2>1, <2>2, <4>1, TouchesOwn
      <4> QED BY <1>0, <2>1, <2>2, <2>4, <4>2 DEF RacedInv
    <3> QED BY <3>1
  <2>7. txn[t].op = "create" => g # to BY <1>3, <2>3, Departure
  <2> QED BY <1>3, <2>1, <2>2, <2>5, <2>6, <2>7, Departure
<1> QED BY <1>1, <1>2, <1>3, Kinds

\* The leader that a commit gives a group.
LEMMA Heirs ==
    ASSUME Inv, NEW t \in Txn, NEW to \in 0..MaxGroups, Departs(t, to),
           txn[t].led # 0, ~ Dissolves(t)
    PROVE  /\ txn[t].heir \in Student /\ txn[t].heir # txn[t].student
           /\ group_id[txn[t].heir] = txn[t].led /\ group_id'[txn[t].heir] = txn[t].led
<1>1. txn[t].heir \in Student /\ txn[t].heir # txn[t].student
  BY DEF Inv, HandlerInv, Handler, Dissolves
<1>2. group_id[txn[t].heir] = txn[t].led BY DEF Departs, validate_primary_applicant
<1> QED BY <1>1, <1>2, Departure

\* The leader of a group that was never touched twice at once is a member.
LEMMA LeaderStep ==
    ASSUME Inv, Next
    PROVE  LeaderIsMember'
<1>0. LeaderIsMember BY DEF Inv
<1>r. \A g \in GroupId : g \in raced /\ Exists(g) => g \in raced' BY RacedStep
<1> SUFFICES ASSUME NEW g \in GroupId, g \notin raced', Exists(g)'
             PROVE  housing_group'[g].leader \in Student /\ group_id'[housing_group'[g].leader] = g
  BY DEF LeaderIsMember, members
<1>1. Exists(g) => /\ housing_group[g].leader \in Student /\ g \notin raced
                   /\ group_id[housing_group[g].leader] = g
  BY <1>0, <1>r DEF LeaderIsMember, members
<1>2. CASE Keeps
  <2>1. \A t \in Txn : txn[t].op = "transfer" => txn[t].student \in Student
    BY DEF Inv, HandlerInv, Handler
  <2> QED BY <1>1, <1>2, <2>1 DEF Keeps, GroupOf
<1>3. ASSUME NEW t \in Txn, Arrives(t)
      PROVE  housing_group'[g].leader \in Student /\ group_id'[housing_group'[g].leader] = g
  <2>1. Exists(g) BY <1>3, Arrival
  <2> QED BY <1>1, <1>3, <2>1 DEF Arrives
<1>4. ASSUME NEW t \in Txn, NEW to \in 0..MaxGroups, Departs(t, to)
      PROVE  housing_group'[g].leader \in Student /\ group_id'[housing_group'[g].leader] = g
  <2>1. CASE txn[t].op = "create" /\ g = to BY <1>4, <2>1, Departure
  <2>2. CASE txn[t].op = "create" => g # to
    <3>1. Exists(g) /\ ~ (Dissolves(t) /\ g = txn[t].led) BY <1>4, <2>2, Departure
    <3>2. g # 0 BY LobbyAssumption DEF GroupId
    <3>3. CASE g = txn[t].led BY <1>4, <2>2, <3>1, <3>2, <3>3, Departure, Heirs
    <3>4. CASE g # txn[t].led
      <4> DEFINE l == housing_group[g].leader
      <4>1. housing_group'[g].leader = l BY <1>4, <2>2, <3>4, Departure
      <4>2. l \in Student /\ group_id[l] = g /\ g \notin raced BY <1>1, <3>1
      <4> HIDE DEF l
      <4>3. CASE l # txn[t].student BY <1>4, <3>4, <4>1, <4>2, <4>3, Departure
      <4>4. CASE l = txn[t].student
        <5>1. GroupOf(t) = g BY <4>2, <4>4 DEF GroupOf
        <5>2. txn[t].led = 0 BY <3>4, <5>1 DEF Inv, LedInv
        <5>3. Moved(t) BY <1>4, Departure
        <5>4. Target(t) = g BY <3>1, <4>2, <4>4, <5>1, <5>2, <5>3 DEF Inv, LeadInv, l
        <5>5. txn[t].op # "create" BY <3>2, <5>4 DEF Target
        <5> QED BY <1>4, <4>1, <4>2, <4>4, <5>4, <5>5, Departure
      <4> QED BY <4>3, <4>4
    <3> QED BY <3>3, <3>4
  <2> QED BY <2>1, <2>2
<1> QED BY <1>2, <1>3, <1>4, Kinds

\* Nobody leaves a locked group that was never touched twice at once.
LEMMA LockedStep ==
    ASSUME Inv, Next, NEW s \in Student, NEW g, g = group_id[s], Frozen(g), g \notin raced
    PROVE  group_id'[s] = g
<1>1. CASE Keeps BY <1>1 DEF Keeps
<1>2. CASE \E t \in Txn : Arrives(t) BY <1>2 DEF Arrives
<1>3. ASSUME NEW t \in Txn, NEW to \in 0..MaxGroups, Departs(t, to) PROVE group_id'[s] = g
  <2>1. Exists(g) /\ g \in GroupId /\ g # 0 BY LobbyAssumption DEF Frozen, Exists, GroupId
  <2>2. Moved(t) BY <1>3, Departure
  <2>3. GroupOf(t) = g => Target(t) = g BY <2>1, <2>2 DEF Inv, LeadInv
  <2>4. CASE s = txn[t].student
    <3>1. Target(t) = g BY <2>3, <2>4 DEF GroupOf
    <3>2. txn[t].op # "create" BY <2>1, <3>1 DEF Target
    <3> QED BY <1>3, <2>4, <3>1, <3>2, Departure
  <2>5. CASE s # txn[t].student
    <3>1. txn[t].led # g BY <2>1, <2>3 DEF Inv, LedInv
    <3> QED BY <1>3, <2>5, <3>1, Departure
  <2> QED BY <2>4, <2>5
<1> QED BY <1>1, <1>2, <1>3, Kinds

-----------------------------------------------------------------------------
(* Ids that exist, and the rows' columns.                                  *)

\* The phase and the batches.
LEMMA EventStep ==
    ASSUME Inv, Next
    PROVE  /\ phase' \in phases' /\ phases' \subseteq Phase
           /\ batch_status' \in [BatchId -> {"none", "PENDING", "ACTIVE"}]
<1>0. /\ phase \in phases /\ phases \subseteq Phase
      /\ batch_status \in [BatchId -> {"none", "PENDING", "ACTIVE"}]
  BY DEF Inv, TypeOK
<1>1. CASE UNCHANGED event BY <1>0, <1>1 DEF event
<1>2. ASSUME NEW t \in Txn, NEW new \in Phase, setCurrentPhase(t, new)
      PROVE  /\ phase' \in phases' /\ phases' \subseteq Phase /\ batch_status' = batch_status
  BY <1>0, <1>2 DEF setCurrentPhase
<1>3. ASSUME NEW t \in Txn, AssignCommit(t)
      PROVE  /\ phase' = phase /\ phases' = phases
             /\ batch_status' \in [BatchId -> {"none", "PENDING", "ACTIVE"}]
  <2>1. \A b \in BatchId : batch_status'[b] \in {"PENDING", batch_status[b]} BY <1>3 DEF AssignCommit
  <2>2. batch_status' = [b \in BatchId |-> batch_status'[b]] BY <1>3 DEF AssignCommit
  <2>3. phase' = phase /\ phases' = phases BY <1>3 DEF AssignCommit
  <2> QED BY <1>0, <2>1, <2>2, <2>3
<1>4. ASSUME NEW b \in BatchId, StartBatch(b)
      PROVE  /\ phase' \in phases' /\ phases' \subseteq Phase
             /\ batch_status' \in [BatchId -> {"none", "PENDING", "ACTIVE"}]
  BY <1>0, <1>4 DEF StartBatch, Phase
<1>5. \/ UNCHANGED event
      \/ \E t \in Txn, new \in Phase : setCurrentPhase(t, new)
      \/ \E t \in Txn : AssignCommit(t)
      \/ \E b \in BatchId : StartBatch(b)
  BY DEF Next, CreateCheck, CreateWrite, CreateCommit, SendCheck, SendInsert, Reject, AcceptCheck,
         AcceptWrite, AcceptCancel, AcceptCommit, LeaveCheck, KickCheck, DepartWrite,
         DepartCommit, TransferCheck, TransferWrite, TransferCommit, WriteHeir, Deadlock,
         AssignRead, AssignGroup
<1> QED BY <1>0, <1>1, <1>2, <1>3, <1>4, <1>5

\* A student's group and a group's leader exist, and a group goes only with its members.
LEMMA ReferenceStep ==
    ASSUME Inv, Next
    PROVE  /\ \A s \in Student : group_id'[s] = 0 \/ Exists(group_id[s])'
           /\ \A g \in GroupId : Exists(g)' => housing_group'[g].leader \in Student
<1>0. /\ \A s \in Student : group_id[s] = 0 \/ Exists(group_id[s])
      /\ \A g \in GroupId : Exists(g) => housing_group[g].leader \in Student
  BY DEF Inv, TypeOK
<1>e. \A g : Exists(g) => g \in GroupId BY DEF Exists
<1>1. CASE Keeps
  <2>1. \A t \in Txn : txn[t].op = "transfer" => txn[t].student \in Student
    BY DEF Inv, HandlerInv, Handler
  <2>2. \A g \in GroupId : Exists(g)' => housing_group'[g].leader \in Student
    BY <1>0, <1>1, <2>1 DEF Keeps
  <2>3. ASSUME NEW s \in Student, NEW g, g = group_id'[s], g # 0 PROVE Exists(g)'
    BY <1>0, <1>1, <1>e, <2>3 DEF Keeps
  <2> QED BY <2>2, <2>3
<1>2. ASSUME NEW t \in Txn, Arrives(t)
      PROVE  /\ \A s \in Student : group_id'[s] = 0 \/ Exists(group_id[s])'
             /\ \A g \in GroupId : Exists(g)' => housing_group'[g].leader \in Student
  <2>1. ASSUME NEW s \in Student, NEW g, g = group_id'[s], g # 0 PROVE Exists(g)'
    BY <1>0, <1>2, <1>e, <2>1, Arrival DEF Arrives
  <2>2. \A g \in GroupId : Exists(g)' => housing_group'[g].leader \in Student
    BY <1>0, <1>2, Arrival DEF Arrives
  <2> QED BY <2>1, <2>2
<1>3. ASSUME NEW t \in Txn, NEW to \in 0..MaxGroups, Departs(t, to)
      PROVE  /\ \A s \in Student : group_id'[s] = 0 \/ Exists(group_id[s])'
             /\ \A g \in GroupId : Exists(g)' => housing_group'[g].leader \in Student
  <2>1. to = 0 \/ Exists(to)'
    <3>1. CASE txn[t].op = "create" BY <1>3, <3>1, Departure
    <3>2. CASE txn[t].op = "accept"
      <4>1. to = txn[t].group /\ to = Target(t) /\ Moved(t)
        BY <1>3, <3>2, Departure DEF Target
      <4>2. Exists(to) BY <3>2, <4>1 DEF Inv, LedInv
      <4>3. txn[t].led # 0 => to # txn[t].led BY <4>1 DEF Inv, LedInv
      <4> QED BY <1>3, <1>e, <3>2, <4>2, <4>3, Departure DEF Dissolves
    <3>3. CASE txn[t].op \notin {"create", "accept"} BY <1>3, <3>3, Departure DEF Target
    <3> QED BY <3>1, <3>2, <3>3
  <2>2. ASSUME NEW s \in Student, NEW g, g = group_id'[s], g # 0 PROVE Exists(g)'
    <3>1. CASE g = to BY <2>1, <2>2, <3>1
    <3>2. CASE g # to
      <4>1. g = group_id[s] /\ ~ (Dissolves(t) /\ g = txn[t].led)
        BY <1>3, <2>2, <3>2, Departure
      <4>2. Exists(g) /\ g \in GroupId BY <1>0, <1>e, <2>2, <4>1
      <4> QED BY <1>3, <3>2, <4>1, <4>2, Departure
    <3> QED BY <3>1, <3>2
  <2>3. ASSUME NEW g \in GroupId, Exists(g)' PROVE housing_group'[g].leader \in Student
    <3>1. CASE txn[t].op = "create" /\ g = to BY <1>3, <3>1, Departure
    <3>2. CASE txn[t].op = "create" => g # to
      <4>1. Exists(g) /\ ~ (Dissolves(t) /\ g = txn[t].led) BY <1>3, <2>3, <3>2, Departure
      <4>2. g # 0 BY LobbyAssumption DEF GroupId
      <4>3. CASE g = txn[t].led BY <1>3, <2>3, <3>2, <4>1, <4>2, <4>3, Departure, Heirs
      <4>4. CASE g # txn[t].led BY <1>0, <1>3, <2>3, <3>2, <4>1, <4>4, Departure
      <4> QED BY <4>3, <4>4
    <3> QED BY <3>1, <3>2
  <2> QED BY <2>2, <2>3
<1> QED BY <1>1, <1>2, <1>3, Kinds

\* The requests and the memberships of a dissolved group go with it.
LEMMA RequestStep ==
    ASSUME Inv, Next
    PROVE  /\ \A r \in RequestId : group_request'[r] # NoRequest =>
                 Exists(group_request[r].group)' /\ group_request'[r].student \in Student
           /\ \A p \in joined' : Exists(p[1])' /\ p[2] \in Student
           /\ group_request' \in [RequestId -> [group : 0..MaxGroups, student : Student \cup {NoStudent}]]
<1> DEFINE Row == [group : 0..MaxGroups, student : Student \cup {NoStudent}]
           RequestOK == /\ \A r \in RequestId : group_request[r] # NoRequest =>
                              Exists(group_request[r].group) /\ group_request[r].student \in Student
                        /\ \A p \in joined : Exists(p[1]) /\ p[2] \in Student
                        /\ group_request \in [RequestId -> Row]
<1>0. RequestOK BY DEF Inv, TypeOK, Shape, TablesShape
<1>n. NoRequest \in Row BY LobbyAssumption DEF NoRequest
<1>e. \A g : Exists(g) => g \in GroupId BY DEF Exists
<1>1. ASSUME NEW t \in Txn, NEW to \in 0..MaxGroups, Departs(t, to),
             group_request' = Requests(t), joined' = Joins(t)
      PROVE  RequestOK'
  <2>1. \A g : Exists(g) /\ ~ (Dissolves(t) /\ g = txn[t].led) => Exists(g)'
    <3> SUFFICES ASSUME NEW g, Exists(g), ~ (Dissolves(t) /\ g = txn[t].led) PROVE Exists(g)'
      OBVIOUS
    <3>1. CASE txn[t].op = "create" /\ g = to BY <1>1, <3>1, Departure
    <3>2. CASE txn[t].op = "create" => g # to BY <1>1, <1>e, <3>2, Departure
    <3> QED BY <3>1, <3>2
  <2>2. \A r \in RequestId :
            \/ group_request'[r] = NoRequest
            \/ /\ group_request'[r] = group_request[r]
               /\ ~ (Dissolves(t) /\ group_request[r].group = txn[t].led)
    BY <1>1 DEF Requests, PendingOf
  <2>3. group_request' \in [RequestId -> Row]
    <3>1. group_request' = [r \in RequestId |-> group_request'[r]] BY <1>1 DEF Requests
    <3>2. \A r \in RequestId : group_request'[r] \in Row BY <1>0, <1>n, <2>2
    <3> HIDE DEF Row
    <3> QED BY <3>1, <3>2
  <2>4. ASSUME NEW r \in RequestId, group_request'[r] # NoRequest
        PROVE  Exists(group_request[r].group)' /\ group_request'[r].student \in Student
    <3>1. PICK g : g = group_request[r].group OBVIOUS
    <3>2. group_request'[r] = group_request[r] /\ ~ (Dissolves(t) /\ g = txn[t].led)
      BY <2>2, <2>4, <3>1
    <3>3. Exists(g)' BY <1>0, <2>1, <2>4, <3>1, <3>2
    <3> QED BY <1>0, <2>4, <3>1, <3>2, <3>3
  <2>5. ASSUME NEW p \in joined' PROVE Exists(p[1])' /\ p[2] \in Student
    <3>1. CASE p \in joined
      <4>1. ~ (Dissolves(t) /\ p[1] = txn[t].led) BY <1>1, <2>5 DEF Joins
      <4> QED BY <1>0, <2>1, <3>1, <4>1
    <3>2. CASE p \notin joined
      <4>1. txn[t].op = "accept" /\ p = <<txn[t].group, txn[t].student>>
        BY <1>1, <2>5, <3>2 DEF Joins
      <4>2. ~ (Dissolves(t) /\ p[1] = txn[t].led) BY <1>1, <2>5 DEF Joins
      <4>3. Exists(txn[t].group) /\ txn[t].student \in Student
        BY <1>1, <4>1, Departure DEF Inv, LedInv
      <4> QED BY <2>1, <4>1, <4>2, <4>3
    <3> QED BY <3>1, <3>2
  <2> QED BY <2>3, <2>4, <2>5
<1>2. ASSUME \A g : Exists(g) => Exists(g)', joined' = joined,
             \A r \in RequestId : group_request'[r] # group_request[r] =>
                 \/ group_request'[r] = NoRequest
                 \/ \E g \in 0..MaxGroups, s \in Student :
                       Exists(g) /\ group_request'[r] = [group |-> g, student |-> s],
             group_request' = [r \in RequestId |-> group_request'[r]]
      PROVE  RequestOK'
  <2>1. ASSUME NEW r \in RequestId
        PROVE  /\ group_request'[r] \in Row
               /\ group_request'[r] # NoRequest =>
                     Exists(group_request[r].group)' /\ group_request'[r].student \in Student
    <3>1. CASE group_request'[r] = group_request[r]
      <4>1. PICK g : g = group_request[r].group OBVIOUS
      <4>2. group_request[r] # NoRequest => Exists(g)' BY <1>0, <1>2, <4>1
      <4> QED BY <1>0, <3>1, <4>1, <4>2
    <3>2. CASE group_request'[r] = NoRequest BY <1>n, <3>2
    <3>3. ASSUME NEW g \in 0..MaxGroups, NEW s \in Student, Exists(g),
                 group_request'[r] = [group |-> g, student |-> s]
          PROVE  /\ group_request'[r] \in Row
                 /\ Exists(group_request[r].group)' /\ group_request'[r].student \in Student
      <4>1. Exists(g)' /\ group_request'[r].group = g /\ group_request'[r].student = s
        BY <1>2, <3>3
      <4>2. group_request'[r] \in Row BY <3>3
      <4> QED BY <4>1, <4>2
    <3> QED BY <1>2, <3>1, <3>2, <3>3
  <2>2. group_request' \in [RequestId -> Row]
    <3> HIDE DEF Row
    <3> QED BY <1>2, <2>1
  <2>3. \A p \in joined' : Exists(p[1])' /\ p[2] \in Student BY <1>0, <1>2
  <2> QED BY <2>1, <2>2, <2>3
<1>3. ASSUME housing_group' = housing_group PROVE \A g : Exists(g) => Exists(g)'
  BY <1>3 DEF Exists
<1>4. ASSUME UNCHANGED <<housing_group, group_request, joined>> PROVE RequestOK'
  <2>1. group_request' = [r \in RequestId |-> group_request'[r]] BY <1>0, <1>4
  <2> HIDE DEF RequestOK
  <2> QED BY <1>2, <1>3, <1>4, <2>1
<1>5. ASSUME NEW t \in Txn, SendInsert(t) PROVE RequestOK'
  <2> DEFINE unused == {r \in RequestId : group_request[r] = NoRequest}
             g == txn[t].group
             s == txn[t].student
  <2>1. housing_group' = housing_group /\ joined' = joined BY <1>5 DEF SendInsert
  <2>2. CASE group_request' = group_request BY <1>4, <2>1, <2>2
  <2>3. CASE group_request' # group_request
    <3>1. Exists(g) /\ group_request' = [group_request EXCEPT ![Min(unused)] = [group |-> g, student |-> s]]
      BY <1>5, <2>3 DEF SendInsert
    <3>2. g \in 0..MaxGroups /\ s \in Student
      BY <1>5 DEF Inv, HandlerInv, Handler, SendInsert
    <3>3. group_request' = [r \in RequestId |-> group_request'[r]] BY <1>0, <3>1
    <3>4. \A r \in RequestId : group_request'[r] # group_request[r] =>
              group_request'[r] = [group |-> g, student |-> s]
      BY <1>0, <3>1
    <3> HIDE DEF g, s, RequestOK
    <3> QED BY <1>2, <1>3, <2>1, <3>1, <3>2, <3>3, <3>4
  <2> QED BY <2>2, <2>3
<1>6. ASSUME NEW i \in RequestId, Reject(i) PROVE RequestOK'
  <2>1. /\ housing_group' = housing_group /\ joined' = joined
        /\ group_request' = [group_request EXCEPT ![i] = NoRequest]
    BY <1>6 DEF Reject
  <2>2. group_request' = [r \in RequestId |-> group_request'[r]] BY <1>0, <2>1
  <2>3. \A r \in RequestId : group_request'[r] # group_request[r] => group_request'[r] = NoRequest
    BY <1>0, <2>1
  <2> HIDE DEF RequestOK
  <2> QED BY <1>2, <1>3, <2>1, <2>2, <2>3
<1>7. ASSUME Keeps, group_request' = group_request, joined' = joined PROVE RequestOK'
  <2>1. \A g : Exists(g) => Exists(g)' BY <1>e, <1>7 DEF Keeps
  <2>2. group_request' = [r \in RequestId |-> group_request'[r]] BY <1>0, <1>7
  <2> HIDE DEF RequestOK
  <2> QED BY <1>2, <1>7, <2>1, <2>2
<1>8. ASSUME \/ \E t \in Txn : TransferCommit(t) \/ AssignCommit(t)
             \/ \E b \in BatchId : StartBatch(b)
      PROVE  RequestOK'
  <2>1. Keeps BY <1>8, GroupWrites
  <2>2. group_request' = group_request /\ joined' = joined
    BY <1>8 DEF TransferCommit, AssignCommit, StartBatch
  <2> HIDE DEF RequestOK
  <2> QED BY <1>7, <2>1, <2>2
<1>9. ASSUME NEW t \in Txn, CreateCommit(t) \/ AcceptCommit(t) \/ DepartCommit(t) PROVE RequestOK'
  <2> HIDE DEF RequestOK
  <2> QED BY <1>1, <1>4, <1>9, Commits
<1> HIDE DEF RequestOK, Row
<1>10. \/ UNCHANGED tables
       \/ \E t \in Txn : SendInsert(t)
       \/ \E r \in RequestId : Reject(r)
       \/ \E t \in Txn : TransferCommit(t) \/ AssignCommit(t)
       \/ \E b \in BatchId : StartBatch(b)
       \/ \E t \in Txn : CreateCommit(t) \/ AcceptCommit(t) \/ DepartCommit(t)
  BY DEF Next, CreateCheck, CreateWrite, SendCheck, AcceptCheck, AcceptWrite, AcceptCancel,
         LeaveCheck, KickCheck, DepartWrite, TransferCheck, TransferWrite, WriteHeir, Deadlock,
         AssignRead, AssignGroup, setCurrentPhase
<1>11. RequestOK' BY <1>4, <1>5, <1>6, <1>8, <1>9, <1>10 DEF tables
<1> QED BY <1>11 DEF RequestOK, Row

\* The columns of students, groups and places.
LEMMA TablesStep ==
    ASSUME Inv, Next
    PROVE  TablesShape'
<1>0. TablesShape BY DEF Inv, Shape
<1>1. group_request' \in [RequestId -> [group : 0..MaxGroups, student : Student \cup {NoStudent}]]
  BY RequestStep
<1> DEFINE Rest == /\ group_id \in [Student -> 0..MaxGroups]
                   /\ housing_group = [g \in GroupId |-> housing_group[g]]
                   /\ \A g \in GroupId : GroupColumns(housing_group[g])
                   /\ places \in [Student -> Nat]
<1>2. CASE UNCHANGED <<group_id, housing_group, places>> BY <1>0, <1>1, <1>2 DEF TablesShape
<1>3. ASSUME NEW t \in Txn, NEW to \in 0..MaxGroups, Departs(t, to) PROVE Rest'
  <2>1. group_id' \in [Student -> 0..MaxGroups]
    <3>1. group_id' = [s \in Student |-> group_id'[s]] BY <1>3 DEF Departs, Members
    <3>2. \A s \in Student : group_id'[s] \in 0..MaxGroups
      <4>1. 0 \in 0..MaxGroups BY LobbyAssumption
      <4> QED BY <1>0, <1>3, <4>1, Departure DEF TablesShape
    <3> QED BY <3>1, <3>2
  <2>2. places' \in [Student -> Nat]
    BY <1>0, <1>3 DEF Departs, TablesShape
  <2>3. /\ Groups(t) = [g \in GroupId |-> Groups(t)[g]]
        /\ \A g \in GroupId : GroupColumns(Groups(t)[g])
    <3>1. CASE txn[t].led = 0 BY <1>0, <3>1 DEF Groups, TablesShape
    <3>2. CASE txn[t].led # 0 /\ Dissolves(t)
      <4>1. PICK new : new = [NoGroup EXCEPT !.status = "deleted"] OBVIOUS
      <4>2. GroupColumns(new) BY <4>1 DEF GroupColumns, NoGroup
      <4>3. Groups(t) = [housing_group EXCEPT ![txn[t].led] = new] BY <3>2, <4>1 DEF Groups
      <4> QED BY <1>0, <4>2, <4>3 DEF TablesShape
    <3>3. CASE txn[t].led # 0 /\ ~ Dissolves(t)
      <4>1. PICK old : old = housing_group[txn[t].led] OBVIOUS
      <4>2. PICK new : new = [old EXCEPT !.leader = txn[t].heir] OBVIOUS
      <4>3. txn[t].led \in GroupId
        BY <3>3, LobbyAssumption DEF Inv, HandlerInv, Handler, GroupId
      <4>4. GroupColumns(new) BY <1>0, <4>1, <4>2, <4>3 DEF GroupColumns, TablesShape
      <4>5. Groups(t) = [housing_group EXCEPT ![txn[t].led] = new]
        BY <1>0, <3>3, <4>1, <4>2 DEF Groups, TablesShape
      <4> QED BY <1>0, <4>4, <4>5 DEF TablesShape
    <3> QED BY <3>1, <3>2, <3>3
  <2>4. /\ housing_group' = [g \in GroupId |-> housing_group'[g]]
        /\ \A g \in GroupId : GroupColumns(housing_group'[g])
    <3>1. CASE housing_group' = Groups(t) BY <2>3, <3>1
    <3>2. ASSUME NEW row, GroupColumns(row), housing_group' = [Groups(t) EXCEPT ![to] = row]
          PROVE  /\ housing_group' = [g \in GroupId |-> housing_group'[g]]
                 /\ \A g \in GroupId : GroupColumns(housing_group'[g])
      BY <2>3, <3>2
    <3>3. \A status, leader, batch :
              GroupColumns([status |-> status, leader |-> leader, batch |-> batch])
      BY DEF GroupColumns
    <3> QED BY <1>3, <3>1, <3>2, <3>3, ZenonT(40) DEF Departs
  <2> QED BY <2>1, <2>2, <2>4
<1>4. ASSUME \/ \E t \in Txn : TransferCommit(t) \/ AssignCommit(t)
             \/ \E b \in BatchId : StartBatch(b)
      PROVE  Rest'
  <2>1. group_id' = group_id /\ places' = places
    BY <1>4 DEF TransferCommit, AssignCommit, StartBatch
  <2>2. ASSUME NEW t \in Txn, TransferCommit(t) PROVE Rest'
    <3>1. PICK old : old = housing_group[txn[t].group] OBVIOUS
    <3>2. PICK new : new = [old EXCEPT !.leader = txn[t].student] OBVIOUS
    <3>3. txn[t].group \in GroupId BY <2>2 DEF TransferCommit, Inv, HandlerInv, Handler
    <3>4. GroupColumns(new) BY <1>0, <3>1, <3>2, <3>3 DEF GroupColumns, TablesShape
    <3>5. housing_group' \in {housing_group, [housing_group EXCEPT ![txn[t].group] = new]}
      BY <1>0, <2>2, <3>1, <3>2 DEF TransferCommit, TablesShape
    <3> QED BY <1>0, <2>1, <3>4, <3>5 DEF TablesShape
  <2>3. ASSUME NEW t \in Txn, AssignCommit(t) PROVE Rest'
    <3> DEFINE batch(g) == (CHOOSE p \in ToSet(txn[t].plan) : p[1] = g)[2]
    <3>1. housing_group' = [g \in GroupId |->
                               IF g \in txn[t].hit
                               THEN [housing_group[g] EXCEPT !.status = "SOFT_LOCKED", !.batch = batch(g)]
                               ELSE housing_group[g]]
      BY <2>3 DEF AssignCommit
    <3>2. ASSUME NEW old, GroupColumns(old), NEW b, NEW new,
                 new = [old EXCEPT !.status = "SOFT_LOCKED", !.batch = b]
          PROVE  GroupColumns(new)
      BY <3>2 DEF GroupColumns
    <3> HIDE DEF batch
    <3>3. \A g \in GroupId : GroupColumns(housing_group'[g]) BY <1>0, <3>1, <3>2 DEF TablesShape
    <3>4. housing_group' = [g \in GroupId |-> housing_group'[g]] BY <3>1
    <3> QED BY <1>0, <2>1, <3>3, <3>4 DEF TablesShape
  <2>4. ASSUME NEW b \in BatchId, StartBatch(b) PROVE Rest'
    <3>1. housing_group' = [g \in GroupId |-> housing_group'[g]] BY <2>4 DEF StartBatch
    <3>2. \A g \in GroupId : housing_group'[g] \in
              {housing_group[g], [housing_group[g] EXCEPT !.status = "HARD_LOCKED"]}
      BY <2>4 DEF StartBatch
    <3>3. ASSUME NEW old, GroupColumns(old), NEW new, new = [old EXCEPT !.status = "HARD_LOCKED"]
          PROVE  GroupColumns(new)
      BY <3>3 DEF GroupColumns
    <3>4. \A g \in GroupId : GroupColumns(housing_group'[g]) BY <1>0, <3>2, <3>3 DEF TablesShape
    <3> QED BY <1>0, <2>1, <3>1, <3>4 DEF TablesShape
  <2> QED BY <1>4, <2>2, <2>3, <2>4
<1>5. \/ UNCHANGED <<group_id, housing_group, places>>
      \/ \E t \in Txn : CreateCommit(t) \/ AcceptCommit(t) \/ DepartCommit(t)
      \/ \E t \in Txn : TransferCommit(t) \/ AssignCommit(t)
      \/ \E b \in BatchId : StartBatch(b)
  BY DEF tables, Next, CreateCheck, CreateWrite, SendCheck, SendInsert, Reject, AcceptCheck,
         AcceptWrite, AcceptCancel, LeaveCheck, KickCheck, DepartWrite, TransferCheck,
         TransferWrite, WriteHeir, Deadlock, AssignRead, AssignGroup, setCurrentPhase
<1>6. ASSUME NEW t \in Txn, CreateCommit(t) \/ AcceptCommit(t) \/ DepartCommit(t)
      PROVE  TablesShape'
  <2>1. CASE Keeps /\ UNCHANGED <<housing_group, group_request, joined>>
    BY <1>2, <2>1 DEF Keeps
  <2>2. ASSUME NEW to \in 0..MaxGroups, Departs(t, to) PROVE TablesShape'
    BY <1>1, <1>3, <2>2 DEF TablesShape
  <2> QED BY <1>6, <2>1, <2>2, Commits
<1>7. Rest' => TablesShape' BY <1>1 DEF TablesShape
<1> HIDE DEF Rest
<1> QED BY <1>2, <1>4, <1>5, <1>6, <1>7

-----------------------------------------------------------------------------

\* The invariant holds at the start.
LEMMA InvInit == Init => Inv
<1> SUFFICES ASSUME Init PROVE Inv OBVIOUS
<1>1. Columns(Closed) /\ Handler(Closed) /\ Closed.led = 0 /\ Closed.hit = {} /\ Closed.pc = "closed"
      /\ Closed.op = "none"
  <2>1. /\ Columns(Closed) /\ Closed.led = 0 /\ Closed.hit = {} /\ Closed.pc = "closed"
        /\ Closed.op = "none" /\ Closed.student = NoStudent /\ Closed.heir = NoStudent
        /\ Closed.group = 0
    BY DEF Closed, Columns
  <2> QED BY <2>1, LobbyAssumption DEF Handler, Movers
<1>2. txn = [t \in Txn |-> Closed] /\ \A t \in Txn : txn[t] = Closed BY DEF Init
<1>3. \A t \in Txn : ~ Moved(t) /\ ~ Settled(t) /\ Touches(t) = {} /\ txn[t].led = 0
  BY <1>1, <1>2 DEF Moved, Settled, Touches
<1>4. \A g : ~ Exists(g) BY DEF Init, Exists, NoGroup
<1>5. TxnShape /\ HandlerInv BY <1>1, <1>2 DEF TxnShape, HandlerInv
<1>6. TablesShape
  <2>1. GroupColumns(NoGroup) BY DEF GroupColumns, NoGroup
  <2>2. NoRequest \in [group : 0..MaxGroups, student : Student \cup {NoStudent}]
    BY LobbyAssumption DEF NoRequest
  <2> QED BY <2>1, <2>2, LobbyAssumption DEF Init, TablesShape
<1>7. TypeOK
  BY <1>4 DEF Init, TypeOK, Phase
<1>8. AtMostFour
  <2>1. \A g \in GroupId : members(g) = {} BY LobbyAssumption DEF Init, members, GroupId
  <2> QED BY <2>1, FS_EmptySet, LobbyAssumption DEF AtMostFour
<1>9. RowInv /\ LedInv /\ CapacityInv /\ HitInv /\ RacedInv /\ LeadInv
  BY <1>1, <1>2, <1>3 DEF RowInv, LedInv, CapacityInv, HitInv, RacedInv, LeadInv
<1>10. LateInv BY DEF Init, LateInv
<1>11. LeaderIsMember BY <1>4 DEF LeaderIsMember
<1> QED BY <1>5, <1>6, <1>7, <1>8, <1>9, <1>10, <1>11 DEF Inv, Shape

\* Every step preserves it.
LEMMA InvStep == Inv /\ Next => Inv'
<1> SUFFICES ASSUME Inv, Next PROVE Inv' OBVIOUS
<1>1. TxnShape' /\ HandlerInv' BY Kinds
<1>2. TablesShape' BY TablesStep
<1>3. TypeOK'
  <2>1. \A r \in RequestId : group_request'[r] # NoRequest =>
            Exists(group_request[r].group)' /\ group_request'[r].student \in Student
    BY RequestStep
  <2>2. \A p \in joined' : Exists(p[1])' /\ p[2] \in Student BY RequestStep
  <2> QED BY <2>1, <2>2, EventStep, ReferenceStep DEF TypeOK
<1>4. RowInv' /\ LedInv' BY RowStep, LedStep
<1>5. CapacityInv' /\ AtMostFour' BY CapacityStep
<1>6. LateInv' /\ HitInv' /\ RacedInv' BY LateStep, HitStep, RacedStep
<1>7. LeaderIsMember' /\ LeadInv' BY LeaderStep, LeadStep
<1> QED BY <1>1, <1>2, <1>3, <1>4, <1>5, <1>6, <1>7 DEF Inv, Shape

\* Steps that change nothing preserve it too.
LEMMA InvStutter == Inv /\ UNCHANGED vars => Inv'
<1> SUFFICES ASSUME Inv, UNCHANGED vars PROVE Inv' OBVIOUS
<1>1. /\ phase' = phase /\ phases' = phases /\ batch_status' = batch_status
      /\ group_id' = group_id /\ housing_group' = housing_group /\ joined' = joined
      /\ group_request' = group_request /\ txn' = txn /\ raced' = raced /\ places' = places
  BY DEF vars, event, tables
<1>2. \A g : /\ Exists(g)' = Exists(g) /\ Frozen(g)' = Frozen(g) /\ members(g)' = members(g)
  BY <1>1 DEF Exists, Frozen, members
<1>3. \A t \in Txn : /\ Moved(t)' = Moved(t) /\ Settled(t)' = Settled(t)
                     /\ Dissolves(t)' = Dissolves(t) /\ Touches(t)' = Touches(t)
                     /\ GroupOf(t)' = GroupOf(t) /\ Target(t)' = Target(t)
  BY <1>1, <1>2 DEF Moved, Settled, Dissolves, Touches, GroupOf, Target
<1>4. Shape' /\ HandlerInv' BY <1>1 DEF Inv, Shape, TxnShape, TablesShape, HandlerInv
<1>5. TypeOK'
  BY <1>1, <1>2 DEF Inv, TypeOK
<1>6. RowInv' /\ LedInv' BY <1>1, <1>2, <1>3 DEF Inv, RowInv, LedInv
<1>7. CapacityInv' /\ AtMostFour'
  BY <1>1, <1>2, <1>3 DEF Inv, CapacityInv, AtMostFour, check_group_capacity
<1>8. LateInv' /\ HitInv' /\ RacedInv' BY <1>1, <1>2, <1>3 DEF Inv, LateInv, HitInv, RacedInv
<1>9. LeaderIsMember' /\ LeadInv' BY <1>1, <1>2, <1>3 DEF Inv, LeaderIsMember, LeadInv
<1> QED BY <1>4, <1>5, <1>6, <1>7, <1>8, <1>9 DEF Inv

\* The invariant of the lobby.
THEOREM InvHolds == Spec => []Inv
<1>1. Inv /\ [Next]_vars => Inv' BY InvStep, InvStutter
<1> QED BY <1>1, InvInit, PTL DEF Spec

\* Groups, students, requests and memberships refer to rows that exist: a group is deleted
\* only with its requests, and its members leave it in the same commit.
THEOREM TypeCorrect == Spec => []TypeOK
<1>1. Inv => TypeOK BY DEF Inv
<1> QED BY <1>1, InvHolds, PTL

\* check_group_capacity: however acceptances interleave, no group exceeds the limit.
THEOREM NeverFive == Spec => []AtMostFour
<1>1. Inv => AtMostFour BY DEF Inv
<1> QED BY <1>1, InvHolds, PTL

\* handle_primary_applicant_leave: the leader of a group is a member of it, if no two
\* transactions changed the group at once.
THEOREM LeadersAreMembers == Spec => []LeaderIsMember
<1>1. Inv => LeaderIsMember BY DEF Inv
<1> QED BY <1>1, InvHolds, PTL

\* createGroup: a row of group_shatter_history gives its student one place in a batch.
THEOREM OneLatePlace == Spec => []LatePlaceOnce
<1>1. Inv => LatePlaceOnce BY DEF Inv, LateInv, LatePlaceOnce
<1> QED BY <1>1, InvHolds, PTL

\* prevent_illegal_group_modification: no step takes a member out of a locked group, if no
\* two transactions changed the group at once.
THEOREM LockedStay == Spec => LockedMembersStay
<1>1. Inv /\ [Next]_vars =>
          [\A s \in Student : LET g == group_id[s] IN
              Frozen(g) /\ g \notin raced => group_id'[s] = g]_vars
  BY LockedStep
<1> QED BY <1>1, InvHolds, PTL DEF Spec, LockedMembersStay
=============================================================================
