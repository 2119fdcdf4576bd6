-------------------------- MODULE RoomLedger_proofs --------------------------
(* Proofs about the rooms: no booking goes into a full room, occupancies   *)
(* stay within capacities, a rollback leaves nobody in its rooms, a manual *)
(* allocation moves nobody, and the warden's allocation meets its layout.  *)
(*                                                                         *)
(* The argument is about row locks.  A room belongs to the one transaction *)
(* that has locked it, and who inserts into a room has locked it before,   *)
(* so what the trigger counts after the insertion stays true, or an upper  *)
(* bound, until the commit: the CHECK of the room's row turns away whoever *)
(* is one too many.                                                        *)
EXTENDS RoomLedger, FiniteSetTheorems, FunctionTheorems, SequenceTheorems, WellFoundedInduction, TLAPS

-----------------------------------------------------------------------------
(* The inductive invariant.  What it says of a transaction w is about the  *)
(* capacities, the rows of room_assignment and the snapshots of a state.   *)

\* What a transaction consists of.
Columns(w) ==
    w = [op |-> w.op, student |-> w.student, rooms |-> w.rooms, layout |-> w.layout,
         plan |-> w.plan, todo |-> w.todo, locked |-> w.locked, claimed |-> w.claimed,
         ended |-> w.ended, made |-> w.made, dropped |-> w.dropped,
         occupancy |-> w.occupancy, allotted |-> w.allotted]

\* The tables have their columns.
TablesType ==
    /\ max_capacity \in [Room -> {-1, 0} \cup Capacity]
    /\ current_occupancy \in [Room -> 0..Cardinality(Student)]
    /\ room_assignment \subseteq Student \X Room
    /\ past \subseteq Student \X Room
    /\ is_allotted \in [Student -> BOOLEAN]

\* Occupancies are within the capacities of the rooms, which have all the assignments.
TablesInv ==
    /\ \A r \in Room : /\ Exists(r) => current_occupancy[r] <= max_capacity[r]
                       /\ max_capacity[r] = 0 => current_occupancy[r] = 0
    /\ \A p \in room_assignment : Exists(p[2])

Trigger == {"sync", "snapshot", "recount", "occupancy"}

\* A transaction is a list of statements; those that insert have a room, and those of the
\* triggers what they have looked up.
WorkType(w) ==
    /\ Columns(w)
    /\ w.todo \in Seq(ToSet(w.todo))
    /\ w.ended \subseteq Student \X Room /\ w.made \subseteq Student \X Room
    /\ w.occupancy \in [Room -> Int] /\ w.allotted \in [Student -> Int]
    /\ \A layout \in w.layout : layout.capacity \in 1..6
    /\ \A x \in ToSet(w.todo) :
          /\ x = [do |-> x.do, student |-> x.student, room |-> x.room, value |-> x.value]
          /\ x.do \in {"insert", "empty"} => x.room \in Room
          /\ x.do = "snapshot" => x.value \in Nat
          /\ x.do = "occupancy" => x.value \in 0..Cardinality(Student)

\* Only the deletion of a room drops one, and it inserts nothing; nor does a rollback.
KindInv(w) ==
    /\ w.op = "delete" => w.made = {} /\ \A x \in ToSet(w.todo) : x.do \in {"drop"} \cup Trigger
    /\ w.op # "delete" => w.dropped = {} /\ \A x \in ToSet(w.todo) : x.do # "drop"
    /\ w.op = "rollback" =>
          w.made = {} /\ \A x \in ToSet(w.todo) : x.do \in {"lock", "clear"} \cup Trigger

Holds(w, r, capacity) == r \in w.locked /\ capacity[r] > 0

\* Such a statement on the room comes before the i-th one.
Precedes(todo, do, r, i) == \E j \in 1..(i - 1) : todo[j].do = do /\ todo[j].room = r

\* Who inserts into a room has locked it, or will have.
GuardInv(w, capacity) ==
    /\ \A i \in DOMAIN w.todo : w.todo[i].do = "insert" =>
          Holds(w, w.todo[i].room, capacity) \/ Precedes(w.todo, "notfull", w.todo[i].room, i)
    /\ \A p \in w.made : Holds(w, p[2], capacity)

\* Who drops a room has ended all its assignments.
DropInv(w, rows) == \A r \in w.dropped : r \in w.locked /\ rows \cap in(r) \subseteq w.ended

\* An occupancy is written under the lock of the room, a snapshot under that of the student.
WriteInv(w, capacity) ==
    /\ \A r \in Room : w.occupancy[r] # NotWritten =>
          /\ Holds(w, r, capacity)
          /\ w.occupancy[r] \in 0..Cardinality(Student) /\ w.occupancy[r] <= capacity[r]
    /\ \A s \in Student : w.allotted[s] # NotWritten => s \in w.claimed

SeenBy(w, rows) == (rows \ w.ended) \cup w.made

\* A room that got somebody is not overfilled, or the trigger is yet to find that it is.
CountInv(w, capacity, rows) ==
    \A r \in Room : w.made \cap in(r) # {} =>
        \/ Cardinality(SeenBy(w, rows) \cap in(r)) <= capacity[r]
        \/ \E x \in ToSet(w.todo) :
              /\ x.room = r
              /\ x.do = "recount" \/ (x.do = "occupancy" /\ x.value > capacity[r])

\* A room that is rolled back is empty and locked, or will be.
ClearInv(w, rows) ==
    w.op = "rollback" => \A r \in ToSet(w.rooms) :
        \/ r \in w.locked /\ rows \cap in(r) \subseteq w.ended
        \/ \E i \in DOMAIN w.todo :
              /\ w.todo[i].do = "clear" /\ w.todo[i].room = r
              /\ r \in w.locked \/ Precedes(w.todo, "lock", r, i)

\* A student who is moved by hand is locked and has no room by the snapshot, or will be.
MoveInv(w, housed) ==
    w.op = "manual" => \A s \in w.student :
        \/ s \in w.claimed /\ (s \in Student => ~ housed[s])
        \/ \E x \in ToSet(w.todo) : x.do = "claim" /\ x.student = s

WorkInv(w, capacity, rows, housed) ==
    /\ WorkType(w) /\ KindInv(w)
    /\ GuardInv(w, capacity) /\ DropInv(w, rows) /\ WriteInv(w, capacity)
    /\ CountInv(w, capacity, rows) /\ ClearInv(w, rows) /\ MoveInv(w, housed)

\* A row is locked by one transaction.
LockInv ==
    \A t, u \in Txn : t # u =>
        txn[t].locked \cap txn[u].locked = {} /\ txn[t].claimed \cap txn[u].claimed = {}

Inv ==
    /\ TablesType /\ TablesInv /\ LockInv
    /\ txn = [t \in Txn |-> txn[t]]
    /\ \A t \in Txn : WorkInv(txn[t], max_capacity, room_assignment, is_allotted)

-----------------------------------------------------------------------------
(* Lists of statements.                                                    *)

List(s) == s \in Seq(ToSet(s))

\* A list and its elements.
LEMMA ListElements ==
    ASSUME NEW s, List(s)
    PROVE  /\ Len(s) \in Nat /\ DOMAIN s = 1..Len(s)
           /\ \A i \in 1..Len(s) : s[i] \in ToSet(s)
           /\ \A x \in ToSet(s) : \E i \in 1..Len(s) : x = s[i]
<1>1. Len(s) \in Nat /\ DOMAIN s = 1..Len(s) BY LenProperties DEF List
<1> QED BY <1>1 DEF ToSet

LEMMA ListHead ==
    ASSUME NEW s, List(s), s # <<>>
    PROVE  1 \in DOMAIN s /\ Head(s) = s[1] /\ Head(s) \in ToSet(s)
<1>1. Len(s) \in Nat \ {0} /\ DOMAIN s = 1..Len(s) BY LenProperties, EmptySeq DEF List
<1>2. 1 \in DOMAIN s /\ Head(s) = s[1] BY <1>1 DEF List
<1> QED BY <1>2 DEF ToSet

\* What maps 1..n is a list.
LEMMA ListOf ==
    ASSUME NEW n \in Nat, NEW s, DOMAIN s = 1..n, s = [i \in 1..n |-> s[i]]
    PROVE  List(s) /\ Len(s) = n
<1>1. s \in [1..n -> ToSet(s)] BY DEF ToSet
<1>2. s \in Seq(ToSet(s)) BY <1>1, SeqDef
<1> QED BY <1>1, <1>2, LenProperties DEF List

\* The head of a list is run, and others are put in front of the rest.
LEMMA ListRuns ==
    ASSUME NEW n, NEW s, NEW z, List(n), List(s), s # <<>>, z = n \o Tail(s)
    PROVE  /\ List(z)
           /\ Len(n) \in Nat /\ Len(s) \in Nat \ {0} /\ Head(s) = s[1] /\ Head(s) \in ToSet(s)
           /\ DOMAIN n = 1..Len(n) /\ DOMAIN s = 1..Len(s)
           /\ DOMAIN z = 1..(Len(n) + Len(s) - 1)
           /\ \A i \in 1..Len(n) : z[i] = n[i]
           /\ \A i \in 2..Len(s) : z[Len(n) + i - 1] = s[i]
           /\ ToSet(z) \subseteq ToSet(n) \cup ToSet(s)
           /\ ToSet(n) \subseteq ToSet(z)
           /\ \A x \in ToSet(s) : x = Head(s) \/ x \in ToSet(z)
<1> DEFINE S == ToSet(n) \cup ToSet(s)
           l == Len(n)
           m == Len(s)
<1>1. n \in Seq(S) /\ s \in Seq(S) BY SeqMonotonic DEF List
<1>2. /\ l \in Nat /\ m \in Nat \ {0} /\ DOMAIN n = 1..l /\ DOMAIN s = 1..m
  BY <1>1, LenProperties, EmptySeq
<1>3. /\ Tail(s) \in Seq(S) /\ Len(Tail(s)) = m - 1
      /\ \A i \in 1..(m - 1) : Tail(s)[i] = s[i + 1]
  BY <1>1, HeadTailProperties
<1>4. /\ z \in Seq(S) /\ Len(z) = l + m - 1
      /\ \A i \in 1..(l + m - 1) : z[i] = IF i <= l THEN n[i] ELSE Tail(s)[i - l]
  <2> HIDE DEF S
  <2>1. Len(n) + Len(Tail(s)) = l + m - 1 BY <1>2, <1>3
  <2> QED BY <1>1, <1>3, <2>1, ConcatProperties
<1>5. DOMAIN z = 1..(l + m - 1) /\ z = [i \in 1..(l + m - 1) |-> z[i]]
  BY <1>2, <1>4, LenProperties
<1>6. List(z)
  <2>1. l + m - 1 \in Nat BY <1>2
  <2> HIDE DEF l, m, S
  <2> QED BY <1>5, <2>1, ListOf
<1>7. \A i \in 1..l : z[i] = n[i] BY <1>2, <1>4
<1>8. \A i \in 2..m : z[l + i - 1] = s[i] BY <1>2, <1>3, <1>4
<1>9. Head(s) = s[1] BY <1>1
<1>10. ToSet(z) \subseteq ToSet(n) \cup ToSet(s)
  <2>1. ASSUME NEW i \in 1..(l + m - 1) PROVE z[i] \in S
    <3> HIDE DEF S
    <3> QED BY <1>2, <1>4, <1>5, ElementOfSeq
  <2>2. ToSet(z) = {z[i] : i \in 1..(l + m - 1)} BY <1>5, ZenonT(30) DEF ToSet
  <2> QED BY <2>1, <2>2
<1>11. ToSet(n) \subseteq ToSet(z)
  <2> SUFFICES ASSUME NEW i \in 1..l PROVE z[i] \in ToSet(z) BY <1>2, <1>7 DEF ToSet
  <2>1. i \in DOMAIN z BY <1>2, <1>5
  <2> QED BY <2>1 DEF ToSet
<1>12. \A x \in ToSet(s) : x = Head(s) \/ x \in ToSet(z)
  <2> SUFFICES ASSUME NEW i \in 1..m, i # 1 PROVE s[i] \in ToSet(z) BY <1>2, <1>9 DEF ToSet
  <2>1. l + i - 1 \in DOMAIN z /\ z[l + i - 1] = s[i] BY <1>2, <1>5, <1>8
  <2> QED BY <2>1 DEF ToSet
<1>13. Head(s) \in ToSet(s)
  <2>1. 1 \in DOMAIN s BY <1>2
  <2> QED BY <1>9, <2>1 DEF ToSet
<1> HIDE DEF l, m
<1> QED BY <1>2, <1>5, <1>6, <1>7, <1>8, <1>9, <1>10, <1>11, <1>12, <1>13 DEF l, m

\* The k-th statement of the chain is the j-th of the i-th list, after those before it there.
ChainsAt(chain, lists, k, i, j) ==
    /\ chain[k] = lists[i][j]
    /\ \A h \in 1..(j - 1) : \E g \in 1..(k - 1) : chain[g] = lists[i][h]

\* A chain of lists of the length n is a list of their statements.
LEMMA ChainList ==
    ASSUME NEW n \in {2, 3}, NEW m \in Nat, NEW lists, List(lists), Len(lists) = m,
           NEW chain, chain = Chain(n, lists)
    PROVE  /\ List(chain)
           /\ \A k \in DOMAIN chain : \E i \in 1..m : \E j \in 1..n : ChainsAt(chain, lists, k, i, j)
           /\ \A i \in 1..m, j \in 1..n : \E k \in DOMAIN chain : ChainsAt(chain, lists, k, i, j)
<1>1. /\ DOMAIN chain = 1..n * m
      /\ \A k \in 1..n * m : chain[k] = lists[(k + n - 1) \div n][((k - 1) % n) + 1]
  BY DEF Chain
<1>2. List(chain)
  <2>1. n * m \in Nat OBVIOUS
  <2>2. chain = [k \in 1..n * m |-> chain[k]] BY DEF Chain
  <2> QED BY <1>1, <2>1, <2>2, ListOf
<1>3. \A k \in 1..n * m :
         LET i == (k + n - 1) \div n
             j == ((k - 1) % n) + 1 IN
         i \in 1..m /\ j \in 1..n /\ k = n * (i - 1) + j
  <2>1. CASE n = 2 BY <2>1
  <2>2. CASE n = 3 BY <2>2
  <2> QED BY <2>1, <2>2
<1>4. \A i \in 1..m, j \in 1..n :
         LET k == n * (i - 1) + j IN
         k \in 1..n * m /\ (k + n - 1) \div n = i /\ ((k - 1) % n) + 1 = j
  <2>1. CASE n = 2 BY <2>1
  <2>2. CASE n = 3 BY <2>2
  <2> QED BY <2>1, <2>2
<1>5. \A i \in 1..m, j \in 1..n :
         n * (i - 1) + j \in 1..n * m /\ chain[n * (i - 1) + j] = lists[i][j]
  <2> SUFFICES ASSUME NEW i \in 1..m, NEW j \in 1..n, NEW k, k = n * (i - 1) + j
               PROVE  k \in 1..n * m /\ chain[k] = lists[i][j]
    OBVIOUS
  <2> QED BY <1>1, <1>4
<1>6. ASSUME NEW i \in 1..m, NEW j \in 1..n, NEW k, k = n * (i - 1) + j
      PROVE  k \in DOMAIN chain /\ ChainsAt(chain, lists, k, i, j)
  <2>1. k \in DOMAIN chain /\ chain[k] = lists[i][j] BY <1>1, <1>5, <1>6
  <2>2. ASSUME NEW h \in 1..(j - 1) PROVE \E g \in 1..(k - 1) : chain[g] = lists[i][h]
    <3>1. h \in 1..n OBVIOUS
    <3> DEFINE g == n * (i - 1) + h
    <3>2. g \in 1..n * m /\ chain[g] = lists[i][h] BY <1>5, <3>1
    <3>3. g < k
      <4>1. CASE n = 2 BY <1>6, <4>1
      <4>2. CASE n = 3 BY <1>6, <4>2
      <4> QED BY <4>1, <4>2
    <3>4. k \in Int /\ g \in Int BY <1>1, <2>1, <3>2
    <3> HIDE DEF g
    <3>5. g \in 1..(k - 1) BY <3>2, <3>3, <3>4
    <3> QED BY <3>2, <3>5
  <2> QED BY <2>1, <2>2 DEF ChainsAt
<1>7. ASSUME NEW k \in DOMAIN chain
      PROVE  \E i \in 1..m : \E j \in 1..n : ChainsAt(chain, lists, k, i, j)
  <2>1. PICK i \in 1..m : \E j \in 1..n : k = n * (i - 1) + j BY <1>1, <1>3
  <2>2. PICK j \in 1..n : k = n * (i - 1) + j BY <2>1
  <2> QED BY <1>6, <2>2
<1>8. ASSUME NEW i \in 1..m, NEW j \in 1..n
      PROVE  \E k \in DOMAIN chain : ChainsAt(chain, lists, k, i, j)
  BY <1>6
<1> QED BY <1>2, <1>7, <1>8

-----------------------------------------------------------------------------
(* What a statement preserves.                                             *)

\* The head of w's list is run: v is the transaction afterwards, which has the statements n
\* in front.  Locks are kept, and what is ended stays so.
Runs(w, v, n) ==
    /\ w.todo # <<>> /\ List(n) /\ v.todo = n \o Tail(w.todo)
    /\ Columns(v)
    /\ v.op = w.op /\ v.student = w.student /\ v.rooms = w.rooms /\ v.layout = w.layout
    /\ w.locked \subseteq v.locked /\ w.claimed \subseteq v.claimed /\ w.ended \subseteq v.ended

\* The statements that are left.
LEMMA RunsList ==
    ASSUME NEW w, NEW v, NEW n, WorkType(w), Runs(w, v, n)
    PROVE  LET s == w.todo
               z == v.todo IN
           /\ List(z)
           /\ Len(n) \in Nat /\ Len(s) \in Nat \ {0} /\ Head(s) = s[1] /\ Head(s) \in ToSet(s)
           /\ DOMAIN n = 1..Len(n) /\ DOMAIN s = 1..Len(s)
           /\ DOMAIN z = 1..(Len(n) + Len(s) - 1)
           /\ \A i \in 1..Len(n) : z[i] = n[i]
           /\ \A i \in 2..Len(s) : z[Len(n) + i - 1] = s[i]
           /\ ToSet(z) \subseteq ToSet(n) \cup ToSet(s)
           /\ ToSet(n) \subseteq ToSet(z)
           /\ \A x \in ToSet(s) : x = Head(s) \/ x \in ToSet(z)
<1>1. List(w.todo) BY DEF WorkType, List
<1>2. w.todo # <<>> /\ List(n) /\ v.todo = n \o Tail(w.todo) BY DEF Runs
<1> QED BY <1>1, <1>2, ListRuns

\* Statements and their types.
StmtType(x) ==
    /\ x = [do |-> x.do, student |-> x.student, room |-> x.room, value |-> x.value]
    /\ x.do \in {"insert", "empty"} => x.room \in Room
    /\ x.do = "snapshot" => x.value \in Nat
    /\ x.do = "occupancy" => x.value \in 0..Cardinality(Student)

LEMMA RunsType ==
    ASSUME NEW w, NEW v, NEW n, WorkType(w), Runs(w, v, n),
           \A x \in ToSet(n) : StmtType(x),
           v.ended \subseteq Student \X Room, v.made \subseteq Student \X Room,
           v.occupancy \in [Room -> Int], v.allotted \in [Student -> Int]
    PROVE  WorkType(v)
<1>1. List(v.todo) BY RunsList
<1>2. \A x \in ToSet(v.todo) : StmtType(x) BY RunsList DEF WorkType, StmtType
<1>3. \A layout \in v.layout : layout.capacity \in 1..6 BY DEF WorkType, Runs
<1>4. Columns(v) BY DEF Runs
<1> QED BY <1>1, <1>2, <1>3, <1>4 DEF WorkType, StmtType, List

LEMMA RunsKind ==
    ASSUME NEW w, NEW v, NEW n, WorkType(w), Runs(w, v, n), KindInv(w),
           \A x \in ToSet(n) :
              x.do \in Trigger \/ (w.op \notin {"delete", "rollback"} /\ x.do # "drop"),
           v.made \subseteq w.made \/ w.op \notin {"delete", "rollback"},
           v.dropped = w.dropped \/ w.op = "delete"
    PROVE  KindInv(v)
<1>1. ToSet(v.todo) \subseteq ToSet(n) \cup ToSet(w.todo) BY RunsList
<1>2. v.op = w.op BY DEF Runs
<1>3. v.op = "delete" => v.made = {} /\ \A x \in ToSet(v.todo) : x.do \in {"drop"} \cup Trigger
  BY <1>1, <1>2 DEF KindInv
<1>4. v.op # "delete" => v.dropped = {} /\ \A x \in ToSet(v.todo) : x.do # "drop"
  BY <1>1, <1>2 DEF KindInv, Trigger
<1>5. v.op = "rollback" =>
         v.made = {} /\ \A x \in ToSet(v.todo) : x.do \in {"lock", "clear"} \cup Trigger
  BY <1>1, <1>2 DEF KindInv
<1> QED BY <1>3, <1>4, <1>5 DEF KindInv

\* What came before a statement comes before it still, but for the one that was run.
LEMMA RunsPrecedes ==
    ASSUME NEW w, NEW v, NEW n, WorkType(w), Runs(w, v, n), NEW do, NEW r,
           NEW i \in 2..Len(w.todo), Precedes(w.todo, do, r, i),
           ~ (Head(w.todo).do = do /\ Head(w.todo).room = r)
    PROVE  Precedes(v.todo, do, r, Len(n) + i - 1)
<1>1. PICK j \in 1..(i - 1) : w.todo[j].do = do /\ w.todo[j].room = r BY DEF Precedes
<1>2. /\ Len(n) \in Nat /\ Len(w.todo) \in Nat /\ Head(w.todo) = w.todo[1]
      /\ \A k \in 2..Len(w.todo) : v.todo[Len(n) + k - 1] = w.todo[k]
  BY RunsList
<1>3. j \in 2..Len(w.todo) BY <1>1, <1>2
<1>4. Len(n) + j - 1 \in 1..(Len(n) + i - 1 - 1) BY <1>1, <1>2, <1>3
<1>5. v.todo[Len(n) + j - 1] = w.todo[j] BY <1>2, <1>3
<1>6. v.todo[Len(n) + j - 1].do = do /\ v.todo[Len(n) + j - 1].room = r BY <1>1, <1>5
<1> QED BY <1>4, <1>6 DEF Precedes

LEMMA RunsGuard ==
    ASSUME NEW w, NEW v, NEW n, NEW capacity, WorkType(w), Runs(w, v, n), GuardInv(w, capacity),
           \A i \in DOMAIN n : n[i].do = "insert" => Precedes(n, "notfull", n[i].room, i),
           Head(w.todo).do = "notfull" => Holds(v, Head(w.todo).room, capacity),
           \A p \in v.made : p \in w.made \/ Holds(v, p[2], capacity)
    PROVE  GuardInv(v, capacity)
<1>1. \A r : Holds(w, r, capacity) => Holds(v, r, capacity) BY DEF Runs, Holds
<1>2. \A p \in v.made : Holds(v, p[2], capacity) BY <1>1 DEF GuardInv
<1>3. ASSUME NEW k \in DOMAIN v.todo, v.todo[k].do = "insert"
      PROVE  Holds(v, v.todo[k].room, capacity) \/ Precedes(v.todo, "notfull", v.todo[k].room, k)
  <2>1. /\ Len(n) \in Nat /\ Len(w.todo) \in Nat \ {0}
        /\ DOMAIN n = 1..Len(n) /\ DOMAIN w.todo = 1..Len(w.todo)
        /\ DOMAIN v.todo = 1..(Len(n) + Len(w.todo) - 1)
        /\ \A i \in 1..Len(n) : v.todo[i] = n[i]
        /\ \A i \in 2..Len(w.todo) : v.todo[Len(n) + i - 1] = w.todo[i]
    BY RunsList
  <2>2. CASE k \in 1..Len(n)
    <3>1. v.todo[k] = n[k] /\ Precedes(n, "notfull", n[k].room, k) BY <1>3, <2>1, <2>2
    <3>2. \A j \in 1..(k - 1) : v.todo[j] = n[j] BY <2>1, <2>2
    <3> QED BY <3>1, <3>2 DEF Precedes
  <2>3. CASE k \notin 1..Len(n)
    <3>1. PICK i \in 2..Len(w.todo) : k = Len(n) + i - 1
      <4>1. k - Len(n) + 1 \in 2..Len(w.todo) /\ k = Len(n) + (k - Len(n) + 1) - 1 BY <2>1, <2>3
      <4> QED BY <4>1
    <3>2. v.todo[k] = w.todo[i] /\ i \in DOMAIN w.todo BY <2>1, <3>1
    <3>3. Holds(w, w.todo[i].room, capacity) \/ Precedes(w.todo, "notfull", w.todo[i].room, i)
      BY <1>3, <3>2 DEF GuardInv
    <3>4. CASE Holds(w, w.todo[i].room, capacity) BY <1>1, <3>2, <3>4
    <3>5. CASE Head(w.todo).do = "notfull" /\ Head(w.todo).room = w.todo[i].room BY <3>2, <3>5
    <3>6. CASE /\ Precedes(w.todo, "notfull", w.todo[i].room, i)
               /\ ~ (Head(w.todo).do = "notfull" /\ Head(w.todo).room = w.todo[i].room)
      BY <3>1, <3>2, <3>6, RunsPrecedes
    <3> QED BY <3>3, <3>4, <3>5, <3>6
  <2> QED BY <2>2, <2>3
<1> QED BY <1>2, <1>3 DEF GuardInv

LEMMA RunsClear ==
    ASSUME NEW w, NEW v, NEW n, NEW rows, WorkType(w), Runs(w, v, n), ClearInv(w, rows),
           Head(w.todo).do = "lock" => Head(w.todo).room \in v.locked,
           Head(w.todo).do = "clear" /\ Head(w.todo).room \in w.locked
              => rows \cap in(Head(w.todo).room) \subseteq v.ended
    PROVE  ClearInv(v, rows)
<1>1. v.op = w.op /\ v.rooms = w.rooms /\ w.locked \subseteq v.locked /\ w.ended \subseteq v.ended
  BY DEF Runs
<1> SUFFICES ASSUME w.op = "rollback", NEW r \in ToSet(w.rooms)
             PROVE  \/ r \in v.locked /\ rows \cap in(r) \subseteq v.ended
                    \/ \E i \in DOMAIN v.todo :
                          /\ v.todo[i].do = "clear" /\ v.todo[i].room = r
                          /\ r \in v.locked \/ Precedes(v.todo, "lock", r, i)
  BY <1>1 DEF ClearInv
<1>2. CASE r \in w.locked /\ rows \cap in(r) \subseteq w.ended BY <1>1, <1>2
<1>3. CASE \E i \in DOMAIN w.todo :
              /\ w.todo[i].do = "clear" /\ w.todo[i].room = r
              /\ r \in w.locked \/ Precedes(w.todo, "lock", r, i)
  <2>1. PICK i \in DOMAIN w.todo :
              /\ w.todo[i].do = "clear" /\ w.todo[i].room = r
              /\ r \in w.locked \/ Precedes(w.todo, "lock", r, i)
    BY <1>3
  <2>2. /\ Len(n) \in Nat /\ Len(w.todo) \in Nat \ {0} /\ Head(w.todo) = w.todo[1]
        /\ DOMAIN w.todo = 1..Len(w.todo)
        /\ DOMAIN v.todo = 1..(Len(n) + Len(w.todo) - 1)
        /\ \A k \in 2..Len(w.todo) : v.todo[Len(n) + k - 1] = w.todo[k]
    BY RunsList
  <2>3. CASE i = 1
    <3>1. ~ Precedes(w.todo, "lock", r, i) BY <2>3 DEF Precedes
    <3> QED BY <1>1, <2>1, <2>2, <2>3, <3>1
  <2>4. CASE i # 1
    <3>1. i \in 2..Len(w.todo) BY <2>2, <2>4
    <3>2. Len(n) + i - 1 \in DOMAIN v.todo /\ v.todo[Len(n) + i - 1] = w.todo[i] BY <2>2, <3>1
    <3>3. CASE r \in v.locked BY <2>1, <3>2, <3>3
    <3>4. CASE r \notin v.locked
      <4>1. Precedes(w.todo, "lock", r, i) BY <1>1, <2>1, <3>4
      <4>2. ~ (Head(w.todo).do = "lock" /\ Head(w.todo).room = r) BY <3>4
      <4>3. Precedes(v.todo, "lock", r, Len(n) + i - 1) BY <3>1, <4>1, <4>2, RunsPrecedes
      <4> QED BY <2>1, <3>2, <4>3
    <3> QED BY <3>3, <3>4
  <2> QED BY <2>3, <2>4
<1> QED BY <1>2, <1>3 DEF ClearInv

LEMMA RunsMove ==
    ASSUME NEW w, NEW v, NEW n, NEW housed, WorkType(w), Runs(w, v, n), MoveInv(w, housed),
           Head(w.todo).do = "claim" =>
              LET s == Head(w.todo).student IN s \in v.claimed /\ (s \in Student => ~ housed[s])
    PROVE  MoveInv(v, housed)
<1>1. v.op = w.op /\ v.student = w.student /\ w.claimed \subseteq v.claimed BY DEF Runs
<1>2. \A x \in ToSet(w.todo) : x = Head(w.todo) \/ x \in ToSet(v.todo) BY RunsList
<1> QED BY <1>1, <1>2 DEF MoveInv

\* Assignments are finitely many, and a room has no more of them than there are students.
LEMMA Bookings ==
    ASSUME NEW P \in SUBSET (Student \X Room)
    PROVE  /\ IsFiniteSet(P) /\ Cardinality(P) \in Nat
           /\ \A Q \in SUBSET P : Cardinality(Q) <= Cardinality(P)
           /\ \A r : Cardinality(P \cap in(r)) \in 0..Cardinality(Student)
<1>1. IsFiniteSet(Student) /\ IsFiniteSet(Room) BY RoomAssumption
<1>2. IsFiniteSet(Student \X Room) BY <1>1, FS_Product
<1>3. \A Q \in SUBSET (Student \X Room) : IsFiniteSet(Q) /\ Cardinality(Q) \in Nat
  BY <1>2, FS_Subset, FS_CardinalityType
<1>4. \A Q \in SUBSET P : Cardinality(Q) <= Cardinality(P) BY <1>3, FS_Subset
<1>5. ASSUME NEW r PROVE Cardinality(P \cap in(r)) \in 0..Cardinality(Student)
  <2> DEFINE Q == P \cap in(r)
             f == [p \in Q |-> p[1]]
  <2>1. f \in [Q -> Student] /\ \A p, q \in Q : f[p] = f[q] => p = q BY DEF in
  <2>2. f \in Injection(Q, Student) BY <2>1, Fun_IsInj
  <2>3. Cardinality(Q) <= Cardinality(Student)
    <3> HIDE DEF f, Q
    <3> QED BY <1>1, <2>2, FS_Injection
  <2>4. Cardinality(Q) \in Nat /\ Cardinality(Student) \in Nat
    <3>1. Cardinality(Q) \in Nat BY <1>3
    <3>2. Cardinality(Student) \in Nat BY <1>1, FS_CardinalityType
    <3> QED BY <3>1, <3>2
  <2> HIDE DEF Q
  <2>5. Cardinality(Q) \in 0..Cardinality(Student) BY <2>3, <2>4
  <2> QED BY <2>5 DEF Q
<1> QED BY <1>3, <1>4, <1>5

LEMMA RunsCount ==
    ASSUME NEW w, NEW v, NEW n, NEW capacity \in [Room -> Int], NEW rows \in SUBSET (Student \X Room),
           WorkType(w), Runs(w, v, n), WorkType(v), CountInv(w, capacity, rows),
           \A r \in Room : v.made \cap in(r) # {} =>
              \/ \E x \in ToSet(n) : x.do = "recount" /\ x.room = r
              \/ /\ w.made \cap in(r) # {}
                 /\ SeenBy(v, rows) \cap in(r) \subseteq SeenBy(w, rows) \cap in(r),
           Head(w.todo).do = "recount" =>
              \E x \in ToSet(n) :
                 /\ x.do = "occupancy" /\ x.room = Head(w.todo).room
                 /\ x.value = Cardinality(SeenBy(v, rows) \cap in(x.room)),
           Head(w.todo).do = "occupancy" =>
              \A r \in Room : v.made \cap in(r) # {} /\ r = Head(w.todo).room
                 => Head(w.todo).value <= capacity[r]
    PROVE  CountInv(v, capacity, rows)
<1> SUFFICES ASSUME NEW r \in Room, v.made \cap in(r) # {}
             PROVE  \/ Cardinality(SeenBy(v, rows) \cap in(r)) <= capacity[r]
                    \/ \E x \in ToSet(v.todo) :
                          /\ x.room = r
                          /\ x.do = "recount" \/ (x.do = "occupancy" /\ x.value > capacity[r])
  BY DEF CountInv
<1>1. /\ ToSet(n) \subseteq ToSet(v.todo)
      /\ \A x \in ToSet(w.todo) : x = Head(w.todo) \/ x \in ToSet(v.todo)
      /\ Head(w.todo) \in ToSet(w.todo)
  BY RunsList
<1> DEFINE after == Cardinality(SeenBy(v, rows) \cap in(r))
           before == Cardinality(SeenBy(w, rows) \cap in(r))
<1>2. /\ SeenBy(w, rows) \cap in(r) \in SUBSET (Student \X Room)
      /\ SeenBy(v, rows) \cap in(r) \in SUBSET (Student \X Room)
  BY DEF SeenBy, WorkType
<1>3. after \in Nat /\ before \in Nat BY <1>2, Bookings
<1>4. CASE \E x \in ToSet(n) : x.do = "recount" /\ x.room = r BY <1>1, <1>4
<1>5. CASE /\ w.made \cap in(r) # {}
           /\ SeenBy(v, rows) \cap in(r) \subseteq SeenBy(w, rows) \cap in(r)
  <2>1. after <= before BY <1>2, <1>5, Bookings
  <2>2. \/ before <= capacity[r]
        \/ \E x \in ToSet(w.todo) :
              /\ x.room = r
              /\ x.do = "recount" \/ (x.do = "occupancy" /\ x.value > capacity[r])
    BY <1>5 DEF CountInv
  <2>3. CASE before <= capacity[r] BY <1>3, <2>1, <2>3
  <2>4. ASSUME NEW x \in ToSet(w.todo), x.room = r,
               x.do = "recount" \/ (x.do = "occupancy" /\ x.value > capacity[r])
        PROVE  \/ after <= capacity[r]
               \/ \E y \in ToSet(v.todo) :
                     /\ y.room = r
                     /\ y.do = "recount" \/ (y.do = "occupancy" /\ y.value > capacity[r])
    <3>1. CASE x \in ToSet(v.todo) BY <2>4, <3>1
    <3>2. CASE x = Head(w.todo) /\ x.do = "recount"
      <4>1. PICK y \in ToSet(n) : y.do = "occupancy" /\ y.room = r /\ y.value = after
        BY <2>4, <3>2
      <4>2. y \in ToSet(v.todo) BY <1>1
      <4>3. CASE after <= capacity[r] BY <4>3
      <4>4. CASE after > capacity[r] BY <4>1, <4>2, <4>4
      <4> HIDE DEF after
      <4> QED BY <1>3, <4>3, <4>4
    <3>3. CASE x = Head(w.todo) /\ x.do = "occupancy" /\ x.value > capacity[r]
      <4>1. x.value <= capacity[r] BY <2>4, <3>3
      <4>2. x.value \in Int BY <3>3 DEF WorkType
      <4> QED BY <3>3, <4>1, <4>2
    <3> QED BY <1>1, <2>4, <3>1, <3>2, <3>3
  <2> QED BY <2>2, <2>3, <2>4
<1> QED BY <1>4, <1>5

LEMMA RunsDrop ==
    ASSUME NEW w, NEW v, NEW n, NEW rows, Runs(w, v, n), DropInv(w, rows),
           \A r \in v.dropped : r \in w.dropped \/ (r \in v.locked /\ rows \cap in(r) \subseteq v.ended)
    PROVE  DropInv(v, rows)
BY DEF Runs, DropInv

LEMMA RunsWrite ==
    ASSUME NEW w, NEW v, NEW n, NEW capacity, Runs(w, v, n), WriteInv(w, capacity),
           v.occupancy = w.occupancy, v.allotted = w.allotted
    PROVE  WriteInv(v, capacity)
BY DEF Runs, WriteInv, Holds

\* The statements n may be put in front of a transaction's: they are allowed in a request of
\* the kind op, and those that insert have locked the room before.
Allowed(n, op) ==
    \A x \in ToSet(n) :
        /\ StmtType(x)
        /\ x.do \in Trigger \/ (op \notin {"delete", "rollback"} /\ x.do # "drop")

Guarded(n) == \A i \in DOMAIN n : n[i].do = "insert" => Precedes(n, "notfull", n[i].room, i)

\* They have the number of the rows of w in the room.
Counted(n, w, rows, r) ==
    \E x \in ToSet(n) :
        x.do = "occupancy" /\ x.room = r /\ x.value = Cardinality(SeenBy(w, rows) \cap in(r))

\* A statement that books and ends nothing preserves the invariant, if it has the locks and
\* the values that are asked for.
LEMMA RunsInv ==
    ASSUME NEW w, NEW v, NEW n, NEW capacity \in [Room -> Int], NEW rows \in SUBSET (Student \X Room),
           NEW housed, WorkInv(w, capacity, rows, housed), Runs(w, v, n),
           v.ended = w.ended, v.made = w.made, v.dropped = w.dropped,
           v.occupancy \in [Room -> Int], v.allotted \in [Student -> Int],
           WriteInv(v, capacity),
           Allowed(n, w.op), Guarded(n),
           Head(w.todo).do # "clear",
           Head(w.todo).do = "notfull" => Holds(v, Head(w.todo).room, capacity),
           Head(w.todo).do = "lock" => Head(w.todo).room \in v.locked,
           Head(w.todo).do = "claim" =>
              LET s == Head(w.todo).student IN s \in v.claimed /\ (s \in Student => ~ housed[s]),
           Head(w.todo).do = "recount" => Counted(n, w, rows, Head(w.todo).room),
           Head(w.todo).do = "occupancy" =>
              \A r \in Room : v.made \cap in(r) # {} /\ r = Head(w.todo).room
                 => Head(w.todo).value <= capacity[r]
    PROVE  WorkInv(v, capacity, rows, housed)
<1>1. /\ WorkType(w) /\ KindInv(w) /\ GuardInv(w, capacity) /\ DropInv(w, rows)
      /\ CountInv(w, capacity, rows) /\ ClearInv(w, rows) /\ MoveInv(w, housed)
  BY DEF WorkInv
<1>2. WorkType(v)
  <2>1. v.ended \subseteq Student \X Room /\ v.made \subseteq Student \X Room BY <1>1 DEF WorkType
  <2> QED BY <1>1, <2>1, RunsType DEF Allowed
<1>3. KindInv(v) BY <1>1, RunsKind DEF Allowed
<1>4. GuardInv(v, capacity) BY <1>1, RunsGuard DEF Guarded
<1>5. DropInv(v, rows) BY <1>1, RunsDrop
<1>6. CountInv(v, capacity, rows)
  <2>1. SeenBy(v, rows) = SeenBy(w, rows) BY DEF SeenBy
  <2>2. \A r \in Room : v.made \cap in(r) # {} =>
           /\ w.made \cap in(r) # {}
           /\ SeenBy(v, rows) \cap in(r) \subseteq SeenBy(w, rows) \cap in(r)
    BY <2>1
  <2> QED BY <1>1, <1>2, <2>1, <2>2, RunsCount DEF Counted
<1>7. ClearInv(v, rows) BY <1>1, RunsClear
<1>8. MoveInv(v, housed) BY <1>1, RunsMove
<1> QED BY <1>2, <1>3, <1>4, <1>5, <1>6, <1>7, <1>8 DEF WorkInv

\* The statements of the triggers.
Syncs(n) == \A x \in ToSet(n) : StmtType(x) /\ x.do \in {"sync", "recount"}

\* The triggers bring the students and the rooms of the rows up to date.
LEMMA TriggersSync ==
    ASSUME NEW P \in SUBSET (Student \X Room)
    PROVE  List(Triggers(P)) /\ Syncs(Triggers(P))
<1> DEFINE m == Cardinality(P)
           rows == SetToSeq(P)
           lists == [i \in 1..m |-> <<Stmt("sync", rows[i][1], rows[i][2]),
                                      Stmt("recount", rows[i][1], rows[i][2])>>]
<1>1. m \in Nat BY Bookings
<1> HIDE DEF m
<1>2. List(lists) /\ Len(lists) = m
  <2>1. DOMAIN lists = 1..m /\ lists = [i \in 1..m |-> lists[i]] OBVIOUS
  <2> HIDE DEF lists
  <2> QED BY <1>1, <2>1, ListOf
<1>3. Triggers(P) = Chain(2, lists) BY DEF Triggers, m
<1>4. /\ List(Triggers(P))
      /\ \A k \in DOMAIN Triggers(P) :
            \E i \in 1..m : \E j \in 1..2 : ChainsAt(Triggers(P), lists, k, i, j)
  <2> HIDE DEF lists
  <2> QED BY <1>1, <1>2, <1>3, ChainList
<1>5. ASSUME NEW x \in ToSet(Triggers(P)) PROVE StmtType(x) /\ x.do \in {"sync", "recount"}
  <2>1. PICK i \in 1..m, j \in 1..2 : x = lists[i][j]
    <3>1. PICK k \in DOMAIN Triggers(P) : x = Triggers(P)[k] BY DEF ToSet
    <3> HIDE DEF lists
    <3> QED BY <1>4, <3>1 DEF ChainsAt
  <2>2. \/ x = Stmt("sync", rows[i][1], rows[i][2])
        \/ x = Stmt("recount", rows[i][1], rows[i][2])
    BY <2>1
  <2> HIDE DEF lists, rows
  <2> QED BY <2>2 DEF Stmt, StmtType
<1> QED BY <1>3, <1>4, <1>5 DEF Syncs

\* After an insertion the room is counted.
LEMMA TriggersCount ==
    ASSUME NEW p \in Student \X Room
    PROVE  \E x \in ToSet(Triggers({p})) : x.do = "recount" /\ x.room = p[2]
<1> DEFINE rows == SetToSeq({p})
           lists == [i \in 1..1 |-> <<Stmt("sync", rows[i][1], rows[i][2]),
                                      Stmt("recount", rows[i][1], rows[i][2])>>]
<1>1. Cardinality({p}) = 1 BY FS_Singleton
<1>2. rows[1] = p
  <2>1. [i \in 1..1 |-> p] \in [1..1 -> {p}] /\ IsInjective([i \in 1..1 |-> p])
    BY DEF IsInjective
  <2>2. rows \in [1..1 -> {p}] BY <1>1, <2>1 DEF SetToSeq
  <2> QED BY <2>2
<1>3. List(lists) /\ Len(lists) = 1
  <2>1. DOMAIN lists = 1..1 /\ lists = [i \in 1..1 |-> lists[i]] OBVIOUS
  <2> HIDE DEF lists
  <2> QED BY <2>1, ListOf
<1>4. Triggers({p}) = Chain(2, lists) BY <1>1 DEF Triggers
<1>5. PICK k \in DOMAIN Chain(2, lists) : ChainsAt(Chain(2, lists), lists, k, 1, 2)
  <2>1. 1 \in 1..1 /\ 2 \in 1..2 /\ 1 \in Nat OBVIOUS
  <2> HIDE DEF lists
  <2> QED BY <1>3, <2>1, ChainList
<1>6. lists[1][2] = Stmt("recount", p[1], p[2]) BY <1>2
<1>7. Chain(2, lists)[k] = Stmt("recount", p[1], p[2]) BY <1>5, <1>6 DEF ChainsAt
<1>8. Chain(2, lists)[k] \in ToSet(Chain(2, lists))
  <2> HIDE DEF lists
  <2> QED BY <1>5 DEF ToSet
<1> HIDE DEF lists
<1> QED BY <1>4, <1>7, <1>8 DEF Stmt

\* Assignments are ended, all those of the room by a statement that clears or drops it.
LEMMA RunsEnd ==
    ASSUME NEW w, NEW v, NEW n, NEW P,
           NEW capacity \in [Room -> Int], NEW rows \in SUBSET (Student \X Room), NEW housed,
           WorkInv(w, capacity, rows, housed), Runs(w, v, n), Syncs(n),
           Head(w.todo).do \in {"end", "remove", "clear", "drop"},
           Head(w.todo).do \in {"clear", "drop"} =>
              SeenBy(w, rows) \cap in(Head(w.todo).room) \subseteq P,
           v.ended = w.ended \cup (P \cap rows), v.made = w.made \ P,
           v.occupancy = w.occupancy, v.allotted = w.allotted,
           IF Head(w.todo).do = "drop"
           THEN v.dropped = w.dropped \cup {Head(w.todo).room} /\ Head(w.todo).room \in v.locked
           ELSE v.dropped = w.dropped
    PROVE  WorkInv(v, capacity, rows, housed)
<1>1. /\ WorkType(w) /\ KindInv(w) /\ GuardInv(w, capacity) /\ DropInv(w, rows)
      /\ WriteInv(w, capacity)
      /\ CountInv(w, capacity, rows) /\ ClearInv(w, rows) /\ MoveInv(w, housed)
  BY DEF WorkInv
<1>2. \A x \in ToSet(n) : StmtType(x) /\ x.do \in Trigger BY DEF Syncs, Trigger
<1>3. Head(w.todo).do \in {"clear", "drop"} => rows \cap in(Head(w.todo).room) \subseteq v.ended
  BY DEF SeenBy
<1>4. WorkType(v)
  <2>1. /\ v.ended \subseteq Student \X Room /\ v.made \subseteq Student \X Room
        /\ v.occupancy \in [Room -> Int] /\ v.allotted \in [Student -> Int]
    BY <1>1 DEF WorkType
  <2> QED BY <1>1, <1>2, <2>1, RunsType
<1>5. KindInv(v)
  <2>1. Head(w.todo).do = "drop" => w.op = "delete"
    <3>1. Head(w.todo) \in ToSet(w.todo) BY <1>1, RunsList
    <3> QED BY <1>1, <3>1 DEF KindInv
  <2>2. v.dropped = w.dropped \/ w.op = "delete" BY <2>1
  <2>3. v.made \subseteq w.made OBVIOUS
  <2> QED BY <1>1, <1>2, <2>2, <2>3, RunsKind
<1>6. GuardInv(v, capacity)
  <2>1. \A i \in DOMAIN n : n[i].do # "insert" BY DEF Syncs, ToSet
  <2>2. Head(w.todo).do # "notfull" OBVIOUS
  <2>3. \A p \in v.made : p \in w.made OBVIOUS
  <2> QED BY <1>1, <2>1, <2>2, <2>3, RunsGuard
<1>7. DropInv(v, rows)
  <2>1. \A r \in v.dropped : r \in w.dropped \/ (r \in v.locked /\ rows \cap in(r) \subseteq v.ended)
    BY <1>3
  <2> QED BY <1>1, <2>1, RunsDrop
<1>8. WriteInv(v, capacity) BY <1>1, RunsWrite
<1>9. CountInv(v, capacity, rows)
  <2>1. \A r \in Room : v.made \cap in(r) # {} =>
           /\ w.made \cap in(r) # {}
           /\ SeenBy(v, rows) \cap in(r) \subseteq SeenBy(w, rows) \cap in(r)
    BY DEF SeenBy
  <2>2. Head(w.todo).do # "recount" /\ Head(w.todo).do # "occupancy" OBVIOUS
  <2> QED BY <1>1, <1>4, <2>1, <2>2, RunsCount
<1>10. ClearInv(v, rows)
  <2>1. Head(w.todo).do # "lock" OBVIOUS
  <2> QED BY <1>1, <1>3, <2>1, RunsClear
<1>11. MoveInv(v, housed)
  <2>1. Head(w.todo).do # "claim" OBVIOUS
  <2> QED BY <1>1, <2>1, RunsMove
<1> QED BY <1>4, <1>5, <1>6, <1>7, <1>8, <1>9, <1>10, <1>11 DEF WorkInv

\* A row is inserted, and its room is counted afterwards.
LEMMA RunsInsert ==
    ASSUME NEW w, NEW v, NEW n, NEW p \in Student \X Room,
           NEW capacity \in [Room -> Int], NEW rows \in SUBSET (Student \X Room), NEW housed,
           WorkInv(w, capacity, rows, housed), Runs(w, v, n), Syncs(n),
           Head(w.todo).do = "insert", Head(w.todo).room = p[2],
           \E x \in ToSet(n) : x.do = "recount" /\ x.room = p[2],
           v.ended = w.ended, v.made = w.made \cup {p}, v.dropped = w.dropped,
           v.occupancy = w.occupancy, v.allotted = w.allotted
    PROVE  WorkInv(v, capacity, rows, housed)
<1>1. /\ WorkType(w) /\ KindInv(w) /\ GuardInv(w, capacity) /\ DropInv(w, rows)
      /\ WriteInv(w, capacity)
      /\ CountInv(w, capacity, rows) /\ ClearInv(w, rows) /\ MoveInv(w, housed)
  BY DEF WorkInv
<1>2. \A x \in ToSet(n) : StmtType(x) /\ x.do \in Trigger BY DEF Syncs, Trigger
<1>3. WorkType(v)
  <2>1. /\ v.ended \subseteq Student \X Room /\ v.made \subseteq Student \X Room
        /\ v.occupancy \in [Room -> Int] /\ v.allotted \in [Student -> Int]
    BY <1>1 DEF WorkType
  <2> QED BY <1>1, <1>2, <2>1, RunsType
<1>4. KindInv(v)
  <2>1. w.op \notin {"delete", "rollback"}
    <3>1. Head(w.todo) \in ToSet(w.todo) BY <1>1, RunsList
    <3> QED BY <1>1, <3>1 DEF KindInv, Trigger
  <2> QED BY <1>1, <1>2, <2>1, RunsKind
<1>5. GuardInv(v, capacity)
  <2>1. \A i \in DOMAIN n : n[i].do # "insert" BY DEF Syncs, ToSet
  <2>2. Head(w.todo).do # "notfull" OBVIOUS
  <2>3. Holds(w, p[2], capacity)
    <3>1. Head(w.todo) = w.todo[1] /\ 1 \in DOMAIN w.todo BY <1>1, RunsList
    <3>2. ~ Precedes(w.todo, "notfull", p[2], 1) BY DEF Precedes
    <3> QED BY <1>1, <3>1, <3>2 DEF GuardInv
  <2>4. Holds(v, p[2], capacity) BY <2>3 DEF Holds, Runs
  <2>5. \A q \in v.made : q \in w.made \/ Holds(v, q[2], capacity) BY <2>4
  <2> QED BY <1>1, <2>1, <2>2, <2>5, RunsGuard
<1>6. DropInv(v, rows)
  <2>1. \A r \in v.dropped : r \in w.dropped OBVIOUS
  <2> QED BY <1>1, <2>1, RunsDrop
<1>7. WriteInv(v, capacity) BY <1>1, RunsWrite
<1>8. CountInv(v, capacity, rows)
  <2>1. ASSUME NEW r \in Room, v.made \cap in(r) # {}
        PROVE  \/ \E x \in ToSet(n) : x.do = "recount" /\ x.room = r
               \/ /\ w.made \cap in(r) # {}
                  /\ SeenBy(v, rows) \cap in(r) \subseteq SeenBy(w, rows) \cap in(r)
    <3>1. CASE r = p[2] BY <3>1
    <3>2. CASE r # p[2]
      <4>1. p \notin in(r) BY <3>2 DEF in
      <4> QED BY <2>1, <4>1 DEF SeenBy
    <3> QED BY <3>1, <3>2
  <2>2. Head(w.todo).do # "recount" /\ Head(w.todo).do # "occupancy" OBVIOUS
  <2> QED BY <1>1, <1>3, <2>1, <2>2, RunsCount
<1>9. ClearInv(v, rows)
  <2>1. Head(w.todo).do # "lock" /\ Head(w.todo).do # "clear" OBVIOUS
  <2> QED BY <1>1, <2>1, RunsClear
<1>10. MoveInv(v, housed)
  <2>1. Head(w.todo).do # "claim" OBVIOUS
  <2> QED BY <1>1, <2>1, RunsMove
<1> QED BY <1>3, <1>4, <1>5, <1>6, <1>7, <1>8, <1>9, <1>10 DEF WorkInv

-----------------------------------------------------------------------------
(* Statements.                                                             *)

\* What the invariant says of one transaction.
LEMMA OneInv ==
    ASSUME Inv, NEW t \in Txn
    PROVE  /\ WorkInv(txn[t], max_capacity, room_assignment, is_allotted)
           /\ WorkType(txn[t]) /\ Columns(txn[t])
           /\ max_capacity \in [Room -> Int] /\ room_assignment \in SUBSET (Student \X Room)
           /\ past \in SUBSET (Student \X Room)
<1>1. WorkInv(txn[t], max_capacity, room_assignment, is_allotted) BY DEF Inv
<1>2. WorkType(txn[t]) /\ Columns(txn[t]) BY <1>1 DEF WorkInv, WorkType
<1>3. max_capacity \in [Room -> Int]
  <2>1. {-1, 0} \cup Capacity \subseteq Int BY RoomAssumption
  <2> QED BY <2>1 DEF Inv, TablesType
<1> QED BY <1>1, <1>2, <1>3 DEF Inv, TablesType

\* A transaction goes on with the tables as they are and with locks that nobody has.
LEMMA OneGoesOn ==
    ASSUME Inv, NEW t \in Txn, NEW v, UNCHANGED tables, txn' = [txn EXCEPT ![t] = v],
           WorkInv(v, max_capacity, room_assignment, is_allotted),
           \A u \in Txn \ {t} : /\ v.locked \cap txn[u].locked \subseteq txn[t].locked
                                /\ v.claimed \cap txn[u].claimed \subseteq txn[t].claimed
    PROVE  Inv'
<1>1. /\ txn'[t] = v /\ \A u \in Txn \ {t} : txn'[u] = txn[u]
      /\ txn' = [u \in Txn |-> txn'[u]]
  BY DEF Inv
<1>2. TablesType' /\ TablesInv' BY DEF Inv, TablesType, TablesInv, tables, Exists
<1>3. \A u \in Txn : WorkInv(txn'[u], max_capacity', room_assignment', is_allotted')
  BY <1>1 DEF Inv, tables
<1>4. LockInv'
  <2>1. \A u \in Txn \ {t} : v.locked \cap txn[u].locked = {} /\ v.claimed \cap txn[u].claimed = {}
    BY DEF Inv, LockInv
  <2> QED BY <1>1, <2>1 DEF Inv, LockInv
<1> QED BY <1>1, <1>2, <1>3, <1>4 DEF Inv

\* Nothing is said of a transaction that has not begun.
LEMMA ClosedInv ==
    ASSUME NEW capacity, NEW rows, NEW housed
    PROVE  WorkInv(Closed, capacity, rows, housed)
<1>1. /\ Columns(Closed) /\ Closed.todo = <<>> /\ Closed.op = "none" /\ Closed.locked = {}
      /\ Closed.made = {} /\ Closed.ended = {} /\ Closed.dropped = {} /\ Closed.layout = {}
      /\ Closed.occupancy = [r \in Room |-> NotWritten]
      /\ Closed.allotted = [s \in Student |-> NotWritten]
  BY DEF Closed, Columns
<1>2. ToSet(Closed.todo) = {} /\ DOMAIN Closed.todo = {} BY <1>1 DEF ToSet
<1>3. Closed.todo \in Seq(ToSet(Closed.todo)) BY <1>1
<1>4. NotWritten \in Int BY DEF NotWritten
<1>5. WorkType(Closed) BY <1>1, <1>2, <1>3, <1>4 DEF WorkType
<1>6. KindInv(Closed) /\ GuardInv(Closed, capacity) /\ DropInv(Closed, rows)
  BY <1>1, <1>2 DEF KindInv, GuardInv, DropInv
<1>7. WriteInv(Closed, capacity) /\ CountInv(Closed, capacity, rows)
  BY <1>1, <1>2 DEF WriteInv, CountInv
<1>8. ClearInv(Closed, rows) /\ MoveInv(Closed, housed) BY <1>1 DEF ClearInv, MoveInv
<1> QED BY <1>5, <1>6, <1>7, <1>8 DEF WorkInv

LEMMA RollbackInv ==
    ASSUME Inv, NEW t \in Txn, Rollback(t), UNCHANGED tables
    PROVE  Inv'
<1>1. Closed.locked = {} /\ Closed.claimed = {} BY DEF Closed
<1> QED BY <1>1, ClosedInv, OneGoesOn DEF Rollback

\* What a free transaction waits for is locked by nobody else.
LEMMA FreeRoom ==
    ASSUME NEW t \in Txn, NEW u \in Txn \ {t}, Free(t),
           At(t, {"notfull", "empty", "lock", "drop", "occupancy"})
    PROVE  head(t).room \notin txn[u].locked
BY DEF Free, WaitsFor

LEMMA FreeStudent ==
    ASSUME NEW t \in Txn, NEW u \in Txn \ {t}, Free(t), At(t, {"claim", "snapshot"})
    PROVE  head(t).student \notin txn[u].claimed
BY DEF Free, WaitsFor

\* Empty lists.
LEMMA NoneList ==
    List(<<>>) /\ ToSet(<<>>) = {} /\ DOMAIN <<>> = {}
BY DEF List, ToSet

LEMMA OneList ==
    ASSUME NEW x
    PROVE  List(<<x>>) /\ ToSet(<<x>>) = {x} /\ DOMAIN <<x>> = {1} /\ <<x>>[1] = x
BY DEF List, ToSet

\* w is a with the rooms L and the students C locked.
Locks(a, w, L, C) ==
    /\ Columns(w) /\ w.todo = a.todo
    /\ w.op = a.op /\ w.student = a.student /\ w.rooms = a.rooms /\ w.layout = a.layout
    /\ w.locked = a.locked \cup L /\ w.claimed = a.claimed \cup C
    /\ w.ended = a.ended /\ w.made = a.made /\ w.dropped = a.dropped
    /\ w.occupancy = a.occupancy /\ w.allotted = a.allotted

\* t's head may lock the rooms L and the students C and put n in front of the list.
Ready(t, n, L, C) ==
    /\ txn[t].todo # <<>> /\ List(n) /\ Allowed(n, txn[t].op) /\ Guarded(n)
    /\ \A u \in Txn \ {t} : L \cap txn[u].locked = {} /\ C \cap txn[u].claimed = {}
    /\ head(t).do \notin {"clear", "occupancy"}
    /\ head(t).do = "notfull" => head(t).room \in L /\ Exists(head(t).room)
    /\ head(t).do = "lock" => head(t).room \in L
    /\ head(t).do = "claim" =>
          head(t).student \in C /\ (head(t).student \in Student => ~ is_allotted[head(t).student])
    /\ head(t).do = "recount" => Counted(n, txn[t], room_assignment, head(t).room)

\* A statement that only locks, counts or looks up.
LEMMA QuietStep ==
    ASSUME Inv, NEW t \in Txn, NEW n, NEW L, NEW C, NEW w, Locks(txn[t], w, L, C),
           Go(t, n, w), UNCHANGED tables, Ready(t, n, L, C)
    PROVE  Inv'
<1>1. PICK v : v = [w EXCEPT !.todo = n \o Tail(@)] OBVIOUS
<1>2. Columns(w) BY DEF Locks
<1>3. /\ Columns(v) /\ v.todo = n \o Tail(w.todo)
      /\ v.op = w.op /\ v.student = w.student /\ v.rooms = w.rooms /\ v.layout = w.layout
      /\ v.locked = w.locked /\ v.claimed = w.claimed
      /\ v.ended = w.ended /\ v.made = w.made /\ v.dropped = w.dropped
      /\ v.occupancy = w.occupancy /\ v.allotted = w.allotted
  BY <1>1, <1>2 DEF Columns
<1>4. Runs(txn[t], v, n) BY <1>3 DEF Locks, Runs, Ready
<1>5. /\ v.ended = txn[t].ended /\ v.made = txn[t].made /\ v.dropped = txn[t].dropped
      /\ v.occupancy = txn[t].occupancy /\ v.allotted = txn[t].allotted
      /\ v.locked = txn[t].locked \cup L /\ v.claimed = txn[t].claimed \cup C
  BY <1>3 DEF Locks
<1>6. txn' = [txn EXCEPT ![t] = v] BY <1>1 DEF Go
<1>7. WorkInv(v, max_capacity, room_assignment, is_allotted)
  <2>1. WriteInv(v, max_capacity) BY <1>4, <1>5, OneInv, RunsWrite DEF WorkInv
  <2>2. v.occupancy \in [Room -> Int] /\ v.allotted \in [Student -> Int]
    BY <1>5, OneInv DEF WorkType
  <2>3. Head(txn[t].todo).do = "notfull" => Holds(v, Head(txn[t].todo).room, max_capacity)
    BY <1>5 DEF head, Holds, Exists, Ready
  <2> QED BY <1>4, <1>5, <2>1, <2>2, <2>3, OneInv, RunsInv DEF head, Ready
<1> QED BY <1>5, <1>6, <1>7, OneGoesOn DEF Ready

LEMMA LockStep ==
    ASSUME Inv, NEW t \in Txn, NEW L, NEW C, NEW w, Locks(txn[t], w, L, C),
           Go(t, <<>>, w), UNCHANGED tables, txn[t].todo # <<>>,
           \A u \in Txn \ {t} : L \cap txn[u].locked = {} /\ C \cap txn[u].claimed = {},
           NEW do, head(t).do = do, do \in {"notfull", "lock", "claim"},
           do = "notfull" => head(t).room \in L /\ Exists(head(t).room),
           do = "lock" => head(t).room \in L,
           do = "claim" =>
              head(t).student \in C /\ (head(t).student \in Student => ~ is_allotted[head(t).student])
    PROVE  Inv'
<1>1. PICK n : n = <<>> OBVIOUS
<1>2. List(n) /\ ToSet(n) = {} /\ DOMAIN n = {} BY <1>1, NoneList
<1>3. Allowed(n, txn[t].op) /\ Guarded(n) BY <1>2 DEF Allowed, Guarded
<1>4. Go(t, n, w) BY <1>1
<1>5. head(t).do \notin {"clear", "occupancy", "recount"} OBVIOUS
<1>6. Ready(t, n, L, C) BY <1>2, <1>3, <1>5 DEF Ready
<1> QED BY <1>4, <1>6, QuietStep

LEMMA LockRoomInv ==
    ASSUME Inv, NEW t \in Txn, LockRoom(t)
    PROVE  Inv'
<1>1. PICK r : r = head(t).room OBVIOUS
<1>2. CASE Exists(r) /\ ~ Full(t, r)
  <2>1. PICK a : a = txn[t] OBVIOUS
  <2>2. PICK w : w = [a EXCEPT !.locked = @ \cup {r}] OBVIOUS
  <2>3. Columns(a) BY <2>1, OneInv
  <2>4. PICK L, C : L = {r} /\ C = {} OBVIOUS
  <2>5. Locks(txn[t], w, L, C) BY <2>1, <2>2, <2>3, <2>4 DEF Locks, Columns
  <2>6. Go(t, <<>>, w) BY <1>1, <1>2, <2>1, <2>2 DEF LockRoom
  <2>7. txn[t].todo # <<>> /\ head(t).do = "notfull" /\ Free(t) BY DEF LockRoom, At
  <2>8. \A u \in Txn \ {t} : L \cap txn[u].locked = {} /\ C \cap txn[u].claimed = {}
    BY <1>1, <2>4, <2>7, FreeRoom DEF At
  <2>9. UNCHANGED tables /\ head(t).room \in L /\ Exists(head(t).room)
    BY <1>1, <1>2, <2>4 DEF LockRoom
  <2> QED BY <2>5, <2>6, <2>7, <2>8, <2>9, LockStep
<1>3. CASE ~ (Exists(r) /\ ~ Full(t, r))
  <2>1. Rollback(t) /\ UNCHANGED tables BY <1>1, <1>3 DEF LockRoom
  <2> QED BY <2>1, RollbackInv
<1> QED BY <1>2, <1>3

LEMMA LockForRollbackInv ==
    ASSUME Inv, NEW t \in Txn, LockForRollback(t)
    PROVE  Inv'
<1>1. PICK r : r = head(t).room OBVIOUS
<1>2. PICK a : a = txn[t] OBVIOUS
<1>3. PICK w : w = [a EXCEPT !.locked = @ \cup {r}] OBVIOUS
<1>4. Columns(a) BY <1>2, OneInv
<1>5. PICK L, C : L = {r} /\ C = {} OBVIOUS
<1>6. Locks(txn[t], w, L, C) BY <1>2, <1>3, <1>4, <1>5 DEF Locks, Columns
<1>7. Go(t, <<>>, w) BY <1>1, <1>2, <1>3 DEF LockForRollback
<1>8. txn[t].todo # <<>> /\ head(t).do = "lock" /\ Free(t) BY DEF LockForRollback, At
<1>9. \A u \in Txn \ {t} : L \cap txn[u].locked = {} /\ C \cap txn[u].claimed = {}
  BY <1>1, <1>5, <1>8, FreeRoom DEF At
<1>10. UNCHANGED tables /\ head(t).room \in L BY <1>1, <1>5 DEF LockForRollback
<1> QED BY <1>6, <1>7, <1>8, <1>9, <1>10, LockStep

LEMMA ClaimStudentInv ==
    ASSUME Inv, NEW t \in Txn, ClaimStudent(t)
    PROVE  Inv'
<1>1. PICK s : s = head(t).student OBVIOUS
<1>2. CASE ~ is_allotted[s]
  <2>1. PICK a : a = txn[t] OBVIOUS
  <2>2. PICK w : w = [a EXCEPT !.claimed = @ \cup {s}] OBVIOUS
  <2>3. Columns(a) BY <2>1, OneInv
  <2>4. PICK L, C : L = {} /\ C = {s} OBVIOUS
  <2>5. Locks(txn[t], w, L, C) BY <2>1, <2>2, <2>3, <2>4 DEF Locks, Columns
  <2>6. Go(t, <<>>, w) BY <1>1, <1>2, <2>1, <2>2 DEF ClaimStudent
  <2>7. txn[t].todo # <<>> /\ head(t).do = "claim" /\ Free(t) BY DEF ClaimStudent, At
  <2>8. \A u \in Txn \ {t} : L \cap txn[u].locked = {} /\ C \cap txn[u].claimed = {}
    BY <1>1, <2>4, <2>7, FreeStudent DEF At
  <2>9. UNCHANGED tables /\ head(t).student \in C /\ ~ is_allotted[head(t).student]
    BY <1>1, <1>2, <2>4 DEF ClaimStudent
  <2> QED BY <2>5, <2>6, <2>7, <2>8, <2>9, LockStep
<1>3. CASE is_allotted[s]
  <2>1. Rollback(t) /\ UNCHANGED tables BY <1>1, <1>3 DEF ClaimStudent
  <2> QED BY <2>1, RollbackInv
<1> QED BY <1>2, <1>3

\* The statements of a plan lock a room before they insert into it.
LEMMA CallsGuarded ==
    ASSUME NEW calls, NEW m \in Nat, List(calls), Len(calls) = m, NEW r \in Room,
           \A i \in 1..m : \E s : calls[i] = Assign(s, r),
           NEW n, n = Chain(3, calls)
    PROVE  /\ List(n)
           /\ \A x \in ToSet(n) : StmtType(x) /\ x.do \in {"notfull", "end", "insert"}
           /\ Guarded(n)
<1>1. /\ List(n)
      /\ \A k \in DOMAIN n : \E i \in 1..m : \E j \in 1..3 : ChainsAt(n, calls, k, i, j)
  BY ChainList
<1>2. ASSUME NEW k \in DOMAIN n
      PROVE  /\ StmtType(n[k]) /\ n[k].do \in {"notfull", "end", "insert"}
             /\ n[k].do = "insert" => Precedes(n, "notfull", n[k].room, k)
  <2>1. PICK i \in 1..m, j \in 1..3 : ChainsAt(n, calls, k, i, j) BY <1>1
  <2>2. PICK s : calls[i] = Assign(s, r) OBVIOUS
  <2>3. /\ calls[i][1] = Stmt("notfull", s, r) /\ calls[i][2] = Stmt("end", s, r)
        /\ calls[i][3] = Stmt("insert", s, r)
    BY <2>2 DEF Assign
  <2>4. n[k] = calls[i][j] /\ j \in {1, 2, 3} BY <2>1 DEF ChainsAt
  <2>5. \/ n[k] = Stmt("notfull", s, r) \/ n[k] = Stmt("end", s, r)
        \/ n[k] = Stmt("insert", s, r) /\ j = 3
    BY <2>3, <2>4
  <2>6. StmtType(n[k]) /\ n[k].do \in {"notfull", "end", "insert"} /\ n[k].room = r
    BY <2>5 DEF Stmt, StmtType
  <2>7. n[k].do = "insert" => j = 3 BY <2>5 DEF Stmt
  <2>8. ASSUME j = 3 PROVE Precedes(n, "notfull", r, k)
    <3>1. 1 \in 1..(j - 1) BY <2>8
    <3>2. PICK g \in 1..(k - 1) : n[g] = calls[i][1] BY <2>1, <3>1 DEF ChainsAt
    <3>3. n[g].do = "notfull" /\ n[g].room = r BY <2>3, <3>2 DEF Stmt
    <3> QED BY <3>3 DEF Precedes
  <2> QED BY <2>6, <2>7, <2>8
<1> QED BY <1>1, <1>2 DEF ToSet, Guarded

LEMMA LockEmptyRoomInv ==
    ASSUME Inv, NEW t \in Txn, LockEmptyRoom(t)
    PROVE  Inv'
<1>1. PICK r : r = head(t).room OBVIOUS
<1>2. PICK a : a = txn[t] OBVIOUS
<1>3. /\ txn[t].todo # <<>> /\ head(t).do = "empty" /\ Free(t) /\ UNCHANGED tables
      /\ head(t) \in ToSet(txn[t].todo)
  <2>1. txn[t].todo # <<>> /\ head(t).do = "empty" /\ Free(t) /\ UNCHANGED tables
    BY DEF LockEmptyRoom, At
  <2>2. List(txn[t].todo) BY OneInv DEF WorkType, List
  <2>3. head(t) \in ToSet(txn[t].todo) BY <2>1, <2>2, ListHead DEF head
  <2> QED BY <2>1, <2>3
<1>4. CASE ~ Exists(r)
  <2>1. Rollback(t) BY <1>1, <1>4 DEF LockEmptyRoom
  <2> QED BY <1>3, <2>1, RollbackInv
<1>5. CASE Exists(r)
  <2> DEFINE calls(layout) == IF OccupancySeen(t, r) # 0 THEN <<>>
                              ELSE [i \in 1..layout.capacity |-> Assign(txn[t].plan[r][i], r)]
  <2>1. PICK layout \in txn[t].layout :
           Go(t, Chain(3, calls(layout)), [txn[t] EXCEPT !.locked = @ \cup {r}])
    BY <1>1, <1>5 DEF LockEmptyRoom
  <2>2. PICK w : w = [a EXCEPT !.locked = @ \cup {r}] OBVIOUS
  <2>3. Columns(a) BY <1>2, OneInv
  <2>4. Locks(a, w, {r}, {}) BY <2>2, <2>3 DEF Locks, Columns
  <2>5. PICK n : n = Chain(3, calls(layout)) OBVIOUS
  <2>6. Go(t, n, w) BY <1>2, <2>1, <2>2, <2>5
  <2>7. r \in Room /\ layout.capacity \in Nat
    <3>1. WorkType(txn[t]) BY OneInv
    <3>2. r \in Room BY <1>1, <1>3, <3>1 DEF WorkType
    <3>3. layout.capacity \in 1..6 BY <3>1 DEF WorkType
    <3> QED BY <3>2, <3>3
  <2>8. /\ List(n)
        /\ \A x \in ToSet(n) : StmtType(x) /\ x.do \in {"notfull", "end", "insert"}
        /\ Guarded(n)
    <3>1. CASE OccupancySeen(t, r) # 0
      <4>1. calls(layout) = <<>> /\ Len(<<>>) = 0 /\ 0 \in Nat /\ 1..0 = {} BY <3>1
      <4> HIDE DEF calls
      <4> QED BY <2>5, <2>7, <4>1, NoneList, CallsGuarded
    <3>2. CASE ~ (OccupancySeen(t, r) # 0)
      <4>1. calls(layout) = [i \in 1..layout.capacity |-> Assign(txn[t].plan[r][i], r)] BY <3>2
      <4>2. /\ DOMAIN calls(layout) = 1..layout.capacity
            /\ calls(layout) = [i \in 1..layout.capacity |-> calls(layout)[i]]
            /\ \A i \in 1..layout.capacity : calls(layout)[i] = Assign(txn[t].plan[r][i], r)
        BY <4>1
      <4> HIDE DEF calls
      <4>3. List(calls(layout)) /\ Len(calls(layout)) = layout.capacity BY <2>7, <4>2, ListOf
      <4>4. \A i \in 1..layout.capacity : \E s : calls(layout)[i] = Assign(s, r) BY <4>2
      <4> QED BY <2>5, <2>7, <4>3, <4>4, CallsGuarded
    <3> QED BY <3>1, <3>2
  <2>9. \A u \in Txn \ {t} : {r} \cap txn[u].locked = {} BY <1>1, <1>3, FreeRoom DEF At
  <2>10. txn[t].op \notin {"delete", "rollback"}
    BY <1>3, OneInv DEF WorkInv, KindInv, Trigger
  <2>11. Allowed(n, txn[t].op) BY <2>8, <2>10 DEF Allowed
  <2>12. PICK L, C : L = {r} /\ C = {} OBVIOUS
  <2>13. Locks(txn[t], w, L, C) BY <1>2, <2>4, <2>12
  <2>14. \A u \in Txn \ {t} : L \cap txn[u].locked = {} /\ C \cap txn[u].claimed = {}
    BY <2>9, <2>12
  <2>15. Ready(t, n, L, C) BY <1>3, <2>8, <2>11, <2>14 DEF Ready
  <2> HIDE DEF calls
  <2> QED BY <1>3, <2>6, <2>13, <2>15, QuietStep
<1> QED BY <1>4, <1>5

\* The statement that is run is one of the list.
LEMMA HeadType ==
    ASSUME Inv, NEW t \in Txn, txn[t].todo # <<>>
    PROVE  StmtType(head(t)) /\ head(t) \in ToSet(txn[t].todo)
<1>1. List(txn[t].todo) BY OneInv DEF WorkType, List
<1>2. head(t) \in ToSet(txn[t].todo) BY <1>1, ListHead DEF head
<1> QED BY <1>2, OneInv DEF WorkType, StmtType

\* A statement of a trigger counts, and what it has counted is written next.
LEMMA CountStep ==
    ASSUME Inv, NEW t \in Txn, UNCHANGED tables, txn[t].todo # <<>>,
           NEW x, StmtType(x), x.do \in Trigger, Go(t, <<x>>, txn[t]),
           NEW do, head(t).do = do, do \in {"sync", "recount"},
           do = "recount" =>
              /\ x.do = "occupancy" /\ x.room = head(t).room
              /\ x.value = Cardinality(SeenBy(txn[t], room_assignment) \cap in(head(t).room))
    PROVE  Inv'
<1>1. PICK n : n = <<x>> OBVIOUS
<1>2. List(n) /\ ToSet(n) = {x} /\ DOMAIN n = {1} /\ n[1] = x BY <1>1, OneList
<1>3. PICK L, C : L = {} /\ C = {} OBVIOUS
<1>4. PICK w : w = txn[t] OBVIOUS
<1>5. Locks(txn[t], w, L, C) BY <1>3, <1>4, OneInv DEF Locks
<1>6. \A u \in Txn \ {t} : L \cap txn[u].locked = {} /\ C \cap txn[u].claimed = {} BY <1>3
<1>7. Allowed(n, txn[t].op) BY <1>2 DEF Allowed
<1>8. Guarded(n) BY <1>2 DEF Guarded, Trigger
<1>9. head(t).do = "recount" => Counted(n, txn[t], room_assignment, head(t).room)
  BY <1>2 DEF Counted
<1>10. Ready(t, n, L, C) BY <1>2, <1>6, <1>7, <1>8, <1>9 DEF Ready
<1>11. Go(t, n, w) BY <1>1, <1>4
<1> QED BY <1>5, <1>10, <1>11, QuietStep

\* What a transaction sees is finite.
LEMMA SeenFinite ==
    ASSUME Inv, NEW t \in Txn, NEW S
    PROVE  /\ Seen(t) = SeenBy(txn[t], room_assignment)
           /\ Seen(t) \in SUBSET (Student \X Room)
           /\ Cardinality(Seen(t) \cap S) \in Nat
           /\ \A r : Cardinality(Seen(t) \cap in(r)) \in 0..Cardinality(Student)
<1>1. Seen(t) = SeenBy(txn[t], room_assignment) BY DEF Seen, SeenBy
<1>2. Seen(t) \in SUBSET (Student \X Room) BY OneInv DEF Seen, WorkType
<1>3. Seen(t) \cap S \in SUBSET (Student \X Room) BY <1>2
<1>4. Cardinality(Seen(t) \cap S) \in Nat BY <1>3, Bookings
<1> QED BY <1>1, <1>2, <1>4, Bookings

LEMMA LookupInv ==
    ASSUME Inv, NEW t \in Txn, Lookup(t)
    PROVE  Inv'
<1>1. PICK h : h = head(t) OBVIOUS
<1>2. PICK value : value = Cardinality(Seen(t) \cap of(h.student)) OBVIOUS
<1>3. PICK x : x = [h EXCEPT !.do = "snapshot", !.value = value] OBVIOUS
<1>4. txn[t].todo # <<>> /\ h.do = "sync" /\ UNCHANGED tables BY <1>1 DEF Lookup, At
<1>5. StmtType(h) BY <1>1, <1>4, HeadType
<1>6. value \in Nat BY <1>2, SeenFinite
<1>7. StmtType(x) /\ x.do = "snapshot" BY <1>3, <1>5, <1>6 DEF StmtType
<1>8. Go(t, <<x>>, txn[t]) BY <1>1, <1>2, <1>3 DEF Lookup
<1>9. x.do \in Trigger BY <1>7 DEF Trigger
<1> QED BY <1>1, <1>4, <1>7, <1>8, <1>9, CountStep

LEMMA RecountInv ==
    ASSUME Inv, NEW t \in Txn, Recount(t)
    PROVE  Inv'
<1>1. PICK h : h = head(t) OBVIOUS
<1>2. PICK value : value = Cardinality(Seen(t) \cap in(h.room)) OBVIOUS
<1>3. PICK x : x = [h EXCEPT !.do = "occupancy", !.value = value] OBVIOUS
<1>4. txn[t].todo # <<>> /\ h.do = "recount" /\ UNCHANGED tables BY <1>1 DEF Recount, At
<1>5. StmtType(h) BY <1>1, <1>4, HeadType
<1>6. value \in 0..Cardinality(Student) BY <1>2, SeenFinite
<1>7. StmtType(x) /\ x.do = "occupancy" /\ x.room = h.room /\ x.value = value
  BY <1>3, <1>5, <1>6 DEF StmtType
<1>8. Go(t, <<x>>, txn[t]) BY <1>1, <1>2, <1>3 DEF Recount
<1>9. x.do \in Trigger BY <1>7 DEF Trigger
<1>10. value = Cardinality(SeenBy(txn[t], room_assignment) \cap in(h.room)) BY <1>2, SeenFinite
<1> QED BY <1>1, <1>4, <1>7, <1>8, <1>9, <1>10, CountStep

\* The rows that are changed are those that t sees, and those that are over.
LEMMA RowsType ==
    ASSUME Inv, NEW t \in Txn
    PROVE  Rows(t) \in SUBSET (Student \X Room)
<1>1. Seen(t) \subseteq Student \X Room /\ past \subseteq Student \X Room BY SeenFinite, OneInv
<1>2. \/ Rows(t) = Seen(t) \cap of(head(t).student)
      \/ Rows(t) = Seen(t) \cap {<<head(t).student, head(t).room>>}
      \/ Rows(t) = Seen(t) \cap in(head(t).room)
      \/ Rows(t) = (Seen(t) \cup past) \cap in(head(t).room)
      \/ Rows(t) = {}
  BY DEF Rows
<1> QED BY <1>1, <1>2

LEMMA EndRowsInv ==
    ASSUME Inv, NEW t \in Txn, EndRows(t)
    PROVE  Inv'
<1>1. PICK a : a = txn[t] OBVIOUS
<1>2. PICK h : h = head(t) OBVIOUS
<1>3. PICK P : P = Rows(t) OBVIOUS
<1>4. PICK n : n = Triggers(P) OBVIOUS
<1>5. PICK D : D = IF h.do = "drop" THEN {h.room} ELSE {} OBVIOUS
<1>6. PICK w : w = [a EXCEPT !.ended = @ \cup (P \cap room_assignment), !.made = @ \ P,
                             !.locked = IF At(t, {"drop"}) THEN @ \cup {h.room} ELSE @,
                             !.dropped = IF At(t, {"drop"}) THEN @ \cup {h.room} ELSE @]
  OBVIOUS
<1>7. PICK v : v = [w EXCEPT !.todo = n \o Tail(@)] OBVIOUS
<1>8. /\ a.todo # <<>> /\ h = Head(a.todo) /\ h.do \in {"end", "remove", "clear", "drop"}
      /\ Free(t) /\ UNCHANGED tables
      /\ At(t, {"drop"}) <=> h.do = "drop"
      /\ At(t, {"clear"}) <=> h.do = "clear"
      /\ At(t, {"end"}) <=> h.do = "end"
      /\ At(t, {"remove"}) <=> h.do = "remove"
  BY <1>1, <1>2 DEF EndRows, At, head
<1>9. Columns(a) /\ WorkInv(a, max_capacity, room_assignment, is_allotted) BY <1>1, OneInv
<1>10. /\ Columns(w) /\ w.todo = a.todo
       /\ w.op = a.op /\ w.student = a.student /\ w.rooms = a.rooms /\ w.layout = a.layout
       /\ w.locked = a.locked \cup D /\ w.claimed = a.claimed /\ w.dropped = a.dropped \cup D
       /\ w.ended = a.ended \cup (P \cap room_assignment) /\ w.made = a.made \ P
       /\ w.occupancy = a.occupancy /\ w.allotted = a.allotted
  <2>1. CASE h.do = "drop"
    <3>1. w = [a EXCEPT !.ended = @ \cup (P \cap room_assignment), !.made = @ \ P,
                        !.locked = @ \cup {h.room}, !.dropped = @ \cup {h.room}]
      BY <1>6, <1>8, <2>1
    <3> QED BY <1>5, <1>9, <2>1, <3>1 DEF Columns
  <2>2. CASE h.do # "drop"
    <3>1. w = [a EXCEPT !.ended = @ \cup (P \cap room_assignment), !.made = @ \ P,
                        !.locked = @, !.dropped = @]
      BY <1>6, <1>8, <2>2
    <3> QED BY <1>5, <1>9, <2>2, <3>1 DEF Columns
  <2> QED BY <2>1, <2>2
<1>11. /\ Columns(v) /\ v.todo = n \o Tail(w.todo)
       /\ v.op = w.op /\ v.student = w.student /\ v.rooms = w.rooms /\ v.layout = w.layout
       /\ v.locked = w.locked /\ v.claimed = w.claimed
       /\ v.ended = w.ended /\ v.made = w.made /\ v.dropped = w.dropped
       /\ v.occupancy = w.occupancy /\ v.allotted = w.allotted
  BY <1>7, <1>10 DEF Columns
<1>12. txn' = [txn EXCEPT ![t] = v] BY <1>1, <1>2, <1>3, <1>4, <1>6, <1>7 DEF EndRows, Go
<1>13. P \in SUBSET (Student \X Room) BY <1>3, RowsType
<1>14. List(n) /\ Syncs(n) BY <1>4, <1>13, TriggersSync
<1>15. Runs(a, v, n) BY <1>8, <1>10, <1>11, <1>14 DEF Runs
<1>16. WorkInv(v, max_capacity, room_assignment, is_allotted)
  <2>1. h.do \in {"clear", "drop"} => SeenBy(a, room_assignment) \cap in(h.room) \subseteq P
    <3>1. SeenBy(a, room_assignment) = Seen(t) BY <1>1, SeenFinite
    <3>2. CASE h.do = "clear" BY <1>2, <1>3, <1>8, <3>1, <3>2 DEF Rows
    <3>3. CASE h.do = "drop" BY <1>2, <1>3, <1>8, <3>1, <3>3 DEF Rows
    <3> QED BY <3>2, <3>3
  <2>2. IF h.do = "drop" THEN v.dropped = a.dropped \cup {h.room} /\ h.room \in v.locked
                         ELSE v.dropped = a.dropped
    BY <1>5, <1>10, <1>11
  <2>3. /\ v.ended = a.ended \cup (P \cap room_assignment) /\ v.made = a.made \ P
        /\ v.occupancy = a.occupancy /\ v.allotted = a.allotted
    BY <1>10, <1>11
  <2>4. max_capacity \in [Room -> Int] /\ room_assignment \in SUBSET (Student \X Room) BY OneInv
  <2> QED BY <1>8, <1>9, <1>14, <1>15, <2>1, <2>2, <2>3, <2>4, RunsEnd
<1>17. ASSUME NEW u \in Txn \ {t}
       PROVE  /\ v.locked \cap txn[u].locked \subseteq txn[t].locked
              /\ v.claimed \cap txn[u].claimed \subseteq txn[t].claimed
  <2>1. h.do = "drop" => h.room \notin txn[u].locked BY <1>2, <1>8, FreeRoom DEF At
  <2> QED BY <1>1, <1>5, <1>10, <1>11, <2>1
<1> QED BY <1>8, <1>12, <1>16, <1>17, OneGoesOn

LEMMA InsertRowInv ==
    ASSUME Inv, NEW t \in Txn, InsertRow(t)
    PROVE  Inv'
<1>1. PICK a : a = txn[t] OBVIOUS
<1>2. PICK p : p = <<head(t).student, head(t).room>> OBVIOUS
<1>3. a.todo # <<>> /\ head(t) = Head(a.todo) /\ head(t).do = "insert" /\ UNCHANGED tables
  BY <1>1 DEF InsertRow, At, head
<1>4. CASE p[1] \in Student /\ Seen(t) \cap of(p[1]) = {}
  <2>1. PICK n : n = Triggers({p}) OBVIOUS
  <2>2. PICK w : w = [a EXCEPT !.made = @ \cup {p}] OBVIOUS
  <2>3. PICK v : v = [w EXCEPT !.todo = n \o Tail(@)] OBVIOUS
  <2>4. Columns(a) /\ WorkInv(a, max_capacity, room_assignment, is_allotted) BY <1>1, OneInv
  <2>5. /\ Columns(w) /\ w.todo = a.todo
        /\ w.op = a.op /\ w.student = a.student /\ w.rooms = a.rooms /\ w.layout = a.layout
        /\ w.locked = a.locked /\ w.claimed = a.claimed /\ w.dropped = a.dropped
        /\ w.ended = a.ended /\ w.made = a.made \cup {p}
        /\ w.occupancy = a.occupancy /\ w.allotted = a.allotted
    BY <2>2, <2>4 DEF Columns
  <2>6. /\ Columns(v) /\ v.todo = n \o Tail(w.todo)
        /\ v.op = w.op /\ v.student = w.student /\ v.rooms = w.rooms /\ v.layout = w.layout
        /\ v.locked = w.locked /\ v.claimed = w.claimed
        /\ v.ended = w.ended /\ v.made = w.made /\ v.dropped = w.dropped
        /\ v.occupancy = w.occupancy /\ v.allotted = w.allotted
    BY <2>3, <2>5 DEF Columns
  <2>7. txn' = [txn EXCEPT ![t] = v] BY <1>1, <1>2, <1>4, <2>1, <2>2, <2>3 DEF InsertRow, Go
  <2>8. p \in Student \X Room
    <3>1. head(t).room \in Room BY <1>1, <1>3, HeadType DEF StmtType
    <3> QED BY <1>2, <1>4, <3>1
  <2>9. List(n) /\ Syncs(n) /\ \E x \in ToSet(n) : x.do = "recount" /\ x.room = p[2]
    <3>1. {p} \in SUBSET (Student \X Room) BY <2>8
    <3> QED BY <2>1, <2>8, <3>1, TriggersSync, TriggersCount
  <2>10. Runs(a, v, n) BY <1>3, <2>5, <2>6, <2>9 DEF Runs
  <2>11. /\ v.ended = a.ended /\ v.made = a.made \cup {p} /\ v.dropped = a.dropped
         /\ v.occupancy = a.occupancy /\ v.allotted = a.allotted
         /\ v.locked = txn[t].locked /\ v.claimed = txn[t].claimed
    BY <1>1, <2>5, <2>6
  <2>12. WorkInv(v, max_capacity, room_assignment, is_allotted)
    <3>1. max_capacity \in [Room -> Int] /\ room_assignment \in SUBSET (Student \X Room) BY OneInv
    <3>2. Head(a.todo).do = "insert" /\ Head(a.todo).room = p[2] BY <1>2, <1>3
    <3> QED BY <2>4, <2>8, <2>9, <2>10, <2>11, <3>1, <3>2, RunsInsert
  <2> QED BY <1>3, <2>7, <2>11, <2>12, OneGoesOn
<1>5. CASE ~ (p[1] \in Student /\ Seen(t) \cap of(p[1]) = {})
  <2>1. Rollback(t) BY <1>2, <1>5 DEF InsertRow
  <2> QED BY <1>3, <2>1, RollbackInv
<1> QED BY <1>4, <1>5

LEMMA WriteSnapshotInv ==
    ASSUME Inv, NEW t \in Txn, WriteSnapshot(t)
    PROVE  Inv'
<1>1. PICK a : a = txn[t] OBVIOUS
<1>2. PICK h : h = head(t) OBVIOUS
<1>3. PICK s : s = h.student OBVIOUS
<1>4. PICK n : n = <<>> OBVIOUS
<1>5. PICK w : w = [a EXCEPT !.allotted[s] = h.value, !.claimed = @ \cup {s}] OBVIOUS
<1>6. PICK v : v = [w EXCEPT !.todo = n \o Tail(@)] OBVIOUS
<1>7. /\ a.todo # <<>> /\ h = Head(a.todo) /\ h.do = "snapshot" /\ Free(t) /\ UNCHANGED tables
  BY <1>1, <1>2 DEF WriteSnapshot, At, head
<1>8. Columns(a) /\ WorkType(a) /\ WorkInv(a, max_capacity, room_assignment, is_allotted)
  BY <1>1, OneInv
<1>9. /\ Columns(w) /\ w.todo = a.todo
      /\ w.op = a.op /\ w.student = a.student /\ w.rooms = a.rooms /\ w.layout = a.layout
      /\ w.locked = a.locked /\ w.claimed = a.claimed \cup {s} /\ w.dropped = a.dropped
      /\ w.ended = a.ended /\ w.made = a.made
      /\ w.occupancy = a.occupancy /\ w.allotted = [a.allotted EXCEPT ![s] = h.value]
  BY <1>5, <1>8 DEF Columns
<1>10. /\ Columns(v) /\ v.todo = n \o Tail(w.todo)
       /\ v.op = w.op /\ v.student = w.student /\ v.rooms = w.rooms /\ v.layout = w.layout
       /\ v.locked = w.locked /\ v.claimed = w.claimed
       /\ v.ended = w.ended /\ v.made = w.made /\ v.dropped = w.dropped
       /\ v.occupancy = w.occupancy /\ v.allotted = w.allotted
  BY <1>6, <1>9 DEF Columns
<1>11. txn' = [txn EXCEPT ![t] = v]
  <2>1. Go(t, n, w) BY <1>1, <1>2, <1>3, <1>4, <1>5 DEF WriteSnapshot
  <2> QED BY <1>6, <2>1 DEF Go
<1>12. List(n) /\ ToSet(n) = {} /\ DOMAIN n = {} BY <1>4, NoneList
<1>13. Runs(a, v, n) BY <1>7, <1>9, <1>10, <1>12 DEF Runs
<1>14. WorkInv(v, max_capacity, room_assignment, is_allotted)
  <2>1. a.allotted \in [Student -> Int] /\ a.occupancy \in [Room -> Int] BY <1>8 DEF WorkType
  <2>2. h.value \in Int
    <3>1. StmtType(h) BY <1>1, <1>2, <1>7, HeadType
    <3> QED BY <1>7, <3>1 DEF StmtType
  <2>3. v.allotted \in [Student -> Int] /\ v.occupancy \in [Room -> Int]
    <3>1. [a.allotted EXCEPT ![s] = h.value]
             = [x \in Student |-> IF x = s THEN h.value ELSE a.allotted[x]]
      BY <2>1
    <3>2. [x \in Student |-> IF x = s THEN h.value ELSE a.allotted[x]] \in [Student -> Int]
      BY <2>1, <2>2
    <3> QED BY <1>9, <1>10, <2>1, <3>1, <3>2
  <2>4. WriteInv(v, max_capacity)
    <3>1. WriteInv(a, max_capacity) BY <1>8 DEF WorkInv
    <3>2. ASSUME NEW x \in Student, v.allotted[x] # NotWritten PROVE x \in v.claimed
      <4>1. CASE x = s BY <1>9, <1>10, <4>1
      <4>2. CASE x # s
        <5>1. v.allotted[x] = a.allotted[x] BY <1>9, <1>10, <2>1, <4>2
        <5> QED BY <1>9, <1>10, <3>1, <3>2, <5>1 DEF WriteInv
      <4> QED BY <4>1, <4>2
    <3> QED BY <1>9, <1>10, <3>1, <3>2 DEF WriteInv, Holds
  <2>5. v.ended = a.ended /\ v.made = a.made /\ v.dropped = a.dropped BY <1>9, <1>10
  <2>6. Allowed(n, a.op) /\ Guarded(n) BY <1>12 DEF Allowed, Guarded
  <2>7. max_capacity \in [Room -> Int] /\ room_assignment \in SUBSET (Student \X Room) BY OneInv
  <2>8. /\ Head(a.todo).do # "clear" /\ Head(a.todo).do # "notfull" /\ Head(a.todo).do # "lock"
        /\ Head(a.todo).do # "claim" /\ Head(a.todo).do # "recount"
        /\ Head(a.todo).do # "occupancy"
    BY <1>7
  <2> QED BY <1>8, <1>13, <2>3, <2>4, <2>5, <2>6, <2>7, <2>8, RunsInv
<1>15. ASSUME NEW u \in Txn \ {t}
       PROVE  /\ v.locked \cap txn[u].locked \subseteq txn[t].locked
              /\ v.claimed \cap txn[u].claimed \subseteq txn[t].claimed
  <2>1. s \notin txn[u].claimed
    <3>1. At(t, {"snapshot"}) BY DEF WriteSnapshot
    <3>2. At(t, {"claim", "snapshot"}) BY <3>1 DEF At
    <3> QED BY <1>2, <1>3, <1>7, <3>2, FreeStudent
  <2> QED BY <1>1, <1>9, <1>10, <2>1
<1> QED BY <1>7, <1>11, <1>14, <1>15, OneGoesOn

LEMMA WriteOccupancyInv ==
    ASSUME Inv, NEW t \in Txn, WriteOccupancy(t)
    PROVE  Inv'
<1>1. PICK a : a = txn[t] OBVIOUS
<1>2. PICK h : h = head(t) OBVIOUS
<1>3. PICK r : r = h.room OBVIOUS
<1>4. PICK n : n = <<>> OBVIOUS
<1>5. /\ a.todo # <<>> /\ h = Head(a.todo) /\ h.do = "occupancy" /\ Free(t) /\ UNCHANGED tables
  BY <1>1, <1>2 DEF WriteOccupancy, At, head
<1>6. Columns(a) /\ WorkType(a) /\ WorkInv(a, max_capacity, room_assignment, is_allotted)
  BY <1>1, OneInv
<1>7. List(n) /\ ToSet(n) = {} /\ DOMAIN n = {} BY <1>4, NoneList
<1>8. Allowed(n, a.op) /\ Guarded(n) BY <1>7 DEF Allowed, Guarded
<1>9. max_capacity \in [Room -> Int] /\ room_assignment \in SUBSET (Student \X Room) BY OneInv
<1>10. /\ Head(a.todo).do # "clear" /\ Head(a.todo).do # "notfull" /\ Head(a.todo).do # "lock"
       /\ Head(a.todo).do # "claim" /\ Head(a.todo).do # "recount"
  BY <1>5
<1>11. CASE ~ Exists(r) \/ r \in a.dropped
  <2>1. PICK v : v = [a EXCEPT !.todo = n \o Tail(@)] OBVIOUS
  <2>2. /\ Columns(v) /\ v.todo = n \o Tail(a.todo)
        /\ v.op = a.op /\ v.student = a.student /\ v.rooms = a.rooms /\ v.layout = a.layout
        /\ v.locked = a.locked /\ v.claimed = a.claimed
        /\ v.ended = a.ended /\ v.made = a.made /\ v.dropped = a.dropped
        /\ v.occupancy = a.occupancy /\ v.allotted = a.allotted
    BY <1>6, <2>1 DEF Columns
  <2>3. txn' = [txn EXCEPT ![t] = v]
    <3>1. Go(t, n, a) BY <1>1, <1>2, <1>3, <1>4, <1>11 DEF WriteOccupancy
    <3> QED BY <2>1, <3>1 DEF Go
  <2>4. Runs(a, v, n) BY <1>5, <1>7, <2>2 DEF Runs
  <2>5. WriteInv(v, max_capacity) BY <1>6, <2>2, <2>4, RunsWrite DEF WorkInv
  <2>6. v.allotted \in [Student -> Int] /\ v.occupancy \in [Room -> Int]
    BY <1>6, <2>2 DEF WorkType
  <2>7. ASSUME NEW q \in Room, v.made \cap in(q) # {}, q = r PROVE FALSE
    <3>1. PICK p \in a.made : p[2] = r BY <2>2, <2>7 DEF in
    <3>2. Exists(r) BY <1>6, <3>1 DEF WorkInv, GuardInv, Holds, Exists
    <3>3. a.dropped = {} BY <1>6, <3>1 DEF WorkInv, KindInv
    <3> QED BY <1>11, <3>2, <3>3
  <2>8. WorkInv(v, max_capacity, room_assignment, is_allotted)
    BY <1>3, <1>5, <1>6, <1>8, <1>9, <1>10, <2>2, <2>4, <2>5, <2>6, <2>7, RunsInv
  <2> QED BY <1>1, <1>5, <2>2, <2>3, <2>8, OneGoesOn
<1>12. CASE Exists(r) /\ r \notin a.dropped /\ h.value > max_capacity[r]
  <2>1. Rollback(t) BY <1>1, <1>2, <1>3, <1>12 DEF WriteOccupancy
  <2> QED BY <1>5, <2>1, RollbackInv
<1>13. CASE Exists(r) /\ r \notin a.dropped /\ ~ (h.value > max_capacity[r])
  <2>1. PICK w : w = [a EXCEPT !.occupancy[r] = h.value, !.locked = @ \cup {r}] OBVIOUS
  <2>2. PICK v : v = [w EXCEPT !.todo = n \o Tail(@)] OBVIOUS
  <2>3. /\ Columns(w) /\ w.todo = a.todo
        /\ w.op = a.op /\ w.student = a.student /\ w.rooms = a.rooms /\ w.layout = a.layout
        /\ w.locked = a.locked \cup {r} /\ w.claimed = a.claimed /\ w.dropped = a.dropped
        /\ w.ended = a.ended /\ w.made = a.made
        /\ w.occupancy = [a.occupancy EXCEPT ![r] = h.value] /\ w.allotted = a.allotted
    BY <1>6, <2>1 DEF Columns
  <2>4. /\ Columns(v) /\ v.todo = n \o Tail(w.todo)
        /\ v.op = w.op /\ v.student = w.student /\ v.rooms = w.rooms /\ v.layout = w.layout
        /\ v.locked = w.locked /\ v.claimed = w.claimed
        /\ v.ended = w.ended /\ v.made = w.made /\ v.dropped = w.dropped
        /\ v.occupancy = w.occupancy /\ v.allotted = w.allotted
    BY <2>2, <2>3 DEF Columns
  <2>5. txn' = [txn EXCEPT ![t] = v]
    <3>1. Go(t, n, w) BY <1>1, <1>2, <1>3, <1>4, <1>13, <2>1 DEF WriteOccupancy
    <3> QED BY <2>2, <3>1 DEF Go
  <2>6. Runs(a, v, n) BY <1>5, <1>7, <2>3, <2>4 DEF Runs
  <2>7. a.allotted \in [Student -> Int] /\ a.occupancy \in [Room -> Int] BY <1>6 DEF WorkType
  <2>8. h.value \in 0..Cardinality(Student) /\ h.value \in Int
    <3>1. StmtType(h) BY <1>1, <1>2, <1>5, HeadType
    <3>2. h.value \in 0..Cardinality(Student) BY <1>5, <3>1 DEF StmtType
    <3> QED BY <3>2
  <2>9. v.allotted \in [Student -> Int] /\ v.occupancy \in [Room -> Int]
    <3>1. [a.occupancy EXCEPT ![r] = h.value]
             = [q \in Room |-> IF q = r THEN h.value ELSE a.occupancy[q]]
      BY <2>7
    <3>2. [q \in Room |-> IF q = r THEN h.value ELSE a.occupancy[q]] \in [Room -> Int]
      BY <2>7, <2>8
    <3> QED BY <2>3, <2>4, <2>7, <3>1, <3>2
  <2>10. WriteInv(v, max_capacity)
    <3>1. WriteInv(a, max_capacity) BY <1>6 DEF WorkInv
    <3>2. ASSUME NEW q \in Room, v.occupancy[q] # NotWritten
          PROVE  /\ Holds(v, q, max_capacity) /\ v.occupancy[q] \in 0..Cardinality(Student)
                 /\ v.occupancy[q] <= max_capacity[q]
      <4>1. CASE q = r
        <5>1. v.occupancy[q] = h.value BY <2>3, <2>4, <2>7, <4>1
        <5>2. h.value <= max_capacity[q] BY <1>9, <1>13, <2>8, <4>1
        <5>3. Holds(v, q, max_capacity) BY <1>13, <2>3, <2>4, <4>1 DEF Holds, Exists
        <5> QED BY <2>8, <5>1, <5>2, <5>3
      <4>2. CASE q # r
        <5>1. v.occupancy[q] = a.occupancy[q] BY <2>3, <2>4, <2>7, <4>2
        <5> QED BY <2>3, <2>4, <3>1, <3>2, <5>1 DEF WriteInv, Holds
      <4> QED BY <4>1, <4>2
    <3> QED BY <2>3, <2>4, <3>1, <3>2 DEF WriteInv
  <2>11. v.ended = a.ended /\ v.made = a.made /\ v.dropped = a.dropped BY <2>3, <2>4
  <2>12. \A q \in Room : v.made \cap in(q) # {} /\ q = h.room => h.value <= max_capacity[q]
    BY <1>3, <1>9, <1>13, <2>8
  <2>13. WorkInv(v, max_capacity, room_assignment, is_allotted)
    BY <1>5, <1>6, <1>8, <1>9, <1>10, <2>6, <2>9, <2>10, <2>11, <2>12, RunsInv
  <2>14. ASSUME NEW u \in Txn \ {t}
         PROVE  /\ v.locked \cap txn[u].locked \subseteq txn[t].locked
                /\ v.claimed \cap txn[u].claimed \subseteq txn[t].claimed
    <3>1. r \notin txn[u].locked BY <1>2, <1>3, <1>5, FreeRoom DEF WriteOccupancy, At
    <3> QED BY <1>1, <2>3, <2>4, <3>1
  <2> QED BY <1>5, <2>5, <2>13, <2>14, OneGoesOn
<1> QED BY <1>11, <1>12, <1>13

-----------------------------------------------------------------------------
(* Commits and capacities.                                                 *)

\* Others may change what a transaction has not locked, and end assignments.
LEMMA OthersKeep ==
    ASSUME NEW w, NEW capacity \in [Room -> Int], NEW rows \in SUBSET (Student \X Room), NEW housed,
           NEW capacity2, NEW rows2 \in SUBSET (Student \X Room), NEW housed2,
           WorkInv(w, capacity, rows, housed),
           \A r \in Room : Holds(w, r, capacity) => capacity2[r] = capacity[r],
           \A r \in w.locked : rows2 \cap in(r) \subseteq rows \cap in(r),
           \A s \in Student : s \in w.claimed /\ ~ housed[s] => ~ housed2[s]
    PROVE  WorkInv(w, capacity2, rows2, housed2)
<1>1. /\ WorkType(w) /\ KindInv(w) /\ GuardInv(w, capacity) /\ DropInv(w, rows)
      /\ WriteInv(w, capacity)
      /\ CountInv(w, capacity, rows) /\ ClearInv(w, rows) /\ MoveInv(w, housed)
  BY DEF WorkInv
<1>2. \A r \in Room : Holds(w, r, capacity) => Holds(w, r, capacity2) BY DEF Holds
<1>3. \A p \in w.made : p[2] \in Room /\ Holds(w, p[2], capacity) BY <1>1 DEF WorkType, GuardInv
<1>4. GuardInv(w, capacity2)
  <2>1. ASSUME NEW i \in DOMAIN w.todo, w.todo[i].do = "insert" PROVE w.todo[i].room \in Room
    <3>1. w.todo[i] \in ToSet(w.todo) BY DEF ToSet
    <3> QED BY <1>1, <2>1, <3>1 DEF WorkType
  <2> QED BY <1>1, <1>2, <1>3, <2>1 DEF GuardInv
<1>5. DropInv(w, rows2) BY <1>1 DEF DropInv
<1>6. WriteInv(w, capacity2) BY <1>1, <1>2 DEF WriteInv
<1>7. CountInv(w, capacity2, rows2)
  <2> SUFFICES ASSUME NEW r \in Room, w.made \cap in(r) # {}
               PROVE  \/ Cardinality(SeenBy(w, rows2) \cap in(r)) <= capacity2[r]
                      \/ \E x \in ToSet(w.todo) :
                            /\ x.room = r
                            /\ x.do = "recount" \/ (x.do = "occupancy" /\ x.value > capacity2[r])
    BY DEF CountInv
  <2>1. Holds(w, r, capacity) BY <1>3 DEF in
  <2>2. capacity2[r] = capacity[r] /\ r \in w.locked BY <2>1 DEF Holds
  <2>3. \/ Cardinality(SeenBy(w, rows) \cap in(r)) <= capacity[r]
        \/ \E x \in ToSet(w.todo) :
              /\ x.room = r
              /\ x.do = "recount" \/ (x.do = "occupancy" /\ x.value > capacity[r])
    BY <1>1 DEF CountInv
  <2>4. CASE Cardinality(SeenBy(w, rows) \cap in(r)) <= capacity[r]
    <3>1. /\ SeenBy(w, rows) \cap in(r) \in SUBSET (Student \X Room)
          /\ SeenBy(w, rows2) \cap in(r) \in SUBSET (SeenBy(w, rows) \cap in(r))
      BY <1>1, <2>2 DEF SeenBy, WorkType
    <3>2. SeenBy(w, rows2) \cap in(r) \in SUBSET (Student \X Room) BY <3>1
    <3>3. /\ Cardinality(SeenBy(w, rows) \cap in(r)) \in Nat
          /\ Cardinality(SeenBy(w, rows2) \cap in(r)) \in Nat
          /\ Cardinality(SeenBy(w, rows2) \cap in(r)) <= Cardinality(SeenBy(w, rows) \cap in(r))
      BY <3>1, <3>2, Bookings
    <3>4. capacity[r] \in Int OBVIOUS
    <3> QED BY <2>2, <2>4, <3>3, <3>4
  <2> QED BY <2>2, <2>3, <2>4
<1>8. ClearInv(w, rows2) BY <1>1 DEF ClearInv
<1>9. MoveInv(w, housed2) BY <1>1 DEF MoveInv
<1> QED BY <1>1, <1>4, <1>5, <1>6, <1>7, <1>8, <1>9 DEF WorkInv

\* A capacity changes where no transaction has locked the room, or where there is no room yet.
LEMMA ResizeInv ==
    ASSUME Inv, UNCHANGED <<current_occupancy, room_assignment, past, is_allotted, txn>>,
           max_capacity' \in [Room -> {-1, 0} \cup Capacity],
           \A r \in Room :
              \/ max_capacity'[r] = max_capacity[r]
              \/ /\ current_occupancy[r] <= max_capacity'[r] /\ max_capacity'[r] > 0
                 /\ \A t \in Txn : ~ Holds(txn[t], r, max_capacity)
    PROVE  Inv'
<1>1. TablesType' BY DEF Inv, TablesType
<1>2. TablesInv'
  <2>1. ASSUME NEW r \in Room
        PROVE  /\ max_capacity'[r] > 0 => current_occupancy[r] <= max_capacity'[r]
               /\ max_capacity'[r] = 0 => current_occupancy[r] = 0
               /\ max_capacity[r] > 0 => max_capacity'[r] > 0
    BY DEF Inv, TablesInv, Exists
  <2>2. \A p \in room_assignment : p[2] \in Room /\ max_capacity[p[2]] > 0
    BY DEF Inv, TablesInv, TablesType, Exists
  <2> QED BY <2>1, <2>2 DEF TablesInv, Exists
<1>3. LockInv' BY DEF Inv, LockInv
<1>4. ASSUME NEW t \in Txn PROVE WorkInv(txn[t], max_capacity', room_assignment, is_allotted)
  <2>1. \A r \in Room : Holds(txn[t], r, max_capacity) => max_capacity'[r] = max_capacity[r] OBVIOUS
  <2>2. PICK capacity2 : capacity2 = max_capacity' OBVIOUS
  <2>3. WorkInv(txn[t], capacity2, room_assignment, is_allotted) BY <2>1, <2>2, OneInv, OthersKeep
  <2> QED BY <2>2, <2>3
<1> QED BY <1>1, <1>2, <1>3, <1>4 DEF Inv

LEMMA CapacitiesInv ==
    ASSUME Inv,
           \/ \E R \in SUBSET Room, c \in Capacity : bulkUploadRooms(R, c)
           \/ \E r \in Room, c \in Capacity : addRoom(r, c) \/ updateRoom(r, c)
    PROVE  Inv'
<1>1. max_capacity \in [Room -> {-1, 0} \cup Capacity] BY DEF Inv, TablesType
<1>2. \A c \in Capacity : c \in Int /\ c > 0 BY RoomAssumption
<1>3. \A r \in Room : max_capacity[r] = 0 =>
         current_occupancy[r] = 0 /\ \A t \in Txn : ~ Holds(txn[t], r, max_capacity)
  BY DEF Inv, TablesInv, Holds
<1>4. ASSUME NEW R \in SUBSET Room, NEW c \in Capacity, bulkUploadRooms(R, c) PROVE Inv'
  <2>1. max_capacity' = [r \in Room |-> IF r \in R THEN c ELSE max_capacity[r]]
    BY <1>4 DEF bulkUploadRooms
  <2>2. max_capacity' \in [Room -> {-1, 0} \cup Capacity] BY <1>1, <2>1
  <2>3. ASSUME NEW r \in Room
        PROVE  \/ max_capacity'[r] = max_capacity[r]
               \/ /\ current_occupancy[r] <= max_capacity'[r] /\ max_capacity'[r] > 0
                  /\ \A t \in Txn : ~ Holds(txn[t], r, max_capacity)
    <3>1. CASE r \in R
      <4>1. max_capacity[r] = 0 BY <1>4, <3>1 DEF bulkUploadRooms
      <4>2. max_capacity'[r] = c BY <2>1, <3>1
      <4> QED BY <1>2, <1>3, <4>1, <4>2
    <3>2. CASE r \notin R BY <2>1, <3>2
    <3> QED BY <3>1, <3>2
  <2>4. UNCHANGED <<current_occupancy, room_assignment, past, is_allotted, txn>>
    BY <1>4 DEF bulkUploadRooms
  <2> QED BY <2>2, <2>3, <2>4, ResizeInv
<1>5. ASSUME NEW r \in Room, NEW c \in Capacity, addRoom(r, c) \/ updateRoom(r, c) PROVE Inv'
  <2>1. /\ max_capacity' = [max_capacity EXCEPT ![r] = c]
        /\ UNCHANGED <<current_occupancy, room_assignment, past, is_allotted, txn>>
    BY <1>5 DEF addRoom, updateRoom
  <2>2. max_capacity' \in [Room -> {-1, 0} \cup Capacity] BY <1>1, <2>1
  <2>3. current_occupancy[r] <= c /\ \A t \in Txn : ~ Holds(txn[t], r, max_capacity)
    <3>1. CASE addRoom(r, c)
      <4>1. max_capacity[r] = 0 BY <3>1 DEF addRoom
      <4> QED BY <1>2, <1>3, <4>1
    <3>2. CASE updateRoom(r, c) BY <3>2 DEF updateRoom, Holds
    <3> QED BY <1>5, <3>1, <3>2
  <2>4. ASSUME NEW q \in Room
        PROVE  \/ max_capacity'[q] = max_capacity[q]
               \/ /\ current_occupancy[q] <= max_capacity'[q] /\ max_capacity'[q] > 0
                  /\ \A t \in Txn : ~ Holds(txn[t], q, max_capacity)
    <3>1. CASE q = r
      <4>1. max_capacity'[q] = c BY <1>1, <2>1, <3>1
      <4> QED BY <1>2, <2>3, <3>1, <4>1
    <3>2. CASE q # r BY <1>1, <2>1, <3>2
    <3> QED BY <3>1, <3>2
  <2> QED BY <2>1, <2>2, <2>4, ResizeInv
<1> QED BY <1>4, <1>5

\* The transaction that commits, and what it writes.
LEMMA CommitWrites ==
    ASSUME Inv, NEW t \in Txn, Commit(t)
    PROVE  /\ \A r \in txn[t].dropped : room_assignment' \cap in(r) = {}
           /\ room_assignment' \in SUBSET (Student \X Room)
           /\ room_assignment' \subseteq room_assignment \cup txn[t].made
           /\ \A p \in txn[t].made : p[2] \in Room /\ Holds(txn[t], p[2], max_capacity)
           /\ txn[t].made # {} => txn[t].dropped = {}
<1>1. /\ WorkType(txn[t]) /\ KindInv(txn[t]) /\ GuardInv(txn[t], max_capacity)
      /\ DropInv(txn[t], room_assignment)
  BY OneInv DEF WorkInv
<1>2. room_assignment' = (room_assignment \ txn[t].ended) \cup txn[t].made BY DEF Commit, Seen
<1>3. txn[t].made # {} => txn[t].dropped = {} BY <1>1 DEF KindInv
<1>4. \A r \in txn[t].dropped : room_assignment' \cap in(r) = {}
  BY <1>1, <1>2, <1>3 DEF DropInv
<1>5. \A p \in txn[t].made : p[2] \in Room /\ Holds(txn[t], p[2], max_capacity)
  BY <1>1 DEF WorkType, GuardInv
<1>6. room_assignment' \in SUBSET (Student \X Room) BY <1>1, <1>2, OneInv DEF WorkType
<1> QED BY <1>2, <1>3, <1>4, <1>5, <1>6

LEMMA CommitInv ==
    ASSUME Inv, NEW t \in Txn, Commit(t)
    PROVE  Inv'
<1>1. /\ WorkType(txn[t]) /\ DropInv(txn[t], room_assignment) /\ WriteInv(txn[t], max_capacity)
  BY OneInv DEF WorkInv
<1>2. TablesType'
  <2>1. max_capacity' \in [Room -> {-1, 0} \cup Capacity] BY DEF Commit, Inv, TablesType
  <2>2. current_occupancy' \in [Room -> 0..Cardinality(Student)]
    <3>1. 0 \in 0..Cardinality(Student) BY RoomAssumption, FS_CardinalityType
    <3>2. \A r \in Room : OccupancySeen(t, r) \in 0..Cardinality(Student)
      BY <1>1 DEF OccupancySeen, WriteInv, Inv, TablesType
    <3> QED BY <3>1, <3>2 DEF Commit
  <2>3. past' \in SUBSET (Student \X Room)
    BY <1>1 DEF Commit, Inv, TablesType, WorkType
  <2>4. is_allotted' \in [Student -> BOOLEAN]
    <3>1. \A s \in Student : (txn[t].allotted[s] > 0) \in BOOLEAN /\ is_allotted[s] \in BOOLEAN
      BY DEF Inv, TablesType
    <3> QED BY <3>1 DEF Commit
  <2> QED BY <2>1, <2>2, <2>3, <2>4, CommitWrites DEF TablesType
<1>3. TablesInv'
  <2>1. ASSUME NEW r \in Room
        PROVE  /\ max_capacity'[r] > 0 => current_occupancy'[r] <= max_capacity'[r]
               /\ max_capacity'[r] = 0 => current_occupancy'[r] = 0
    <3>1. CASE r \in txn[t].dropped BY <3>1 DEF Commit
    <3>2. CASE r \notin txn[t].dropped
      <4>1. max_capacity'[r] = max_capacity[r] /\ current_occupancy'[r] = OccupancySeen(t, r)
        BY <3>2 DEF Commit
      <4>2. CASE txn[t].occupancy[r] = NotWritten
        BY <4>1, <4>2 DEF OccupancySeen, Inv, TablesInv, Exists
      <4>3. CASE txn[t].occupancy[r] # NotWritten
        BY <1>1, <4>1, <4>3 DEF OccupancySeen, WriteInv, Holds
      <4> QED BY <4>2, <4>3
    <3> QED BY <3>1, <3>2
  <2>2. ASSUME NEW p \in room_assignment' PROVE max_capacity'[p[2]] > 0
    <3>1. p[2] \in Room /\ p \in in(p[2]) BY CommitWrites DEF in
    <3>2. p[2] \notin txn[t].dropped BY <3>1, CommitWrites
    <3>3. max_capacity'[p[2]] = max_capacity[p[2]] BY <3>1, <3>2 DEF Commit
    <3>4. max_capacity[p[2]] > 0
      <4>1. CASE p \in room_assignment BY <4>1 DEF Inv, TablesInv, Exists
      <4>2. CASE p \in txn[t].made BY <4>2, CommitWrites DEF Holds
      <4> QED BY <4>1, <4>2, CommitWrites
    <3> QED BY <3>3, <3>4
  <2> QED BY <2>1, <2>2 DEF TablesInv, Exists
<1>4. txn' = [txn EXCEPT ![t] = Closed] BY DEF Commit, Rollback
<1>5. txn'[t] = Closed /\ \A u \in Txn \ {t} : txn'[u] = txn[u] BY <1>4 DEF Inv
<1>6. txn' = [u \in Txn |-> txn'[u]] BY <1>4 DEF Inv
<1>7. LockInv'
  <2>1. Closed.locked = {} /\ Closed.claimed = {} BY DEF Closed
  <2> QED BY <1>5, <2>1 DEF Inv, LockInv
<1>8. ASSUME NEW u \in Txn PROVE WorkInv(txn'[u], max_capacity', room_assignment', is_allotted')
  <2>1. PICK capacity2, rows2, housed2 :
           capacity2 = max_capacity' /\ rows2 = room_assignment' /\ housed2 = is_allotted'
    OBVIOUS
  <2>2. CASE u = t BY <1>5, <2>2, ClosedInv
  <2>3. CASE u # t
    <3>1. txn[t].locked \cap txn[u].locked = {} /\ txn[t].claimed \cap txn[u].claimed = {}
      BY <2>3 DEF Inv, LockInv
    <3>2. \A r \in Room : Holds(txn[u], r, max_capacity) => capacity2[r] = max_capacity[r]
      BY <1>1, <2>1, <3>1 DEF Commit, Holds, DropInv
    <3>3. \A r \in txn[u].locked : rows2 \cap in(r) \subseteq room_assignment \cap in(r)
      <4> SUFFICES ASSUME NEW r \in txn[u].locked, NEW p \in rows2, p \in in(r)
                   PROVE  p \in room_assignment
        OBVIOUS
      <4>1. p[2] = r BY DEF in
      <4>2. p \notin txn[t].made BY <3>1, <4>1, CommitWrites DEF Holds
      <4> QED BY <2>1, <4>2, CommitWrites
    <3>4. \A s \in Student : s \in txn[u].claimed /\ ~ is_allotted[s] => ~ housed2[s]
      <4> SUFFICES ASSUME NEW s \in Student, s \in txn[u].claimed, ~ is_allotted[s]
                   PROVE  ~ housed2[s]
        OBVIOUS
      <4>1. txn[t].allotted[s] = NotWritten BY <1>1, <3>1 DEF WriteInv
      <4>2. is_allotted'[s] = is_allotted[s] BY <4>1 DEF Commit
      <4> QED BY <2>1, <4>2
    <3>5. rows2 \in SUBSET (Student \X Room) BY <2>1, CommitWrites
    <3>6. WorkInv(txn[u], capacity2, rows2, housed2)
      BY <3>2, <3>3, <3>4, <3>5, OneInv, OthersKeep
    <3> QED BY <1>5, <2>1, <2>3, <3>6
  <2> QED BY <2>2, <2>3
<1> QED BY <1>2, <1>3, <1>6, <1>7, <1>8 DEF Inv

-----------------------------------------------------------------------------
(* Requests.                                                               *)

\* A transaction begins with the statements of its request.
LEMMA BeginInv ==
    ASSUME Inv, NEW t \in Txn, NEW work, Start(t, work),
           Columns(work), work.ended = {}, work.made = {}, work.dropped = {},
           work.locked = {}, work.claimed = {},
           work.occupancy = Closed.occupancy, work.allotted = Closed.allotted,
           \A layout \in work.layout : layout.capacity \in 1..6,
           List(work.todo), \A x \in ToSet(work.todo) : StmtType(x) /\ x.do \notin Trigger,
           Guarded(work.todo), KindInv(work),
           work.op = "rollback" => \A r \in ToSet(work.rooms) :
              \E i \in DOMAIN work.todo :
                 /\ work.todo[i].do = "clear" /\ work.todo[i].room = r
                 /\ Precedes(work.todo, "lock", r, i),
           work.op = "manual" => \A s \in work.student :
              \E x \in ToSet(work.todo) : x.do = "claim" /\ x.student = s
    PROVE  Inv'
<1>1. /\ work.occupancy = [r \in Room |-> NotWritten]
      /\ work.allotted = [s \in Student |-> NotWritten]
      /\ NotWritten \in Int
  BY DEF Closed, NotWritten
<1>2. WorkType(work) BY <1>1 DEF WorkType, List, StmtType
<1>3. GuardInv(work, max_capacity) /\ DropInv(work, room_assignment)
  BY DEF Guarded, GuardInv, DropInv
<1>4. WriteInv(work, max_capacity) /\ CountInv(work, max_capacity, room_assignment)
  BY <1>1 DEF WriteInv, CountInv
<1>5. ClearInv(work, room_assignment) /\ MoveInv(work, is_allotted) BY DEF ClearInv, MoveInv
<1>6. WorkInv(work, max_capacity, room_assignment, is_allotted)
  BY <1>2, <1>3, <1>4, <1>5 DEF WorkInv
<1>7. txn' = [txn EXCEPT ![t] = work] /\ UNCHANGED tables BY DEF Start
<1> QED BY <1>6, <1>7, OneGoesOn

\* A list of one statement.
LEMMA StmtList ==
    ASSUME NEW do, NEW s, NEW r, NEW todo, todo = <<Stmt(do, s, r)>>,
           do \notin Trigger, do \notin {"insert", "empty"}
    PROVE  /\ List(todo) /\ Guarded(todo)
           /\ \A x \in ToSet(todo) : StmtType(x) /\ x.do = do
<1>1. PICK x : x = Stmt(do, s, r) OBVIOUS
<1>2. x.do = do /\ StmtType(x) BY <1>1 DEF Stmt, StmtType, Trigger
<1>3. List(todo) /\ ToSet(todo) = {x} /\ DOMAIN todo = {1} /\ todo[1] = x BY <1>1, OneList
<1> QED BY <1>2, <1>3 DEF Guarded

LEMMA removeResidentInv ==
    ASSUME Inv, NEW t \in Txn, NEW s, NEW r, removeResident(t, s, r)
    PROVE  Inv'
<1>1. PICK todo : todo = <<Stmt("remove", s, r)>> OBVIOUS
<1>2. PICK work : work = [Closed EXCEPT !.op = "remove", !.todo = todo] OBVIOUS
<1>3. /\ List(todo) /\ Guarded(todo)
      /\ \A x \in ToSet(todo) : StmtType(x) /\ x.do = "remove"
  BY <1>1, StmtList DEF Trigger
<1>4. /\ Columns(work) /\ work.ended = {} /\ work.made = {} /\ work.dropped = {}
      /\ work.locked = {} /\ work.claimed = {} /\ work.layout = {}
      /\ work.occupancy = Closed.occupancy /\ work.allotted = Closed.allotted
      /\ work.todo = todo /\ work.op = "remove"
  BY <1>2 DEF Closed, Columns
<1>5. KindInv(work) BY <1>3, <1>4 DEF KindInv
<1>6. \A x \in ToSet(todo) : x.do \notin Trigger BY <1>3 DEF Trigger
<1>7. Start(t, work) BY <1>1, <1>2 DEF removeResident
<1> QED BY <1>3, <1>4, <1>5, <1>6, <1>7, BeginInv

LEMMA deleteRoomInv ==
    ASSUME Inv, NEW t \in Txn, NEW r, deleteRoom(t, r)
    PROVE  Inv'
<1>1. PICK todo : todo = <<Stmt("drop", {}, r)>> OBVIOUS
<1>2. PICK work : work = [Closed EXCEPT !.op = "delete", !.todo = todo] OBVIOUS
<1>3. /\ List(todo) /\ Guarded(todo)
      /\ \A x \in ToSet(todo) : StmtType(x) /\ x.do = "drop"
  BY <1>1, StmtList DEF Trigger
<1>4. /\ Columns(work) /\ work.ended = {} /\ work.made = {} /\ work.dropped = {}
      /\ work.locked = {} /\ work.claimed = {} /\ work.layout = {}
      /\ work.occupancy = Closed.occupancy /\ work.allotted = Closed.allotted
      /\ work.todo = todo /\ work.op = "delete"
  BY <1>2 DEF Closed, Columns
<1>5. KindInv(work) BY <1>3, <1>4 DEF KindInv
<1>6. \A x \in ToSet(todo) : x.do \notin Trigger BY <1>3 DEF Trigger
<1>7. Start(t, work) BY <1>1, <1>2 DEF deleteRoom
<1> QED BY <1>3, <1>4, <1>5, <1>6, <1>7, BeginInv

LEMMA assignResidentInv ==
    ASSUME Inv, NEW t \in Txn, NEW s, NEW r \in Room, assignResident(t, s, r)
    PROVE  Inv'
<1>1. PICK todo : todo = Assign(s, r) OBVIOUS
<1>2. PICK work : work = [Closed EXCEPT !.op = "assign", !.todo = todo] OBVIOUS
<1>3. /\ List(todo) /\ Guarded(todo)
      /\ \A x \in ToSet(todo) : StmtType(x) /\ x.do \in {"notfull", "end", "insert"}
  <2>1. todo = <<Stmt("notfull", s, r), Stmt("end", s, r), Stmt("insert", s, r)>>
    BY <1>1 DEF Assign
  <2>2. /\ DOMAIN todo = 1..3 /\ todo = [i \in 1..3 |-> todo[i]]
        /\ todo[1] = Stmt("notfull", s, r) /\ todo[2] = Stmt("end", s, r)
        /\ todo[3] = Stmt("insert", s, r)
    BY <2>1
  <2>3. List(todo) BY <2>2, ListOf
  <2>4. \A i \in 1..3 : i \in {1, 2, 3} OBVIOUS
  <2>5. \A x \in ToSet(todo) : StmtType(x) /\ x.do \in {"notfull", "end", "insert"}
    BY <2>2, <2>4 DEF ToSet, Stmt, StmtType
  <2>6. ASSUME NEW i \in DOMAIN todo, todo[i].do = "insert"
        PROVE  Precedes(todo, "notfull", todo[i].room, i)
    <3>1. i = 3 BY <2>2, <2>4, <2>6 DEF Stmt
    <3>2. 1 \in 1..(i - 1) /\ todo[1].do = "notfull" /\ todo[1].room = todo[i].room
      BY <2>2, <3>1 DEF Stmt
    <3> QED BY <3>2 DEF Precedes
  <2> QED BY <2>3, <2>5, <2>6 DEF Guarded
<1>4. /\ Columns(work) /\ work.ended = {} /\ work.made = {} /\ work.dropped = {}
      /\ work.locked = {} /\ work.claimed = {} /\ work.layout = {}
      /\ work.occupancy = Closed.occupancy /\ work.allotted = Closed.allotted
      /\ work.todo = todo /\ work.op = "assign"
  BY <1>2 DEF Closed, Columns
<1>5. KindInv(work) BY <1>3, <1>4 DEF KindInv
<1>6. \A x \in ToSet(todo) : x.do \notin Trigger BY <1>3 DEF Trigger
<1>7. Start(t, work) BY <1>1, <1>2 DEF assignResident
<1> QED BY <1>3, <1>4, <1>5, <1>6, <1>7, BeginInv

LEMMA executeManualAllocationInv ==
    ASSUME Inv, NEW t \in Txn, NEW s, NEW r \in Room, executeManualAllocation(t, s, r)
    PROVE  Inv'
<1>1. PICK todo : todo = <<Stmt("notfull", s, r), Stmt("claim", s, r)>> \o Assign(s, r) OBVIOUS
<1>2. PICK work : work = [Closed EXCEPT !.op = "manual", !.student = {s}, !.rooms = <<r>>,
                                        !.todo = todo]
  OBVIOUS
<1>3. /\ List(todo) /\ Guarded(todo)
      /\ \A x \in ToSet(todo) : StmtType(x) /\ x.do \in {"notfull", "claim", "end", "insert"}
      /\ \E x \in ToSet(todo) : x.do = "claim" /\ x.student = s
  <2>1. PICK a, b, c, d : /\ a = Stmt("notfull", s, r) /\ b = Stmt("claim", s, r)
                          /\ c = Stmt("end", s, r) /\ d = Stmt("insert", s, r)
    OBVIOUS
  <2>2. /\ DOMAIN todo = 1..5 /\ todo = [i \in 1..5 |-> todo[i]]
        /\ todo[1] = a /\ todo[2] = b /\ todo[3] = a /\ todo[4] = c /\ todo[5] = d
    <3>1. PICK p, q : p = <<a, b>> /\ q = <<a, c, d>> OBVIOUS
    <3>2. todo = p \o q BY <1>1, <2>1, <3>1 DEF Assign
    <3>3. /\ p \in Seq({a, b, c, d}) /\ q \in Seq({a, b, c, d}) /\ Len(p) = 2 /\ Len(q) = 3
          /\ p[1] = a /\ p[2] = b /\ q[1] = a /\ q[2] = c /\ q[3] = d
      BY <3>1
    <3>4. /\ todo \in Seq({a, b, c, d}) /\ Len(todo) = 5
          /\ todo[1] = p[1] /\ todo[2] = p[2] /\ todo[3] = q[1] /\ todo[4] = q[2] /\ todo[5] = q[3]
      <4>1. PICK S : S = {a, b, c, d} OBVIOUS
      <4>2. p \in Seq(S) /\ q \in Seq(S) BY <3>3, <4>1
      <4>3. /\ todo \in Seq(S) /\ Len(todo) = Len(p) + Len(q)
            /\ \A i \in 1..(Len(p) + Len(q)) :
                  todo[i] = IF i <= Len(p) THEN p[i] ELSE q[i - Len(p)]
        BY <3>2, <4>2, ConcatProperties
      <4> QED BY <3>3, <4>1, <4>3
    <3> QED BY <3>3, <3>4, LenProperties
  <2>3. List(todo) BY <2>2, ListOf
  <2>4. \A i \in 1..5 : i \in {1, 2, 3, 4, 5} OBVIOUS
  <2>5. \A x \in ToSet(todo) : StmtType(x) /\ x.do \in {"notfull", "claim", "end", "insert"}
    BY <2>1, <2>2, <2>4 DEF ToSet, Stmt, StmtType
  <2>6. ASSUME NEW i \in DOMAIN todo, todo[i].do = "insert"
        PROVE  Precedes(todo, "notfull", todo[i].room, i)
    <3>1. i = 5 BY <2>1, <2>2, <2>4, <2>6 DEF Stmt
    <3>2. 1 \in 1..(i - 1) /\ todo[1].do = "notfull" /\ todo[1].room = todo[i].room
      BY <2>1, <2>2, <3>1 DEF Stmt
    <3> QED BY <3>2 DEF Precedes
  <2>7. 2 \in DOMAIN todo /\ todo[2].do = "claim" /\ todo[2].student = s BY <2>1, <2>2 DEF Stmt
  <2>8. \E x \in ToSet(todo) : x.do = "claim" /\ x.student = s BY <2>7 DEF ToSet
  <2> QED BY <2>3, <2>5, <2>6, <2>8 DEF Guarded
<1>4. /\ Columns(work) /\ work.ended = {} /\ work.made = {} /\ work.dropped = {}
      /\ work.locked = {} /\ work.claimed = {} /\ work.layout = {}
      /\ work.occupancy = Closed.occupancy /\ work.allotted = Closed.allotted
      /\ work.todo = todo /\ work.op = "manual" /\ work.student = {s}
  BY <1>2 DEF Closed, Columns
<1>5. KindInv(work) BY <1>3, <1>4 DEF KindInv
<1>6. \A x \in ToSet(todo) : x.do \notin Trigger BY <1>3 DEF Trigger
<1>7. Start(t, work) BY <1>1, <1>2 DEF executeManualAllocation
<1> QED BY <1>3, <1>4, <1>5, <1>6, <1>7, BeginInv

LEMMA rollbackAllocationsInv ==
    ASSUME Inv, NEW t \in Txn, NEW rooms \in Target, rollbackAllocations(t, rooms)
    PROVE  Inv'
<1>1. PICK lists : lists = [i \in DOMAIN rooms |->
                               <<Stmt("lock", {}, rooms[i]), Stmt("clear", {}, rooms[i])>>]
  OBVIOUS
<1>2. PICK todo : todo = Chain(2, lists) OBVIOUS
<1>3. PICK work : work = [Closed EXCEPT !.op = "rollback", !.rooms = rooms, !.todo = todo] OBVIOUS
<1>4. PICK m : m = Len(rooms) OBVIOUS
<1>5. m \in Nat /\ DOMAIN rooms = 1..m
  <2>1. rooms \in Seq(Room) BY RoomAssumption
  <2> QED BY <1>4, <2>1, LenProperties
<1>6. /\ List(lists) /\ Len(lists) = m
      /\ \A i \in 1..m :
            lists[i][1] = Stmt("lock", {}, rooms[i]) /\ lists[i][2] = Stmt("clear", {}, rooms[i])
  <2>1. DOMAIN lists = 1..m /\ lists = [i \in 1..m |-> lists[i]] BY <1>1, <1>5
  <2>2. \A i \in 1..m : lists[i] = <<Stmt("lock", {}, rooms[i]), Stmt("clear", {}, rooms[i])>>
    BY <1>1, <1>5
  <2> QED BY <1>5, <2>1, <2>2, ListOf
<1>7. /\ List(todo)
      /\ \A k \in DOMAIN todo : \E i \in 1..m : \E j \in 1..2 : ChainsAt(todo, lists, k, i, j)
      /\ \A i \in 1..m, j \in 1..2 : \E k \in DOMAIN todo : ChainsAt(todo, lists, k, i, j)
  BY <1>2, <1>5, <1>6, ChainList
<1>8. \A x \in ToSet(todo) : StmtType(x) /\ x.do \in {"lock", "clear"}
  <2> SUFFICES ASSUME NEW k \in DOMAIN todo
               PROVE  StmtType(todo[k]) /\ todo[k].do \in {"lock", "clear"}
    BY DEF ToSet
  <2>1. PICK i \in 1..m, j \in 1..2 : ChainsAt(todo, lists, k, i, j) BY <1>7
  <2>2. todo[k] = lists[i][j] /\ j \in {1, 2} BY <2>1 DEF ChainsAt
  <2>3. todo[k] = Stmt("lock", {}, rooms[i]) \/ todo[k] = Stmt("clear", {}, rooms[i])
    BY <1>6, <2>2
  <2> QED BY <2>3 DEF Stmt, StmtType
<1>9. Guarded(todo) BY <1>8 DEF Guarded, ToSet
<1>10. ASSUME NEW r \in ToSet(rooms)
       PROVE  \E i \in DOMAIN todo :
                 /\ todo[i].do = "clear" /\ todo[i].room = r
                 /\ Precedes(todo, "lock", r, i)
  <2>1. PICK i \in 1..m : rooms[i] = r BY <1>5 DEF ToSet
  <2>2. PICK k \in DOMAIN todo : ChainsAt(todo, lists, k, i, 2) BY <1>7
  <2>3. lists[i][1] = Stmt("lock", {}, r) /\ lists[i][2] = Stmt("clear", {}, r) BY <1>6, <2>1
  <2>4. todo[k] = Stmt("clear", {}, r) BY <2>2, <2>3 DEF ChainsAt
  <2>5. 1 \in 1..(2 - 1) OBVIOUS
  <2>6. PICK g \in 1..(k - 1) : todo[g] = lists[i][1] BY <2>2, <2>5 DEF ChainsAt
  <2>7. todo[g] = Stmt("lock", {}, r) BY <2>3, <2>6
  <2>8. Precedes(todo, "lock", r, k) BY <2>7 DEF Precedes, Stmt
  <2>9. todo[k].do = "clear" /\ todo[k].room = r BY <2>4 DEF Stmt
  <2> QED BY <2>8, <2>9
<1>11. /\ Columns(work) /\ work.ended = {} /\ work.made = {} /\ work.dropped = {}
       /\ work.locked = {} /\ work.claimed = {} /\ work.layout = {}
       /\ work.occupancy = Closed.occupancy /\ work.allotted = Closed.allotted
       /\ work.todo = todo /\ work.op = "rollback" /\ work.rooms = rooms
  BY <1>3 DEF Closed, Columns
<1>12. KindInv(work) BY <1>8, <1>11 DEF KindInv
<1>13. \A x \in ToSet(todo) : x.do \notin Trigger BY <1>8 DEF Trigger
<1>14. Start(t, work) BY <1>1, <1>2, <1>3 DEF rollbackAllocations
<1> QED BY <1>7, <1>8, <1>9, <1>10, <1>11, <1>12, <1>13, <1>14, BeginInv

LEMMA allocateInv ==
    ASSUME Inv, NEW t \in Txn, NEW rooms \in Target, NEW layout, allocate(t, rooms, layout)
    PROVE  Inv'
<1>1. PICK plan : plan = matchConstraints(getUnassignedFirstYearStudents, rooms, layout) OBVIOUS
<1>2. PICK filled : filled = {r \in ToSet(rooms) : r \in DOMAIN plan} OBVIOUS
<1>3. PICK list \in InOrder(filled, rooms) :
         Start(t, [Closed EXCEPT !.op = "bulk", !.rooms = rooms, !.layout = {layout}, !.plan = plan,
                                 !.todo = [i \in DOMAIN list |-> Stmt("empty", {}, list[i])]])
  BY <1>1, <1>2 DEF allocate
<1>4. layout.capacity \in 1..6 BY DEF allocate, ValidLayout
<1>5. PICK todo : todo = [i \in DOMAIN list |-> Stmt("empty", {}, list[i])] OBVIOUS
<1>6. PICK work : work = [Closed EXCEPT !.op = "bulk", !.rooms = rooms, !.layout = {layout},
                                        !.plan = plan, !.todo = todo]
  OBVIOUS
<1>7. filled \subseteq Room
  <2>1. rooms \in Seq(Room) BY RoomAssumption
  <2>2. DOMAIN rooms = 1..Len(rooms) /\ \A i \in 1..Len(rooms) : rooms[i] \in Room
    BY <2>1, LenProperties, ElementOfSeq
  <2> QED BY <1>2, <2>2 DEF ToSet
<1>8. PICK m : m = Cardinality(filled) OBVIOUS
<1>9. m \in Nat BY <1>7, <1>8, RoomAssumption, FS_Subset, FS_CardinalityType
<1>10. list \in [1..m -> filled] BY <1>8 DEF InOrder
<1>11. List(todo) /\ \A i \in DOMAIN todo : todo[i] = Stmt("empty", {}, list[i]) /\ list[i] \in Room
  <2>1. DOMAIN todo = 1..m /\ todo = [i \in 1..m |-> todo[i]] BY <1>5, <1>10
  <2>2. List(todo) BY <1>9, <2>1, ListOf
  <2> QED BY <1>5, <1>7, <1>10, <2>2
<1>12. \A x \in ToSet(todo) : StmtType(x) /\ x.do = "empty"
  BY <1>11 DEF ToSet, Stmt, StmtType
<1>13. Guarded(todo) BY <1>12 DEF Guarded, ToSet
<1>14. /\ Columns(work) /\ work.ended = {} /\ work.made = {} /\ work.dropped = {}
       /\ work.locked = {} /\ work.claimed = {} /\ work.layout = {layout}
       /\ work.occupancy = Closed.occupancy /\ work.allotted = Closed.allotted
       /\ work.todo = todo /\ work.op = "bulk"
  BY <1>6 DEF Closed, Columns
<1>15. KindInv(work) BY <1>12, <1>14 DEF KindInv
<1>16. \A x \in ToSet(todo) : x.do \notin Trigger BY <1>12 DEF Trigger
<1>17. Start(t, work) BY <1>3, <1>5, <1>6
<1>18. \A l \in work.layout : l.capacity \in 1..6 BY <1>4, <1>14
<1> QED BY <1>11, <1>12, <1>13, <1>14, <1>15, <1>16, <1>17, <1>18, BeginInv

-----------------------------------------------------------------------------
(* The invariant.                                                          *)

LEMMA InitInv == Init => Inv
<1> SUFFICES ASSUME Init PROVE Inv OBVIOUS
<1>1. PICK c \in Capacity : max_capacity = [r \in Room |-> IF r \in Built THEN c ELSE 0]
  BY DEF Init
<1>2. c \in Int /\ c > 0 BY RoomAssumption
<1>3. TablesType
  <2>1. max_capacity \in [Room -> {-1, 0} \cup Capacity] BY <1>1
  <2>2. 0 \in 0..Cardinality(Student) BY RoomAssumption, FS_CardinalityType
  <2>3. current_occupancy \in [Room -> 0..Cardinality(Student)] BY <2>2 DEF Init
  <2> QED BY <2>1, <2>3 DEF Init, TablesType
<1>4. TablesInv BY <1>1, <1>2 DEF Init, TablesInv, Exists
<1>5. txn = [t \in Txn |-> Closed] BY DEF Init
<1>6. LockInv
  <2>1. Closed.locked = {} /\ Closed.claimed = {} BY DEF Closed
  <2> QED BY <1>5, <2>1 DEF LockInv
<1>7. \A t \in Txn : WorkInv(txn[t], max_capacity, room_assignment, is_allotted)
  BY <1>5, ClosedInv
<1>8. txn = [t \in Txn |-> txn[t]] BY <1>5
<1> QED BY <1>3, <1>4, <1>6, <1>7, <1>8 DEF Inv

LEMMA StutterInv == ASSUME Inv, UNCHANGED vars PROVE Inv'
<1>1. UNCHANGED tables /\ UNCHANGED txn BY DEF vars
<1>2. UNCHANGED <<max_capacity, current_occupancy, room_assignment, past, is_allotted, txn>>
  BY <1>1 DEF tables
<1> QED BY <1>2 DEF Inv, TablesType, TablesInv, LockInv, Exists

\* What the steps are.
LEMMA Steps ==
    ASSUME Next
    PROVE  \/ \E t \in Idle, s \in Student, r \in Room :
                 assignResident(t, s, r) \/ removeResident(t, s, r) \/ executeManualAllocation(t, s, r)
           \/ \E t \in Idle, r \in Room : deleteRoom(t, r)
           \/ \E t \in Idle, rooms \in Target : rollbackAllocations(t, rooms)
           \/ \E t \in Idle, rooms \in Target, layout \in Layout : allocate(t, rooms, layout)
           \/ \/ \E R \in SUBSET Room, c \in Capacity : bulkUploadRooms(R, c)
              \/ \E r \in Room, c \in Capacity : addRoom(r, c) \/ updateRoom(r, c)
           \/ \E t \in Txn :
                 \/ LockRoom(t) \/ LockEmptyRoom(t) \/ LockForRollback(t) \/ ClaimStudent(t)
                 \/ EndRows(t) \/ InsertRow(t) \/ Lookup(t) \/ WriteSnapshot(t)
                 \/ Recount(t) \/ WriteOccupancy(t) \/ Commit(t) \/ Deadlock(t)
BY DEF Next

LEMMA NextInv == ASSUME Inv, Next PROVE Inv'
<1>1. ASSUME NEW t \in Idle, NEW s \in Student, NEW r \in Room,
             assignResident(t, s, r) \/ removeResident(t, s, r) \/ executeManualAllocation(t, s, r)
      PROVE  Inv'
  BY <1>1, assignResidentInv, removeResidentInv, executeManualAllocationInv DEF Idle
<1>2. ASSUME NEW t \in Idle, NEW r \in Room, deleteRoom(t, r) PROVE Inv'
  BY <1>2, deleteRoomInv DEF Idle
<1>3. ASSUME NEW t \in Idle, NEW rooms \in Target, rollbackAllocations(t, rooms) PROVE Inv'
  BY <1>3, rollbackAllocationsInv DEF Idle
<1>4. ASSUME NEW t \in Idle, NEW rooms \in Target, NEW layout \in Layout, allocate(t, rooms, layout)
      PROVE  Inv'
  BY <1>4, allocateInv DEF Idle
<1>5. ASSUME NEW t \in Txn,
             \/ LockRoom(t) \/ LockEmptyRoom(t) \/ LockForRollback(t) \/ ClaimStudent(t)
             \/ EndRows(t) \/ InsertRow(t) \/ Lookup(t) \/ WriteSnapshot(t)
             \/ Recount(t) \/ WriteOccupancy(t) \/ Commit(t) \/ Deadlock(t)
      PROVE  Inv'
  <2>1. CASE LockRoom(t) BY <2>1, LockRoomInv
  <2>2. CASE LockEmptyRoom(t) BY <2>2, LockEmptyRoomInv
  <2>3. CASE LockForRollback(t) BY <2>3, LockForRollbackInv
  <2>4. CASE ClaimStudent(t) BY <2>4, ClaimStudentInv
  <2>5. CASE EndRows(t) BY <2>5, EndRowsInv
  <2>6. CASE InsertRow(t) BY <2>6, InsertRowInv
  <2>7. CASE Lookup(t) BY <2>7, LookupInv
  <2>8. CASE WriteSnapshot(t) BY <2>8, WriteSnapshotInv
  <2>9. CASE Recount(t) BY <2>9, RecountInv
  <2>10. CASE WriteOccupancy(t) BY <2>10, WriteOccupancyInv
  <2>11. CASE Commit(t) BY <2>11, CommitInv
  <2>12. CASE Deadlock(t)
    <3>1. Rollback(t) /\ UNCHANGED tables BY <2>12 DEF Deadlock
    <3> QED BY <3>1, RollbackInv
  <2> QED BY <1>5, <2>1, <2>2, <2>3, <2>4, <2>5, <2>6, <2>7, <2>8, <2>9, <2>10, <2>11, <2>12
<1> QED BY <1>1, <1>2, <1>3, <1>4, <1>5, Steps, CapacitiesInv

\* The invariant that the others follow from: transactions keep to their locks.
THEOREM LocksKept == Spec => []Inv
<1>1. Inv /\ [Next]_vars => Inv' BY NextInv, StutterInv
<1> QED BY <1>1, InitInv, PTL DEF Spec

-----------------------------------------------------------------------------
(* The properties.                                                         *)

\* Occupancies stay within capacities, and assignments are to rooms that exist.
THEOREM TypeCorrect == Spec => []TypeOK
<1>1. Inv => TypeOK
  <2> SUFFICES ASSUME Inv PROVE TypeOK OBVIOUS
  <2>1. \A r \in Room : /\ max_capacity[r] \in {-1, 0} \cup Capacity
                        /\ current_occupancy[r] \in 0..Cardinality(Student)
                        /\ Exists(r) => current_occupancy[r] <= max_capacity[r]
    BY DEF Inv, TablesType, TablesInv
  <2>2. \A p \in room_assignment : p[1] \in Student /\ Exists(p[2])
    BY DEF Inv, TablesType, TablesInv
  <2> QED BY <2>1, <2>2 DEF Inv, TablesType, TypeOK
<1> QED BY <1>1, LocksKept, PTL

\* Assignments change when a transaction commits, and at no other step.
LEMMA OnlyCommits ==
    ASSUME Next, ~ \E t \in Txn : Commit(t)
    PROVE  UNCHANGED room_assignment
<1>1. ASSUME NEW t \in Idle, NEW s \in Student, NEW r \in Room,
             assignResident(t, s, r) \/ removeResident(t, s, r) \/ executeManualAllocation(t, s, r)
      PROVE  UNCHANGED tables
  BY <1>1 DEF assignResident, removeResident, executeManualAllocation, Start
<1>2. ASSUME NEW t \in Idle, NEW r \in Room, deleteRoom(t, r) PROVE UNCHANGED tables
  BY <1>2 DEF deleteRoom, Start
<1>3. ASSUME NEW t \in Idle, NEW rooms \in Target, rollbackAllocations(t, rooms) PROVE UNCHANGED tables
  BY <1>3 DEF rollbackAllocations, Start
<1>4. ASSUME NEW t \in Idle, NEW rooms \in Target, NEW layout \in Layout, allocate(t, rooms, layout)
      PROVE  UNCHANGED tables
  <2>1. PICK work : Start(t, work) BY <1>4 DEF allocate
  <2> QED BY <2>1 DEF Start
<1>5. ASSUME \/ \E R \in SUBSET Room, c \in Capacity : bulkUploadRooms(R, c)
             \/ \E r \in Room, c \in Capacity : addRoom(r, c) \/ updateRoom(r, c)
      PROVE  UNCHANGED room_assignment
  BY <1>5 DEF bulkUploadRooms, addRoom, updateRoom
<1>6. ASSUME NEW t \in Txn,
             \/ LockRoom(t) \/ LockEmptyRoom(t) \/ LockForRollback(t) \/ ClaimStudent(t)
             \/ EndRows(t) \/ InsertRow(t) \/ Lookup(t) \/ WriteSnapshot(t)
             \/ Recount(t) \/ WriteOccupancy(t) \/ Deadlock(t)
      PROVE  UNCHANGED tables
  BY <1>6 DEF LockRoom, LockEmptyRoom, LockForRollback, ClaimStudent, EndRows, InsertRow, Lookup,
              WriteSnapshot, Recount, WriteOccupancy, Deadlock
<1>7. UNCHANGED tables => UNCHANGED room_assignment BY DEF tables
<1> QED BY <1>1, <1>2, <1>3, <1>4, <1>5, <1>6, <1>7, Steps

\* No assignment brings a room above its capacity, however requests interleave: the trigger
\* counts what the transaction has inserted under the lock of the room, and the CHECK of the
\* room refuses one too many.
THEOREM NothingOverfilled == Spec => NeverOverfilled
<1> DEFINE Fits == \A r \in Room : Cardinality(Residents(r)') > Cardinality(Residents(r))
                                     => Cardinality(Residents(r)') <= max_capacity'[r]
<1>1. ASSUME Inv, UNCHANGED room_assignment PROVE Fits
  <2>1. ASSUME NEW r \in Room PROVE ~ (Cardinality(Residents(r)') > Cardinality(Residents(r)))
    <3>1. Residents(r)' = Residents(r) BY <1>1 DEF Residents
    <3>2. Residents(r) \in SUBSET (Student \X Room) BY <1>1 DEF Residents, Inv, TablesType
    <3>3. Cardinality(Residents(r)) \in Nat BY <3>2, Bookings
    <3> QED BY <3>1, <3>3
  <2> QED BY <2>1
<1>2. ASSUME Inv, NEW t \in Txn, Commit(t) PROVE Fits
  <2> SUFFICES ASSUME NEW r \in Room, Cardinality(Residents(r)') > Cardinality(Residents(r))
               PROVE  Cardinality(Residents(r)') <= max_capacity'[r]
    OBVIOUS
  <2>1. Residents(r)' = room_assignment' \cap in(r) /\ Residents(r) = room_assignment \cap in(r)
    BY DEF Residents
  <2>2. txn[t].made \cap in(r) # {}
    <3> SUFFICES ASSUME txn[t].made \cap in(r) = {} PROVE FALSE OBVIOUS
    <3>1. Residents(r)' \subseteq Residents(r) BY <1>2, <2>1, CommitWrites
    <3>2. Residents(r) \in SUBSET (Student \X Room) BY <1>2, <2>1, OneInv
    <3>3. Residents(r)' \in SUBSET (Student \X Room) BY <3>1, <3>2
    <3>4. /\ Cardinality(Residents(r)') <= Cardinality(Residents(r))
          /\ Cardinality(Residents(r)) \in Nat /\ Cardinality(Residents(r)') \in Nat
      BY <3>1, <3>2, <3>3, Bookings
    <3> QED BY <3>4
  <2>3. CountInv(txn[t], max_capacity, room_assignment) BY <1>2, OneInv DEF WorkInv
  <2>4. txn[t].todo = <<>> /\ room_assignment' = SeenBy(txn[t], room_assignment)
    BY <1>2 DEF Commit, Seen, SeenBy
  <2>5. Cardinality(room_assignment' \cap in(r)) <= max_capacity[r]
    BY <2>2, <2>3, <2>4, NoneList DEF CountInv
  <2>6. txn[t].dropped = {} BY <1>2, <2>2, CommitWrites
  <2>7. max_capacity'[r] = max_capacity[r] BY <1>2, <2>6 DEF Commit
  <2> QED BY <2>1, <2>5, <2>7
<1>3. Inv /\ [Next]_vars => [Fits]_vars
  BY <1>1, <1>2, OnlyCommits
<1> QED BY <1>3, LocksKept, PTL DEF Spec, NeverOverfilled

\* A transaction that is at the end of its list is closed by its commit.
LEMMA OnlyItsCommit ==
    ASSUME Inv, Next, NEW t \in Txn, txn[t].todo = <<>>, txn[t].op # "none", txn'[t] = Closed
    PROVE  Commit(t)
<1>1. txn[t] # Closed BY DEF Closed
<1>2. ASSUME NEW u \in Txn, NEW work, u # t, txn' = [txn EXCEPT ![u] = work] PROVE FALSE
  BY <1>1, <1>2 DEF Inv
<1>3. ASSUME NEW u \in Idle, NEW work, txn' = [txn EXCEPT ![u] = work] PROVE FALSE
  BY <1>2, <1>3 DEF Idle
<1>4. ASSUME NEW u \in Idle, NEW s \in Student, NEW r \in Room,
             assignResident(u, s, r) \/ removeResident(u, s, r) \/ executeManualAllocation(u, s, r)
      PROVE  FALSE
  BY <1>3, <1>4 DEF assignResident, removeResident, executeManualAllocation, Start
<1>5. ASSUME NEW u \in Idle, NEW r \in Room, deleteRoom(u, r) PROVE FALSE
  BY <1>3, <1>5 DEF deleteRoom, Start
<1>6. ASSUME NEW u \in Idle, NEW rooms \in Target, rollbackAllocations(u, rooms) PROVE FALSE
  BY <1>3, <1>6 DEF rollbackAllocations, Start
<1>7. ASSUME NEW u \in Idle, NEW rooms \in Target, NEW layout \in Layout, allocate(u, rooms, layout)
      PROVE  FALSE
  <2>1. PICK work : Start(u, work) BY <1>7 DEF allocate
  <2> QED BY <1>3, <2>1 DEF Start
<1>8. ASSUME \/ \E R \in SUBSET Room, c \in Capacity : bulkUploadRooms(R, c)
             \/ \E r \in Room, c \in Capacity : addRoom(r, c) \/ updateRoom(r, c)
      PROVE  FALSE
  BY <1>1, <1>8 DEF bulkUploadRooms, addRoom, updateRoom
<1>9. ASSUME NEW u \in Txn,
             \/ LockRoom(u) \/ LockEmptyRoom(u) \/ LockForRollback(u) \/ ClaimStudent(u)
             \/ EndRows(u) \/ InsertRow(u) \/ Lookup(u) \/ WriteSnapshot(u)
             \/ Recount(u) \/ WriteOccupancy(u)
      PROVE  FALSE
  <2>1. u # t
    BY <1>9 DEF LockRoom, LockEmptyRoom, LockForRollback, ClaimStudent, EndRows, InsertRow, Lookup,
                WriteSnapshot, Recount, WriteOccupancy, At
  <2>2. \E work : txn' = [txn EXCEPT ![u] = work]
    BY <1>9 DEF LockRoom, LockEmptyRoom, LockForRollback, ClaimStudent, EndRows, InsertRow, Lookup,
                WriteSnapshot, Recount, WriteOccupancy, Go, Rollback
  <2> QED BY <1>2, <2>1, <2>2
<1>10. ASSUME NEW u \in Txn, Deadlock(u) PROVE FALSE
  <2>1. CASE u = t
    <3>1. PICK w \in Txn : WaitsFor(t, w) BY <1>10, <2>1 DEF Deadlock
    <3>2. ~ At(t, {"end"}) /\ ~ At(t, {"remove"}) /\ ~ At(t, {"clear"}) /\ ~ At(t, {"drop"}) BY DEF At
    <3>3. Rows(t) = {} BY <3>2 DEF Rows
    <3> QED BY <3>1, <3>3 DEF WaitsFor, At
  <2>2. CASE u # t BY <1>2, <1>10, <2>2 DEF Deadlock, Rollback
  <2> QED BY <2>1, <2>2
<1>11. ASSUME NEW u \in Txn, Commit(u) PROVE u = t BY <1>2, <1>11 DEF Commit, Rollback
<1> QED BY <1>4, <1>5, <1>6, <1>7, <1>8, <1>9, <1>10, <1>11, Steps

\* When a rollback commits nobody is left in its rooms, whoever was assigned to them
\* meanwhile: it has locked the rooms before it deletes the assignments.
THEOREM RollbackLeavesNobody == Spec => RollbackEmpties
<1> DEFINE Empties == \A t \in Txn : txn[t].op = "rollback" /\ txn[t].todo = <<>> /\ txn'[t] = Closed
                         => \A r \in ToSet(txn[t].rooms) : Residents(r)' = {}
<1>1. ASSUME Inv, Next PROVE Empties
  <2> SUFFICES ASSUME NEW t \in Txn, txn[t].op = "rollback", txn[t].todo = <<>>, txn'[t] = Closed,
                      NEW r \in ToSet(txn[t].rooms)
               PROVE  Residents(r)' = {}
    OBVIOUS
  <2>1. Commit(t) BY <1>1, OnlyItsCommit
  <2>2. ClearInv(txn[t], room_assignment) /\ KindInv(txn[t]) BY <1>1, OneInv DEF WorkInv
  <2>3. room_assignment \cap in(r) \subseteq txn[t].ended BY <2>2 DEF ClearInv
  <2>4. txn[t].made = {} BY <2>2 DEF KindInv
  <2>5. room_assignment' = room_assignment \ txn[t].ended BY <2>1, <2>4 DEF Commit, Seen
  <2> QED BY <2>3, <2>5 DEF Residents
<1>2. Inv /\ [Next]_vars => [Empties]_vars BY <1>1
<1> QED BY <1>2, LocksKept, PTL DEF Spec, RollbackEmpties

\* A manual allocation moves nobody who has a room by the snapshot: it has locked the
\* student's row since it has seen that the snapshot has none.
THEOREM ManualAllocationMovesNobody == Spec => ManualMovesNobody
<1> DEFINE Stays == \A t \in Txn : txn[t].op = "manual" /\ txn[t].todo = <<>> /\ txn'[t] = Closed
                       => \A s \in txn[t].student : is_allotted[s] => room_assignment \cap of(s) = {}
<1>1. ASSUME Inv, Next PROVE Stays
  <2> SUFFICES ASSUME NEW t \in Txn, txn[t].op = "manual", txn[t].todo = <<>>,
                      NEW s \in txn[t].student, is_allotted[s]
               PROVE  room_assignment \cap of(s) = {}
    OBVIOUS
  <2>1. MoveInv(txn[t], is_allotted) BY <1>1, OneInv DEF WorkInv
  <2>2. s \notin Student BY <2>1, NoneList DEF MoveInv
  <2>3. room_assignment \subseteq Student \X Room BY <1>1, OneInv
  <2> QED BY <2>2, <2>3 DEF of
<1>2. Inv /\ [Next]_vars => [Stays]_vars BY <1>1
<1> QED BY <1>2, LocksKept, PTL DEF Spec, ManualMovesNobody

-----------------------------------------------------------------------------
(* Loops over lists.  FoldLeft of SequencesExt is a function on the sets   *)
(* of indices, chosen by its equation: that there is one is shown for a    *)
(* set of values that the steps stay in, by induction on the length.       *)

\* A set of natural numbers has a least element.
LEMMA LeastNatural ==
    ASSUME NEW T \in SUBSET Nat, T # {}
    PROVE  \E m \in T : \A n \in T : m <= n
<1>1. IsWellFoundedOn({p \in Nat \X Nat : p[1] < p[2]}, Nat)
  BY NatLessThanWellFounded, Zenon DEF OpToRel
<1>2. PICK less : less = {p \in Nat \X Nat : p[1] < p[2]} OBVIOUS
<1>3. PICK m \in T : \A n \in T : <<n, m>> \notin less BY <1>1, <1>2, WFMin
<1>4. \A n \in T : n < m => <<n, m>> \in less BY <1>2
<1>5. \A n \in T : ~ (n < m) BY <1>3, <1>4
<1>6. \A n \in T : m <= n BY <1>5
<1> QED BY <1>6

\* A set of numbers with 0 and the successors of its elements below n is all of 0..n.
LEMMA UpTo ==
    ASSUME NEW n \in Nat, NEW P, 0 \in P, \A k \in 0..(n - 1) : k \in P => k + 1 \in P
    PROVE  \A k \in 0..n : k \in P
<1>1. SUFFICES ASSUME {k \in 0..n : k \notin P} # {} PROVE FALSE OBVIOUS
<1>2. {k \in 0..n : k \notin P} \in SUBSET Nat OBVIOUS
<1>3. PICK m \in {k \in 0..n : k \notin P} : \A k \in {j \in 0..n : j \notin P} : m <= k
  BY <1>1, <1>2, LeastNatural
<1>4. m # 0 /\ m - 1 \in 0..(n - 1) /\ m - 1 \in 0..n /\ ~ (m <= m - 1) /\ (m - 1) + 1 = m OBVIOUS
<1>5. m - 1 \in P BY <1>3, <1>4
<1> QED BY <1>3, <1>4, <1>5

\* What the function of a loop is on the sets of indices up to n.
LoopOn(f, n, base, step) ==
    \A s \in SUBSET (1..n) : f[s] = IF s = {} THEN base ELSE step[Max(s)][f[s \ {Max(s)}]]

\* The greatest of the indices up to n is n, if it is one of them.
LEMMA LastIndex ==
    ASSUME NEW n \in Nat, NEW s \in SUBSET (1..n), n \in s
    PROVE  Max(s) = n
<1>1. n \in s /\ \A y \in s : n >= y OBVIOUS
<1>2. \A x \in s : (\A y \in s : x >= y) => x = n OBVIOUS
<1> QED BY <1>1, <1>2 DEF Max

\* A set of indices has a greatest one.
LEMMA GreatestIndex ==
    ASSUME NEW n \in Nat, NEW s \in SUBSET (1..n), s # {}
    PROVE  Max(s) \in s
<1>1. PICK U : U = {k \in Nat : \A y \in s : k >= y} OBVIOUS
<1>2. U \in SUBSET Nat /\ n \in U BY <1>1
<1>3. PICK m \in U : \A k \in U : m <= k BY <1>2, LeastNatural
<1>4. m \in s
  <2>1. SUFFICES ASSUME m \notin s PROVE FALSE OBVIOUS
  <2>2. \A y \in s : y \in Nat \ {0} /\ m >= y /\ y # m BY <1>1, <2>1
  <2>3. m \in Nat /\ m # 0
    <3>1. PICK y \in s : TRUE OBVIOUS
    <3>2. y \in Nat \ {0} /\ m >= y /\ m \in Nat BY <1>1, <2>2, <3>1
    <3> QED BY <3>2
  <2>4. m - 1 \in Nat /\ \A y \in s : m - 1 >= y BY <2>2, <2>3
  <2>5. m <= m - 1 BY <1>1, <1>3, <2>4
  <2> QED BY <2>3, <2>5
<1>5. \A y \in s : m >= y BY <1>1
<1> QED BY <1>4, <1>5 DEF Max

\* Steps that stay in a set of values have such a function.
LEMMA LoopExists ==
    ASSUME NEW n \in Nat, NEW D, NEW base \in D, NEW step \in [1..n -> [D -> D]]
    PROVE  \E f \in [SUBSET (1..n) -> D] : LoopOn(f, n, base, step)
<1> DEFINE P == {k \in 0..n : \E f \in [SUBSET (1..k) -> D] : LoopOn(f, k, base, step)}
<1>1. 0 \in P
  <2>1. PICK f : f = [s \in SUBSET (1..0) |-> base] OBVIOUS
  <2>2. f \in [SUBSET (1..0) -> D] BY <2>1
  <2>3. \A s \in SUBSET (1..0) : s = {} OBVIOUS
  <2>4. LoopOn(f, 0, base, step) BY <2>1, <2>3 DEF LoopOn
  <2>5. 0 \in 0..n OBVIOUS
  <2> QED BY <2>2, <2>4, <2>5
<1>2. ASSUME NEW k \in 0..(n - 1), k \in P PROVE k + 1 \in P
  <2>1. PICK f \in [SUBSET (1..k) -> D] : LoopOn(f, k, base, step) BY <1>2
  <2>2. k \in Nat /\ k + 1 \in 1..n /\ k + 1 \notin 1..k /\ 1..k = (1..(k + 1)) \ {k + 1} OBVIOUS
  <2>3. PICK g : g = [s \in SUBSET (1..(k + 1)) |->
                        IF k + 1 \in s THEN step[k + 1][f[s \ {k + 1}]] ELSE f[s]]
    OBVIOUS
  <2>4. \A s \in SUBSET (1..(k + 1)) : s \ {k + 1} \in SUBSET (1..k) BY <2>2
  <2>5. \A s \in SUBSET (1..(k + 1)) : k + 1 \notin s => s \in SUBSET (1..k) BY <2>2
  <2>6. \A s \in SUBSET (1..(k + 1)) : k + 1 \in s => Max(s) = k + 1 BY <2>2, LastIndex
  <2>7. step[k + 1] \in [D -> D] BY <2>2
  <2>8. \A s \in SUBSET (1..k) : f[s] \in D BY <2>1
  <2>9. \A s \in SUBSET (1..(k + 1)) : g[s] \in D BY <2>3, <2>4, <2>5, <2>7, <2>8
  <2>10. g \in [SUBSET (1..(k + 1)) -> D] BY <2>3, <2>9
  <2>11. \A s \in SUBSET (1..k) : g[s] = f[s]
    <3>1. \A s \in SUBSET (1..k) : s \in SUBSET (1..(k + 1)) /\ k + 1 \notin s BY <2>2
    <3> QED BY <2>3, <3>1
  <2>12. ASSUME NEW s \in SUBSET (1..(k + 1))
         PROVE  g[s] = IF s = {} THEN base ELSE step[Max(s)][g[s \ {Max(s)}]]
    <3>1. CASE k + 1 \in s
      <4>1. g[s] = step[k + 1][f[s \ {k + 1}]] BY <2>3, <3>1
      <4>2. f[s \ {k + 1}] = g[s \ {k + 1}] BY <2>4, <2>11
      <4> QED BY <2>6, <3>1, <4>1, <4>2
    <3>2. CASE k + 1 \notin s
      <4>1. s \in SUBSET (1..k) BY <2>5, <3>2
      <4>2. f[s] = IF s = {} THEN base ELSE step[Max(s)][f[s \ {Max(s)}]] BY <2>1, <4>1 DEF LoopOn
      <4>3. s \ {Max(s)} \in SUBSET (1..k) BY <4>1
      <4> QED BY <2>11, <4>1, <4>2, <4>3
    <3> QED BY <3>1, <3>2
  <2>13. LoopOn(g, k + 1, base, step) BY <2>12 DEF LoopOn
  <2>14. k + 1 \in 0..n OBVIOUS
  <2> QED BY <2>10, <2>13, <2>14
<1> HIDE DEF P
<1>3. \A k \in 0..(n - 1) : k \in P => k + 1 \in P BY <1>2
<1>4. \A k \in 0..n : k \in P BY <1>1, <1>3, UpTo
<1>5. n \in 0..n OBVIOUS
<1> QED BY <1>4, <1>5 DEF P

\* After i rounds the loop has done the first i indices.
LEMMA Rounds ==
    ASSUME NEW i \in Nat \ {0}
    PROVE  1..i # {} /\ Max(1..i) = i /\ (1..i) \ {Max(1..i)} = 1..(i - 1)
<1>1. i \in Nat /\ 1..i \in SUBSET (1..i) /\ i \in 1..i OBVIOUS
<1>2. Max(1..i) = i BY <1>1, LastIndex
<1>3. (1..i) \ {i} = 1..(i - 1) OBVIOUS
<1> QED BY <1>1, <1>2, <1>3

-----------------------------------------------------------------------------
(* Students who wait, and students in a group.                             *)

\* A list of students in which nobody is twice.
Queue(q) == q \in Seq(Student) /\ IsInjective(q)

\* A list of students and its entries.
LEMMA QueueEntries ==
    ASSUME NEW q \in Seq(Student)
    PROVE  /\ Len(q) \in Nat /\ DOMAIN q = 1..Len(q)
           /\ \A i \in 1..Len(q) : q[i] \in Student /\ q[i] \in ToSet(q)
           /\ ToSet(q) = {q[i] : i \in 1..Len(q)}
<1>1. Len(q) \in Nat /\ DOMAIN q = 1..Len(q) BY LenProperties
<1>2. \A i \in 1..Len(q) : q[i] \in Student BY <1>1, ElementOfSeq
<1> QED BY <1>1, <1>2 DEF ToSet

\* The empty list is a queue.
LEMMA NobodyQueues == Queue(<<>>) /\ ToSet(<<>>) = {} /\ Len(<<>>) = 0
<1>1. <<>> \in Seq(Student) /\ DOMAIN <<>> = {} /\ Len(<<>>) = 0 BY EmptySeq
<1> QED BY <1>1 DEF Queue, IsInjective, ToSet

\* Somebody joins at the end.
LEMMA Joins ==
    ASSUME NEW q, Queue(q), NEW s \in Student, s \notin ToSet(q)
    PROVE  /\ Queue(Append(q, s)) /\ ToSet(Append(q, s)) = ToSet(q) \cup {s}
           /\ Len(Append(q, s)) = Len(q) + 1
           /\ \A i \in 1..Len(q) : Append(q, s)[i] = q[i]
           /\ Append(q, s)[Len(q) + 1] = s
<1>1. q \in Seq(Student) BY DEF Queue
<1>2. PICK n : n = Len(q) OBVIOUS
<1>3. n \in Nat /\ DOMAIN q = 1..n /\ (\A i \in 1..n : q[i] \in ToSet(q)) /\ ToSet(q) = {q[i] : i \in 1..n}
  BY <1>1, <1>2, QueueEntries
<1>4. PICK p : p = Append(q, s) OBVIOUS
<1>5. /\ p \in Seq(Student) /\ Len(p) = n + 1
      /\ \A i \in 1..n : p[i] = q[i]
      /\ p[n + 1] = s
  BY <1>1, <1>2, <1>4, AppendProperties
<1>6. DOMAIN p = 1..(n + 1) /\ 1..(n + 1) = 1..n \cup {n + 1} BY <1>3, <1>5, LenProperties
<1>7. IsInjective(p)
  <2>1. ASSUME NEW i \in DOMAIN p, NEW j \in DOMAIN p, p[i] = p[j] PROVE i = j
    <3>1. CASE i \in 1..n /\ j \in 1..n BY <1>1, <1>3, <1>5, <2>1, <3>1 DEF Queue, IsInjective
    <3>2. CASE i \in 1..n /\ j = n + 1 BY <1>3, <1>5, <2>1, <3>2
    <3>3. CASE j \in 1..n /\ i = n + 1 BY <1>3, <1>5, <2>1, <3>3
    <3>4. CASE i = n + 1 /\ j = n + 1 BY <3>4
    <3> QED BY <1>6, <3>1, <3>2, <3>3, <3>4
  <2> QED BY <2>1 DEF IsInjective
<1>8. ToSet(p) = ToSet(q) \cup {s}
  <2>1. ToSet(p) = {p[i] : i \in 1..(n + 1)} BY <1>6 DEF ToSet
  <2>2. n + 1 \in 1..(n + 1) /\ \A i \in 1..n : i \in 1..(n + 1) BY <1>6
  <2>3. \A x \in ToSet(p) : x \in ToSet(q) \cup {s} BY <1>3, <1>5, <1>6, <2>1
  <2>4. \A x \in ToSet(q) : x \in ToSet(p) BY <1>3, <1>5, <2>1, <2>2
  <2>5. s \in ToSet(p) BY <1>5, <2>1, <2>2
  <2> QED BY <2>3, <2>4, <2>5
<1> QED BY <1>2, <1>4, <1>5, <1>7, <1>8 DEF Queue

\* Somebody leaves.
LEMMA Leaves ==
    ASSUME NEW q, Queue(q), NEW i \in 1..Len(q)
    PROVE  Queue(RemoveAt(q, i)) /\ ToSet(RemoveAt(q, i)) = ToSet(q) \ {q[i]}
<1>1. q \in Seq(Student) BY DEF Queue
<1>2. PICK n : n = Len(q) OBVIOUS
<1>3. /\ n \in Nat /\ DOMAIN q = 1..n /\ ToSet(q) = {q[k] : k \in 1..n}
      /\ \A k \in 1..n : q[k] \in Student
  BY <1>1, <1>2, QueueEntries
<1>4. i \in 1..n BY <1>2
<1>5. PICK a : a = SubSeq(q, 1, i - 1) OBVIOUS
<1>6. PICK b : b = SubSeq(q, i + 1, n) OBVIOUS
<1>7. /\ a \in Seq(Student) /\ Len(a) = i - 1
      /\ \A k \in 1..(i - 1) : a[k] = q[k]
  <2>1. 1 \in Int /\ i - 1 \in Int /\ \A k \in 1..(i - 1) : q[k] \in Student BY <1>3, <1>4
  <2>2. /\ a \in Seq(Student) /\ Len(a) = IF 1 <= i - 1 THEN (i - 1) - 1 + 1 ELSE 0
        /\ \A k \in 1..((i - 1) - 1 + 1) : a[k] = q[1 + k - 1]
    BY <1>5, <2>1, SubSeqProperties
  <2>3. (i - 1) - 1 + 1 = i - 1 /\ (~ (1 <= i - 1) => i - 1 = 0) BY <1>4
  <2>4. \A k \in 1..(i - 1) : 1 + k - 1 = k OBVIOUS
  <2> QED BY <2>2, <2>3, <2>4
<1>8. /\ b \in Seq(Student) /\ Len(b) = n - i
      /\ \A k \in 1..(n - i) : b[k] = q[k + i]
  <2>1. i + 1 \in Int /\ n \in Int /\ \A k \in (i + 1)..n : q[k] \in Student BY <1>3, <1>4
  <2>2. /\ b \in Seq(Student) /\ Len(b) = IF i + 1 <= n THEN n - (i + 1) + 1 ELSE 0
        /\ \A k \in 1..(n - (i + 1) + 1) : b[k] = q[(i + 1) + k - 1]
    BY <1>6, <2>1, SubSeqProperties
  <2>3. n - (i + 1) + 1 = n - i /\ (~ (i + 1 <= n) => n - i = 0) BY <1>3, <1>4
  <2>4. \A k \in 1..(n - i) : (i + 1) + k - 1 = k + i BY <1>4
  <2> QED BY <2>2, <2>3, <2>4
<1>9. PICK p : p = a \o b OBVIOUS
<1>10. /\ p \in Seq(Student) /\ Len(p) = (i - 1) + (n - i)
       /\ \A k \in 1..((i - 1) + (n - i)) : p[k] = IF k <= i - 1 THEN a[k] ELSE b[k - (i - 1)]
  BY <1>7, <1>8, <1>9, ConcatProperties
<1>11. (i - 1) + (n - i) = n - 1 BY <1>3, <1>4
<1>12. \A k \in 1..(n - 1) : p[k] = IF k < i THEN q[k] ELSE q[k + 1]
  <2>1. ASSUME NEW k \in 1..(n - 1), k < i PROVE p[k] = q[k]
    <3>1. k \in 1..(i - 1) /\ k <= i - 1 BY <1>4, <2>1
    <3> QED BY <1>7, <1>10, <1>11, <3>1
  <2>2. ASSUME NEW k \in 1..(n - 1), ~ (k < i) PROVE p[k] = q[k + 1]
    <3>1. ~ (k <= i - 1) /\ k - (i - 1) \in 1..(n - i) /\ (k - (i - 1)) + i = k + 1
      BY <1>3, <1>4, <2>2
    <3> QED BY <1>8, <1>10, <1>11, <3>1
  <2> QED BY <2>1, <2>2
<1>13. DOMAIN p = 1..(n - 1) BY <1>10, <1>11, LenProperties
\* old[k]: where the k-th of those who stay was
<1>14. PICK old : old = [k \in 1..(n - 1) |-> IF k < i THEN k ELSE k + 1] OBVIOUS
<1>15. \A k \in 1..(n - 1) : old[k] \in 1..n /\ old[k] # i /\ p[k] = q[old[k]]
  BY <1>3, <1>4, <1>12, <1>14
<1>16. \A j \in 1..n : j # i => \E k \in 1..(n - 1) : old[k] = j
  <2>1. ASSUME NEW j \in 1..n, j < i PROVE j \in 1..(n - 1) /\ old[j] = j BY <1>3, <1>4, <1>14, <2>1
  <2>2. ASSUME NEW j \in 1..n, j > i PROVE j - 1 \in 1..(n - 1) /\ old[j - 1] = j
    <3>1. j - 1 \in 1..(n - 1) /\ ~ (j - 1 < i) /\ (j - 1) + 1 = j BY <1>3, <1>4, <2>2
    <3> QED BY <1>14, <3>1
  <2> QED BY <1>4, <2>1, <2>2
<1>17. \A j, k \in 1..(n - 1) : old[j] = old[k] => j = k BY <1>4, <1>14
<1>18. \A j, k \in 1..n : q[j] = q[k] => j = k BY <1>3 DEF Queue, IsInjective
<1>19. IsInjective(p) BY <1>13, <1>15, <1>17, <1>18 DEF IsInjective
<1>20. ToSet(p) = {p[k] : k \in 1..(n - 1)} BY <1>13 DEF ToSet
<1>21. \A x \in ToSet(p) : x \in ToSet(q) /\ x # q[i]
  <2>1. \A k \in 1..(n - 1) : p[k] \in ToSet(q) BY <1>3, <1>15
  <2>2. \A k \in 1..(n - 1) : p[k] # q[i] BY <1>4, <1>15, <1>18
  <2> QED BY <1>20, <2>1, <2>2
<1>22. ASSUME NEW x \in ToSet(q), x # q[i] PROVE x \in ToSet(p)
  <2>1. PICK j \in 1..n : x = q[j] BY <1>3
  <2>2. PICK k \in 1..(n - 1) : old[k] = j BY <1>16, <1>22, <2>1
  <2> QED BY <1>15, <1>20, <2>1, <2>2
<1>23. ToSet(p) = ToSet(q) \ {q[i]} BY <1>21, <1>22
<1>24. p = RemoveAt(q, i) BY <1>2, <1>5, <1>6, <1>9 DEF RemoveAt
<1> QED BY <1>10, <1>19, <1>23, <1>24 DEF Queue

\* A group goes back to the end of the queue.
LEMMA GoBack ==
    ASSUME NEW p, NEW q, Queue(p), Queue(q), ToSet(p) \cap ToSet(q) = {}
    PROVE  Queue(p \o q) /\ ToSet(p \o q) = ToSet(p) \cup ToSet(q)
<1>1. p \in Seq(Student) /\ q \in Seq(Student) BY DEF Queue
<1>2. PICK m, n : m = Len(p) /\ n = Len(q) OBVIOUS
<1>3. m \in Nat /\ DOMAIN p = 1..m /\ ToSet(p) = {p[k] : k \in 1..m} BY <1>1, <1>2, QueueEntries
<1>4. n \in Nat /\ DOMAIN q = 1..n /\ ToSet(q) = {q[k] : k \in 1..n} BY <1>1, <1>2, QueueEntries
<1>5. PICK c : c = p \o q OBVIOUS
<1>6. /\ c \in Seq(Student) /\ Len(c) = m + n
      /\ \A k \in 1..(m + n) : c[k] = IF k <= m THEN p[k] ELSE q[k - m]
  BY <1>1, <1>2, <1>5, ConcatProperties
<1>7. DOMAIN c = 1..(m + n) BY <1>6, LenProperties
<1>8. \A k \in 1..(m + n) : k <= m => k \in 1..m /\ c[k] = p[k] /\ c[k] \in ToSet(p) BY <1>3, <1>6
<1>9. \A k \in 1..(m + n) : ~ (k <= m) => k - m \in 1..n /\ c[k] = q[k - m] /\ c[k] \in ToSet(q)
  BY <1>3, <1>4, <1>6
<1>10. IsInjective(c)
  <2>1. ASSUME NEW i \in 1..(m + n), NEW j \in 1..(m + n), c[i] = c[j] PROVE i = j
    <3>1. CASE i <= m /\ j <= m BY <1>3, <1>8, <2>1, <3>1 DEF Queue, IsInjective
    <3>2. CASE ~ (i <= m) /\ ~ (j <= m)
      <4>1. i - m = j - m BY <1>4, <1>9, <2>1, <3>2 DEF Queue, IsInjective
      <4> QED BY <1>3, <4>1
    <3>3. CASE i <= m /\ ~ (j <= m) BY <1>8, <1>9, <2>1, <3>3
    <3>4. CASE ~ (i <= m) /\ j <= m BY <1>8, <1>9, <2>1, <3>4
    <3> QED BY <3>1, <3>2, <3>3, <3>4
  <2> QED BY <1>7, <2>1 DEF IsInjective
<1>11. ToSet(c) = {c[k] : k \in 1..(m + n)} BY <1>7 DEF ToSet
<1>12. \A x \in ToSet(c) : x \in ToSet(p) \cup ToSet(q) BY <1>8, <1>9, <1>11
<1>13. \A x \in ToSet(p) : x \in ToSet(c)
  <2>1. \A k \in 1..m : k \in 1..(m + n) /\ k <= m BY <1>3, <1>4
  <2> QED BY <1>3, <1>8, <1>11, <2>1
<1>14. \A x \in ToSet(q) : x \in ToSet(c)
  <2>1. \A k \in 1..n : k + m \in 1..(m + n) /\ ~ (k + m <= m) /\ (k + m) - m = k BY <1>3, <1>4
  <2> QED BY <1>4, <1>9, <1>11, <2>1
<1> QED BY <1>5, <1>6, <1>10, <1>12, <1>13, <1>14 DEF Queue

-----------------------------------------------------------------------------
(* A room is filled.                                                       *)

Candidates == [group : Seq(Student), pool : Seq(Student), full : BOOLEAN]

\* Who may be the next of a group.
Suits(s, group, node, rule) == matchesStateAndBranch(s, node) /\ matchesBranchDiversity(s, group, rule)

\* Somebody who suits takes the bed, or nobody does.
LEMMA TakesOne ==
    ASSUME NEW found \in Candidates, NEW node, NEW rule
    PROVE  \/ TakeNode(found, node, rule) = [group |-> found.group, pool |-> found.pool, full |-> FALSE]
           \/ /\ found.full
              /\ \E i \in 1..Len(found.pool) :
                    /\ Suits(found.pool[i], found.group, node, rule)
                    /\ TakeNode(found, node, rule) =
                          [group |-> Append(found.group, found.pool[i]),
                           pool |-> RemoveAt(found.pool, i), full |-> TRUE]
<1>1. PICK q : q = found.pool OBVIOUS
<1>2. q \in Seq(Student) /\ Len(q) \in Nat BY <1>1, LenProperties DEF Candidates
<1>3. PICK I : I = {i \in 1..Len(q) : Suits(q[i], found.group, node, rule)} OBVIOUS
<1>4. PICK i : i = IF I # {} THEN Min(I) ELSE 0 OBVIOUS
<1>5. TakeNode(found, node, rule) =
        IF found.full /\ i # 0
        THEN [found EXCEPT !.group = Append(@, found.pool[i]), !.pool = RemoveAt(@, i)]
        ELSE [found EXCEPT !.full = FALSE]
  BY <1>1, <1>3, <1>4 DEF TakeNode, SelectInSeq, Suits
<1>6. found = [group |-> found.group, pool |-> found.pool, full |-> found.full] BY DEF Candidates
<1>7. CASE found.full /\ i # 0
  <2>1. I # {} /\ I \in SUBSET Nat BY <1>3, <1>4, <1>7
  <2>2. \E m \in I : \A n \in I : m <= n BY <2>1, LeastNatural
  <2>3. i \in I BY <1>4, <2>1, <2>2 DEF Min
  <2>4. i \in 1..Len(q) /\ Suits(q[i], found.group, node, rule) BY <1>3, <2>3
  <2>5. TakeNode(found, node, rule) =
          [group |-> Append(found.group, found.pool[i]), pool |-> RemoveAt(found.pool, i), full |-> TRUE]
    BY <1>5, <1>6, <1>7 DEF Candidates
  <2> QED BY <1>1, <1>7, <2>4, <2>5
<1>8. CASE ~ (found.full /\ i # 0)
  <2>1. TakeNode(found, node, rule) = [group |-> found.group, pool |-> found.pool, full |-> FALSE]
    BY <1>5, <1>6, <1>8
  <2> QED BY <2>1
<1> QED BY <1>7, <1>8

\* Whatever the node and the rule, candidates are left.
LEMMA TakeNodeType ==
    ASSUME NEW f \in Candidates, NEW node, NEW rule
    PROVE  TakeNode(f, node, rule) \in Candidates
<1>1. f.group \in Seq(Student) /\ f.pool \in Seq(Student) BY DEF Candidates
<1>2. PICK v : v = TakeNode(f, node, rule) OBVIOUS
<1>3. ASSUME NEW k \in 1..Len(f.pool)
      PROVE  Append(f.group, f.pool[k]) \in Seq(Student) /\ RemoveAt(f.pool, k) \in Seq(Student)
  <2>1. f.pool[k] \in Student BY <1>1, QueueEntries
  <2>2. /\ \A j \in 1..(k - 1) : f.pool[j] \in Student
        /\ \A j \in (k + 1)..Len(f.pool) : f.pool[j] \in Student
        /\ Len(f.pool) \in Nat
    BY <1>1, QueueEntries
  <2>3. SubSeq(f.pool, 1, k - 1) \in Seq(Student) BY <2>2, SubSeqProperties
  <2>4. SubSeq(f.pool, k + 1, Len(f.pool)) \in Seq(Student) BY <2>2, SubSeqProperties
  <2> QED BY <1>1, <2>1, <2>3, <2>4, AppendProperties, ConcatProperties DEF RemoveAt
<1>4. CASE v = [group |-> f.group, pool |-> f.pool, full |-> FALSE]
  BY <1>1, <1>2, <1>4 DEF Candidates
<1>5. ASSUME NEW k \in 1..Len(f.pool),
             v = [group |-> Append(f.group, f.pool[k]), pool |-> RemoveAt(f.pool, k), full |-> TRUE]
      PROVE  v \in Candidates
  BY <1>3, <1>5 DEF Candidates
<1> QED BY <1>2, <1>4, <1>5, TakesOne

\* The group meets the first nodes and the rule on branches.
Meets(group, nodes, rule) ==
    /\ \A i \in DOMAIN group : matchesStateAndBranch(group[i], nodes[i])
    /\ rule = "MUST_BE_UNIQUE" =>
          \A i, j \in DOMAIN group : branch[group[i]] = branch[group[j]] => i = j
    /\ rule = "EXACT_MATCH" => \A i \in DOMAIN group : branch[group[i]] = branch[group[1]]

\* A group of nobody meets every layout so far.
LEMMA MeetsNobody == ASSUME NEW nodes, NEW rule PROVE Meets(<<>>, nodes, rule)
BY DEF Meets

\* A group still meets the layout with the next one who suits.
LEMMA MeetsOneMore ==
    ASSUME NEW group, Queue(group), NEW s \in Student, s \notin ToSet(group), NEW nodes, NEW rule,
           Meets(group, nodes, rule), Suits(s, group, nodes[Len(group) + 1], rule)
    PROVE  Meets(Append(group, s), nodes, rule)
<1>1. PICK n : n = Len(group) OBVIOUS
<1>2. n \in Nat /\ DOMAIN group = 1..n BY <1>1, QueueEntries DEF Queue
<1>3. PICK p : p = Append(group, s) OBVIOUS
<1>4. /\ p \in Seq(Student) /\ Len(p) = n + 1
      /\ (\A i \in 1..n : p[i] = group[i]) /\ p[n + 1] = s
  BY <1>1, <1>3, Joins DEF Queue
<1>5. DOMAIN p = 1..(n + 1) /\ \A i \in 1..(n + 1) : i \in 1..n \/ i = n + 1
  BY <1>2, <1>4, LenProperties
<1>6. matchesStateAndBranch(s, nodes[n + 1]) /\ matchesBranchDiversity(s, group, rule)
  BY <1>1 DEF Suits
<1>7. \A i \in 1..n : matchesStateAndBranch(group[i], nodes[i]) BY <1>2 DEF Meets
<1>8. \A i \in 1..(n + 1) : matchesStateAndBranch(p[i], nodes[i]) BY <1>4, <1>5, <1>6, <1>7
<1>9. group # <<>> => 1 \in 1..n
  <2>1. group # <<>> => n # 0 BY <1>1, EmptySeq DEF Queue
  <2> QED BY <1>2, <2>1
<1>10. \A i \in 1..n : group # <<>>
  <2>1. group = <<>> => n = 0 BY <1>1, EmptySeq
  <2> QED BY <2>1
<1>11. ASSUME rule = "MUST_BE_UNIQUE"
       PROVE  \A i, j \in 1..(n + 1) : branch[p[i]] = branch[p[j]] => i = j
  <2>1. \A i \in 1..n : branch[group[i]] # branch[s]
    BY <1>2, <1>6, <1>10, <1>11 DEF matchesBranchDiversity
  <2>2. \A i, j \in 1..n : branch[group[i]] = branch[group[j]] => i = j BY <1>2, <1>11 DEF Meets
  <2> QED BY <1>4, <1>5, <2>1, <2>2
<1>12. ASSUME rule = "EXACT_MATCH"
       PROVE  \A i \in 1..(n + 1) : branch[p[i]] = branch[p[1]]
  <2>1. group # <<>> => branch[group[1]] = branch[s] BY <1>6, <1>12 DEF matchesBranchDiversity
  <2>2. \A i \in 1..n : branch[group[i]] = branch[group[1]] BY <1>2, <1>12 DEF Meets
  <2>3. CASE group = <<>>
    <3>1. n + 1 = 1 /\ 1..(n + 1) = {1} BY <1>1, <2>3, EmptySeq
    <3> QED BY <3>1
  <2>4. CASE group # <<>> BY <1>4, <1>5, <1>9, <2>1, <2>2, <2>4
  <2> QED BY <2>3, <2>4
<1> QED BY <1>3, <1>5, <1>8, <1>11, <1>12 DEF Meets

\* What holds after i nodes of a layout, when P is who waited before.
FoundInv(found, P, nodes, rule, i) ==
    /\ found \in Candidates
    /\ Queue(found.group) /\ Queue(found.pool)
    /\ ToSet(found.group) \cap ToSet(found.pool) = {}
    /\ ToSet(found.group) \cup ToSet(found.pool) \subseteq P
    /\ Meets(found.group, nodes, rule)
    /\ found.full => Len(found.group) = i

\* Who takes a bed leaves the pool and suits the group.
LEMMA TakeNodeInv ==
    ASSUME NEW found, NEW P, NEW nodes, NEW rule, NEW i \in Nat, FoundInv(found, P, nodes, rule, i)
    PROVE  FoundInv(TakeNode(found, nodes[i + 1], rule), P, nodes, rule, i + 1)
<1>1. found \in Candidates /\ found = [group |-> found.group, pool |-> found.pool, full |-> found.full]
  BY DEF FoundInv, Candidates
<1>2. PICK v : v = TakeNode(found, nodes[i + 1], rule) OBVIOUS
<1>3. CASE v = [group |-> found.group, pool |-> found.pool, full |-> FALSE]
  BY <1>1, <1>2, <1>3 DEF FoundInv, Candidates
<1>4. ASSUME found.full, NEW k \in 1..Len(found.pool),
             Suits(found.pool[k], found.group, nodes[i + 1], rule),
             v = [group |-> Append(found.group, found.pool[k]),
                  pool |-> RemoveAt(found.pool, k), full |-> TRUE]
      PROVE  FoundInv(v, P, nodes, rule, i + 1)
  <2>1. PICK s : s = found.pool[k] OBVIOUS
  <2>2. Queue(found.group) /\ Queue(found.pool) /\ Len(found.group) = i
    BY <1>4 DEF FoundInv
  <2>3. s \in Student /\ s \in ToSet(found.pool) BY <2>1, <2>2, <1>4, QueueEntries DEF Queue
  <2>4. s \notin ToSet(found.group) BY <2>3 DEF FoundInv
  <2>5. /\ Queue(v.group) /\ ToSet(v.group) = ToSet(found.group) \cup {s}
        /\ Len(v.group) = i + 1
    BY <1>4, <2>1, <2>2, <2>3, <2>4, Joins
  <2>6. Queue(v.pool) /\ ToSet(v.pool) = ToSet(found.pool) \ {s} BY <1>4, <2>1, <2>2, Leaves
  <2>7. Meets(v.group, nodes, rule)
    <3>1. Meets(found.group, nodes, rule) BY DEF FoundInv
    <3>2. Suits(s, found.group, nodes[Len(found.group) + 1], rule) BY <1>4, <2>1, <2>2
    <3>3. Meets(Append(found.group, s), nodes, rule) BY <2>2, <2>3, <2>4, <3>1, <3>2, MeetsOneMore
    <3> QED BY <1>4, <2>1, <3>3
  <2>8. v \in Candidates BY <1>4, <2>5, <2>6 DEF Candidates, Queue
  <2>9. /\ ToSet(v.group) \cap ToSet(v.pool) = {}
        /\ ToSet(v.group) \cup ToSet(v.pool) \subseteq P
    BY <2>3, <2>5, <2>6 DEF FoundInv
  <2> QED BY <2>5, <2>6, <2>7, <2>8, <2>9 DEF FoundInv
<1> QED BY <1>1, <1>2, <1>3, <1>4, TakesOne

\* The loop over the nodes.
LEMMA NodesLoop ==
    ASSUME NEW pool, Queue(pool), NEW layout, layout.capacity \in Nat,
           DOMAIN layout.nodes = 1..layout.capacity
    PROVE  FoundInv(TakeNodes(pool, layout), ToSet(pool), layout.nodes, layout.branchDiversity,
                    layout.capacity)
<1>1. PICK n \in Nat : n = layout.capacity OBVIOUS
<1>2. PICK nodes, rule : nodes = layout.nodes /\ rule = layout.branchDiversity OBVIOUS
<1>3. DOMAIN nodes = 1..n BY <1>1, <1>2
<1>4. PICK base : base = [group |-> <<>>, pool |-> pool, full |-> TRUE] OBVIOUS
<1>5. FoundInv(base, ToSet(pool), nodes, rule, 0)
  BY <1>4, NobodyQueues, MeetsNobody DEF FoundInv, Candidates, Queue
<1>6. base \in Candidates BY <1>5 DEF FoundInv
<1>7. \A node : \A f \in Candidates : TakeNode(f, node, rule) \in Candidates BY TakeNodeType
<1>8. PICK step : step = [i \in 1..n |-> [f \in Candidates |-> TakeNode(f, nodes[i], rule)]] OBVIOUS
<1>9. step \in [1..n -> [Candidates -> Candidates]] BY <1>7, <1>8
<1>10. PICK f \in [SUBSET (1..n) -> Candidates] : LoopOn(f, n, base, step) BY <1>6, <1>9, LoopExists
<1> DEFINE Eq(g) == g = [s \in SUBSET (1..n) |->
                           IF s = {} THEN base ELSE TakeNode(g[s \ {Max(s)}], nodes[Max(s)], rule)]
<1>11. Eq(f)
  <2>1. ASSUME NEW s \in SUBSET (1..n), s # {} PROVE f[s] = TakeNode(f[s \ {Max(s)}], nodes[Max(s)], rule)
    <3>1. f[s] = step[Max(s)][f[s \ {Max(s)}]] BY <1>10, <2>1 DEF LoopOn
    <3>2. s \ {Max(s)} \in SUBSET (1..n) /\ f[s \ {Max(s)}] \in Candidates BY <1>10
    <3>3. Max(s) \in 1..n BY <2>1, GreatestIndex
    <3> QED BY <1>8, <3>1, <3>2, <3>3
  <2>2. f[{}] = base BY <1>10 DEF LoopOn
  <2> QED BY <1>10, <2>1, <2>2
<1>12. PICK iter : iter = CHOOSE g : Eq(g) OBVIOUS
<1>13. Eq(iter) BY <1>11, <1>12
<1>14. TakeNodes(pool, layout) = iter[1..n]
  BY <1>2, <1>3, <1>4, <1>12 DEF TakeNodes, FoldLeft, MapThenFoldSet
<1> DEFINE P == {i \in 0..n : FoundInv(iter[1..i], ToSet(pool), nodes, rule, i)}
<1>15. 0 \in P
  <2>1. 1..0 = {} /\ 1..0 \in SUBSET (1..n) /\ 0 \in 0..n OBVIOUS
  <2>2. iter[1..0] = base BY <1>13, <2>1
  <2> QED BY <1>5, <2>1, <2>2
<1>16. ASSUME NEW i \in 0..(n - 1), i \in P PROVE i + 1 \in P
  <2>1. i + 1 \in Nat \ {0} /\ (i + 1) - 1 = i /\ 1..(i + 1) \in SUBSET (1..n) /\ i + 1 \in 0..n /\ i \in Nat
    OBVIOUS
  <2>2. 1..(i + 1) # {} /\ Max(1..(i + 1)) = i + 1 /\ (1..(i + 1)) \ {Max(1..(i + 1))} = 1..i
    BY <2>1, Rounds
  <2>3. iter[1..(i + 1)] = TakeNode(iter[1..i], nodes[i + 1], rule) BY <1>13, <2>1, <2>2
  <2>4. FoundInv(iter[1..i], ToSet(pool), nodes, rule, i) BY <1>16
  <2>5. FoundInv(TakeNode(iter[1..i], nodes[i + 1], rule), ToSet(pool), nodes, rule, i + 1)
    BY <2>1, <2>4, TakeNodeInv
  <2> QED BY <2>1, <2>3, <2>5
<1> HIDE DEF P, Eq
<1>17. \A i \in 0..(n - 1) : i \in P => i + 1 \in P BY <1>16
<1>18. \A i \in 0..n : i \in P BY <1>15, <1>17, UpTo
<1>19. n \in 0..n OBVIOUS
<1>20. FoundInv(iter[1..n], ToSet(pool), nodes, rule, n) BY <1>18, <1>19 DEF P
<1> QED BY <1>1, <1>2, <1>14, <1>20

-----------------------------------------------------------------------------
(* The rooms of the list are filled.                                       *)

\* A group for all beds of the layout.
Allocated(group, layout) ==
    Queue(group) /\ Len(group) = layout.capacity /\ Meets(group, layout.nodes, layout.branchDiversity)

\* Groups by room, in which nobody is twice or still waits.
PlanInv(plan, pool, layout) ==
    /\ \A r \in DOMAIN plan : Allocated(plan[r], layout) /\ ToSet(plan[r]) \cap ToSet(pool) = {}
    /\ \A r1, r2 \in DOMAIN plan : r1 # r2 => ToSet(plan[r1]) \cap ToSet(plan[r2]) = {}

Plans == UNION {[R -> Seq(Student)] : R \in SUBSET Room}
Progress == [pool : Seq(Student), allocations : Plans]
DoneInv(done, layout) ==
    done \in Progress /\ Queue(done.pool) /\ PlanInv(done.allocations, done.pool, layout)

\* The room has the group, and the others keep theirs.
Extends(new, groups, room, group) ==
    /\ DOMAIN new = {room} \cup DOMAIN groups
    /\ new[room] = group /\ \A r \in DOMAIN groups : r # room => new[r] = groups[r]

\* Put adds one group to a plan.
LEMMA PutType ==
    ASSUME NEW groups \in Plans, NEW room \in Room, NEW group \in Seq(Student)
    PROVE  Put(groups, room, group) \in Plans /\ Extends(Put(groups, room, group), groups, room, group)
<1>1. PICK new : new = Put(groups, room, group) OBVIOUS
<1>2. PICK R \in SUBSET Room : groups \in [R -> Seq(Student)] BY DEF Plans
<1>3. PICK Q : Q = {room} \cup R OBVIOUS
<1>4. new = [r \in Q |-> IF r = room THEN group ELSE groups[r]]
  BY <1>1, <1>2, <1>3 DEF Put
<1>5. Q \in SUBSET Room BY <1>3
<1>6. new \in [Q -> Seq(Student)] BY <1>2, <1>3, <1>4
<1>7. new \in Plans BY <1>5, <1>6 DEF Plans
<1>8. Extends(new, groups, room, group) BY <1>2, <1>3, <1>4 DEF Extends
<1> QED BY <1>1, <1>7, <1>8

\* The pool gets smaller or keeps its students.
LEMMA FillRoomInv ==
    ASSUME NEW layout, layout.capacity \in Nat, DOMAIN layout.nodes = 1..layout.capacity,
           NEW room \in Room, NEW done, DoneInv(done, layout)
    PROVE  DoneInv(FillRoom(done, room, layout), layout)
<1>1. PICK found : found = TakeNodes(done.pool, layout) OBVIOUS
<1>2. Queue(done.pool) /\ done.allocations \in Plans /\ PlanInv(done.allocations, done.pool, layout)
  BY DEF DoneInv, Progress
<1>3. FoundInv(found, ToSet(done.pool), layout.nodes, layout.branchDiversity, layout.capacity)
  BY <1>1, <1>2, NodesLoop
<1>4. PICK v : v = FillRoom(done, room, layout) OBVIOUS
<1>5. v = IF found.full
          THEN [pool |-> found.pool, allocations |-> Put(done.allocations, room, found.group)]
          ELSE [pool |-> found.pool \o found.group, allocations |-> done.allocations]
  BY <1>1, <1>4 DEF FillRoom
<1>6. /\ Queue(found.group) /\ Queue(found.pool)
      /\ ToSet(found.group) \cap ToSet(found.pool) = {}
      /\ ToSet(found.group) \cup ToSet(found.pool) \subseteq ToSet(done.pool)
  BY <1>3 DEF FoundInv
<1>7. CASE found.full
  <2>1. PICK plan : plan = done.allocations OBVIOUS
  <2>2. PICK new : new = Put(plan, room, found.group) OBVIOUS
  <2>3. v = [pool |-> found.pool, allocations |-> new] BY <1>5, <1>7, <2>1, <2>2
  <2>4. /\ new \in Plans /\ DOMAIN new = {room} \cup DOMAIN plan
        /\ new[room] = found.group /\ \A r \in DOMAIN plan : r # room => new[r] = plan[r]
    <3>1. plan \in Plans /\ found.group \in Seq(Student) BY <1>2, <1>6, <2>1 DEF Queue
    <3>2. new \in Plans /\ Extends(new, plan, room, found.group) BY <2>2, <3>1, PutType
    <3> QED BY <3>2 DEF Extends
  <2>5. Allocated(found.group, layout) BY <1>3, <1>6, <1>7 DEF Allocated, FoundInv
  <2>6. \A r \in DOMAIN plan : /\ Allocated(plan[r], layout)
                               /\ ToSet(plan[r]) \cap ToSet(found.pool) = {}
                               /\ ToSet(plan[r]) \cap ToSet(found.group) = {}
    BY <1>2, <1>6, <2>1 DEF PlanInv
  <2>7. \A r1, r2 \in DOMAIN plan : r1 # r2 => ToSet(plan[r1]) \cap ToSet(plan[r2]) = {}
    BY <1>2, <2>1 DEF PlanInv
  <2>8. \A r \in DOMAIN new : Allocated(new[r], layout) /\ ToSet(new[r]) \cap ToSet(found.pool) = {}
    BY <1>6, <2>4, <2>5, <2>6
  <2>9. ASSUME NEW r1 \in DOMAIN new, NEW r2 \in DOMAIN new, r1 # r2
        PROVE  ToSet(new[r1]) \cap ToSet(new[r2]) = {}
    <3>1. CASE r1 = room
      <4>1. r2 \in DOMAIN plan /\ new[r1] = found.group /\ new[r2] = plan[r2] BY <2>4, <2>9, <3>1
      <4> QED BY <2>6, <4>1
    <3>2. CASE r2 = room
      <4>1. r1 \in DOMAIN plan /\ new[r2] = found.group /\ new[r1] = plan[r1] BY <2>4, <2>9, <3>2
      <4> QED BY <2>6, <4>1
    <3>3. CASE r1 # room /\ r2 # room
      <4>1. /\ r1 \in DOMAIN plan /\ r2 \in DOMAIN plan
            /\ new[r1] = plan[r1] /\ new[r2] = plan[r2]
        BY <2>4, <3>3
      <4> QED BY <2>7, <2>9, <4>1
    <3> QED BY <3>1, <3>2, <3>3
  <2>10. PlanInv(new, found.pool, layout) BY <2>8, <2>9 DEF PlanInv
  <2>11. v \in Progress BY <1>6, <2>3, <2>4 DEF Progress, Queue
  <2> QED BY <1>4, <1>6, <2>3, <2>10, <2>11 DEF DoneInv
<1>8. CASE ~ found.full
  <2>1. PICK q : q = found.pool \o found.group OBVIOUS
  <2>2. Queue(q) /\ ToSet(q) \subseteq ToSet(done.pool)
    <3>1. ToSet(found.pool) \cap ToSet(found.group) = {} BY <1>6
    <3>2. Queue(q) /\ ToSet(q) = ToSet(found.pool) \cup ToSet(found.group) BY <1>6, <2>1, <3>1, GoBack
    <3> QED BY <1>6, <3>2
  <2>3. v = [pool |-> q, allocations |-> done.allocations] BY <1>5, <1>8, <2>1
  <2>4. PlanInv(done.allocations, q, layout)
    <3>1. \A r \in DOMAIN done.allocations : /\ Allocated(done.allocations[r], layout)
                                             /\ ToSet(done.allocations[r]) \cap ToSet(q) = {}
      BY <1>2, <2>2 DEF PlanInv
    <3> QED BY <1>2, <3>1 DEF PlanInv
  <2>5. v \in Progress BY <1>2, <2>2, <2>3 DEF Progress, Queue
  <2> QED BY <1>4, <2>2, <2>3, <2>4, <2>5 DEF DoneInv
<1> QED BY <1>7, <1>8

\* The loop over the rooms.
LEMMA RoomsLoop ==
    ASSUME NEW layout, layout.capacity \in Nat, DOMAIN layout.nodes = 1..layout.capacity,
           NEW pool, Queue(pool), NEW rooms \in Seq(Room)
    PROVE  \E done : DoneInv(done, layout) /\ matchConstraints(pool, rooms, layout) = done.allocations
<1>1. PICK base : base = [pool |-> pool, allocations |-> <<>>] OBVIOUS
<1>2. PICK n \in Nat : n = Len(rooms) BY LenProperties
<1>3. DOMAIN rooms = 1..n /\ \A i \in 1..n : rooms[i] \in Room BY <1>2, LenProperties, ElementOfSeq
<1>4. PICK D : D = {d \in Progress : DoneInv(d, layout)} OBVIOUS
<1>5. base \in D
  <2>1. <<>> \in [{} -> Seq(Student)] /\ {} \in SUBSET Room OBVIOUS
  <2>2. <<>> \in Plans BY <2>1 DEF Plans
  <2>3. base \in Progress BY <1>1, <2>2 DEF Progress, Queue
  <2>4. DOMAIN base.allocations = {} /\ Queue(base.pool) BY <1>1
  <2>5. PlanInv(base.allocations, base.pool, layout) BY <2>4 DEF PlanInv
  <2> QED BY <1>4, <2>3, <2>4, <2>5 DEF DoneInv
<1>6. ASSUME NEW d \in D, NEW room \in Room PROVE FillRoom(d, room, layout) \in D
  <2>1. DoneInv(d, layout) BY <1>4
  <2>2. DoneInv(FillRoom(d, room, layout), layout) BY <2>1, FillRoomInv
  <2> QED BY <1>4, <2>2 DEF DoneInv
<1>7. PICK step : step = [i \in 1..n |-> [d \in D |-> FillRoom(d, rooms[i], layout)]] OBVIOUS
<1>8. step \in [1..n -> [D -> D]]
  <2>1. \A i \in 1..n, d \in D : FillRoom(d, rooms[i], layout) \in D BY <1>3, <1>6
  <2> QED BY <1>7, <2>1
<1>9. PICK f \in [SUBSET (1..n) -> D] : LoopOn(f, n, base, step) BY <1>5, <1>8, LoopExists
<1> DEFINE Eq(g) == g = [s \in SUBSET (1..n) |->
                           IF s = {} THEN base ELSE FillRoom(g[s \ {Max(s)}], rooms[Max(s)], layout)]
<1>10. Eq(f)
  <2>1. ASSUME NEW s \in SUBSET (1..n), s # {}
        PROVE  f[s] = FillRoom(f[s \ {Max(s)}], rooms[Max(s)], layout)
    <3>1. f[s] = step[Max(s)][f[s \ {Max(s)}]] BY <1>9, <2>1 DEF LoopOn
    <3>2. s \ {Max(s)} \in SUBSET (1..n) /\ f[s \ {Max(s)}] \in D BY <1>9
    <3>3. Max(s) \in 1..n BY <2>1, GreatestIndex
    <3> QED BY <1>7, <3>1, <3>2, <3>3
  <2>2. f[{}] = base BY <1>9 DEF LoopOn
  <2> QED BY <1>9, <2>1, <2>2
<1>11. PICK iter : iter = CHOOSE g : Eq(g) OBVIOUS
<1>12. Eq(iter) BY <1>10, <1>11
<1>13. matchConstraints(pool, rooms, layout) = iter[1..n].allocations
  BY <1>1, <1>3, <1>11 DEF matchConstraints, FoldLeft, MapThenFoldSet
<1> DEFINE P == {i \in 0..n : iter[1..i] \in D}
<1>14. 0 \in P
  <2>1. 1..0 = {} /\ 1..0 \in SUBSET (1..n) /\ 0 \in 0..n OBVIOUS
  <2>2. iter[1..0] = base BY <1>12, <2>1
  <2> QED BY <1>5, <2>1, <2>2
<1>15. ASSUME NEW i \in 0..(n - 1), i \in P PROVE i + 1 \in P
  <2>1. i + 1 \in Nat \ {0} /\ (i + 1) - 1 = i /\ 1..(i + 1) \in SUBSET (1..n) /\ i + 1 \in 0..n
        /\ i + 1 \in 1..n
    OBVIOUS
  <2>2. 1..(i + 1) # {} /\ Max(1..(i + 1)) = i + 1 /\ (1..(i + 1)) \ {Max(1..(i + 1))} = 1..i
    BY <2>1, Rounds
  <2>3. iter[1..(i + 1)] = FillRoom(iter[1..i], rooms[i + 1], layout) BY <1>12, <2>1, <2>2
  <2>4. iter[1..i] \in D /\ rooms[i + 1] \in Room BY <1>3, <1>15, <2>1
  <2> QED BY <1>6, <2>1, <2>3, <2>4
<1> HIDE DEF P, Eq
<1>16. \A i \in 0..(n - 1) : i \in P => i + 1 \in P BY <1>15
<1>17. \A i \in 0..n : i \in P BY <1>14, <1>16, UpTo
<1>18. n \in 0..n OBVIOUS
<1>19. iter[1..n] \in D BY <1>17, <1>18 DEF P
<1> QED BY <1>4, <1>13, <1>19

\* The students who are read, in the order of their ranks.
LEMMA UnassignedQueue == Queue(getUnassignedFirstYearStudents)
<1>1. ByRank \in Seq(Student) /\ IsInjective(ByRank) BY RoomAssumption
<1>2. PICK n \in Nat : n = Len(ByRank) BY <1>1, LenProperties
<1>3. DOMAIN ByRank = 1..n /\ \A i \in 1..n : ByRank[i] \in Student
  BY <1>1, <1>2, LenProperties, ElementOfSeq
<1> DEFINE Passes(q, s) == IF is_allotted[s] THEN q ELSE Append(q, s)
<1>4. \A q \in Seq(Student), s \in Student : Passes(q, s) \in Seq(Student) BY AppendProperties
<1>5. PICK step : step = [i \in 1..n |-> [q \in Seq(Student) |-> Passes(q, ByRank[i])]] OBVIOUS
<1>6. <<>> \in Seq(Student) /\ step \in [1..n -> [Seq(Student) -> Seq(Student)]]
  BY <1>3, <1>4, <1>5, EmptySeq
<1>7. PICK f \in [SUBSET (1..n) -> Seq(Student)] : LoopOn(f, n, <<>>, step) BY <1>6, LoopExists
<1> DEFINE Eq(g) == g = [s \in SUBSET (1..n) |->
                           IF s = {} THEN <<>> ELSE Passes(g[s \ {Max(s)}], ByRank[Max(s)])]
<1>8. PICK iter : iter = CHOOSE g : Eq(g) OBVIOUS
<1>9. getUnassignedFirstYearStudents = iter[1..n]
  BY <1>3, <1>8 DEF getUnassignedFirstYearStudents, FoldLeft, MapThenFoldSet
<1> HIDE DEF Passes
<1>10. Eq(f)
  <2>1. ASSUME NEW s \in SUBSET (1..n), s # {} PROVE f[s] = Passes(f[s \ {Max(s)}], ByRank[Max(s)])
    <3>1. f[s] = step[Max(s)][f[s \ {Max(s)}]] BY <1>7, <2>1 DEF LoopOn
    <3>2. s \ {Max(s)} \in SUBSET (1..n) /\ f[s \ {Max(s)}] \in Seq(Student) BY <1>7
    <3>3. Max(s) \in 1..n BY <2>1, GreatestIndex
    <3> QED BY <1>5, <3>1, <3>2, <3>3
  <2>2. f[{}] = <<>> BY <1>7 DEF LoopOn
  <2> QED BY <1>7, <2>1, <2>2
<1>11. Eq(iter) BY <1>8, <1>10
<1> DEFINE P == {i \in 0..n : /\ Queue(iter[1..i])
                              /\ \A s \in ToSet(iter[1..i]) : \E k \in 1..i : s = ByRank[k]}
<1>12. 0 \in P
  <2>1. 1..0 = {} /\ 1..0 \in SUBSET (1..n) /\ 0 \in 0..n OBVIOUS
  <2>2. iter[1..0] = <<>> BY <1>11, <2>1
  <2> QED BY <2>1, <2>2, NobodyQueues
<1>13. ASSUME NEW i \in 0..(n - 1), i \in P PROVE i + 1 \in P
  <2>1. i + 1 \in Nat \ {0} /\ (i + 1) - 1 = i /\ 1..(i + 1) \in SUBSET (1..n) /\ i + 1 \in 0..n
        /\ i + 1 \in 1..n /\ \A k \in 1..i : k \in 1..n /\ k \in 1..(i + 1) /\ k # i + 1
    OBVIOUS
  <2>2. 1..(i + 1) # {} /\ Max(1..(i + 1)) = i + 1 /\ (1..(i + 1)) \ {Max(1..(i + 1))} = 1..i
    BY <2>1, Rounds
  <2>3. PICK q : q = iter[1..i] OBVIOUS
  <2>4. PICK p : p = iter[1..(i + 1)] OBVIOUS
  <2>5. p = Passes(q, ByRank[i + 1]) BY <1>11, <2>1, <2>2, <2>3, <2>4
  <2>6. Queue(q) /\ \A s \in ToSet(q) : \E k \in 1..i : s = ByRank[k] BY <1>13, <2>3
  <2>7. ByRank[i + 1] \notin ToSet(q) BY <1>1, <1>3, <2>1, <2>6 DEF IsInjective
  <2>8. CASE p = q
    <3>1. \A s \in ToSet(q) : \E k \in 1..(i + 1) : s = ByRank[k] BY <2>1, <2>6
    <3> QED BY <2>1, <2>4, <2>6, <2>8, <3>1
  <2>9. CASE p = Append(q, ByRank[i + 1])
    <3>1. Queue(p) /\ ToSet(p) = ToSet(q) \cup {ByRank[i + 1]} BY <1>3, <2>1, <2>6, <2>7, <2>9, Joins
    <3>2. \A s \in ToSet(p) : \E k \in 1..(i + 1) : s = ByRank[k] BY <2>1, <2>6, <3>1
    <3> QED BY <2>1, <2>4, <3>1, <3>2
  <2> QED BY <2>5, <2>8, <2>9 DEF Passes
<1> HIDE DEF P, Eq
<1>14. \A i \in 0..(n - 1) : i \in P => i + 1 \in P BY <1>13
<1>15. \A i \in 0..n : i \in P BY <1>12, <1>14, UpTo
<1>16. n \in 0..n OBVIOUS
<1>17. Queue(iter[1..n]) BY <1>15, <1>16 DEF P
<1> QED BY <1>9, <1>17

-----------------------------------------------------------------------------
(* The layout of an allocation.                                            *)

\* What LayoutHolds says of a plan and its layout.
LayoutMet(plan, layout) ==
    /\ \A r1, r2 \in DOMAIN plan : r1 # r2 => ToSet(plan[r1]) \cap ToSet(plan[r2]) = {}
    /\ \A r \in DOMAIN plan :
          LET group == plan[r]
              branches == {branch[s] : s \in ToSet(group)} IN
          /\ Len(group) = layout.capacity /\ Cardinality(ToSet(group)) = layout.capacity
          /\ \A i \in DOMAIN group : matchesStateAndBranch(group[i], layout.nodes[i])
          /\ layout.branchDiversity = "MUST_BE_UNIQUE" => Cardinality(branches) = layout.capacity
          /\ layout.branchDiversity = "EXACT_MATCH" => Cardinality(branches) = 1

PlanMet(w) == \A layout \in w.layout : LayoutMet(w.plan, layout)

\* A list in which nothing is twice has as many elements as entries.
LEMMA ManyEntries ==
    ASSUME NEW n \in Nat, NEW f, DOMAIN f = 1..n, \A i, j \in 1..n : f[i] = f[j] => i = j
    PROVE  Cardinality({f[i] : i \in 1..n}) = n
<1>1. PICK S : S = {f[i] : i \in 1..n} OBVIOUS
<1>2. PICK D : D = 1..n OBVIOUS
<1>3. PICK g : g = [i \in D |-> f[i]] OBVIOUS
<1>4. g \in [D -> S] /\ (\A x \in S : \E i \in D : g[i] = x) /\ \A i, j \in D : g[i] = g[j] => i = j
  BY <1>1, <1>2, <1>3
<1>5. g \in Bijection(D, S) BY <1>4, Fun_IsBij
<1>6. ExistsBijection(1..n, S) BY <1>2, <1>5 DEF ExistsBijection
<1>7. Cardinality(S) = n BY <1>6, FS_CountingElements
<1> QED BY <1>1, <1>7

\* A group for all beds meets the layout.
LEMMA AllocatedMet ==
    ASSUME NEW layout, layout.capacity \in 1..6, NEW group, Allocated(group, layout)
    PROVE  /\ Len(group) = layout.capacity /\ Cardinality(ToSet(group)) = layout.capacity
           /\ \A i \in DOMAIN group : matchesStateAndBranch(group[i], layout.nodes[i])
           /\ layout.branchDiversity = "MUST_BE_UNIQUE"
                 => Cardinality({branch[s] : s \in ToSet(group)}) = layout.capacity
           /\ layout.branchDiversity = "EXACT_MATCH" => Cardinality({branch[s] : s \in ToSet(group)}) = 1
<1>1. PICK n \in Nat \ {0} : n = layout.capacity OBVIOUS
<1>2. Queue(group) /\ Len(group) = n /\ Meets(group, layout.nodes, layout.branchDiversity)
  BY <1>1 DEF Allocated
<1>3. DOMAIN group = 1..n /\ ToSet(group) = {group[i] : i \in 1..n}
  BY <1>2, QueueEntries DEF Queue
<1>4. Cardinality(ToSet(group)) = n
  <2>1. \A i, j \in 1..n : group[i] = group[j] => i = j BY <1>2, <1>3 DEF Queue, IsInjective
  <2> QED BY <1>3, <2>1, ManyEntries
<1>5. \A i \in DOMAIN group : matchesStateAndBranch(group[i], layout.nodes[i]) BY <1>2 DEF Meets
<1>6. PICK b : b = [i \in 1..n |-> branch[group[i]]] OBVIOUS
<1>7. {branch[s] : s \in ToSet(group)} = {b[i] : i \in 1..n} BY <1>3, <1>6
<1>8. ASSUME layout.branchDiversity = "MUST_BE_UNIQUE"
      PROVE  Cardinality({branch[s] : s \in ToSet(group)}) = n
  <2>1. \A i, j \in 1..n : b[i] = b[j] => i = j BY <1>2, <1>3, <1>6, <1>8 DEF Meets
  <2>2. DOMAIN b = 1..n BY <1>6
  <2>3. Cardinality({b[i] : i \in 1..n}) = n BY <2>1, <2>2, ManyEntries
  <2> QED BY <1>7, <2>3
<1>9. ASSUME layout.branchDiversity = "EXACT_MATCH"
      PROVE  Cardinality({branch[s] : s \in ToSet(group)}) = 1
  <2>1. 1 \in 1..n OBVIOUS
  <2>2. \A i \in 1..n : b[i] = b[1] BY <1>2, <1>3, <1>6, <1>9, <2>1 DEF Meets
  <2>3. {b[i] : i \in 1..n} = {b[1]} BY <2>1, <2>2
  <2> QED BY <1>7, <2>3, FS_Singleton
<1> QED BY <1>1, <1>2, <1>4, <1>5, <1>8, <1>9

\* What matchConstraints returns.
LEMMA PlanMeetsLayout ==
    ASSUME NEW layout, ValidLayout(layout), NEW rooms \in Target
    PROVE  LayoutMet(matchConstraints(getUnassignedFirstYearStudents, rooms, layout), layout)
<1>1. PICK pool : pool = getUnassignedFirstYearStudents OBVIOUS
<1>2. Queue(pool) BY <1>1, UnassignedQueue
<1>3. layout.capacity \in 1..6 /\ layout.capacity \in Nat /\ DOMAIN layout.nodes = 1..layout.capacity
  BY DEF ValidLayout
<1>4. rooms \in Seq(Room) BY RoomAssumption
<1>5. PICK plan : plan = matchConstraints(pool, rooms, layout) OBVIOUS
<1>6. PICK done : DoneInv(done, layout) /\ plan = done.allocations
  BY <1>2, <1>3, <1>4, <1>5, RoomsLoop
<1>7. PlanInv(plan, done.pool, layout) BY <1>6 DEF DoneInv
<1>8. \A r1, r2 \in DOMAIN plan : r1 # r2 => ToSet(plan[r1]) \cap ToSet(plan[r2]) = {}
  BY <1>7 DEF PlanInv
<1>9. \A r \in DOMAIN plan : Allocated(plan[r], layout) BY <1>7 DEF PlanInv
<1>10. LayoutMet(plan, layout) BY <1>3, <1>8, <1>9, AllocatedMet DEF LayoutMet
<1> QED BY <1>1, <1>5, <1>10

\* A step keeps the plan and the layout of a transaction, or it has none any more.
Kept(u) == txn'[u].layout = {} \/ (txn'[u].layout = txn[u].layout /\ txn'[u].plan = txn[u].plan)

\* A transaction that goes on, begins or ends.
LEMMA OneKept ==
    ASSUME Inv, NEW t \in Txn, NEW v, txn' = [txn EXCEPT ![t] = v],
           v.layout = {} \/ (v.layout = txn[t].layout /\ v.plan = txn[t].plan)
    PROVE  \A u \in Txn : Kept(u)
<1>1. txn'[t] = v /\ \A u \in Txn : u # t => txn'[u] = txn[u] BY DEF Inv
<1> QED BY <1>1 DEF Kept

\* The next statement is run, which writes neither plan nor layout.
LEMMA GoKept ==
    ASSUME Inv, NEW t \in Txn, NEW n, NEW w, Go(t, n, w), Columns(w),
           w.layout = txn[t].layout, w.plan = txn[t].plan
    PROVE  \A u \in Txn : Kept(u)
<1>1. PICK v : v = [w EXCEPT !.todo = n \o Tail(@)] OBVIOUS
<1>2. v.layout = w.layout /\ v.plan = w.plan BY <1>1 DEF Columns
<1>3. txn' = [txn EXCEPT ![t] = v] BY <1>1 DEF Go
<1> QED BY <1>2, <1>3, OneKept

\* The transaction ends, and its plan with it.
LEMMA EndKept ==
    ASSUME Inv, NEW t \in Txn, Rollback(t)
    PROVE  \A u \in Txn : Kept(u)
<1>1. Closed.layout = {} /\ txn' = [txn EXCEPT ![t] = Closed] BY DEF Closed, Rollback
<1> QED BY <1>1, OneKept

\* A statement keeps them, or the transaction ends.
LEMMA StatementKept ==
    ASSUME Inv, NEW t \in Txn,
           \/ LockRoom(t) \/ LockEmptyRoom(t) \/ LockForRollback(t) \/ ClaimStudent(t)
           \/ EndRows(t) \/ InsertRow(t) \/ Lookup(t) \/ WriteSnapshot(t)
           \/ Recount(t) \/ WriteOccupancy(t) \/ Commit(t) \/ Deadlock(t)
    PROVE  \A u \in Txn : Kept(u)
<1>1. PICK w : w = txn[t] OBVIOUS
<1>2. Columns(w) BY <1>1 DEF Inv, WorkInv, WorkType
<1>3. PICK r, s, x : r = head(t).room /\ s = head(t).student /\ x = head(t).value OBVIOUS
<1>4. ASSUME NEW n, NEW v, Go(t, n, v), Columns(v), v.layout = w.layout, v.plan = w.plan
      PROVE  \A u \in Txn : Kept(u)
  BY <1>1, <1>4, GoKept
<1>5. CASE Rollback(t) BY <1>5, EndKept
<1>6. PICK L : L = w.locked \cup {r} OBVIOUS
<1>7. PICK C : C = w.claimed \cup {s} OBVIOUS
<1>8. ASSUME NEW n, Go(t, n, w) PROVE \A u \in Txn : Kept(u) BY <1>2, <1>4, <1>8
<1>9. ASSUME NEW n, Go(t, n, [w EXCEPT !.locked = L]) PROVE \A u \in Txn : Kept(u)
  <2>1. PICK v : v = [w EXCEPT !.locked = L] OBVIOUS
  <2>2. Columns(v) /\ v.layout = w.layout /\ v.plan = w.plan BY <1>2, <2>1 DEF Columns
  <2> QED BY <1>4, <1>9, <2>1, <2>2
<1>10. CASE LockRoom(t)
  <2>1. Rollback(t) \/ Go(t, <<>>, [w EXCEPT !.locked = L]) BY <1>1, <1>3, <1>6, <1>10 DEF LockRoom
  <2> QED BY <1>5, <1>9, <2>1
<1>11. CASE LockEmptyRoom(t)
  <2>1. Rollback(t) \/ \E n : Go(t, n, [w EXCEPT !.locked = L])
    BY <1>1, <1>3, <1>6, <1>11 DEF LockEmptyRoom
  <2> QED BY <1>5, <1>9, <2>1
<1>12. CASE LockForRollback(t)
  <2>1. Go(t, <<>>, [w EXCEPT !.locked = L]) BY <1>1, <1>3, <1>6, <1>12 DEF LockForRollback
  <2> QED BY <1>9, <2>1
<1>13. CASE ClaimStudent(t)
  <2>1. PICK v : v = [w EXCEPT !.claimed = C] OBVIOUS
  <2>2. Columns(v) /\ v.layout = w.layout /\ v.plan = w.plan BY <1>2, <2>1 DEF Columns
  <2>3. Rollback(t) \/ Go(t, <<>>, v) BY <1>1, <1>3, <1>7, <1>13, <2>1 DEF ClaimStudent
  <2> QED BY <1>4, <1>5, <2>2, <2>3
<1>14. CASE EndRows(t)
  <2>1. PICK v : v = [w EXCEPT !.ended = @ \cup (Rows(t) \cap room_assignment), !.made = @ \ Rows(t),
                               !.locked = IF At(t, {"drop"}) THEN @ \cup {head(t).room} ELSE @,
                               !.dropped = IF At(t, {"drop"}) THEN @ \cup {head(t).room} ELSE @]
    OBVIOUS
  <2>2. Columns(v) /\ v.layout = w.layout /\ v.plan = w.plan BY <1>2, <2>1 DEF Columns
  <2>3. Go(t, Triggers(Rows(t)), v) BY <1>1, <1>14, <2>1 DEF EndRows
  <2> QED BY <1>4, <2>2, <2>3
<1>15. CASE InsertRow(t)
  <2>1. PICK p : p = <<s, r>> OBVIOUS
  <2>2. PICK v : v = [w EXCEPT !.made = @ \cup {p}] OBVIOUS
  <2>3. Columns(v) /\ v.layout = w.layout /\ v.plan = w.plan BY <1>2, <2>2 DEF Columns
  <2>4. Rollback(t) \/ Go(t, Triggers({p}), v) BY <1>1, <1>3, <1>15, <2>1, <2>2 DEF InsertRow
  <2> QED BY <1>4, <1>5, <2>3, <2>4
<1>16. CASE Lookup(t)
  <2>1. \E n : Go(t, n, w) BY <1>1, <1>16 DEF Lookup
  <2> QED BY <1>8, <2>1
<1>17. CASE WriteSnapshot(t)
  <2>1. PICK v : v = [w EXCEPT !.allotted[s] = x, !.claimed = C] OBVIOUS
  <2>2. Columns(v) /\ v.layout = w.layout /\ v.plan = w.plan BY <1>2, <2>1 DEF Columns
  <2>3. Go(t, <<>>, v) BY <1>1, <1>3, <1>7, <1>17, <2>1 DEF WriteSnapshot
  <2> QED BY <1>4, <2>2, <2>3
<1>18. CASE Recount(t)
  <2>1. \E n : Go(t, n, w) BY <1>1, <1>18 DEF Recount
  <2> QED BY <1>8, <2>1
<1>19. CASE WriteOccupancy(t)
  <2>1. PICK v : v = [w EXCEPT !.occupancy[r] = x, !.locked = L] OBVIOUS
  <2>2. Columns(v) /\ v.layout = w.layout /\ v.plan = w.plan BY <1>2, <2>1 DEF Columns
  <2>3. Rollback(t) \/ Go(t, <<>>, w) \/ Go(t, <<>>, v)
    BY <1>1, <1>3, <1>6, <1>19, <2>1 DEF WriteOccupancy
  <2> QED BY <1>4, <1>5, <1>8, <2>2, <2>3
<1>20. Commit(t) \/ Deadlock(t) => Rollback(t) BY DEF Commit, Deadlock
<1> QED BY <1>5, <1>10, <1>11, <1>12, <1>13, <1>14, <1>15, <1>16, <1>17, <1>18, <1>19, <1>20

\* A request that begins has no plan, but for the warden's allocation.
LEMMA BeginKept ==
    ASSUME Inv, NEW t \in Txn, NEW work, Start(t, work), work.layout = {}
    PROVE  \A u \in Txn : Kept(u)
BY OneKept DEF Start

\* The allocation begins with a plan that meets its layout (allocate).
LEMMA allocateMet ==
    ASSUME Inv, NEW t \in Txn, NEW rooms \in Target, NEW layout, allocate(t, rooms, layout)
    PROVE  PlanMet(txn'[t]) /\ \A u \in Txn : u # t => Kept(u)
<1>1. PICK plan : plan = matchConstraints(getUnassignedFirstYearStudents, rooms, layout) OBVIOUS
<1>2. PICK filled : filled = {r \in ToSet(rooms) : r \in DOMAIN plan} OBVIOUS
<1>3. PICK list \in InOrder(filled, rooms) :
         Start(t, [Closed EXCEPT !.op = "bulk", !.rooms = rooms, !.layout = {layout}, !.plan = plan,
                                 !.todo = [i \in DOMAIN list |-> Stmt("empty", {}, list[i])]])
  BY <1>1, <1>2 DEF allocate
<1>4. PICK todo : todo = [i \in DOMAIN list |-> Stmt("empty", {}, list[i])] OBVIOUS
<1>5. PICK work : work = [Closed EXCEPT !.op = "bulk", !.rooms = rooms, !.layout = {layout},
                                        !.plan = plan, !.todo = todo]
  OBVIOUS
<1>6. work.layout = {layout} /\ work.plan = plan BY <1>5 DEF Closed
<1>7. txn' = [txn EXCEPT ![t] = work] BY <1>3, <1>4, <1>5 DEF Start
<1>8. txn'[t] = work /\ \A u \in Txn : u # t => txn'[u] = txn[u] BY <1>7 DEF Inv
<1>9. LayoutMet(plan, layout)
  <2>1. ValidLayout(layout) BY DEF allocate
  <2> QED BY <1>1, <2>1, PlanMeetsLayout
<1>10. PlanMet(work) BY <1>6, <1>9 DEF PlanMet
<1> QED BY <1>8, <1>10 DEF Kept

\* Every step keeps the plans to their layouts.
LEMMA NextMet ==
    ASSUME Inv, Next, \A u \in Txn : PlanMet(txn[u])
    PROVE  \A u \in Txn : PlanMet(txn'[u])
<1>1. ASSUME NEW u \in Txn, Kept(u) PROVE PlanMet(txn'[u]) BY <1>1 DEF Kept, PlanMet
<1>2. ASSUME NEW t \in Idle, NEW s \in Student, NEW r \in Room,
             assignResident(t, s, r) \/ removeResident(t, s, r) \/ executeManualAllocation(t, s, r)
      PROVE  \A u \in Txn : Kept(u)
  <2>1. t \in Txn BY DEF Idle
  <2>2. CASE assignResident(t, s, r)
    <3>1. PICK work : work = [Closed EXCEPT !.op = "assign", !.todo = Assign(s, r)] OBVIOUS
    <3>2. work.layout = {} BY <3>1 DEF Closed
    <3>3. Start(t, work) BY <2>2, <3>1 DEF assignResident
    <3> QED BY <2>1, <3>2, <3>3, BeginKept
  <2>3. CASE removeResident(t, s, r)
    <3>1. PICK work : work = [Closed EXCEPT !.op = "remove", !.todo = <<Stmt("remove", s, r)>>] OBVIOUS
    <3>2. work.layout = {} BY <3>1 DEF Closed
    <3>3. Start(t, work) BY <2>3, <3>1 DEF removeResident
    <3> QED BY <2>1, <3>2, <3>3, BeginKept
  <2>4. CASE executeManualAllocation(t, s, r)
    <3>1. PICK todo : todo = <<Stmt("notfull", s, r), Stmt("claim", s, r)>> \o Assign(s, r) OBVIOUS
    <3>2. PICK work : work = [Closed EXCEPT !.op = "manual", !.student = {s}, !.rooms = <<r>>,
                                            !.todo = todo]
      OBVIOUS
    <3>3. work.layout = {} BY <3>2 DEF Closed
    <3>4. Start(t, work) BY <2>4, <3>1, <3>2 DEF executeManualAllocation
    <3> QED BY <2>1, <3>3, <3>4, BeginKept
  <2> QED BY <1>2, <2>2, <2>3, <2>4
<1>3. ASSUME NEW t \in Idle, NEW r \in Room, deleteRoom(t, r) PROVE \A u \in Txn : Kept(u)
  <2>1. PICK work : work = [Closed EXCEPT !.op = "delete", !.todo = <<Stmt("drop", {}, r)>>] OBVIOUS
  <2>2. work.layout = {} BY <2>1 DEF Closed
  <2>3. Start(t, work) BY <1>3, <2>1 DEF deleteRoom
  <2> QED BY <2>2, <2>3, BeginKept DEF Idle
<1>4. ASSUME NEW t \in Idle, NEW rooms \in Target, rollbackAllocations(t, rooms)
      PROVE  \A u \in Txn : Kept(u)
  <2>1. PICK todo : todo = Chain(2, [i \in DOMAIN rooms |-> <<Stmt("lock", {}, rooms[i]),
                                                              Stmt("clear", {}, rooms[i])>>])
    OBVIOUS
  <2>2. PICK work : work = [Closed EXCEPT !.op = "rollback", !.rooms = rooms, !.todo = todo] OBVIOUS
  <2>3. work.layout = {} BY <2>2 DEF Closed
  <2>4. Start(t, work) BY <1>4, <2>1, <2>2 DEF rollbackAllocations
  <2> QED BY <2>3, <2>4, BeginKept DEF Idle
<1>5. ASSUME NEW t \in Idle, NEW rooms \in Target, NEW layout \in Layout, allocate(t, rooms, layout)
      PROVE  \A u \in Txn : PlanMet(txn'[u])
  <2>1. t \in Txn BY DEF Idle
  <2>2. PlanMet(txn'[t]) /\ \A u \in Txn : u # t => Kept(u) BY <1>5, <2>1, allocateMet
  <2> QED BY <1>1, <2>2
<1>6. ASSUME \/ \E R \in SUBSET Room, c \in Capacity : bulkUploadRooms(R, c)
             \/ \E r \in Room, c \in Capacity : addRoom(r, c) \/ updateRoom(r, c)
      PROVE  \A u \in Txn : Kept(u)
  <2>1. UNCHANGED txn BY <1>6 DEF bulkUploadRooms, addRoom, updateRoom
  <2> QED BY <2>1 DEF Kept
<1>7. ASSUME NEW t \in Txn,
             \/ LockRoom(t) \/ LockEmptyRoom(t) \/ LockForRollback(t) \/ ClaimStudent(t)
             \/ EndRows(t) \/ InsertRow(t) \/ Lookup(t) \/ WriteSnapshot(t)
             \/ Recount(t) \/ WriteOccupancy(t) \/ Commit(t) \/ Deadlock(t)
      PROVE  \A u \in Txn : Kept(u)
  BY <1>7, StatementKept
<1>8. (\A u \in Txn : Kept(u)) => \A u \in Txn : PlanMet(txn'[u]) BY <1>1
<1> QED BY <1>2, <1>3, <1>4, <1>5, <1>6, <1>7, <1>8, Steps

\* The warden's allocation gives each room a group that meets the layout, and puts nobody
\* into two: whoever is taken leaves the pool, a group that cannot be completed goes back to
\* it, and what is planned stays until the transaction ends.
THEOREM LayoutsHold == Spec => []LayoutHolds
<1> DEFINE AllMet == \A t \in Txn : PlanMet(txn[t])
<1>1. Init => AllMet
  <2>1. Closed.layout = {} BY DEF Closed
  <2>2. Init => \A t \in Txn : txn[t].layout = {} BY <2>1 DEF Init
  <2> QED BY <2>2 DEF PlanMet
<1>2. Inv /\ AllMet /\ [Next]_vars => AllMet'
  <2>1. UNCHANGED vars => UNCHANGED txn BY DEF vars
  <2>2. AllMet /\ UNCHANGED txn => AllMet' OBVIOUS
  <2>3. Inv /\ AllMet /\ Next => AllMet' BY NextMet
  <2> QED BY <2>1, <2>2, <2>3
<1>3. AllMet => LayoutHolds BY DEF PlanMet, LayoutMet, LayoutHolds
<1> QED BY <1>1, <1>2, <1>3, LocksKept, PTL DEF Spec
=============================================================================
