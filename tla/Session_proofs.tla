--------------------------- MODULE Session_proofs ---------------------------
(***************************************************************************)
(* Proofs about Session: type correctness, a one-time code is accepted     *)
(* once, a session that is over is never admitted again, and one that is   *)
(* admitted can be refreshed.                                              *)
(***************************************************************************)
EXTENDS Session, SequenceTheorems, WellFoundedInduction, TLAPS

-----------------------------------------------------------------------------
(* The inductive invariant                                                 *)

\* A stored code was sent and not accepted yet, and is one person's.
CodeInv ==
    /\ \A a \in Account : otpStore[a].code <= codes
    /\ \A a, b \in Account :
           otpStore[a].code = otpStore[b].code /\ otpStore[a].code # 0 => a = b
    /\ \A c \in 1..MaxCodes : c > codes => accepted[c] = 0
    /\ \A a \in Account, c \in 1..MaxCodes : otpStore[a].code = c => accepted[c] = 0
    /\ CodeAcceptedOnce

\* The rows of user_session are filled in the order of their ids, and each has a login.
\* A request is somebody's, and works on a row that is there.
LoginInv ==
    /\ Len(logins) <= MaxSessions
    /\ \A i \in 1..Len(logins) : \E k \in DOMAIN logins : logins[k] = i
    /\ \A i \in SessionId : i > Len(logins) => ~ is_active[i]
    /\ \A q \in Request :
           /\ request[q].pc # "idle" => request[q].actor \in Account
           /\ request[q].id <= Len(logins)
           /\ request[q].pc \in {"close", "rotate", "update"} => request[q].id # 0
    /\ \A i \in over : i <= Len(logins)

\* A session that is over is not active, and no request will make it active.
OverInv == \A i \in over : ~ is_active[i] /\ ~ Busy(i)

\* Whatever makes a session active sets its hash, and what takes the hash ends it.
HashInv == \A i \in SessionId : is_active[i] => has_hash[i]

Inv == TypeOK /\ CodeInv /\ LoginInv /\ OverInv /\ HashInv

-----------------------------------------------------------------------------
(* Lemmas                                                                  *)

\* A non-empty set of naturals that has a bound has a greatest element.
LEMMA GreatestNatural ==
    ASSUME NEW bound \in Nat, NEW T \in SUBSET (0..bound), T # {}
    PROVE  \E m \in T : \A n \in T : m >= n
<1>1. IsWellFoundedOn({p \in Nat \X Nat : p[1] < p[2]}, Nat)
  BY NatLessThanWellFounded, Zenon DEF OpToRel
<1>2. PICK less, gaps : /\ less = {p \in Nat \X Nat : p[1] < p[2]}
                        /\ gaps = {bound - n : n \in T}
  OBVIOUS
<1>3. PICK g \in gaps : \A h \in gaps : <<h, g>> \notin less
  <2>1. \A n \in T : bound - n \in Nat /\ bound - n \in gaps BY <1>2
  <2>2. gaps \subseteq Nat /\ gaps # {} BY <1>2, <2>1
  <2> QED BY <1>1, <1>2, <2>2, WFMin
<1>4. PICK m \in T : g = bound - m BY <1>2
<1>5. \A n \in T : m < n => <<bound - n, g>> \in less BY <1>2, <1>4
<1>6. \A n \in T : ~ (m < n) BY <1>2, <1>3, <1>5
<1>7. \A n \in T : m >= n BY <1>6
<1> QED BY <1>7

\* The latest of some sessions is one of them.
LEMMA LatestType ==
    ASSUME TypeOK, NEW ids \in SUBSET SessionId
    PROVE  Latest(ids) = 0 \/ Latest(ids) \in ids
<1> DEFINE at == {k \in DOMAIN logins : logins[k] \in ids}
<1>1. CASE at = {} BY <1>1 DEF Latest
<1>2. CASE at # {}
  <2>1. Len(logins) \in Nat /\ at \subseteq 1..Len(logins) BY LenProperties DEF TypeOK
  <2>2. at \in SUBSET (0..Len(logins)) BY <2>1
  <2>3. PICK m \in at : \A n \in at : m >= n BY <1>2, <2>1, <2>2, GreatestNatural
  <2>4. Max(at) \in at BY <2>3 DEF Max
  <2> QED BY <1>2, <2>4 DEF Latest
<1> QED BY <1>1, <1>2

\* The session found for an account is active, and has a login.
LEMMA FoundIsActive ==
    ASSUME TypeOK, NEW a, findActiveSession(a) # 0
    PROVE  findActiveSession(a) \in SessionId /\ is_active[findActiveSession(a)]
BY LatestType DEF findActiveSession, ActiveOf

\* A session that is used again becomes the latest, and none is lost.
LEMMA LoginMoved ==
    ASSUME TypeOK, LoginInv, NEW i \in 1..Len(logins), updateGuardSession(i)
    PROVE  /\ logins' \in Seq(SessionId) /\ Len(logins') = Len(logins)
           /\ \A j \in 1..Len(logins) : \E k \in DOMAIN logins' : logins'[k] = j
<1> DEFINE k == CHOOSE k \in DOMAIN logins : logins[k] = i
           n == Len(logins)
           s == SubSeq(logins, 1, k - 1)
           t == SubSeq(logins, k + 1, n)
<1>1. /\ logins \in Seq(SessionId) /\ n \in Nat /\ DOMAIN logins = 1..n
      /\ \A j \in 1..n : logins[j] \in SessionId
  BY LenProperties, ElementOfSeq DEF TypeOK
<1>2. k \in 1..n /\ logins[k] = i BY <1>1 DEF LoginInv
<1>3. i \in SessionId BY <1>1, <1>2
<1>4. logins' = Append(s \o t, i) BY DEF updateGuardSession, RemoveAt
<1> HIDE DEF k, n
<1>5. /\ s \in Seq(SessionId) /\ Len(s) = k - 1
      /\ \A j \in 1..(k - 1) : s[j] = logins[j]
  <2>1. \A j \in 1..(k - 1) : logins[j] \in SessionId BY <1>1, <1>2
  <2>2. /\ SubSeq(logins, 1, k - 1) \in Seq(SessionId)
        /\ Len(SubSeq(logins, 1, k - 1)) = IF 1 <= k - 1 THEN k - 1 - 1 + 1 ELSE 0
        /\ \A j \in 1..(k - 1 - 1 + 1) : SubSeq(logins, 1, k - 1)[j] = logins[1 + j - 1]
    BY <1>2, <2>1, SubSeqProperties
  <2> QED BY <1>2, <2>2
<1>6. /\ t \in Seq(SessionId) /\ Len(t) = n - k
      /\ \A j \in 1..(n - k) : t[j] = logins[k + j]
  <2>1. \A j \in (k + 1)..n : logins[j] \in SessionId BY <1>1, <1>2
  <2>2. /\ SubSeq(logins, k + 1, n) \in Seq(SessionId)
        /\ Len(SubSeq(logins, k + 1, n)) = IF k + 1 <= n THEN n - (k + 1) + 1 ELSE 0
        /\ \A j \in 1..(n - (k + 1) + 1) :
              SubSeq(logins, k + 1, n)[j] = logins[k + 1 + j - 1]
    BY <1>1, <1>2, <2>1, SubSeqProperties
  <2> QED BY <1>1, <1>2, <2>2
<1> HIDE DEF s, t
<1>7. /\ s \o t \in Seq(SessionId) /\ Len(s \o t) = n - 1
      /\ \A j \in 1..(n - 1) : (s \o t)[j] = IF j < k THEN logins[j] ELSE logins[j + 1]
  <2>1. /\ s \o t \in Seq(SessionId) /\ Len(s \o t) = Len(s) + Len(t)
        /\ \A j \in 1..(Len(s) + Len(t)) :
              (s \o t)[j] = IF j <= Len(s) THEN s[j] ELSE t[j - Len(s)]
    BY <1>5, <1>6, ConcatProperties
  <2> QED BY <1>1, <1>2, <1>5, <1>6, <2>1
<1>8. /\ logins' \in Seq(SessionId) /\ Len(logins') = n /\ DOMAIN logins' = 1..n
      /\ logins'[n] = i
      /\ \A j \in 1..(n - 1) : logins'[j] = IF j < k THEN logins[j] ELSE logins[j + 1]
  <2>1. /\ Append(s \o t, i) \in Seq(SessionId)
        /\ Len(Append(s \o t, i)) = Len(s \o t) + 1
        /\ \A j \in 1..Len(s \o t) : Append(s \o t, i)[j] = (s \o t)[j]
        /\ Append(s \o t, i)[Len(s \o t) + 1] = i
    BY <1>3, <1>7, AppendProperties
  <2>2. Len(Append(s \o t, i)) = n BY <1>1, <1>7, <2>1
  <2>3. DOMAIN Append(s \o t, i) = 1..n BY <2>1, <2>2, LenProperties
  <2> QED BY <1>1, <1>4, <1>7, <2>1, <2>2, <2>3
<1>9. \A j \in 1..n : \E m \in 1..n : logins'[m] = j
  <2> TAKE j \in 1..n
  <2>1. PICK m \in 1..n : logins[m] = j BY <1>1 DEF LoginInv, n
  <2>2. CASE m = k
    <3>1. n \in 1..n BY <1>1, <1>2
    <3> QED BY <1>2, <1>8, <2>1, <2>2, <3>1
  <2>3. CASE m < k
    <3>1. m \in 1..(n - 1) BY <1>1, <1>2, <2>3
    <3> QED BY <1>8, <2>1, <2>3, <3>1
  <2>4. CASE m > k
    <3>1. m - 1 \in 1..(n - 1) /\ ~ (m - 1 < k) /\ m - 1 + 1 = m BY <1>1, <1>2, <2>4
    <3>2. logins'[m - 1] = j BY <1>8, <2>1, <3>1
    <3> QED BY <1>1, <3>1, <3>2
  <2> QED BY <1>1, <1>2, <2>2, <2>3, <2>4
<1> QED BY <1>8, <1>9 DEF n

PC == {"idle", "create", "welcome", "first session", "revoke", "start", "machines", "first",
       "second", "update", "leave", "close", "rotate"}

Handler == [pc : PC, actor : Account \cup {NoOne}, id : 0..MaxSessions,
            machine : Machine \cup {NoMachine}]

Code == [code : 0..MaxCodes, for : {"nothing", "login", "signup"}]

\* What is stored of codes and of requests.
LEMMA CodeType ==
    /\ NoCode \in Code
    /\ TypeOK => otpStore \in [Account -> Code] /\ request \in [Request -> Handler]
<1>1. NoCode \in Code BY SessionAssumption DEF NoCode, Code
<1>2. TypeOK => otpStore \in [Account -> Code] BY DEF TypeOK, Code
<1>3. TypeOK => request \in [Request -> Handler] BY DEF TypeOK, Handler, PC
<1> QED BY <1>1, <1>2, <1>3

\* How a handler goes on, ends and begins.
LEMMA GotoType ==
    ASSUME TypeOK, NEW q \in Request, NEW pc \in PC, Goto(q, pc)
    PROVE  /\ request' \in [Request -> Handler]
           /\ request'[q].pc = pc /\ request'[q].id = request[q].id
           /\ request'[q].actor = request[q].actor
           /\ \A p \in Request : p # q => request'[p] = request[p]
<1>1. request \in [Request -> Handler] BY CodeType
<1> DEFINE r == [request[q] EXCEPT !.pc = pc]
<1>2. r \in Handler /\ r.pc = pc /\ r.id = request[q].id /\ r.actor = request[q].actor
  BY <1>1 DEF Handler
<1>3. request' = [request EXCEPT ![q] = r] BY DEF Goto
<1> HIDE DEF r
<1> QED BY <1>1, <1>2, <1>3

\* The end of a request leaves every other request alone.
LEMMA DoneType ==
    ASSUME TypeOK, NEW q \in Request, Done(q)
    PROVE  /\ request' \in [Request -> Handler] /\ request'[q] = Idle
           /\ \A p \in Request : p # q => request'[p] = request[p]
<1>1. request \in [Request -> Handler] BY CodeType
<1>2. Idle \in Handler BY SessionAssumption DEF Idle, Handler, PC
<1> QED BY <1>1, <1>2 DEF Done

\* A handler that begins knows its account, its session and its machine.
LEMMA BeginType ==
    ASSUME TypeOK, NEW q \in Request, NEW pc \in PC, NEW a \in Account,
           NEW i \in 0..MaxSessions, NEW m \in Machine \cup {NoMachine},
           Begin(q, pc, a, i, m)
    PROVE  /\ request' \in [Request -> Handler]
           /\ request'[q].pc = pc /\ request'[q].id = i /\ request'[q].actor = a
           /\ \A p \in Request : p # q => request'[p] = request[p]
<1>1. request \in [Request -> Handler] BY CodeType
<1> DEFINE r == [pc |-> pc, actor |-> a, id |-> i, machine |-> m]
<1>2. r \in Handler /\ r.pc = pc /\ r.id = i /\ r.actor = a BY DEF Handler
<1>3. request' = [request EXCEPT ![q] = r] BY DEF Begin
<1> HIDE DEF r
<1> QED BY <1>1, <1>2, <1>3

RowsTypeOK ==
    /\ actor \in [SessionId -> Account \cup {NoOne}]
    /\ is_active \in [SessionId -> BOOLEAN] /\ has_hash \in [SessionId -> BOOLEAN]
    /\ machine_id \in [SessionId -> Machine \cup {NoMachine}]
    /\ logins \in Seq(SessionId)
    /\ over \subseteq SessionId

\* A statement on user_session leaves its rows well typed.
LEMMA RowsType ==
    ASSUME Inv
    PROVE  /\ \A a : deactivateSessions(a) => RowsTypeOK'
           /\ \A a \in Account \cup {NoOne}, m \in Machine \cup {NoMachine} :
                 createSession(a, m) => RowsTypeOK'
           /\ \A i : updateSessionRefresh(i) => RowsTypeOK'
           /\ \A i \in 1..Len(logins) : updateGuardSession(i) => RowsTypeOK'
           /\ \A i \in SessionId : closeSession(i) => RowsTypeOK'
<1> USE DEF Inv, TypeOK, RowsTypeOK
<1>1. ASSUME NEW a, deactivateSessions(a) PROVE RowsTypeOK'
  BY <1>1 DEF deactivateSessions, ActiveOf
<1>2. ASSUME NEW a \in Account \cup {NoOne}, NEW m \in Machine \cup {NoMachine},
             createSession(a, m)
      PROVE  RowsTypeOK'
  BY <1>2, AppendProperties DEF createSession
<1>3. ASSUME NEW i, updateSessionRefresh(i) PROVE RowsTypeOK'
  BY <1>3 DEF updateSessionRefresh
<1>4. ASSUME NEW i \in 1..Len(logins), updateGuardSession(i) PROVE RowsTypeOK'
  <2>1. logins' \in Seq(SessionId) BY <1>4, LoginMoved
  <2> QED BY <1>4, <2>1 DEF updateGuardSession
<1>5. ASSUME NEW i \in SessionId, closeSession(i) PROVE RowsTypeOK'
  BY <1>5 DEF closeSession
<1> QED BY <1>1, <1>2, <1>3, <1>4, <1>5

\* Initially the invariant holds.
LEMMA InitInv == Init => Inv
<1> SUFFICES ASSUME Init PROVE Inv OBVIOUS
<1> USE SessionAssumption DEF Init, Idle, NoCode
<1>1. TypeOK BY DEF TypeOK
<1>2. CodeInv BY DEF CodeInv, CodeAcceptedOnce
<1>3. LoginInv BY DEF LoginInv
<1>4. OverInv BY DEF OverInv
<1>5. HashInv BY DEF HashInv
<1> QED BY <1>1, <1>2, <1>3, <1>4, <1>5 DEF Inv

-----------------------------------------------------------------------------
(* Type correctness                                                        *)

\* A request that works on a session works on a row that is there.
LEMMA RowOfRequest ==
    ASSUME Inv, NEW q \in Request, request[q].pc \in {"close", "rotate", "update"}
    PROVE  request[q].id \in SessionId /\ request[q].id \in 1..Len(logins)
<1>1. Len(logins) \in Nat BY LenProperties DEF Inv, TypeOK
<1>2. request[q] \in Handler BY CodeType DEF Inv
<1> QED BY <1>1, <1>2, SessionAssumption DEF Inv, LoginInv, Handler, SessionId

\* Every step leaves every variable well typed.
LEMMA TypeStep ==
    ASSUME Inv, [Next]_vars
    PROVE  TypeOK'
<1> USE DEF otpVars, rows
<1>0. TypeOK BY DEF Inv
<1>1. ASSUME NEW a \in Account, LoginOtp(a) \/ SendOtp(a) PROVE TypeOK'
  <2>0. codes \in 0..MaxCodes BY <1>0 DEF TypeOK
  <2>1. PICK r \in Code : otpStore' = [otpStore EXCEPT ![a] = r]
    <3>0. codes < MaxCodes BY <1>1 DEF LoginOtp, SendOtp, StoreOtp
    <3>1. codes + 1 \in 0..MaxCodes BY <2>0, <3>0, SessionAssumption
    <3>2. [code |-> codes + 1, for |-> "login"] \in Code
          /\ [code |-> codes + 1, for |-> "signup"] \in Code
      BY <3>1 DEF Code
    <3> QED BY <1>1, <3>2 DEF LoginOtp, SendOtp, StoreOtp
  <2>2. otpStore' \in [Account -> Code] BY <1>0, <2>1, CodeType
  <2>3. codes' \in 0..MaxCodes
    <3>1. codes < MaxCodes /\ codes' = codes + 1 BY <1>1 DEF LoginOtp, SendOtp, StoreOtp
    <3> QED BY <2>0, <3>1, SessionAssumption
  <2> QED BY <1>0, <1>1, <2>2, <2>3 DEF LoginOtp, SendOtp, StoreOtp, TypeOK, Code
<1>2. ASSUME NEW a \in Account, OtpExpires(a) PROVE TypeOK'
  <2>1. otpStore' \in [Account -> Code] BY <1>0, <1>2, CodeType DEF OtpExpires
  <2> QED BY <1>0, <1>2, <2>1 DEF OtpExpires, TypeOK, Code
<1>3. ASSUME NEW q \in Request, NEW a \in Account, NEW c \in 1..MaxCodes,
             VerifyLogin(q, a, c) \/ VerifySignup(q, a, c)
      PROVE  TypeOK'
  <2>1. 0 \in 0..MaxSessions BY SessionAssumption
  <2>2. request' \in [Request -> Handler]
    <3>1. request \in [Request -> Handler] BY <1>0, CodeType
    <3> QED
      BY <1>0, <1>3, <2>1, <3>1, GotoType, DoneType, BeginType DEF VerifyLogin, VerifySignup, PC
  <2>3. otpStore' \in [Account -> Code]
    BY <1>0, <1>3, CodeType DEF VerifyLogin, VerifySignup, VerifyOtp
  <2>4. accepted' \in [1..MaxCodes -> Nat]
    <3>1. accepted \in [1..MaxCodes -> Nat] BY <1>0 DEF TypeOK
    <3> QED BY <1>3, <3>1 DEF VerifyLogin, VerifySignup, VerifyOtp
  <2> QED
    BY <1>0, <1>3, <2>2, <2>3, <2>4
    DEF VerifyLogin, VerifySignup, VerifyOtp, TypeOK, Handler, PC, Code
<1>4. ASSUME NEW q \in Request, CreateAccount(q) PROVE TypeOK'
  <2>1. request[q].actor \in Account BY <1>4 DEF CreateAccount, Inv, LoginInv
  <2>2. request' \in [Request -> Handler]
    BY <1>0, <1>4, GotoType, DoneType, BeginType DEF CreateAccount, PC
  <2>3. registered' \subseteq Account BY <1>0, <1>4, <2>1 DEF CreateAccount, TypeOK
  <2> QED BY <1>0, <1>4, <2>2, <2>3 DEF CreateAccount, TypeOK, Handler, PC
<1>5. ASSUME NEW q \in Request,
             Revoke(q) \/ WelcomeRevoke(q) \/ LogoutRevoke(q) \/ Start(q) \/ WelcomeStart(q)
      PROVE  TypeOK'
  <2>1. RowsTypeOK'
    <3>1. request[q] \in Handler BY <1>0, CodeType
    <3> QED BY <1>5, <3>1, RowsType
        DEF Revoke, WelcomeRevoke, LogoutRevoke, Start, WelcomeStart, Handler
  <2>2. request' \in [Request -> Handler]
    BY <1>0, <1>5, GotoType, DoneType, BeginType
       DEF Revoke, WelcomeRevoke, LogoutRevoke, Start, WelcomeStart, PC
  <2> QED BY <1>0, <1>5, <2>1, <2>2
      DEF Revoke, WelcomeRevoke, LogoutRevoke, Start, WelcomeStart, TypeOK, RowsTypeOK,
          Handler, PC
<1>6. ASSUME NEW q \in Request, GuardUpdate(q) \/ LogoutClose(q) \/ Rotate(q) PROVE TypeOK'
  <2>1. RowsTypeOK' BY <1>6, RowOfRequest, RowsType DEF GuardUpdate, LogoutClose, Rotate
  <2>2. request' \in [Request -> Handler]
    BY <1>0, <1>6, GotoType, DoneType, BeginType DEF GuardUpdate, LogoutClose, Rotate
  <2> QED BY <1>0, <1>6, <2>1, <2>2
      DEF GuardUpdate, LogoutClose, Rotate, TypeOK, RowsTypeOK, Handler, PC
<1>7. ASSUME NEW q \in Request, NEW g \in GuardAccount, NEW m \in Machine,
             GuardLogin(q, g, m)
      PROVE  TypeOK'
  <2>1. /\ g \in Account /\ 0 \in 0..MaxSessions
        /\ \A i \in ActiveOf(g) : i \in 0..MaxSessions
    BY SessionAssumption DEF ActiveOf, SessionId
  <2>2. request' \in [Request -> Handler]
    BY <1>0, <1>7, <2>1, GotoType, DoneType, BeginType DEF GuardLogin, PC
  <2> QED BY <1>0, <1>7, <2>2 DEF GuardLogin, TypeOK, Handler, PC
<1>8. ASSUME NEW q \in Request, GuardMachines(q) PROVE TypeOK'
  <2>1. request' \in [Request -> Handler]
    BY <1>0, <1>8, GotoType, DoneType, BeginType DEF GuardMachines, PC
  <2> QED BY <1>0, <1>8, <2>1 DEF GuardMachines, TypeOK, Handler, PC
<1>9. ASSUME NEW q \in Request, GuardRegister(q) PROVE TypeOK'
  <2>1. request' \in [Request -> Handler]
    BY <1>0, <1>9, GotoType, DoneType, BeginType DEF GuardRegister, PC
  <2>2. request[q].machine \in Machine \cup {NoMachine} BY <1>0 DEF TypeOK
  <2>3. slots' \in [GuardAccount -> [1..2 -> Machine \cup {NoMachine}]]
    BY <1>0, <1>9, <2>2 DEF GuardRegister, TypeOK
  <2> QED BY <1>0, <1>9, <2>1, <2>3 DEF GuardRegister, TypeOK, Handler, PC
<1>10. ASSUME NEW q \in Request, NEW a \in Account, Logout(q, a) \/ Refresh(q, a)
       PROVE  TypeOK'
  <2>1. findActiveSession(a) \in 0..MaxSessions
    BY <1>0, FoundIsActive, SessionAssumption DEF SessionId
  <2>2. request' \in [Request -> Handler]
    BY <1>0, <1>10, <2>1, GotoType, DoneType, BeginType DEF Logout, Refresh, PC
  <2> QED BY <1>0, <1>10, <2>2 DEF Logout, Refresh, TypeOK, Handler, PC
<1>11. ASSUME NEW q \in Request, StatementFails(q) PROVE TypeOK'
  <2>1. request' \in [Request -> Handler]
    BY <1>0, <1>11, GotoType, DoneType, BeginType DEF StatementFails, PC
  <2> QED BY <1>0, <1>11, <2>1 DEF StatementFails, TypeOK, Handler, PC
<1>12. ASSUME Restart PROVE TypeOK'
  <2>1. Idle \in Handler BY SessionAssumption DEF Idle, Handler, PC
  <2>2. otpStore' \in [Account -> Code] BY <1>12, CodeType DEF Restart
  <2>3. request' \in [Request -> Handler] BY <1>12, <2>1 DEF Restart
  <2> QED BY <1>0, <1>12, <2>2, <2>3 DEF Restart, TypeOK, Handler, PC, Code
<1>13. ASSUME UNCHANGED vars PROVE TypeOK' BY <1>0, <1>13 DEF vars, TypeOK
<1> QED
  BY <1>1, <1>2, <1>3, <1>4, <1>5, <1>6, <1>7, <1>8, <1>9, <1>10, <1>11, <1>12, <1>13
  DEF Next

-----------------------------------------------------------------------------
(* One-time codes                                                          *)

\* A code that is sent is new; one that is accepted is forgotten.
LEMMA CodeStep ==
    ASSUME Inv, [Next]_vars
    PROVE  CodeInv'
<1> USE DEF otpVars
<1>0. /\ otpStore \in [Account -> Code] /\ codes \in 0..MaxCodes
      /\ accepted \in [1..MaxCodes -> Nat]
      /\ \A a \in Account : otpStore[a].code \in Nat
  <2>1. otpStore \in [Account -> Code] /\ codes \in 0..MaxCodes
        /\ accepted \in [1..MaxCodes -> Nat]
    BY CodeType DEF Inv, TypeOK
  <2> QED BY <2>1 DEF Code
<1>1. CodeInv BY DEF Inv
<1>2. CASE UNCHANGED otpVars BY <1>1, <1>2 DEF CodeInv, CodeAcceptedOnce
<1>3. ASSUME NEW a \in Account, NEW why, StoreOtp(a, why) PROVE CodeInv'
  <2> DEFINE r == [code |-> codes + 1, for |-> why]
  <2>1. otpStore' = [otpStore EXCEPT ![a] = r] BY <1>3 DEF StoreOtp
  <2>2. codes' = codes + 1 /\ accepted' = accepted /\ r.code = codes + 1
    BY <1>3 DEF StoreOtp
  <2> HIDE DEF r
  <2>3. otpStore'[a].code = codes + 1
        /\ \A b \in Account : b # a => otpStore'[b].code = otpStore[b].code
    BY <1>0, <2>1, <2>2
  <2>4. \A b \in Account : otpStore[b].code # codes + 1 BY <1>0, <1>1 DEF CodeInv
  <2>5. \A b, c \in Account :
            otpStore'[b].code = otpStore'[c].code /\ otpStore'[b].code # 0 => b = c
    BY <1>1, <2>3, <2>4 DEF CodeInv
  <2>6. \A b \in Account, c \in 1..MaxCodes : otpStore'[b].code = c => accepted[c] = 0
    BY <1>0, <1>1, <2>3 DEF CodeInv
  <2>7. /\ \A b \in Account : otpStore'[b].code <= codes + 1
        /\ \A c \in 1..MaxCodes : c > codes + 1 => accepted[c] = 0
    BY <1>0, <1>1, <2>3 DEF CodeInv
  <2> QED BY <1>1, <2>2, <2>5, <2>6, <2>7 DEF CodeInv, CodeAcceptedOnce
<1>4. ASSUME NEW a \in Account, OtpExpires(a) PROVE CodeInv'
  <2>1. otpStore'[a].code = 0 /\ codes' = codes /\ accepted' = accepted
        /\ \A b \in Account : b # a => otpStore'[b].code = otpStore[b].code
    BY <1>0, <1>4 DEF OtpExpires, NoCode
  <2> QED BY <1>0, <1>1, <2>1 DEF CodeInv, CodeAcceptedOnce
<1>5. ASSUME NEW a \in Account, NEW c \in 1..MaxCodes, VerifyOtp(a, c) PROVE CodeInv'
  <2>1. /\ otpStore[a].code = c /\ codes' = codes
        /\ otpStore' = [otpStore EXCEPT ![a] = NoCode]
        /\ accepted' = [accepted EXCEPT ![c] = @ + 1]
    BY <1>5 DEF VerifyOtp
  <2>2. otpStore'[a].code = 0
        /\ \A b \in Account : b # a => otpStore'[b].code = otpStore[b].code
    BY <1>0, <2>1 DEF NoCode
  <2>3. accepted[c] = 0 /\ c <= codes
        /\ \A b \in Account : b # a => otpStore[b].code # c
    BY <1>0, <1>1, <2>1 DEF CodeInv
  <2>4. accepted'[c] = 1 /\ \A d \in 1..MaxCodes : d # c => accepted'[d] = accepted[d]
    BY <1>0, <2>1, <2>3
  <2> QED BY <1>0, <1>1, <2>1, <2>2, <2>3, <2>4 DEF CodeInv, CodeAcceptedOnce
<1>6. ASSUME Restart PROVE CodeInv'
  <2>1. (\A a \in Account : otpStore'[a].code = 0) /\ codes' = codes /\ accepted' = accepted
    BY <1>6 DEF Restart, NoCode
  <2> QED BY <1>0, <1>1, <2>1 DEF CodeInv, CodeAcceptedOnce
<1> QED
  BY <1>2, <1>3, <1>4, <1>5, <1>6
  DEF Next, vars, LoginOtp, SendOtp, VerifyLogin, VerifySignup, Logout, Refresh, GuardLogin,
      CreateAccount, WelcomeRevoke, WelcomeStart, Revoke, Start, GuardUpdate, GuardMachines,
      GuardRegister, LogoutRevoke, LogoutClose, Rotate, StatementFails

-----------------------------------------------------------------------------
(* Sessions                                                                *)

\* Requests that read only, and begin to work on a session that is active.
ReadStep ==
    /\ UNCHANGED <<rows, over>>
    /\ \A q \in Request :
          request'[q] = request[q] \/
             /\ request'[q].pc # "idle" => request'[q].actor \in Account
             /\ request'[q].id <= Len(logins)
             /\ request'[q].pc \in {"close", "rotate", "update"} => request'[q].id # 0
             /\ request'[q].pc \in {"rotate", "update"} => is_active[request'[q].id]

\* A request writes its row, or rows of its account, and will not refresh any.
WriteStep(q) ==
    /\ \/ deactivateSessions(request[q].actor)
       \/ \E m : createSession(request[q].actor, m) /\ request'[q] = Idle
       \/ request[q].pc = "update" /\ updateGuardSession(request[q].id)
       \/ request[q].pc = "rotate" /\ updateSessionRefresh(request[q].id)
       \/ request[q].pc = "close" /\ closeSession(request[q].id)
    /\ request'[q].pc \notin {"rotate", "update"}
    /\ request'[q].pc # "idle" => request'[q].actor \in Account
    /\ request'[q].pc = "close" => request'[q].id # 0
    /\ request'[q].id \in {0, request[q].id}
    /\ \A p \in Request : p # q => request'[p] = request[p]

\* What a step means for the sessions.
LEMMA RowSteps ==
    ASSUME Inv, [Next]_vars
    PROVE  ReadStep \/ \E q \in Request : WriteStep(q)
<1> USE DEF rows
<1>0. TypeOK /\ Len(logins) \in Nat BY LenProperties DEF Inv, TypeOK
<1>1. \A q \in Request : request[q].pc # "idle" => request[q].actor \in Account
  BY DEF Inv, LoginInv
<1>2. \A q \in Request : request[q].id <= Len(logins) BY DEF Inv, LoginInv
<1>3. Idle.pc = "idle" /\ Idle.id = 0 BY DEF Idle
<1>4. ASSUME UNCHANGED <<rows, over, request>> PROVE ReadStep BY <1>4 DEF ReadStep
<1>5. ASSUME NEW q \in Request, Done(q), UNCHANGED <<rows, over>> PROVE ReadStep
  BY <1>0, <1>3, <1>5, GotoType, DoneType, BeginType DEF ReadStep
<1>6. ASSUME NEW q \in Request, NEW pc \in PC, Goto(q, pc), UNCHANGED <<rows, over>>,
             pc \notin {"rotate", "update"}, pc = "close" => request[q].id # 0,
             request[q].pc # "idle"
      PROVE  ReadStep
  <2>1. /\ request'[q].pc = pc /\ request'[q].id = request[q].id
        /\ request'[q].actor = request[q].actor
        /\ \A p \in Request : p # q => request'[p] = request[p]
    BY <1>0, <1>6, GotoType
  <2> QED BY <1>1, <1>2, <1>6, <2>1 DEF ReadStep
<1>7. ASSUME NEW q \in Request, NEW pc \in PC, NEW a \in Account, NEW i \in 0..MaxSessions,
             NEW m \in Machine \cup {NoMachine}, Begin(q, pc, a, i, m),
             UNCHANGED <<rows, over>>,
             i <= Len(logins), pc # "close",
             pc \in {"rotate", "update"} => i # 0 /\ is_active[i]
      PROVE  ReadStep
  <2>1. /\ request'[q].pc = pc /\ request'[q].id = i /\ request'[q].actor = a
        /\ \A p \in Request : p # q => request'[p] = request[p]
    BY <1>0, <1>7, BeginType
  <2> QED BY <1>7, <2>1 DEF ReadStep
<1>8. \A i \in SessionId : is_active[i] => i <= Len(logins) /\ i # 0 /\ i \in 0..MaxSessions
  BY <1>0, SessionAssumption DEF Inv, LoginInv, SessionId
<1>9. ASSUME NEW q \in Request, NEW a \in Account, NEW c \in 1..MaxCodes,
             VerifyLogin(q, a, c) \/ VerifySignup(q, a, c)
      PROVE  ReadStep
  <2>0. UNCHANGED <<rows, over>> BY <1>9 DEF VerifyLogin, VerifySignup
  <2>1. CASE UNCHANGED request BY <1>4, <2>0, <2>1
  <2>2. ASSUME NEW pc \in {"revoke", "create"}, Begin(q, pc, a, 0, NoMachine)
        PROVE  ReadStep
    <3>1. 0 \in 0..MaxSessions BY SessionAssumption
    <3>2. pc \in PC /\ pc \notin {"close", "rotate", "update"} BY DEF PC
    <3>3. NoMachine \in Machine \cup {NoMachine} OBVIOUS
    <3> QED BY <1>0, <1>7, <2>0, <2>2, <3>1, <3>2, <3>3
  <2> QED BY <1>9, <2>1, <2>2 DEF VerifyLogin, VerifySignup
<1>10. ASSUME NEW q \in Request, NEW g \in GuardAccount, NEW m \in Machine,
              GuardLogin(q, g, m)
       PROVE  ReadStep
  <2>1. g \in Account /\ 0 \in 0..MaxSessions BY SessionAssumption
  <2>2. \A i \in ActiveOf(g) : i \in SessionId /\ is_active[i] BY DEF ActiveOf
  <2>3. ASSUME NEW i \in ActiveOf(g), Begin(q, "update", g, i, m) PROVE ReadStep
    <3>1. i \in 0..MaxSessions /\ i # 0 /\ i <= Len(logins) /\ is_active[i] BY <1>8, <2>2
    <3>2. UNCHANGED <<rows, over>> BY <1>10 DEF GuardLogin
    <3> QED BY <1>7, <2>1, <2>3, <3>1, <3>2 DEF PC
  <2>4. ASSUME Begin(q, "machines", g, 0, m) PROVE ReadStep
    <3>1. UNCHANGED <<rows, over>> BY <1>10 DEF GuardLogin
    <3>2. "machines" \in PC BY DEF PC
    <3>3. m \in Machine \cup {NoMachine} OBVIOUS
    <3> QED BY <1>0, <1>7, <2>1, <2>4, <3>1, <3>2, <3>3
  <2> QED BY <1>10, <2>3, <2>4 DEF GuardLogin
<1>11. ASSUME NEW q \in Request, NEW a \in Account, Logout(q, a) PROVE ReadStep
  <2>1. findActiveSession(a) \in 0..MaxSessions /\ findActiveSession(a) <= Len(logins)
    BY <1>0, <1>8, FoundIsActive, SessionAssumption
  <2> QED BY <1>7, <1>11, <2>1 DEF Logout, PC
<1>12. ASSUME NEW q \in Request, NEW a \in Account, Refresh(q, a) PROVE ReadStep
  <2> DEFINE i == findActiveSession(a)
  <2>1. /\ i \in 0..MaxSessions /\ i <= Len(logins)
        /\ i # 0 /\ is_active[i]
    BY <1>0, <1>8, <1>12, FoundIsActive DEF Refresh
  <2>2. Begin(q, "rotate", a, i, NoMachine) /\ UNCHANGED <<rows, over>>
    BY <1>12 DEF Refresh
  <2> HIDE DEF i
  <2> QED BY <1>7, <2>1, <2>2 DEF PC
<1>13. ASSUME NEW q \in Request,
              CreateAccount(q) \/ GuardMachines(q) \/ GuardRegister(q) \/ StatementFails(q)
       PROVE  ReadStep
  BY <1>5, <1>6, <1>13 DEF CreateAccount, GuardMachines, GuardRegister, StatementFails, PC
<1>14. CASE Restart
  BY <1>0, <1>3, <1>14 DEF Restart, ReadStep
<1>15. ASSUME NEW q \in Request, Revoke(q) \/ WelcomeRevoke(q) \/ LogoutRevoke(q)
       PROVE  WriteStep(q)
  <2>1. deactivateSessions(request[q].actor) /\ request[q].pc # "idle"
    BY <1>15 DEF Revoke, WelcomeRevoke, LogoutRevoke
  <2>2. CASE Done(q)
    BY <1>0, <1>3, <2>1, <2>2, GotoType, DoneType, BeginType DEF WriteStep
  <2>3. ASSUME NEW pc \in PC, Goto(q, pc), pc \notin {"rotate", "update"},
               pc = "close" => request[q].id # 0
        PROVE  WriteStep(q)
    <3>1. /\ request'[q].pc = pc /\ request'[q].id = request[q].id
          /\ request'[q].actor = request[q].actor
          /\ \A p \in Request : p # q => request'[p] = request[p]
      BY <1>0, <2>3, GotoType
    <3> QED BY <1>1, <2>1, <2>3, <3>1 DEF WriteStep
  <2> QED BY <1>15, <2>2, <2>3 DEF Revoke, WelcomeRevoke, LogoutRevoke, PC
<1>16. ASSUME NEW q \in Request,
              \/ Start(q) \/ WelcomeStart(q) \/ GuardUpdate(q) \/ LogoutClose(q) \/ Rotate(q)
       PROVE  WriteStep(q)
  <2>1. request'[q] = Idle /\ \A p \in Request : p # q => request'[p] = request[p]
    BY <1>0, <1>16, GotoType, DoneType, BeginType
       DEF Start, WelcomeStart, GuardUpdate, LogoutClose, Rotate
  <2> QED BY <1>3, <1>16, <2>1
      DEF WriteStep, Start, WelcomeStart, GuardUpdate, LogoutClose, Rotate
<1> QED
  BY <1>4, <1>9, <1>10, <1>11, <1>12, <1>13, <1>14, <1>15, <1>16
  DEF Next, vars, LoginOtp, SendOtp, StoreOtp, OtpExpires

\* Rows are filled one after the other, and every row keeps a login.
LEMMA LoginStep ==
    ASSUME Inv, [Next]_vars
    PROVE  LoginInv'
<1> USE DEF rows
<1>0. /\ TypeOK /\ LoginInv /\ Len(logins) \in Nat
      /\ \A q \in Request : request[q].id \in Nat
      /\ \A i \in SessionId : i \in Nat
  <2>1. TypeOK /\ LoginInv BY DEF Inv
  <2>2. Len(logins) \in Nat BY <2>1, LenProperties DEF TypeOK
  <2>3. \A q \in Request : request[q] \in Handler BY <2>1, CodeType
  <2>4. \A q \in Request : request[q].id \in Nat BY <2>3 DEF Handler
  <2> QED BY <2>1, <2>2, <2>4 DEF SessionId
<1>1. CASE ReadStep
  BY <1>0, <1>1 DEF ReadStep, LoginInv
<1>2. ASSUME NEW q \in Request, WriteStep(q),
             Len(logins') \in Nat, Len(logins) <= Len(logins')
      PROVE  \A p \in Request :
                /\ request'[p].pc # "idle" => request'[p].actor \in Account
                /\ request'[p].id <= Len(logins')
                /\ request'[p].pc \in {"close", "rotate", "update"} => request'[p].id # 0
  BY <1>0, <1>2 DEF WriteStep, LoginInv
<1>3. ASSUME NEW q \in Request, WriteStep(q), logins' = logins,
             over' \subseteq over \cup {i \in SessionId : is_active[i]} \cup {request[q].id},
             \A i \in SessionId : is_active'[i] => is_active[i] \/ i = request[q].id
      PROVE  LoginInv'
  <2>1. \A i \in over' : i <= Len(logins') BY <1>0, <1>3 DEF LoginInv
  <2>2. \A i \in SessionId : i > Len(logins') => ~ is_active'[i]
    BY <1>0, <1>3 DEF LoginInv
  <2> QED BY <1>0, <1>2, <1>3, <2>1, <2>2 DEF LoginInv
<1>4. ASSUME NEW q \in Request, WriteStep(q), deactivateSessions(request[q].actor)
      PROVE  LoginInv'
  <2>1. /\ logins' = logins
        /\ over' \subseteq over \cup {i \in SessionId : is_active[i]}
        /\ \A i \in SessionId : is_active'[i] => is_active[i]
    BY <1>4 DEF deactivateSessions, ActiveOf
  <2> QED BY <1>3, <1>4, <2>1
<1>5. ASSUME NEW q \in Request, WriteStep(q),
             \/ request[q].pc = "rotate" /\ updateSessionRefresh(request[q].id)
             \/ request[q].pc = "close" /\ closeSession(request[q].id)
      PROVE  LoginInv'
  <2>1. /\ logins' = logins
        /\ over' \subseteq over \cup {request[q].id}
        /\ \A i \in SessionId : is_active'[i] => is_active[i] \/ i = request[q].id
    BY <1>0, <1>5 DEF updateSessionRefresh, closeSession, TypeOK
  <2> QED BY <1>3, <1>5, <2>1
<1>6. ASSUME NEW q \in Request, WriteStep(q),
             request[q].pc = "update", updateGuardSession(request[q].id)
      PROVE  LoginInv'
  <2> DEFINE i == request[q].id
  <2>1. i \in 1..Len(logins) BY <1>6, RowOfRequest
  <2>2. /\ logins' \in Seq(SessionId) /\ Len(logins') = Len(logins)
        /\ \A j \in 1..Len(logins) : \E k \in DOMAIN logins' : logins'[k] = j
    BY <1>0, <1>6, <2>1, LoginMoved
  <2>3. over' = over /\ \A j \in SessionId : is_active'[j] => is_active[j] \/ j = i
    BY <1>0, <1>6 DEF updateGuardSession, TypeOK
  <2>4. \A p \in Request :
                /\ request'[p].pc # "idle" => request'[p].actor \in Account
                /\ request'[p].id <= Len(logins')
                /\ request'[p].pc \in {"close", "rotate", "update"} => request'[p].id # 0
    BY <1>0, <1>2, <1>6, <2>2
  <2>5. \A j \in SessionId : j > Len(logins') => ~ is_active'[j]
    <3> HIDE DEF i
    <3>1. \A j \in SessionId : j > Len(logins) => ~ is_active[j] BY <1>0 DEF LoginInv
    <3>2. logins \in Seq(SessionId) BY <1>0 DEF TypeOK
    <3>3. i <= Len(logins) /\ i \in Nat BY <2>1, <3>2
    <3>4. SUFFICES ASSUME NEW j \in SessionId, j > Len(logins') PROVE ~ is_active'[j]
      OBVIOUS
    <3>5. ~ is_active[j] /\ j # i BY <2>2, <3>1, <3>3, <3>4
    <3> QED BY <2>3, <3>5
  <2>6. \A j \in over' : j <= Len(logins') BY <1>0, <2>2, <2>3 DEF LoginInv
  <2> QED BY <1>0, <2>2, <2>4, <2>5, <2>6 DEF LoginInv
<1>7. ASSUME NEW q \in Request, WriteStep(q), NEW m, createSession(request[q].actor, m)
      PROVE  LoginInv'
  <2> DEFINE n == Len(logins)
  <2>1. /\ n + 1 \in SessionId /\ logins' = Append(logins, n + 1) /\ over' = over
        /\ is_active' = [is_active EXCEPT ![n + 1] = TRUE]
    BY <1>7 DEF createSession
  <2>2. /\ logins' \in Seq(SessionId) /\ Len(logins') = n + 1
        /\ logins'[n + 1] = n + 1
        /\ \A k \in 1..n : logins'[k] = logins[k]
    <3>1. logins \in Seq(SessionId) BY <1>0 DEF TypeOK
    <3> QED BY <2>1, <3>1, AppendProperties
  <2>3. DOMAIN logins' = 1..(n + 1) /\ DOMAIN logins = 1..n
    BY <1>0, <2>2, LenProperties DEF TypeOK
  <2>4. \A j \in 1..(n + 1) : \E k \in DOMAIN logins' : logins'[k] = j
    <3> TAKE j \in 1..(n + 1)
    <3>1. CASE j = n + 1 BY <1>0, <2>2, <2>3, <3>1
    <3>2. CASE j # n + 1
      <4>1. j \in 1..n BY <1>0, <3>2
      <4>2. PICK k \in 1..n : logins[k] = j BY <1>0, <2>3, <4>1 DEF LoginInv
      <4>3. k \in 1..(n + 1) BY <1>0
      <4> QED BY <2>2, <2>3, <4>2, <4>3
    <3> QED BY <3>1, <3>2
  <2>5. \A p \in Request :
                /\ request'[p].pc # "idle" => request'[p].actor \in Account
                /\ request'[p].id <= Len(logins')
                /\ request'[p].pc \in {"close", "rotate", "update"} => request'[p].id # 0
    BY <1>0, <1>2, <1>7, <2>2
  <2>6. /\ \A i \in SessionId : i > n + 1 => ~ is_active'[i]
        /\ \A i \in over : i \in Nat /\ i <= n + 1
    <3>1. \A i \in SessionId : i > n => ~ is_active[i] BY <1>0 DEF LoginInv
    <3>2. \A i \in over : i \in SessionId /\ i <= n BY <1>0 DEF LoginInv, TypeOK
    <3>3. is_active \in [SessionId -> BOOLEAN] BY <1>0 DEF TypeOK
    <3> QED BY <1>0, <2>1, <3>1, <3>2, <3>3
  <2>7. n + 1 <= MaxSessions BY <2>1, SessionAssumption DEF SessionId
  <2> HIDE DEF n
  <2> QED BY <2>1, <2>2, <2>4, <2>5, <2>6, <2>7 DEF LoginInv
<1> QED BY <1>1, <1>4, <1>5, <1>6, <1>7, RowSteps DEF WriteStep

\* A session that is over is not brought back: whoever could do so had read it before.
LEMMA OverStep ==
    ASSUME Inv, [Next]_vars
    PROVE  OverInv'
<1> USE DEF rows
<1>0. TypeOK /\ OverInv BY DEF Inv
<1>1. CASE ReadStep
  <2>1. \A i \in over : Busy(i)' => Busy(i) \/ is_active[i]
    BY <1>1 DEF ReadStep, Busy
  <2> QED BY <1>0, <1>1, <2>1 DEF ReadStep, OverInv
<1>2. ASSUME NEW q \in Request, WriteStep(q), NEW i, Busy(i)' PROVE Busy(i)
  BY <1>2 DEF WriteStep, Busy
<1>3. ASSUME NEW q \in Request, WriteStep(q), deactivateSessions(request[q].actor)
      PROVE  OverInv'
  <2>1. \A i \in over' : ~ is_active'[i] /\ ~ Busy(i)
    <3>1. over' = over \cup {i \in ActiveOf(request[q].actor) : ~ Busy(i)}
      BY <1>3 DEF deactivateSessions
    <3>2. \A i \in SessionId :
              is_active'[i] <=> actor[i] # request[q].actor /\ is_active[i]
      BY <1>3 DEF deactivateSessions
    <3>3. \A i \in over : i \in SessionId /\ ~ is_active[i] /\ ~ Busy(i)
      BY <1>0 DEF OverInv, TypeOK
    <3> QED BY <3>1, <3>2, <3>3 DEF ActiveOf
  <2> QED BY <1>2, <1>3, <2>1 DEF OverInv
<1>4. ASSUME NEW q \in Request, WriteStep(q),
             request[q].pc = "close", closeSession(request[q].id)
      PROVE  OverInv'
  <2>1. \A i \in over' : ~ is_active'[i] /\ ~ Busy(i)
    BY <1>0, <1>4, RowOfRequest, ZenonT(40) DEF closeSession, OverInv, TypeOK
  <2> QED BY <1>2, <1>4, <2>1 DEF OverInv
<1>5. ASSUME NEW q \in Request, WriteStep(q),
             \/ request[q].pc = "update" /\ updateGuardSession(request[q].id)
             \/ request[q].pc = "rotate" /\ updateSessionRefresh(request[q].id)
      PROVE  OverInv'
  <2>1. Busy(request[q].id) BY <1>5 DEF Busy
  <2>2. over' = over /\ is_active' = [is_active EXCEPT ![request[q].id] = TRUE]
    BY <1>5 DEF updateGuardSession, updateSessionRefresh
  <2>3. \A i \in over : i # request[q].id BY <1>0, <2>1 DEF OverInv
  <2>4. \A i \in over : is_active'[i] = is_active[i]
    BY <1>0, <2>2, <2>3 DEF TypeOK
  <2> QED BY <1>0, <1>2, <1>5, <2>2, <2>4 DEF OverInv
<1>6. ASSUME NEW q \in Request, WriteStep(q), NEW m, createSession(request[q].actor, m)
      PROVE  OverInv'
  <2>1. over' = over /\ is_active' = [is_active EXCEPT ![Len(logins) + 1] = TRUE]
    BY <1>6 DEF createSession
  <2>2. \A i \in over : i # Len(logins) + 1
    <3>1. Len(logins) \in Nat BY <1>0, LenProperties DEF TypeOK
    <3>2. \A i \in over : i \in SessionId /\ i <= Len(logins)
      BY <1>0 DEF Inv, LoginInv, TypeOK
    <3> QED BY <3>1, <3>2 DEF SessionId
  <2>3. \A i \in over : is_active'[i] = is_active[i]
    BY <1>0, <2>1, <2>2 DEF TypeOK
  <2> QED BY <1>0, <1>2, <1>6, <2>1, <2>3 DEF OverInv
<1> QED BY <1>1, <1>3, <1>4, <1>5, <1>6, RowSteps DEF WriteStep

\* is_active is never set without the hash, nor the hash taken without is_active.
LEMMA HashStep ==
    ASSUME Inv, [Next]_vars
    PROVE  HashInv'
<1> USE DEF Inv, HashInv, TypeOK, rows
<1>1. CASE ReadStep BY <1>1 DEF ReadStep
<1>2. ASSUME NEW q \in Request, WriteStep(q) PROVE HashInv'
  BY <1>2, ZenonT(40) DEF WriteStep, deactivateSessions, createSession, updateGuardSession,
              updateSessionRefresh, closeSession
<1> QED BY <1>1, <1>2, RowSteps

\* The invariant is inductive.
LEMMA StepInv == Inv /\ [Next]_vars => Inv'
<1> SUFFICES ASSUME Inv, [Next]_vars PROVE Inv' OBVIOUS
<1> QED BY TypeStep, CodeStep, LoginStep, OverStep, HashStep DEF Inv

-----------------------------------------------------------------------------
(* The theorems                                                            *)

\* Every state satisfies the invariant.
THEOREM InvHolds == Spec => []Inv
BY InitInv, StepInv, PTL DEF Spec

\* Every variable of the codes, the sessions and the requests has its type.
THEOREM TypeCorrect == Spec => []TypeOK
<1>1. Inv => TypeOK BY DEF Inv
<1> QED BY <1>1, InvHolds, PTL

\* storeOtp and verifyOtp: however requests, new codes, expiries and restarts follow each
\* other, a code lets at most one request in.
THEOREM CodesAreAcceptedOnce == Spec => []CodeAcceptedOnce
<1>1. Inv => CodeAcceptedOnce BY DEF Inv, CodeInv
<1> QED BY <1>1, InvHolds, PTL

\* The middleware: a session that ended while no refresh and no login at its machine was
\* under way is never admitted again.
THEOREM OverSessionsStayOut == Spec => []OverForGood
<1>1. Inv => OverForGood
  <2> SUFFICES ASSUME Inv, NEW a \in Account PROVE findActiveSession(a) \notin over
    BY DEF OverForGood, Admitted
  <2>1. over \subseteq SessionId BY DEF Inv, TypeOK
  <2>3. 0 \notin SessionId BY DEF SessionId
  <2>2. CASE findActiveSession(a) # 0 BY <2>2, FoundIsActive DEF Inv, OverInv
  <2> QED BY <2>1, <2>2, <2>3
<1> QED BY <1>1, InvHolds, PTL

\* Whoever the middleware admits can refresh the session.
THEOREM AdmittedHasHash == Spec => []AdmittedCanRefresh
<1>1. Inv => AdmittedCanRefresh
  BY FoundIsActive DEF Inv, AdmittedCanRefresh, Admitted, HashInv
<1> QED BY <1>1, InvHolds, PTL
=============================================================================
