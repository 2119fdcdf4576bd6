------------------------------ MODULE Session ------------------------------
(* Signing up, in and out: src/working-routes/auth.js, the rows of         *)
(* user_session (src/logging), the one-time codes (src/utils/otp.js) and   *)
(* what the middleware admits.  A handler is a sequence of statements that *)
(* commit one by one, and handlers overlap; a statement that fails is      *)
(* logged by the session service and the handler goes on without it.       *)
(*                                                                         *)
(* Codes are numbered in the order they are sent.  Passwords are right,    *)
(* addresses well formed and lifetimes long.  compareRefreshTokens looks   *)
(* at the first 72 bytes, which the refresh tokens of an account share, so *)
(* a token of the account always matches.                                  *)
EXTENDS Integers, Sequences, FiniteSets, FiniteSetsExt, SequencesExt

CONSTANTS
    Account,        \* people, each with one role
    Student,        \* the accounts of students, whose rows exist before they sign up
    GuardAccount,   \* the accounts of guards
    Registered,     \* the accounts that have a password to begin with
    Machine,        \* the guards' machines
    NoMachine,
    Request,        \* requests under way at the same time
    MaxCodes,       \* bound on the codes that are sent
    MaxSessions     \* bound on the rows of user_session

ASSUME SessionAssumption ==
    /\ Student \subseteq Account /\ Registered \subseteq Account /\ GuardAccount \subseteq Account
    /\ NoMachine \notin Machine
    /\ MaxCodes \in Nat /\ MaxSessions \in Nat

VARIABLES
    registered,   \* accounts with a password
    otpStore,     \* otpStore[a]: the code that a may send back, and what it is for
    codes,        \* codes sent so far
    accepted,     \* history: accepted[c]: how often code c was accepted
    actor,        \* the rows of user_session: whose they are (<<>>: a free row),
    is_active,
    machine_id,
    has_hash,     \* whether refresh_token_hash is set,
    logins,       \* and their ids in the order of login_time
    slots,        \* slots[g]: authorized_machine_1 and _2
    request,      \* request[q]: where a handler is and what it has read
    over          \* history: sessions that ended with no request at work on them

otpVars == <<otpStore, codes, accepted>>
rows == <<actor, is_active, machine_id, has_hash, logins>>
vars == <<registered, otpVars, rows, slots, request, over>>

SessionId == 1..MaxSessions
NoOne == <<>>
NoCode == [code |-> 0, for |-> "nothing"]
Idle == [pc |-> "idle", actor |-> NoOne, id |-> 0, machine |-> NoMachine]

Init ==
    /\ registered = Registered
    /\ otpStore = [a \in Account |-> NoCode]
    /\ codes = 0 /\ accepted = [c \in 1..MaxCodes |-> 0]
    /\ actor = [i \in SessionId |-> NoOne]
    /\ is_active = [i \in SessionId |-> FALSE]
    /\ machine_id = [i \in SessionId |-> NoMachine]
    /\ has_hash = [i \in SessionId |-> FALSE]
    /\ logins = <<>>
    /\ slots = [g \in GuardAccount |-> <<NoMachine, NoMachine>>]
    /\ request = [q \in Request |-> Idle]
    /\ over = {}

Goto(q, pc) == request' = [request EXCEPT ![q].pc = pc]
Done(q) == request' = [request EXCEPT ![q] = Idle]
Begin(q, pc, a, i, m) ==
    /\ request[q] = Idle
    /\ request' = [request EXCEPT ![q] = [pc |-> pc, actor |-> a, id |-> i, machine |-> m]]

-----------------------------------------------------------------------------
(* session.repository.js                                                   *)

ActiveOf(a) == {i \in SessionId : actor[i] = a /\ is_active[i]}

\* The one of the sessions ids with the latest login, 0 if there is none.
Latest(ids) ==
    LET at == {k \in DOMAIN logins : logins[k] \in ids} IN
    IF at = {} THEN 0 ELSE logins[Max(at)]

\* Faulty variant of findActiveSession: sessions that ended count (used by a mutant).
LatestSession(a) == Latest({i \in SessionId : actor[i] = a})

findActiveSession(a) == Latest(ActiveOf(a))

\* Another request is about to write session i.
Busy(i) == \E q \in Request : request[q].pc \in {"rotate", "update"} /\ request[q].id = i

deactivateSessions(a) ==
    /\ is_active' = [i \in SessionId |-> actor[i] # a /\ is_active[i]]
    /\ over' = over \cup {i \in ActiveOf(a) : ~ Busy(i)}
    /\ UNCHANGED <<actor, machine_id, has_hash, logins>>

createSession(a, m) ==
    LET i == Len(logins) + 1 IN
    /\ i \in SessionId
    /\ actor' = [actor EXCEPT ![i] = a]
    /\ is_active' = [is_active EXCEPT ![i] = TRUE]
    /\ machine_id' = [machine_id EXCEPT ![i] = m]
    /\ has_hash' = [has_hash EXCEPT ![i] = TRUE]
    /\ logins' = Append(logins, i)
    /\ UNCHANGED over

\* updateSessionRefresh, which makes the session active whatever it has become.
updateSessionRefresh(i) ==
    /\ is_active' = [is_active EXCEPT ![i] = TRUE]
    /\ has_hash' = [has_hash EXCEPT ![i] = TRUE]
    /\ UNCHANGED <<actor, machine_id, logins, over>>

\* updateGuardSession, which also makes it the latest.
updateGuardSession(i) ==
    LET k == CHOOSE k \in DOMAIN logins : logins[k] = i IN
    /\ is_active' = [is_active EXCEPT ![i] = TRUE]
    /\ has_hash' = [has_hash EXCEPT ![i] = TRUE]
    /\ logins' = Append(RemoveAt(logins, k), i)
    /\ UNCHANGED <<actor, machine_id, over>>

\* Faulty variant of closeSession: deactivateSessions has set is_active already (used by
\* a mutant).
closeSessionHashOnly(i) ==
    /\ has_hash' = [has_hash EXCEPT ![i] = FALSE]
    /\ over' = IF Busy(i) THEN over ELSE over \cup {i}
    /\ UNCHANGED <<actor, is_active, machine_id, logins>>

closeSession(i) ==
    /\ is_active' = [is_active EXCEPT ![i] = FALSE]
    /\ has_hash' = [has_hash EXCEPT ![i] = FALSE]
    /\ over' = IF Busy(i) THEN over ELSE over \cup {i}
    /\ UNCHANGED <<actor, machine_id, logins>>

\* What the middleware lets pass: a token of the session the latest login made.
Admitted(a) == findActiveSession(a)

-----------------------------------------------------------------------------
(* One-time codes                                                          *)

\* storeOtp: a new code takes the place of the last one.
StoreOtp(a, why) ==
    /\ codes < MaxCodes
    /\ codes' = codes + 1
    /\ otpStore' = [otpStore EXCEPT ![a] = [code |-> codes + 1, for |-> why]]
    /\ UNCHANGED <<registered, accepted, rows, slots, request, over>>

\* /login looks for the address in every table and compares the password it finds there.
PasswordFound(a) == a \in registered

\* Everybody but guards then gets a code.
LoginOtp(a) == PasswordFound(a) /\ a \notin GuardAccount /\ StoreOtp(a, "login")

\* /send-otp sends one to whoever fills in the form of a role, registered or not.
SendOtp(a) == StoreOtp(a, "signup")

\* A code goes out of date.
OtpExpires(a) ==
    /\ otpStore[a] # NoCode
    /\ otpStore' = [otpStore EXCEPT ![a] = NoCode]
    /\ UNCHANGED <<registered, codes, accepted, rows, slots, request, over>>

\* Faulty variant of VerifyOtp: the code is kept (used by a mutant).
VerifyOtpKeepingIt(a, c) ==
    /\ otpStore[a].code = c
    /\ accepted' = [accepted EXCEPT ![c] = @ + 1]
    /\ UNCHANGED <<otpStore, codes>>

\* verifyOtp takes the code that is stored, and forgets it; a wrong one changes nothing.
VerifyOtp(a, c) ==
    /\ otpStore[a].code = c
    /\ accepted' = [accepted EXCEPT ![c] = @ + 1]
    /\ otpStore' = [otpStore EXCEPT ![a] = NoCode]
    /\ UNCHANGED codes

\* /verify-login-otp.  The payload of a signup has no id and is refused.
VerifyLogin(q, a, c) ==
    /\ VerifyOtp(a, c)
    /\ IF otpStore[a].for = "login" THEN Begin(q, "revoke", a, 0, NoMachine)
       ELSE UNCHANGED request
    /\ UNCHANGED <<registered, rows, slots, over>>

\* finalizeSignup.  The payload of a login has no role and creates nothing.
VerifySignup(q, a, c) ==
    /\ VerifyOtp(a, c)
    /\ IF otpStore[a].for = "signup" THEN Begin(q, "create", a, 0, NoMachine)
       ELSE UNCHANGED request
    /\ UNCHANGED <<registered, rows, slots, over>>

\* A student's row gets the new password; a row of staff is inserted, which fails when
\* the address has one.
CreateAccount(q) ==
    LET a == request[q].actor IN
    /\ request[q].pc = "create"
    /\ IF a \in Student \/ a \notin registered
       THEN registered' = registered \cup {a} /\ Goto(q, "welcome")
       ELSE UNCHANGED registered /\ Done(q)
    /\ UNCHANGED <<otpVars, rows, slots, over>>

-----------------------------------------------------------------------------
(* Sessions                                                                *)

\* createAuthenticatedSessionResponse ends the other sessions ...
Revoke(q) ==
    /\ request[q].pc = "revoke"
    /\ deactivateSessions(request[q].actor)
    /\ Goto(q, "start")
    /\ UNCHANGED <<registered, otpVars, slots>>

\* ... and insert a new one, in another statement.
Start(q) ==
    /\ request[q].pc = "start"
    /\ createSession(request[q].actor, request[q].machine)
    /\ Done(q)
    /\ UNCHANGED <<registered, otpVars, slots>>

\* finalizeSignup has statements of its own for the same.
WelcomeRevoke(q) ==
    /\ request[q].pc = "welcome"
    /\ deactivateSessions(request[q].actor)
    /\ Goto(q, "first session")
    /\ UNCHANGED <<registered, otpVars, slots>>

WelcomeStart(q) ==
    /\ request[q].pc = "first session"
    /\ createSession(request[q].actor, NoMachine)
    /\ Done(q)
    /\ UNCHANGED <<registered, otpVars, slots>>

\* /login of a guard at machine m: with a session there, it is used again ...
GuardLogin(q, g, m) ==
    LET there == {i \in ActiveOf(g) : machine_id[i] = m} IN
    /\ PasswordFound(g)
    /\ \/ \E i \in there : Begin(q, "update", g, i, m)
       \/ there = {} /\ Begin(q, "machines", g, 0, m)
    /\ UNCHANGED <<registered, otpVars, rows, slots, over>>

GuardUpdate(q) ==
    /\ request[q].pc = "update"
    /\ updateGuardSession(request[q].id)
    /\ Done(q)
    /\ UNCHANGED <<registered, otpVars, slots>>

\* ... otherwise the two machines of the account are read, which refuse a third one.  The
\* first free place is taken even when the machine has the other one already.
GuardMachines(q) ==
    LET r == request[q]
        s == slots[r.actor] IN
    /\ r.pc = "machines"
    /\ IF NoMachine \notin {s[1], s[2]} /\ r.machine \notin {s[1], s[2]} THEN Done(q)
       ELSE IF s[1] = NoMachine THEN Goto(q, "first")
       ELSE IF s[2] = NoMachine THEN Goto(q, "second")
       ELSE Goto(q, "start")
    /\ UNCHANGED <<registered, otpVars, rows, slots, over>>

GuardRegister(q) ==
    /\ request[q].pc \in {"first", "second"}
    /\ slots' = [slots EXCEPT ![request[q].actor] =
           [@ EXCEPT ![IF request[q].pc = "first" THEN 1 ELSE 2] = request[q].machine]]
    /\ Goto(q, "start")
    /\ UNCHANGED <<registered, otpVars, rows, over>>

\* /logout reads the active session, ends all, and closes the one it has read.  Any
\* token of the account will do.
Logout(q, a) ==
    /\ \E i \in SessionId : actor[i] = a
    /\ Begin(q, "leave", a, findActiveSession(a), NoMachine)
    /\ UNCHANGED <<registered, otpVars, rows, slots, over>>

LogoutRevoke(q) ==
    /\ request[q].pc = "leave"
    /\ deactivateSessions(request[q].actor)
    /\ IF request[q].id = 0 THEN Done(q) ELSE Goto(q, "close")
    /\ UNCHANGED <<registered, otpVars, slots>>

LogoutClose(q) ==
    /\ request[q].pc = "close"
    /\ closeSession(request[q].id)
    /\ Done(q)
    /\ UNCHANGED <<registered, otpVars, slots>>

\* /refresh reads the active session and compares ...
Refresh(q, a) ==
    LET i == findActiveSession(a) IN
    /\ i # 0 /\ has_hash[i]
    /\ Begin(q, "rotate", a, i, NoMachine)
    /\ UNCHANGED <<registered, otpVars, rows, slots, over>>

\* ... and writes the new hash by id.
Rotate(q) ==
    /\ request[q].pc = "rotate"
    /\ updateSessionRefresh(request[q].id)
    /\ Done(q)
    /\ UNCHANGED <<registered, otpVars, slots>>

\* A statement of the session service fails: the handler goes on as if it had worked,
\* and after its last statement it answers with success.
StatementFails(q) ==
    /\ \/ request[q].pc = "revoke" /\ Goto(q, "start")
       \/ request[q].pc = "welcome" /\ Goto(q, "first session")
       \/ request[q].pc = "leave" /\ request[q].id # 0 /\ Goto(q, "close")
       \/ request[q].pc \in {"start", "first session", "update", "rotate", "close"} /\ Done(q)
    /\ UNCHANGED <<registered, otpVars, rows, slots, over>>

\* The server is restarted: codes and requests are gone, the tables stay.
Restart ==
    /\ otpStore' = [a \in Account |-> NoCode]
    /\ request' = [q \in Request |-> Idle]
    /\ UNCHANGED <<registered, codes, accepted, rows, slots, over>>

-----------------------------------------------------------------------------
Next ==
    \/ \E a \in Account : LoginOtp(a) \/ SendOtp(a) \/ OtpExpires(a)
    \/ \E q \in Request :
          \/ \E a \in Account : Logout(q, a) \/ Refresh(q, a)
          \/ \E a \in Account, c \in 1..MaxCodes : VerifyLogin(q, a, c) \/ VerifySignup(q, a, c)
          \/ \E g \in GuardAccount, m \in Machine : GuardLogin(q, g, m)
          \/ CreateAccount(q) \/ WelcomeRevoke(q) \/ WelcomeStart(q) \/ Revoke(q) \/ Start(q)
          \/ GuardUpdate(q) \/ GuardMachines(q) \/ GuardRegister(q)
          \/ LogoutRevoke(q) \/ LogoutClose(q) \/ Rotate(q) \/ StatementFails(q)
    \/ Restart

Spec == Init /\ [][Next]_vars

-----------------------------------------------------------------------------
(* Properties                                                              *)

\* Every variable has its type.
TypeOK ==
    /\ registered \subseteq Account
    /\ otpStore \in [Account -> [code : 0..MaxCodes, for : {"nothing", "login", "signup"}]]
    /\ codes \in 0..MaxCodes /\ accepted \in [1..MaxCodes -> Nat]
    /\ actor \in [SessionId -> Account \cup {NoOne}]
    /\ is_active \in [SessionId -> BOOLEAN] /\ has_hash \in [SessionId -> BOOLEAN]
    /\ machine_id \in [SessionId -> Machine \cup {NoMachine}]
    /\ logins \in Seq(SessionId)
    /\ slots \in [GuardAccount -> [1..2 -> Machine \cup {NoMachine}]]
    /\ request \in [Request ->
           [pc : {"idle", "create", "welcome", "first session", "revoke", "start", "machines",
                  "first", "second", "update", "leave", "close", "rotate"},
            actor : Account \cup {NoOne}, id : 0..MaxSessions,
            machine : Machine \cup {NoMachine}]]
    /\ over \subseteq SessionId

\* otp.js: a code lets one request in, once, however requests, new codes, expiries and
\* restarts follow each other.
CodeAcceptedOnce == \A c \in 1..MaxCodes : accepted[c] <= 1

\* middleware.js rejects a session that was deactivated.  A session that ended while no
\* refresh and no login at its machine was under way is never admitted again.
OverForGood == \A a \in Account : Admitted(a) \notin over

\* Sessions end in the database before they end in a handler's memory: what the
\* middleware admits still has the hash its next refresh needs.
AdmittedCanRefresh == \A a \in Account : Admitted(a) # 0 => has_hash[Admitted(a)]

-----------------------------------------------------------------------------
(* Claims of the comments that the code does not keep: see README.md       *)

\* auth.js, on refusing a guard: "already registered on 2 authorized gate machines".
TwoMachinesRegistered ==
    \A g \in GuardAccount :
        NoMachine \notin {slots[g][1], slots[g][2]} => slots[g][1] # slots[g][2]
=============================================================================
