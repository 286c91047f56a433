--------------------------- MODULE IdentitySessions ---------------------------
(***************************************************************************)
(* Sessions of one account and of guests: IdentitySessionService over the  *)
(* SQL repositories, on PostgreSQL at READ COMMITTED.                      *)
(*                                                                         *)
(* A transaction reads what is committed at each statement and writes when *)
(* it commits.  Only the row of the account is ever locked (FOR UPDATE);   *)
(* session rows are read without a lock, also by the calls that revoke     *)
(* them.  Passwords are hashed and verified outside any transaction first, *)
(* so the account may change before its row is locked.                     *)
(***************************************************************************)
EXTENDS Naturals, Sequences, FiniteSets

CONSTANTS
    Requests,       \* requests the server works on
    Browser,        \* request -> the browser that sends it, with its cookie
    Cap,            \* maximum_active_authenticated_sessions
    MaxPasswords,   \* bound: passwords the account has had
    MaxSessions     \* bound: sessions issued

ASSUME IdentityAssumption ==
    /\ Cap \in Nat \ {0}
    /\ MaxPasswords \in Nat \ {0}
    /\ MaxSessions \in Nat

VARIABLES
    account,        \* status and number of the password of the account
    lock,           \* the requests that hold its row (at most one)
    sessions,       \* rows in the order of their creation
    cookie,         \* browser -> number of the session in its cookie, 0 for none
    request         \* request -> what it is doing

vars == <<account, lock, sessions, cookie, request>>

Browsers == {Browser[r] : r \in Requests}
Operations == {"register", "login", "guest", "logout", "logout all", "revoke one", "password"}
Idle == [at |-> "idle", op |-> "guest", presented |-> 0, typed |-> 1, revoke |-> {}, grant |-> 0]

(* A row: whom it belongs to, and the password it was issued under; alive  *)
(* is an empty revoked_at.                                                 *)
SessionRow == [kind : {"guest", "account"}, password : 0 .. MaxPasswords,
               alive : BOOLEAN, expired : BOOLEAN]

Numbers == 0 .. Len(sessions)

TypeOK ==
    /\ account \in [status : {"absent", "active", "disabled"}, password : 1 .. MaxPasswords]
    /\ lock = {} \/ \E r \in Requests : lock = {r}
    /\ sessions \in Seq(SessionRow)
    /\ cookie \in [Browsers -> Numbers]
    /\ request \in [Requests ->
          [at : {"idle", "look", "lock", "read", "commit", "answer"}, op : Operations,
           presented : Numbers, typed : 1 .. MaxPasswords,
           revoke : SUBSET Numbers, grant : Numbers]]

Init ==
    /\ account = [status |-> "absent", password |-> 1]
    /\ lock = {}
    /\ sessions = << >>
    /\ cookie = [b \in Browsers |-> 0]
    /\ request = [r \in Requests |-> Idle]

-----------------------------------------------------------------------------
At(r, step) == request[r].at = step
Op(r) == request[r].op
Presented(r) == request[r].presented

(* _is_active: neither revoked nor expired; 0 is no session.               *)
Live(i) == i # 0 /\ sessions[i].alive /\ ~sessions[i].expired
LiveOfAccount == {i \in 1 .. Len(sessions) : Live(i) /\ sessions[i].kind = "account"}

Step(r, step) == request' = [request EXCEPT ![r].at = step]
End(r) == request' = [request EXCEPT ![r] = Idle]
Revoking(r, set) == request' = [request EXCEPT ![r].at = "commit", ![r].revoke = set]
Fail(r) == End(r) /\ lock' = lock \ {r}
ReadsOnly == UNCHANGED <<account, sessions, cookie>>

(* _revoke_current_if_valid: the presented session, unless it is stale.    *)
Current(r) == IF Live(Presented(r)) THEN {Presented(r)} ELSE {}

(* Slip: the oldest are revoked only once there are too many.              *)
EvictedLate(active) ==
    {i \in active : Cardinality({j \in active : j > i}) >= Cap}

(* _issue_authenticated: all but the newest Cap - 1 make room for one more.*)
Evicted(active) ==
    {i \in active : Cardinality({j \in active : j > i}) >= Cap - 1}

-----------------------------------------------------------------------------
(* A request arrives with the cookie of its browser and, where one is      *)
(* asked for, a password the account has or had.                           *)
Begin(r) ==
    /\ At(r, "idle")
    /\ Len(sessions) + Cardinality({q \in Requests : ~At(q, "idle")}) < MaxSessions
    /\ \E op \in Operations, typed \in 1 .. account.password :
          /\ op \notin {"login", "password"} => typed = 1
          /\ op = "password" => account.password < MaxPasswords
          /\ request' = [request EXCEPT ![r] =
                [Idle EXCEPT !.at = "look", !.op = op, !.typed = typed,
                             !.presented = cookie[Browser[r]]]]
    /\ UNCHANGED lock /\ ReadsOnly

(* register: the address is free; the presented session will be revoked.   *)
LookRegister(r) ==
    /\ Op(r) = "register" /\ At(r, "look")
    /\ \/ /\ account.status = "absent"
          /\ request' = [request EXCEPT ![r].at = "lock", ![r].revoke = Current(r)]
       \/ account.status # "absent" /\ End(r)
    /\ UNCHANGED lock /\ ReadsOnly

(* The insert of a unique address waits for another one under way, and is  *)
(* refused once that has committed.                                        *)
InsertAccount(r) ==
    /\ Op(r) = "register" /\ At(r, "lock")
    /\ lock = {}
    /\ \/ account.status = "absent" /\ Step(r, "commit") /\ lock' = {r}
       \/ account.status # "absent" /\ Fail(r)
    /\ ReadsOnly

(* authenticate: the password is verified against an unlocked read.        *)
LookLogin(r) ==
    /\ Op(r) = "login" /\ At(r, "look")
    /\ IF account.status = "active" /\ request[r].typed = account.password
         THEN Step(r, "lock") ELSE End(r)
    /\ UNCHANGED lock /\ ReadsOnly

(* Slip: the account was checked before, so its row is just locked.        *)
LockLoginUnchecked(r) ==
    /\ Op(r) = "login" /\ At(r, "lock")
    /\ lock = {}
    /\ Step(r, "read") /\ lock' = {r}
    /\ ReadsOnly

(* Slip: the row is read without FOR UPDATE.                               *)
LockLoginIgnoresLock(r) ==
    /\ Op(r) = "login" /\ At(r, "lock")
    /\ \/ account.status = "active" /\ request[r].typed = account.password
          /\ Step(r, "read") /\ lock' = lock \cup {r}
       \/ ~(account.status = "active" /\ request[r].typed = account.password)
          /\ Fail(r)
    /\ ReadsOnly

(* ... and verified again once the row is locked.                          *)
LockLogin(r) ==
    /\ Op(r) = "login" /\ At(r, "lock")
    /\ lock = {}
    /\ \/ account.status = "active" /\ request[r].typed = account.password
          /\ Step(r, "read") /\ lock' = {r}
       \/ ~(account.status = "active" /\ request[r].typed = account.password)
          /\ Fail(r)
    /\ ReadsOnly

ReadLogin(r) ==
    /\ Op(r) = "login" /\ At(r, "read")
    /\ Revoking(r, Current(r) \cup Evicted(LiveOfAccount \ Current(r)))
    /\ UNCHANGED lock /\ ReadsOnly

(* issue_guest: an account's session is answered as it is, a guest's is    *)
(* replaced, and without one a new guest begins.                           *)
LookGuest(r) ==
    /\ Op(r) = "guest" /\ At(r, "look")
    /\ \/ /\ Presented(r) \in LiveOfAccount
          /\ IF account.status = "active"
               THEN request' = [request EXCEPT ![r].at = "answer", ![r].grant = Presented(r)]
               ELSE End(r)
       \/ Presented(r) \notin LiveOfAccount /\ Revoking(r, Current(r))
    /\ UNCHANGED lock /\ ReadsOnly

(* revoke: the presented session, of whatever kind.                        *)
LookLogout(r) ==
    /\ Op(r) = "logout" /\ At(r, "look")
    /\ IF Live(Presented(r)) THEN Revoking(r, {Presented(r)}) ELSE End(r)
    /\ UNCHANGED lock /\ ReadsOnly

(* resolve, for the calls that need an account.                            *)
Resolve(r) ==
    /\ Op(r) \in {"logout all", "revoke one", "password"} /\ At(r, "look")
    /\ IF Presented(r) \in LiveOfAccount /\ account.status = "active"
         THEN Step(r, IF Op(r) = "revoke one" THEN "read" ELSE "lock")
         ELSE End(r)
    /\ UNCHANGED lock /\ ReadsOnly

(* revoke_session: some session of the account, and no lock.               *)
ReadOne(r) ==
    /\ Op(r) = "revoke one" /\ At(r, "read")
    /\ \/ \E i \in LiveOfAccount : Revoking(r, {i})
       \/ End(r)
    /\ UNCHANGED lock /\ ReadsOnly

(* Slip: resolve has read the account, so its row is not locked.           *)
LockAccountNot(r) ==
    /\ Op(r) \in {"logout all", "password"} /\ At(r, "lock")
    /\ IF /\ account.status = "active"
          /\ Presented(r) \in LiveOfAccount
          /\ Op(r) = "password" => request[r].typed = account.password
         THEN Step(r, "read") ELSE End(r)
    /\ UNCHANGED lock /\ ReadsOnly

(* revoke_all and change_password: the row is locked, then the account,    *)
(* the presented session and the password are checked.                     *)
LockAccount(r) ==
    /\ Op(r) \in {"logout all", "password"} /\ At(r, "lock")
    /\ lock = {}
    /\ IF /\ account.status = "active"
          /\ Presented(r) \in LiveOfAccount
          /\ Op(r) = "password" => request[r].typed = account.password
         THEN Step(r, "read") /\ lock' = {r}
         ELSE Fail(r)
    /\ ReadsOnly

ReadAll(r) ==
    /\ Op(r) \in {"logout all", "password"} /\ At(r, "read")
    /\ Revoking(r, LiveOfAccount)
    /\ UNCHANGED lock /\ ReadsOnly

-----------------------------------------------------------------------------
(* The commit makes all writes visible and frees the row.                  *)
Issues(r) == Op(r) \in {"register", "login", "guest", "password"}

NewPassword(r) ==
    IF Op(r) = "password" THEN account.password + 1 ELSE account.password

(* The password a session rests on: a login's is the one that was typed.   *)
GrantedBy(r) ==
    CASE Op(r) = "guest" -> 0
      [] Op(r) = "login" -> request[r].typed
      [] OTHER -> NewPassword(r)

NewSession(r) ==
    [kind |-> IF Op(r) = "guest" THEN "guest" ELSE "account",
     password |-> GrantedBy(r), alive |-> TRUE, expired |-> FALSE]

Revoked(set) ==
    [i \in 1 .. Len(sessions) |->
        IF i \in set THEN [sessions[i] EXCEPT !.alive = FALSE] ELSE sessions[i]]

Commit(r) ==
    /\ At(r, "commit")
    /\ account' = [account EXCEPT !.status = IF Op(r) = "register" THEN "active" ELSE @,
                                  !.password = NewPassword(r)]
    /\ sessions' = IF Issues(r) THEN Append(Revoked(request[r].revoke), NewSession(r))
                   ELSE Revoked(request[r].revoke)
    /\ request' = [request EXCEPT ![r].at = "answer",
                                  ![r].grant = IF Issues(r) THEN Len(sessions) + 1 ELSE 0]
    /\ lock' = lock \ {r}
    /\ UNCHANGED cookie

(* The answer sets the cookie of the browser, or clears it.                *)
Answer(r) ==
    /\ At(r, "answer")
    /\ cookie' = [cookie EXCEPT ![Browser[r]] =
                     IF Op(r) = "revoke one" /\ Presented(r) \notin request[r].revoke THEN @
                     ELSE request[r].grant]
    /\ End(r)
    /\ UNCHANGED <<account, lock, sessions>>

(* An exception, or a lost connection, rolls a transaction back.           *)
RollBack(r) ==
    /\ At(r, "lock") \/ At(r, "read") \/ At(r, "commit")
    /\ Fail(r)
    /\ ReadsOnly

(* An operator disables the account; the update waits for its row.         *)
Disable ==
    /\ account.status = "active" /\ lock = {}
    /\ account' = [account EXCEPT !.status = "disabled"]
    /\ UNCHANGED <<lock, sessions, cookie, request>>

Expire(i) ==
    /\ ~sessions[i].expired
    /\ sessions' = [sessions EXCEPT ![i].expired = TRUE]
    /\ UNCHANGED <<account, lock, cookie, request>>

Next ==
    \/ Disable
    \/ \E i \in 1 .. Len(sessions) : Expire(i)
    \/ \E r \in Requests :
          \/ Begin(r) \/ Commit(r) \/ Answer(r) \/ RollBack(r)
          \/ LookRegister(r) \/ InsertAccount(r)
          \/ LookLogin(r) \/ LockLogin(r) \/ ReadLogin(r)
          \/ LookGuest(r) \/ LookLogout(r)
          \/ Resolve(r) \/ ReadOne(r) \/ LockAccount(r) \/ ReadAll(r)

Spec == Init /\ [][Next]_vars

-----------------------------------------------------------------------------
(* _issue_authenticated: concurrent logins, registrations and password     *)
(* changes never leave an account more live sessions than the cap.         *)
ActiveCap == Cardinality(LiveOfAccount) <= Cap

(* docs/authentication-security.md "revokes all active sessions": a live   *)
(* session rests on the password the account has now, although a login     *)
(* verifies the password it was sent long before it locks the account.     *)
SessionsMatchPassword ==
    \A i \in LiveOfAccount : sessions[i].password = account.password

(* revoke_all, change_password: when they commit, no session of the        *)
(* account that exists by then stays alive, also none that a concurrent    *)
(* login committed after they began.                                       *)
EndsAll ==
    [][\A r \in Requests :
          (At(r, "commit") /\ Op(r) \in {"logout all", "password"} /\ At(r, "answer")')
             => \A i \in LiveOfAccount : ~sessions'[i].alive]_vars
=============================================================================
