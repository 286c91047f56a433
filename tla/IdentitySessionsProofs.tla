------------------------ MODULE IdentitySessionsProofs ------------------------
(***************************************************************************)
(* Proofs about IdentitySessions, for any number of concurrent requests,   *)
(* browsers and sessions, and any cap.                                     *)
(*                                                                         *)
(* The inductive invariant says what a transaction that holds the row of   *)
(* the account may rely on until it commits.  The sessions it read are not *)
(* locked, but without that row others can only revoke or let expire: the  *)
(* sessions of the account that are alive become fewer, never more.        *)
(***************************************************************************)
EXTENDS IdentitySessions, FiniteSetTheorems, TLAPS

(* The requests as they may be with the sessions issued so far. *)
Records ==
    [at : {"idle", "look", "lock", "read", "commit", "answer"}, op : Operations,
     presented : Numbers, typed : 1 .. MaxPasswords, revoke : SUBSET Numbers, grant : Numbers]

(* The transaction has the row of the account. *)
Holds(me) ==
    \/ me.op = "register" /\ me.at = "commit"
    \/ me.op \in {"login", "logout all", "password"} /\ me.at \in {"read", "commit"}

(* What it has checked, and still finds when it commits. *)
Knows(me) ==
    /\ account.status = IF me.op = "register" THEN "absent" ELSE "active"
    /\ me.op \in {"login", "password"} => me.typed = account.password
    /\ me.op = "login" /\ me.at = "commit" =>
          Cardinality(LiveOfAccount \ me.revoke) <= Cap - 1
    /\ me.op \in {"logout all", "password"} /\ me.at = "commit" =>
          LiveOfAccount \subseteq me.revoke

(* Bound: no change to a password beyond the last one. *)
TypedOK(me) == me.op = "password" /\ me.at # "idle" => me.typed < MaxPasswords

IndInv ==
    /\ TypeOK
    /\ ActiveCap
    /\ SessionsMatchPassword
    /\ account.status = "absent" => LiveOfAccount = {}
    /\ \A r \in Requests :
          /\ Holds(request[r]) => r \in lock /\ Knows(request[r])
          /\ TypedOK(request[r])

---------------------------------------------------------------------------
(* Sets of sessions. *)

(* A set of numbers has at most k members with fewer than k above them:    *)
(* each of them has another number of members above it.                    *)
LEMMA NewestFew ==
    ASSUME NEW A, A \subseteq Nat, IsFiniteSet(A), NEW k \in Nat
    PROVE  Cardinality({i \in A : Cardinality({j \in A : j > i}) < k}) <= k
<1> DEFINE Above(i) == {j \in A : j > i}
           T == {i \in A : Cardinality(Above(i)) < k}
           f == [i \in T |-> Cardinality(Above(i))]
<1>1. \A i : IsFiniteSet(Above(i)) /\ Cardinality(Above(i)) \in Nat
  BY FS_Subset, FS_CardinalityType
<1>2. f \in [T -> 0 .. k - 1]
  BY <1>1
<1>3. ASSUME NEW i \in T, NEW j \in T, i < j PROVE f[i] # f[j]
  <2>0. i \in Nat /\ j \in A /\ j \in Nat /\ \A x \in A : x \in Nat
    OBVIOUS
  <2>1. Above(j) \subseteq Above(i) /\ j \in Above(i) /\ j \notin Above(j)
    <3> HIDE DEF T, f
    <3>1. j > i /\ ~(j > j)
      BY <1>3, <2>0
    <3>2. \A x \in A : x > j => x > i
      BY <1>3, <2>0
    <3> QED
      BY <2>0, <3>1, <3>2
  <2>2. Cardinality(Above(i)) # Cardinality(Above(j))
    BY <1>1, <2>1, FS_Subset
  <2> QED
    BY <2>2
<1>4. ASSUME NEW i \in T, NEW j \in T, f[i] = f[j] PROVE i = j
  <2>1. i \in Nat /\ j \in Nat
    OBVIOUS
  <2>2. ~(i < j) /\ ~(j < i)
    BY <1>3, <1>4
  <2> QED
    BY <2>1, <2>2
<1>5. f \in Injection(T, 0 .. k - 1)
  <2> HIDE DEF T, f
  <2> QED
    BY <1>2, <1>4 DEF Injection, IsInjective
<1>6. IsFiniteSet(0 .. k - 1) /\ Cardinality(0 .. k - 1) = k
  BY FS_Interval
<1>7. Cardinality(T) <= Cardinality(0 .. k - 1)
  <2> HIDE DEF T, f
  <2> QED
    BY <1>5, <1>6, FS_Injection
<1> QED
  BY <1>6, <1>7

LEMMA LiveFinite ==
    ASSUME sessions \in Seq(SessionRow)
    PROVE  /\ IsFiniteSet(LiveOfAccount) /\ LiveOfAccount \subseteq Nat
           /\ LiveOfAccount \subseteq Numbers
           /\ \A S : S \subseteq LiveOfAccount =>
                 IsFiniteSet(S) /\ Cardinality(S) \in Nat
<1>1. Len(sessions) \in Nat
  OBVIOUS
<1>2. LiveOfAccount \subseteq 1 .. Len(sessions)
  BY DEF LiveOfAccount
<1>3. IsFiniteSet(1 .. Len(sessions))
  BY <1>1, FS_Interval
<1>4. ASSUME NEW S, S \subseteq LiveOfAccount
      PROVE  IsFiniteSet(S) /\ Cardinality(S) \in Nat
  BY <1>2, <1>3, <1>4, FS_Subset, FS_CardinalityType
<1>5. 1 .. Len(sessions) \subseteq Nat /\ 1 .. Len(sessions) \subseteq Numbers
  BY <1>1 DEF Numbers
<1> QED
  BY <1>2, <1>4, <1>5

(* What _issue_authenticated leaves makes room for one more session.       *)
LEMMA EvictionMakesRoom ==
    ASSUME sessions \in Seq(SessionRow), NEW S, S \subseteq LiveOfAccount
    PROVE  Cardinality(S \ Evicted(S)) <= Cap - 1
<1>1. IsFiniteSet(S) /\ S \subseteq Nat
  BY LiveFinite
<1>2. Cap - 1 \in Nat
  BY IdentityAssumption
<1>3. \A i : Cardinality({j \in S : j > i}) \in Nat
  BY <1>1, FS_Subset, FS_CardinalityType
<1>4. S \ Evicted(S) = {i \in S : Cardinality({j \in S : j > i}) < Cap - 1}
  <2>1. \A n \in Nat, k \in Nat : ~(n >= k) <=> n < k
    OBVIOUS
  <2> DEFINE Count(i) == Cardinality({j \in S : j > i})
  <2>2. \A i : Count(i) \in Nat
    BY <1>3
  <2>3. Evicted(S) = {i \in S : Count(i) >= Cap - 1}
    BY DEF Evicted
  <2> HIDE DEF Count
  <2>4. S \ Evicted(S) = {i \in S : Count(i) < Cap - 1}
    BY <1>2, <2>1, <2>2, <2>3
  <2> QED
    BY <2>4 DEF Count
<1> QED
  BY <1>1, <1>2, <1>4, NewestFew

---------------------------------------------------------------------------
(* Steps that only read. *)

LEMMA IdleTyped == Idle \in Records /\ ~Holds(Idle) /\ TypedOK(Idle) /\ Idle.at = "idle"
<1>1. Len(sessions) \in Int
  OBVIOUS
<1> QED
  BY IdentityAssumption DEF Idle, Records, Holds, TypedOK, Operations, Numbers


(* Transactions that hold the row find what they know unless the account   *)
(* changes or a session of it is added.                                    *)
LEMMA KnowsKept ==
    ASSUME NEW me, Knows(me), sessions \in Seq(SessionRow),
           account' = account, LiveOfAccount' \subseteq LiveOfAccount
    PROVE  Knows(me)'
<1>1. Cardinality(LiveOfAccount' \ me.revoke) <= Cardinality(LiveOfAccount \ me.revoke)
  <2>1. LiveOfAccount' \ me.revoke \subseteq LiveOfAccount \ me.revoke
    OBVIOUS
  <2>2. LiveOfAccount \ me.revoke \subseteq LiveOfAccount
    OBVIOUS
  <2>3. IsFiniteSet(LiveOfAccount \ me.revoke)
    BY <2>2, LiveFinite
  <2> QED
    BY <2>1, <2>3, FS_Subset
<1>2. /\ Cardinality(LiveOfAccount' \ me.revoke) \in Nat
      /\ Cardinality(LiveOfAccount \ me.revoke) \in Nat
  <2>1. LiveOfAccount' \ me.revoke \subseteq LiveOfAccount
    OBVIOUS
  <2>2. LiveOfAccount \ me.revoke \subseteq LiveOfAccount
    OBVIOUS
  <2> QED
    BY <2>1, <2>2, LiveFinite
<1>3. Cap - 1 \in Int
  BY IdentityAssumption
<1>4. (me.op = "login" /\ me.at = "commit" =>
          Cardinality(LiveOfAccount \ me.revoke) <= Cap - 1)'
  BY <1>1, <1>2, <1>3 DEF Knows
<1> QED
  BY <1>4 DEF Knows

LEMMA ActiveCapKept ==
    ASSUME ActiveCap, sessions \in Seq(SessionRow), LiveOfAccount' \subseteq LiveOfAccount
    PROVE  ActiveCap'
<1>1. IsFiniteSet(LiveOfAccount) /\ Cardinality(LiveOfAccount) \in Nat
      /\ Cardinality(LiveOfAccount') \in Nat
  BY LiveFinite
<1>2. Cardinality(LiveOfAccount') <= Cardinality(LiveOfAccount)
  BY <1>1, FS_Subset
<1>3. Cap \in Int
  BY IdentityAssumption
<1> QED
  BY <1>1, <1>2, <1>3 DEF ActiveCap

(* One request goes on, and what is stored stays as it is. *)
LEMMA ReadMove ==
    ASSUME IndInv, NEW r \in Requests, NEW me \in Records,
           request' = [request EXCEPT ![r] = me],
           UNCHANGED <<account, sessions, cookie>>,
           \/ lock' = lock
           \/ lock' = lock \ {r}
           \/ lock = {} /\ lock' = {r},
           Holds(me) => r \in lock' /\ Knows(me), TypedOK(me)
    PROVE  IndInv'
<1>1. request'[r] = me /\ \A q \in Requests \ {r} : request'[q] = request[q]
  BY DEF IndInv, TypeOK
<1>2. LiveOfAccount' = LiveOfAccount
  BY DEF LiveOfAccount, Live
<1>3. sessions \in Seq(SessionRow) /\ Records' = Records
  BY DEF IndInv, TypeOK, Records, Numbers
<1>4. lock' = {} \/ \E q \in Requests : lock' = {q}
  BY DEF IndInv, TypeOK
<1>5. TypeOK'
  BY <1>3, <1>4 DEF IndInv, TypeOK, Records, Numbers
<1>6. ActiveCap' /\ SessionsMatchPassword'
  BY <1>2 DEF IndInv, ActiveCap, SessionsMatchPassword
<1>7. ASSUME NEW q \in Requests, q # r
      PROVE  /\ Holds(request[q])' => q \in lock' /\ Knows(request[q])'
             /\ TypedOK(request[q])'
  <2>1. PICK it : it = request[q]
    OBVIOUS
  <2>2. request'[q] = it /\ TypedOK(it) /\ (Holds(it) => q \in lock /\ Knows(it))
    BY <1>1, <1>7, <2>1 DEF IndInv
  <2>3. Holds(it) => Knows(it)'
    BY <1>2, <1>3, <2>2, KnowsKept
  <2>4. Holds(it) => q \in lock'
    BY <1>7, <2>2
  <2> QED
    BY <2>2, <2>3, <2>4 DEF Holds, TypedOK
<1>8. (Holds(request[r]))' => r \in lock' /\ (Knows(request[r]))'
  <2>1. Holds(me) => Knows(me)'
    BY <1>2, <1>3, KnowsKept
  <2> QED
    BY <1>1, <2>1 DEF Holds
<1>9. TypedOK(request[r])'
  BY <1>1 DEF TypedOK
<1> QED
  BY <1>2, <1>5, <1>6, <1>7, <1>8, <1>9 DEF IndInv


LEMMA EndKeeps ==
    ASSUME IndInv, NEW r \in Requests, End(r), ReadsOnly, lock' = lock \/ lock' = lock \ {r}
    PROVE  IndInv'
<1>1. Idle \in Records /\ ~Holds(Idle) /\ TypedOK(Idle)
  BY IdleTyped DEF IndInv, TypeOK
<1>2. UNCHANGED <<account, sessions, cookie>> /\ request' = [request EXCEPT ![r] = Idle]
  BY DEF End, ReadsOnly
<1> QED
  BY <1>1, <1>2, ReadMove

LEMMA StepMoves ==
    ASSUME IndInv, NEW r \in Requests, NEW step \in {"look", "lock", "read", "commit"},
           Step(r, step)
    PROVE  \E me \in Records :
              /\ request' = [request EXCEPT ![r] = me]
              /\ me.at = step /\ me.op = request[r].op /\ me.typed = request[r].typed
              /\ me.revoke = request[r].revoke /\ me.presented = request[r].presented
<1> DEFINE me == [request[r] EXCEPT !.at = step]
<1>1. request[r] \in Records
  BY DEF IndInv, TypeOK, Records
<1>2. me \in Records
  BY <1>1 DEF Records
<1>3. /\ me.at = step /\ me.op = request[r].op /\ me.typed = request[r].typed
      /\ me.revoke = request[r].revoke /\ me.presented = request[r].presented
  BY <1>1 DEF Records
<1> QED
  BY <1>2, <1>3 DEF Step

RevokingAt(r, step, set) == request' = [request EXCEPT ![r].at = step, ![r].revoke = set]

(* The sessions to be revoked are fixed, and the transaction may commit.   *)
LEMMA RevokingMoves ==
    ASSUME IndInv, NEW r \in Requests, NEW set, set \subseteq Numbers, NEW step,
           step \in {"lock", "commit"}, RevokingAt(r, step, set)
    PROVE  \E me \in Records :
              /\ request' = [request EXCEPT ![r] = me]
              /\ me.at = step /\ me.op = request[r].op /\ me.typed = request[r].typed
              /\ me.revoke = set
<1> DEFINE me == [[request[r] EXCEPT !.at = step] EXCEPT !.revoke = set]
<1>1. request[r] \in Records /\ request \in [Requests -> Records]
  BY DEF IndInv, TypeOK, Records
<1>2. me \in Records
  BY <1>1 DEF Records
<1>3. /\ me.at = step /\ me.op = request[r].op /\ me.typed = request[r].typed
      /\ me.revoke = set
  BY <1>1 DEF Records
<1>4. request' = [request EXCEPT ![r] = me]
  BY <1>1 DEF RevokingAt
<1> QED
  BY <1>2, <1>3, <1>4

LEMMA CurrentTyped ==
    ASSUME IndInv, NEW r \in Requests
    PROVE  Current(r) \subseteq Numbers /\ request[r].presented \in Numbers
BY DEF IndInv, TypeOK, Current, Presented

---------------------------------------------------------------------------
(* The steps of a request before it commits. *)

LEMMA BeginKeeps ==
    ASSUME IndInv, NEW r \in Requests, Begin(r) PROVE IndInv'
<1>1. PICK op \in Operations, typed \in 1 .. account.password :
         /\ op = "password" => account.password < MaxPasswords
         /\ request' = [request EXCEPT ![r] =
               [Idle EXCEPT !.at = "look", !.op = op, !.typed = typed,
                            !.presented = cookie[Browser[r]]]]
  BY DEF Begin
<1>2. PICK me : me = [Idle EXCEPT !.at = "look", !.op = op, !.typed = typed,
                                  !.presented = cookie[Browser[r]]]
  OBVIOUS
<1>3. cookie[Browser[r]] \in Numbers /\ account.password \in 1 .. MaxPasswords
  BY DEF IndInv, TypeOK, Browsers
<1>4. typed \in 1 .. MaxPasswords /\ (op = "password" => typed < MaxPasswords)
  BY <1>1, <1>3, IdentityAssumption
<1>5. Idle \in Records
  BY IdleTyped DEF IndInv, TypeOK
<1>6. me = [at |-> "look", op |-> op, presented |-> cookie[Browser[r]], typed |-> typed,
            revoke |-> {}, grant |-> 0]
  BY <1>2 DEF Idle
<1>7. me \in Records /\ me.at = "look" /\ me.op = op /\ me.typed = typed
  BY <1>3, <1>4, <1>5, <1>6 DEF Records, Idle
<1>8. ~Holds(me) /\ TypedOK(me)
  BY <1>4, <1>7 DEF Holds, TypedOK
<1> QED
  BY <1>1, <1>2, <1>7, <1>8, ReadMove DEF Begin, ReadsOnly

LEMMA LookRegisterKeeps ==
    ASSUME IndInv, NEW r \in Requests, LookRegister(r) PROVE IndInv'
<1>1. CASE End(r)
  BY <1>1, EndKeeps DEF LookRegister
<1>2. CASE request' = [request EXCEPT ![r].at = "lock", ![r].revoke = Current(r)]
  <2>1. PICK set : set = Current(r)
    OBVIOUS
  <2>a. set \subseteq Numbers /\ RevokingAt(r, "lock", set)
    BY <1>2, <2>1, CurrentTyped DEF RevokingAt
  <2>2. PICK me \in Records :
           /\ request' = [request EXCEPT ![r] = me]
           /\ me.at = "lock" /\ me.op = request[r].op /\ me.typed = request[r].typed
    BY <2>a, RevokingMoves
  <2>3. ~Holds(me) /\ TypedOK(me)
    BY <2>2 DEF LookRegister, Op, Holds, TypedOK
  <2> QED
    BY <2>2, <2>3, ReadMove DEF LookRegister, ReadsOnly
<1> QED
  BY <1>1, <1>2 DEF LookRegister

LEMMA InsertAccountKeeps ==
    ASSUME IndInv, NEW r \in Requests, InsertAccount(r) PROVE IndInv'
<1>1. CASE Fail(r)
  BY <1>1, EndKeeps DEF InsertAccount, Fail
<1>2. CASE account.status = "absent" /\ Step(r, "commit") /\ lock' = {r}
  <2>1. PICK me \in Records :
           /\ request' = [request EXCEPT ![r] = me]
           /\ me.at = "commit" /\ me.op = "register"
    BY <1>2, StepMoves DEF InsertAccount, Op
  <2>2. Knows(me) /\ TypedOK(me)
    BY <1>2, <2>1 DEF Knows, TypedOK
  <2> QED
    BY <1>2, <2>1, <2>2, ReadMove DEF InsertAccount, ReadsOnly
<1> QED
  BY <1>1, <1>2 DEF InsertAccount

LEMMA LookLoginKeeps ==
    ASSUME IndInv, NEW r \in Requests, LookLogin(r) PROVE IndInv'
<1>1. CASE End(r)
  BY <1>1, EndKeeps DEF LookLogin
<1>2. CASE Step(r, "lock")
  <2>1. PICK me \in Records :
           /\ request' = [request EXCEPT ![r] = me]
           /\ me.at = "lock" /\ me.op = "login"
    BY <1>2, StepMoves DEF LookLogin, Op
  <2>2. ~Holds(me) /\ TypedOK(me)
    BY <2>1 DEF Holds, TypedOK
  <2> QED
    BY <2>1, <2>2, ReadMove DEF LookLogin, ReadsOnly
<1> QED
  BY <1>1, <1>2 DEF LookLogin

LEMMA LockLoginKeeps ==
    ASSUME IndInv, NEW r \in Requests, LockLogin(r) PROVE IndInv'
<1>1. CASE Fail(r)
  BY <1>1, EndKeeps DEF LockLogin, Fail
<1>2. CASE /\ account.status = "active" /\ request[r].typed = account.password
           /\ Step(r, "read") /\ lock' = {r}
  <2>1. PICK me \in Records :
           /\ request' = [request EXCEPT ![r] = me]
           /\ me.at = "read" /\ me.op = "login" /\ me.typed = request[r].typed
    BY <1>2, StepMoves DEF LockLogin, Op
  <2>2. Knows(me) /\ TypedOK(me)
    BY <1>2, <2>1 DEF Knows, TypedOK
  <2> QED
    BY <1>2, <2>1, <2>2, ReadMove DEF LockLogin, ReadsOnly
<1> QED
  BY <1>1, <1>2 DEF LockLogin

(* The oldest sessions are chosen so that one more has room. *)
LEMMA ReadLoginKeeps ==
    ASSUME IndInv, NEW r \in Requests, ReadLogin(r) PROVE IndInv'
<1>0. PICK set : set = Current(r) \cup Evicted(LiveOfAccount \ Current(r))
  OBVIOUS
<1>1. sessions \in Seq(SessionRow)
  BY DEF IndInv, TypeOK
<1>2. set \subseteq Numbers
  BY <1>0, <1>1, CurrentTyped, LiveFinite DEF Evicted
<1>a. RevokingAt(r, "commit", set)
  BY <1>0 DEF ReadLogin, Revoking, RevokingAt
<1>3. PICK me \in Records :
         /\ request' = [request EXCEPT ![r] = me]
         /\ me.at = "commit" /\ me.op = request[r].op /\ me.typed = request[r].typed
         /\ me.revoke = set
  BY <1>a, <1>2, RevokingMoves
<1>4. LiveOfAccount \ set = (LiveOfAccount \ Current(r)) \ Evicted(LiveOfAccount \ Current(r))
  BY <1>0
<1>5. Cardinality(LiveOfAccount \ set) <= Cap - 1
  BY <1>1, <1>4, EvictionMakesRoom
<1>6. Holds(request[r]) /\ r \in lock /\ Knows(request[r])
  BY DEF IndInv, ReadLogin, At, Op, Holds
<1>7. Knows(me) /\ TypedOK(me)
  BY <1>3, <1>5, <1>6 DEF ReadLogin, Op, Knows, TypedOK
<1> QED
  BY <1>3, <1>6, <1>7, ReadMove DEF ReadLogin, ReadsOnly


LEMMA LookGuestKeeps ==
    ASSUME IndInv, NEW r \in Requests, LookGuest(r) PROVE IndInv'
<1>0. request[r] \in Records /\ request \in [Requests -> Records]
  BY DEF IndInv, TypeOK, Records
<1>1. CASE End(r)
  BY <1>1, EndKeeps DEF LookGuest
<1>2. CASE request' = [request EXCEPT ![r].at = "answer", ![r].grant = Presented(r)]
  <2>1. PICK me : me = [[request[r] EXCEPT !.at = "answer"] EXCEPT !.grant = Presented(r)]
    OBVIOUS
  <2>2. me \in Records /\ me.at = "answer" /\ me.op = "guest"
    BY <1>0, <2>1, CurrentTyped DEF Records, Presented, LookGuest, Op
  <2>3. request' = [request EXCEPT ![r] = me]
    BY <1>0, <1>2, <2>1
  <2>4. ~Holds(me) /\ TypedOK(me)
    BY <2>2 DEF Holds, TypedOK
  <2> QED
    BY <2>2, <2>3, <2>4, ReadMove DEF LookGuest, ReadsOnly
<1>3. CASE Revoking(r, Current(r))
  <2>1. PICK set : set = Current(r)
    OBVIOUS
  <2>2. set \subseteq Numbers /\ RevokingAt(r, "commit", set)
    BY <1>3, <2>1, CurrentTyped DEF RevokingAt, Revoking
  <2>3. PICK me \in Records : /\ request' = [request EXCEPT ![r] = me]
                              /\ me.at = "commit" /\ me.op = request[r].op
    BY <2>2, RevokingMoves
  <2>4. ~Holds(me) /\ TypedOK(me)
    BY <2>3 DEF Holds, TypedOK, LookGuest, Op
  <2> QED
    BY <2>3, <2>4, ReadMove DEF LookGuest, ReadsOnly
<1> QED
  BY <1>1, <1>2, <1>3 DEF LookGuest

(* Calls that revoke one session and do not lock the account. *)
LEMMA RevokeOneKeeps ==
    ASSUME IndInv, NEW r \in Requests, NEW i \in Numbers, Revoking(r, {i}),
           Op(r) \in {"logout", "revoke one"}, UNCHANGED lock, ReadsOnly
    PROVE  IndInv'
<1>1. PICK set : set = {i}
  OBVIOUS
<1>2. set \subseteq Numbers /\ RevokingAt(r, "commit", set)
  BY <1>1 DEF RevokingAt, Revoking
<1>3. PICK me \in Records :
         /\ request' = [request EXCEPT ![r] = me]
         /\ me.at = "commit" /\ me.op = request[r].op /\ me.typed = request[r].typed
         /\ me.revoke = set
  BY <1>2, RevokingMoves
<1>4. ~Holds(me) /\ TypedOK(me)
  BY <1>3 DEF Holds, TypedOK, Op
<1> QED
  BY <1>3, <1>4, ReadMove DEF ReadsOnly

LEMMA LookLogoutKeeps ==
    ASSUME IndInv, NEW r \in Requests, LookLogout(r) PROVE IndInv'
<1>1. PICK i \in Numbers : i = Presented(r)
  BY CurrentTyped DEF Presented
<1>2. Revoking(r, {i}) \/ End(r)
  BY <1>1 DEF LookLogout
<1> QED
  BY <1>2, RevokeOneKeeps, EndKeeps DEF LookLogout

LEMMA ReadOneKeeps ==
    ASSUME IndInv, NEW r \in Requests, ReadOne(r) PROVE IndInv'
<1>1. LiveOfAccount \subseteq Numbers
  BY LiveFinite DEF IndInv, TypeOK
<1>2. (\E i \in Numbers : Revoking(r, {i})) \/ End(r)
  BY <1>1 DEF ReadOne
<1> QED
  BY <1>2, RevokeOneKeeps, EndKeeps DEF ReadOne

LEMMA ResolveKeeps ==
    ASSUME IndInv, NEW r \in Requests, Resolve(r) PROVE IndInv'
<1>1. CASE End(r)
  BY <1>1, EndKeeps DEF Resolve
<1>2. CASE ~End(r)
  <2>1. PICK step \in {"read", "lock"} :
           Step(r, step) /\ (step = "read" => Op(r) = "revoke one")
    BY <1>2 DEF Resolve
  <2>a. step \in {"look", "lock", "read", "commit"}
    BY <2>1
  <2>2. PICK me \in Records :
           /\ request' = [request EXCEPT ![r] = me]
           /\ me.at = step /\ me.op = request[r].op /\ me.typed = request[r].typed
           /\ me.revoke = request[r].revoke /\ me.presented = request[r].presented
    BY <2>1, <2>a, StepMoves
  <2>3. TypedOK(request[r]) /\ request[r].at = "look"
    BY DEF IndInv, Resolve, At
  <2>4. ~Holds(me) /\ TypedOK(me)
    BY <2>1, <2>2, <2>3 DEF Holds, TypedOK, Op
  <2> QED
    BY <2>2, <2>4, ReadMove DEF Resolve, ReadsOnly
<1> QED
  BY <1>1, <1>2

LEMMA LockAccountKeeps ==
    ASSUME IndInv, NEW r \in Requests, LockAccount(r) PROVE IndInv'
<1>1. CASE Fail(r)
  BY <1>1, EndKeeps DEF LockAccount, Fail
<1>2. CASE /\ account.status = "active"
           /\ Op(r) = "password" => request[r].typed = account.password
           /\ Step(r, "read") /\ lock' = {r}
  <2>1. PICK me \in Records :
           /\ request' = [request EXCEPT ![r] = me]
           /\ me.at = "read" /\ me.op = request[r].op /\ me.typed = request[r].typed
    BY <1>2, StepMoves
  <2>2. TypedOK(request[r]) /\ request[r].at = "lock"
    BY DEF IndInv, LockAccount, At
  <2>3. Knows(me) /\ TypedOK(me)
    BY <1>2, <2>1, <2>2 DEF Knows, TypedOK, Op, LockAccount
  <2> QED
    BY <1>2, <2>1, <2>3, ReadMove DEF LockAccount, ReadsOnly
<1> QED
  BY <1>1, <1>2 DEF LockAccount

LEMMA ReadAllKeeps ==
    ASSUME IndInv, NEW r \in Requests, ReadAll(r) PROVE IndInv'
<1>1. PICK set : set = LiveOfAccount
  OBVIOUS
<1>2. set \subseteq Numbers /\ RevokingAt(r, "commit", set)
  BY <1>1, LiveFinite DEF RevokingAt, Revoking, ReadAll, IndInv, TypeOK
<1>3. PICK me \in Records :
         /\ request' = [request EXCEPT ![r] = me]
         /\ me.at = "commit" /\ me.op = request[r].op /\ me.typed = request[r].typed
         /\ me.revoke = set
  BY <1>2, RevokingMoves
<1>4. Holds(request[r]) /\ r \in lock /\ Knows(request[r]) /\ TypedOK(request[r])
  BY DEF IndInv, ReadAll, At, Op, Holds
<1>5. Knows(me) /\ TypedOK(me)
  BY <1>1, <1>3, <1>4 DEF ReadAll, At, Op, Knows, TypedOK
<1> QED
  BY <1>3, <1>4, <1>5, ReadMove DEF ReadAll, ReadsOnly

LEMMA RollBackKeeps ==
    ASSUME IndInv, NEW r \in Requests, RollBack(r) PROVE IndInv'
BY EndKeeps DEF RollBack, Fail

---------------------------------------------------------------------------
(* Changes to what is stored, but for commits. *)

(* No request moves, and the sessions of the account become no more. *)
LEMMA OutsideMove ==
    ASSUME IndInv, account' = account, UNCHANGED <<lock, cookie, request>>,
           sessions' \in Seq(SessionRow), Len(sessions') = Len(sessions),
           LiveOfAccount' \subseteq LiveOfAccount,
           \A i \in LiveOfAccount' : sessions'[i].password = sessions[i].password
    PROVE  IndInv'
<1>1. sessions \in Seq(SessionRow)
  BY DEF IndInv, TypeOK
<1>2. TypeOK'
  BY DEF IndInv, TypeOK, Numbers
<1>3. ActiveCap'
  BY <1>1, ActiveCapKept DEF IndInv
<1>4. SessionsMatchPassword'
  BY DEF IndInv, SessionsMatchPassword
<1>5. (account.status = "absent" => LiveOfAccount = {})'
  BY DEF IndInv
<1>6. ASSUME NEW q \in Requests
      PROVE  /\ Holds(request[q])' => q \in lock' /\ Knows(request[q])'
             /\ TypedOK(request[q])'
  <2>1. PICK it : it = request[q]
    OBVIOUS
  <2>2. request'[q] = it /\ TypedOK(it) /\ (Holds(it) => q \in lock /\ Knows(it))
    BY <2>1 DEF IndInv
  <2>3. Holds(it) => Knows(it)'
    BY <1>1, <2>2, KnowsKept
  <2> QED
    BY <2>2, <2>3 DEF Holds, TypedOK
<1> QED
  BY <1>2, <1>3, <1>4, <1>5, <1>6 DEF IndInv

LEMMA ExpireKeeps ==
    ASSUME IndInv, NEW i \in 1 .. Len(sessions), Expire(i) PROVE IndInv'
<1>1. sessions \in Seq(SessionRow) /\ Len(sessions) \in Nat
  BY DEF IndInv, TypeOK
<1>2. sessions[i] \in SessionRow
  BY <1>1
<1>3. PICK row : row = [sessions[i] EXCEPT !.expired = TRUE]
  OBVIOUS
<1>4. row \in SessionRow /\ row.expired /\ row.password = sessions[i].password
  BY <1>2, <1>3 DEF SessionRow
<1>5. sessions' = [sessions EXCEPT ![i] = row]
  BY <1>3 DEF Expire
<1>6. /\ sessions' \in Seq(SessionRow) /\ Len(sessions') = Len(sessions)
      /\ sessions'[i] = row
      /\ \A j \in 1 .. Len(sessions) : j # i => sessions'[j] = sessions[j]
  BY <1>1, <1>4, <1>5
<1>7. LiveOfAccount' \subseteq LiveOfAccount
  BY <1>4, <1>6 DEF LiveOfAccount, Live
<1>8. \A j \in LiveOfAccount' : sessions'[j].password = sessions[j].password
  BY <1>4, <1>6 DEF LiveOfAccount
<1> QED
  BY <1>6, <1>7, <1>8, OutsideMove DEF Expire

(* The row of the account is free, so no transaction relies on it. *)
LEMMA DisableKeeps ==
    ASSUME IndInv, Disable PROVE IndInv'
<1>1. account' \in [status : {"absent", "active", "disabled"}, password : 1 .. MaxPasswords]
      /\ account'.status = "disabled" /\ account'.password = account.password
  BY DEF Disable, IndInv, TypeOK
<1>2. LiveOfAccount' = LiveOfAccount
  BY DEF Disable, LiveOfAccount, Live
<1>3. TypeOK'
  BY <1>1 DEF Disable, IndInv, TypeOK, Numbers
<1>4. ActiveCap' /\ SessionsMatchPassword'
  BY <1>1, <1>2 DEF Disable, IndInv, ActiveCap, SessionsMatchPassword
<1>5. \A q \in Requests : ~Holds(request[q])' /\ TypedOK(request[q])'
  BY DEF Disable, IndInv, Holds, TypedOK
<1> QED
  BY <1>1, <1>3, <1>4, <1>5 DEF IndInv

LEMMA AnswerKeeps ==
    ASSUME IndInv, NEW r \in Requests, Answer(r) PROVE IndInv'
<1>1. Idle \in Records /\ ~Holds(Idle) /\ TypedOK(Idle)
  BY IdleTyped DEF IndInv, TypeOK
<1>2. /\ UNCHANGED <<account, lock, sessions>>
      /\ request' = [request EXCEPT ![r] = Idle]
  BY DEF Answer, End
<1>3. cookie' \in [Browsers -> Numbers]
  BY DEF Answer, IndInv, TypeOK, Browsers
<1>4. LiveOfAccount' = LiveOfAccount /\ Numbers' = Numbers /\ Records' = Records
  BY <1>2 DEF LiveOfAccount, Live, Numbers, Records
<1>5. TypeOK'
  BY <1>1, <1>2, <1>3, <1>4 DEF IndInv, TypeOK, Records
<1>6. ActiveCap' /\ SessionsMatchPassword'
  BY <1>2, <1>4 DEF IndInv, ActiveCap, SessionsMatchPassword
<1>7. ASSUME NEW q \in Requests
      PROVE  /\ Holds(request[q])' => q \in lock' /\ Knows(request[q])'
             /\ TypedOK(request[q])'
  <2>1. request'[q] = IF q = r THEN Idle ELSE request[q]
    BY <1>2 DEF IndInv, TypeOK
  <2> QED
    BY <1>1, <1>2, <1>4, <2>1 DEF IndInv, Holds, Knows, TypedOK
<1> QED
  BY <1>2, <1>4, <1>5, <1>6, <1>7 DEF IndInv

---------------------------------------------------------------------------
(* The commit. *)

LEMMA RevokedTyped ==
    ASSUME sessions \in Seq(SessionRow), NEW set
    PROVE  /\ Revoked(set) \in Seq(SessionRow) /\ Len(Revoked(set)) = Len(sessions)
           /\ \A i \in 1 .. Len(sessions) :
                 /\ Revoked(set)[i].kind = sessions[i].kind
                 /\ Revoked(set)[i].password = sessions[i].password
                 /\ Revoked(set)[i].expired = sessions[i].expired
                 /\ Revoked(set)[i].alive <=> sessions[i].alive /\ i \notin set
<1>1. Len(sessions) \in Nat /\ \A i \in 1 .. Len(sessions) : sessions[i] \in SessionRow
  OBVIOUS
<1> DEFINE row(i) == IF i \in set THEN [sessions[i] EXCEPT !.alive = FALSE] ELSE sessions[i]
<1>2. ASSUME NEW i \in 1 .. Len(sessions)
      PROVE  /\ row(i) \in SessionRow
             /\ row(i).kind = sessions[i].kind /\ row(i).password = sessions[i].password
             /\ row(i).expired = sessions[i].expired
             /\ row(i).alive <=> sessions[i].alive /\ i \notin set
  <2>1. PICK s \in SessionRow : s = sessions[i]
    BY <1>1
  <2>2. CASE i \in set
    <3>1. row(i) = [s EXCEPT !.alive = FALSE]
      BY <2>1, <2>2
    <3> QED
      BY <2>1, <2>2, <3>1 DEF SessionRow
  <2>3. CASE i \notin set
    BY <2>1, <2>3
  <2> QED
    BY <2>2, <2>3
<1>3. Revoked(set) = [i \in 1 .. Len(sessions) |-> row(i)]
  BY DEF Revoked
<1> HIDE DEF row
<1>4. Revoked(set) \in Seq(SessionRow) /\ Len(Revoked(set)) = Len(sessions)
  BY <1>1, <1>2, <1>3
<1> QED
  BY <1>2, <1>3, <1>4

(* The sessions of the account after the commit. *)
LEMMA LiveAfterRevoke ==
    ASSUME sessions \in Seq(SessionRow), NEW set, sessions' = Revoked(set)
    PROVE  /\ LiveOfAccount' = LiveOfAccount \ set
           /\ sessions' \in Seq(SessionRow) /\ Len(sessions') = Len(sessions)
           /\ \A i \in LiveOfAccount' : sessions'[i].password = sessions[i].password
           /\ \A i \in set \cap LiveOfAccount : ~sessions'[i].alive
BY RevokedTyped DEF LiveOfAccount, Live

LEMMA LiveAfterIssue ==
    ASSUME sessions \in Seq(SessionRow), NEW set, NEW row \in SessionRow,
           row.alive, ~row.expired, sessions' = Append(Revoked(set), row)
    PROVE  /\ LiveOfAccount' = (LiveOfAccount \ set) \cup
                  (IF row.kind = "account" THEN {Len(sessions) + 1} ELSE {})
           /\ sessions' \in Seq(SessionRow) /\ Len(sessions') = Len(sessions) + 1
           /\ \A i \in LiveOfAccount \ set : sessions'[i].password = sessions[i].password
           /\ sessions'[Len(sessions) + 1] = row
           /\ \A i \in set \cap LiveOfAccount : ~sessions'[i].alive
<1>1. PICK n \in Nat : n = Len(sessions)
  OBVIOUS
<1>2. /\ Revoked(set) \in Seq(SessionRow) /\ Len(Revoked(set)) = n
      /\ \A i \in 1 .. n :
            /\ Revoked(set)[i].kind = sessions[i].kind
            /\ Revoked(set)[i].password = sessions[i].password
            /\ Revoked(set)[i].expired = sessions[i].expired
            /\ Revoked(set)[i].alive <=> sessions[i].alive /\ i \notin set
  BY <1>1, RevokedTyped
<1>3. /\ sessions' \in Seq(SessionRow) /\ Len(sessions') = n + 1
      /\ sessions'[n + 1] = row
      /\ \A i \in 1 .. n : sessions'[i] = Revoked(set)[i]
  BY <1>2
<1>4. LiveOfAccount = {i \in 1 .. n : Live(i) /\ sessions[i].kind = "account"}
  BY <1>1 DEF LiveOfAccount
<1>5. LiveOfAccount' = {i \in 1 .. n + 1 : Live(i)' /\ sessions'[i].kind = "account"}
  BY <1>3 DEF LiveOfAccount
<1>6. \A i \in 1 .. n : (Live(i)' /\ sessions'[i].kind = "account")
                          <=> (i \notin set /\ Live(i) /\ sessions[i].kind = "account")
  BY <1>2, <1>3 DEF Live
<1>7. Live(n + 1)'
  BY <1>1, <1>3 DEF Live
<1>8. 1 .. n + 1 = (1 .. n) \cup {n + 1} /\ n + 1 \notin 1 .. n
  BY <1>1
<1>9. LiveOfAccount' = (LiveOfAccount \ set) \cup (IF row.kind = "account" THEN {n + 1} ELSE {})
  BY <1>3, <1>4, <1>5, <1>6, <1>7, <1>8
<1>10. \A i \in LiveOfAccount : i \in 1 .. n
  BY <1>4
<1> QED
  BY <1>1, <1>2, <1>3, <1>9, <1>10

(* What a request that may commit knows of the account. *)
LEMMA CommitKnows ==
    ASSUME IndInv, NEW r \in Requests, Commit(r)
    PROVE  /\ request[r] \in Records /\ request[r].at = "commit"
           /\ Op(r) \in {"register", "login", "logout all", "password"} =>
                 r \in lock /\ Knows(request[r])
           /\ Op(r) = "password" => account.password + 1 \in 1 .. MaxPasswords
           /\ account.password \in 1 .. MaxPasswords
           /\ sessions \in Seq(SessionRow)
<1>1. /\ request[r] \in Records /\ request[r].at = "commit" /\ sessions \in Seq(SessionRow)
      /\ account.password \in 1 .. MaxPasswords /\ TypedOK(request[r])
      /\ Holds(request[r]) => r \in lock /\ Knows(request[r])
  BY DEF IndInv, TypeOK, Commit, At, Records
<1>2. Op(r) \in {"register", "login", "logout all", "password"} => Holds(request[r])
  BY <1>1 DEF Holds, Op
<1>3. Op(r) = "password" => account.password + 1 \in 1 .. MaxPasswords
  BY <1>1, <1>2, IdentityAssumption DEF Knows, TypedOK, Op
<1> QED
  BY <1>1, <1>2, <1>3

LEMMA NewSessionTyped ==
    ASSUME IndInv, NEW r \in Requests, Commit(r), Issues(r)
    PROVE  /\ NewSession(r) \in SessionRow
           /\ NewSession(r).alive /\ ~NewSession(r).expired
           /\ NewSession(r).kind = IF Op(r) = "guest" THEN "guest" ELSE "account"
           /\ NewSession(r).kind = "account" =>
                 NewSession(r).password = account'.password
<1>1. account'.password = NewPassword(r)
  BY DEF Commit, IndInv, TypeOK
<1>2. NewPassword(r) \in 1 .. MaxPasswords
  BY CommitKnows DEF NewPassword
<1>3. request[r].typed \in 1 .. MaxPasswords
  BY CommitKnows DEF Records
<1>4. GrantedBy(r) \in 0 .. MaxPasswords
  BY <1>2, <1>3, IdentityAssumption DEF GrantedBy
<1>5. NewSession(r) \in SessionRow
  BY <1>4 DEF NewSession, SessionRow
<1>6. Op(r) # "guest" => GrantedBy(r) = NewPassword(r)
  BY CommitKnows DEF GrantedBy, Knows, NewPassword, Op
<1> QED
  BY <1>1, <1>5, <1>6 DEF NewSession

(* The rows after the commit. *)
LEMMA CommitLive ==
    ASSUME IndInv, NEW r \in Requests, Commit(r), NEW n, n = Len(sessions)
    PROVE  /\ sessions' \in Seq(SessionRow)
           /\ Len(sessions') = IF Issues(r) THEN n + 1 ELSE n
           /\ LiveOfAccount' = (LiveOfAccount \ request[r].revoke) \cup
                 (IF Issues(r) /\ Op(r) # "guest" THEN {n + 1} ELSE {})
           /\ \A i \in LiveOfAccount \ request[r].revoke :
                 sessions'[i].password = sessions[i].password
           /\ Issues(r) /\ Op(r) # "guest" => sessions'[n + 1].password = account'.password
           /\ \A i \in request[r].revoke \cap LiveOfAccount : ~sessions'[i].alive
<1>0. PICK set : set = request[r].revoke
  OBVIOUS
<1>1. sessions \in Seq(SessionRow)
  BY DEF IndInv, TypeOK
<1>2. CASE Issues(r)
  <2>1. PICK row : row = NewSession(r)
    OBVIOUS
  <2>2. sessions' = Append(Revoked(set), row)
    BY <1>0, <1>2, <2>1 DEF Commit
  <2>3. /\ row \in SessionRow /\ row.alive /\ ~row.expired
        /\ row.kind = IF Op(r) = "guest" THEN "guest" ELSE "account"
        /\ row.kind = "account" => row.password = account'.password
    BY <1>2, <2>1, NewSessionTyped
  <2>4. /\ LiveOfAccount' = (LiveOfAccount \ set) \cup
                  (IF row.kind = "account" THEN {Len(sessions) + 1} ELSE {})
        /\ sessions' \in Seq(SessionRow) /\ Len(sessions') = Len(sessions) + 1
        /\ \A i \in LiveOfAccount \ set : sessions'[i].password = sessions[i].password
        /\ sessions'[Len(sessions) + 1] = row
        /\ \A i \in set \cap LiveOfAccount : ~sessions'[i].alive
    BY <1>1, <2>2, <2>3, LiveAfterIssue
  <2> QED
    BY <1>0, <1>2, <2>3, <2>4
<1>3. CASE ~Issues(r)
  <2>1. sessions' = Revoked(set)
    BY <1>0, <1>3 DEF Commit
  <2>2. /\ LiveOfAccount' = LiveOfAccount \ set
        /\ sessions' \in Seq(SessionRow) /\ Len(sessions') = Len(sessions)
        /\ \A i \in LiveOfAccount' : sessions'[i].password = sessions[i].password
        /\ \A i \in set \cap LiveOfAccount : ~sessions'[i].alive
    BY <1>1, <2>1, LiveAfterRevoke
  <2> QED
    BY <1>0, <1>3, <2>2
<1> QED
  BY <1>2, <1>3

LEMMA CommitTyped ==
    ASSUME IndInv, NEW r \in Requests, Commit(r)
    PROVE  /\ TypeOK'
           /\ request'[r].at = "answer"
           /\ \A q \in Requests \ {r} : request'[q] = request[q]
           /\ account'.password = NewPassword(r)
           /\ account'.status = IF Op(r) = "register" THEN "active" ELSE account.status
           /\ TypedOK(request[r])'
<1>1. PICK n \in Nat : n = Len(sessions)
  BY DEF IndInv, TypeOK
<1>2. sessions' \in Seq(SessionRow) /\ (Len(sessions') = IF Issues(r) THEN n + 1 ELSE n)
  BY <1>1, CommitLive
<1>3. Numbers \subseteq Numbers'
  BY <1>1, <1>2 DEF Numbers
<1>4. PICK g : g = IF Issues(r) THEN Len(sessions) + 1 ELSE 0
  OBVIOUS
<1>5. g \in Numbers'
  BY <1>1, <1>2, <1>4 DEF Numbers
<1>6. Records \subseteq Records'
  <2>1. ASSUME NEW me \in Records PROVE me \in Records'
    BY <1>3 DEF Records
  <2> QED
    BY <2>1
<1>7. request[r] \in Records /\ request \in [Requests -> Records] /\ request[r].at = "commit"
  BY DEF IndInv, TypeOK, Records, Commit, At
<1>8. PICK me : me = [[request[r] EXCEPT !.at = "answer"] EXCEPT !.grant = g]
  OBVIOUS
<1>9. request' = [request EXCEPT ![r] = me]
  BY <1>4, <1>7, <1>8 DEF Commit
<1>10. me \in Records' /\ me.at = "answer" /\ me.op = request[r].op /\ me.typed = request[r].typed
  <2>1. request[r] \in Records'
    BY <1>6, <1>7
  <2> QED
    BY <1>5, <1>7, <1>8, <2>1 DEF Records
<1>11. request' \in [Requests -> Records']
  BY <1>6, <1>7, <1>9, <1>10
<1>12. /\ account' \in [status : {"absent", "active", "disabled"}, password : 1 .. MaxPasswords]
       /\ account'.password = NewPassword(r)
       /\ account'.status = IF Op(r) = "register" THEN "active" ELSE account.status
  <2>1. PICK p \in 1 .. MaxPasswords : p = NewPassword(r)
    BY CommitKnows DEF NewPassword
  <2>2. account' = [[account EXCEPT !.status = IF Op(r) = "register" THEN "active" ELSE @]
                       EXCEPT !.password = p]
    BY <2>1 DEF Commit, IndInv, TypeOK
  <2> QED
    BY <2>1, <2>2 DEF IndInv, TypeOK
<1>13. lock' = {} \/ \E q \in Requests : lock' = {q}
  BY DEF Commit, IndInv, TypeOK
<1>14. cookie' \in [Browsers -> Numbers']
  BY <1>3 DEF Commit, IndInv, TypeOK
<1>15. TypeOK'
  BY <1>2, <1>11, <1>12, <1>13, <1>14 DEF TypeOK, Records, Browsers
<1>16. TypedOK(me)
  BY <1>7, <1>10 DEF IndInv, TypedOK
<1>17. request'[r] = me /\ \A q \in Requests \ {r} : request'[q] = request[q]
  BY <1>7, <1>9
<1> QED
  BY <1>10, <1>12, <1>15, <1>16, <1>17 DEF TypedOK

(* The new session has room, or takes the place of all others. *)
LEMMA CommitCap ==
    ASSUME IndInv, NEW r \in Requests, Commit(r)
    PROVE  ActiveCap'
<1>1. PICK n : n = Len(sessions)
  OBVIOUS
<1>2. PICK rest : rest = LiveOfAccount \ request[r].revoke
  OBVIOUS
<1>3. LiveOfAccount' = rest \cup (IF Issues(r) /\ Op(r) # "guest" THEN {n + 1} ELSE {})
  BY <1>1, <1>2, CommitLive
<1>4. sessions \in Seq(SessionRow) /\ Cap \in Nat /\ Cap >= 1
  <2>1. sessions \in Seq(SessionRow)
    BY DEF IndInv, TypeOK
  <2>2. Cap \in Nat /\ Cap >= 1
    BY IdentityAssumption
  <2> QED
    BY <2>1, <2>2
<1>5. IsFiniteSet(rest) /\ Cardinality(rest) \in Nat
  BY <1>2, <1>4, LiveFinite
<1>6. CASE ~(Issues(r) /\ Op(r) # "guest")
  <2>1. LiveOfAccount' \subseteq LiveOfAccount
    BY <1>2, <1>3, <1>6
  <2> QED
    BY <1>4, <2>1, ActiveCapKept DEF IndInv
<1>7. CASE Issues(r) /\ Op(r) # "guest"
  <2>1. Cardinality(rest) <= Cap - 1
    <3>1. CASE Op(r) = "login"
      BY <1>2, <3>1, CommitKnows DEF Knows, Op
    <3>2. CASE Op(r) \in {"register", "password"}
      <4>1. rest = {}
        BY <1>2, <3>2, CommitKnows DEF IndInv, Knows, Op
      <4> QED
        BY <1>4, <4>1, FS_EmptySet
    <3> QED
      BY <1>7, <3>1, <3>2 DEF Issues
  <2>2. LiveOfAccount' = rest \cup {n + 1}
    BY <1>3, <1>7
  <2>3. Cardinality(rest \cup {n + 1}) <= Cardinality(rest) + 1
        /\ Cardinality(rest \cup {n + 1}) \in Nat
    BY <1>5, FS_AddElement, FS_CardinalityType
  <2> QED
    BY <1>4, <1>5, <2>1, <2>2, <2>3 DEF ActiveCap
<1> QED
  BY <1>6, <1>7

(* All live sessions rest on the password of now, a changed one included. *)
LEMMA CommitMatches ==
    ASSUME IndInv, NEW r \in Requests, Commit(r)
    PROVE  SessionsMatchPassword'
<1>1. PICK n : n = Len(sessions)
  OBVIOUS
<1>2. PICK rest : rest = LiveOfAccount \ request[r].revoke
  OBVIOUS
<1>3. /\ LiveOfAccount' = rest \cup (IF Issues(r) /\ Op(r) # "guest" THEN {n + 1} ELSE {})
      /\ \A i \in rest : sessions'[i].password = sessions[i].password
      /\ Issues(r) /\ Op(r) # "guest" => sessions'[n + 1].password = account'.password
  BY <1>1, <1>2, CommitLive
<1>4. account'.password = NewPassword(r)
  BY CommitTyped
<1>5. \A i \in rest : sessions'[i].password = account'.password
  <2>1. CASE Op(r) = "password"
    <3>1. rest = {}
      BY <1>2, <2>1, CommitKnows DEF Knows, Op
    <3> QED
      BY <3>1
  <2>2. CASE Op(r) # "password"
    BY <1>2, <1>3, <1>4, <2>2 DEF IndInv, SessionsMatchPassword, NewPassword
  <2> QED
    BY <2>1, <2>2
<1> QED
  BY <1>3, <1>5 DEF SessionsMatchPassword

LEMMA CommitKeeps ==
    ASSUME IndInv, NEW r \in Requests, Commit(r) PROVE IndInv'
<1>1. PICK n : n = Len(sessions)
  OBVIOUS
<1>2. /\ TypeOK' /\ request'[r].at = "answer" /\ TypedOK(request[r])'
      /\ \A q \in Requests \ {r} : request'[q] = request[q]
      /\ account'.password = NewPassword(r)
      /\ account'.status = IF Op(r) = "register" THEN "active" ELSE account.status
  BY CommitTyped
<1>3. LiveOfAccount' = (LiveOfAccount \ request[r].revoke) \cup
          (IF Issues(r) /\ Op(r) # "guest" THEN {n + 1} ELSE {})
  BY <1>1, CommitLive
<1>4. (account.status = "absent" => LiveOfAccount = {})'
  <2>1. account'.status = "absent" => account.status = "absent" /\ LiveOfAccount = {}
    BY <1>2 DEF IndInv
  <2>2. account'.status = "absent" => Op(r) \notin {"register", "login", "password"}
    BY <1>2, CommitKnows DEF Knows, Op
  <2> QED
    BY <1>3, <2>1, <2>2 DEF Issues
<1>5. ASSUME NEW q \in Requests, q # r
      PROVE  /\ Holds(request[q])' => q \in lock' /\ Knows(request[q])'
             /\ TypedOK(request[q])'
  <2>1. PICK it : it = request[q]
    OBVIOUS
  <2>2. request'[q] = it /\ TypedOK(it) /\ (Holds(it) => q \in lock /\ Knows(it))
    BY <1>2, <1>5, <2>1 DEF IndInv
  <2>3. ASSUME Holds(it) PROVE q \in lock' /\ Knows(it)'
    <3>1. Op(r) \notin {"register", "login", "logout all", "password"}
      BY <1>5, <2>2, <2>3, CommitKnows DEF IndInv, TypeOK
    <3>2. LiveOfAccount' \subseteq LiveOfAccount
      BY <1>3, <3>1 DEF Issues
    <3>3. account' = account
      BY <3>1 DEF Commit, NewPassword, IndInv, TypeOK
    <3>4. q \in lock'
      BY <1>5, <2>2, <2>3 DEF Commit
    <3> QED
      BY <2>2, <2>3, <3>2, <3>3, <3>4, CommitKnows, KnowsKept
  <2> QED
    BY <2>2, <2>3 DEF Holds, TypedOK
<1>6. ~Holds(request[r])'
  BY <1>2 DEF Holds
<1> QED
  BY <1>2, <1>4, <1>5, <1>6, CommitCap, CommitMatches DEF IndInv

---------------------------------------------------------------------------
(* The theorems. *)

LEMMA InitOK == Init => IndInv
<1> SUFFICES ASSUME Init PROVE IndInv
  OBVIOUS
<1>1. sessions = << >> /\ sessions \in Seq(SessionRow) /\ Len(sessions) = 0 /\ Numbers = {0}
  BY DEF Init, Numbers
<1>2. LiveOfAccount = {}
  BY <1>1 DEF LiveOfAccount
<1>3. Idle \in Records /\ ~Holds(Idle) /\ TypedOK(Idle)
  BY <1>1, IdleTyped
<1>4. TypeOK
  BY <1>1, <1>3, IdentityAssumption DEF Init, TypeOK, Records
<1>5. ActiveCap
  BY <1>2, FS_EmptySet, IdentityAssumption DEF ActiveCap
<1> QED
  BY <1>2, <1>3, <1>4, <1>5 DEF Init, IndInv, SessionsMatchPassword

LEMMA NextKeeps == IndInv /\ [Next]_vars => IndInv'
<1> SUFFICES ASSUME IndInv, [Next]_vars PROVE IndInv'
  OBVIOUS
<1>1. ASSUME NEW r \in Requests,
             \/ Begin(r) \/ Commit(r) \/ Answer(r) \/ RollBack(r)
             \/ LookRegister(r) \/ InsertAccount(r)
             \/ LookLogin(r) \/ LockLogin(r) \/ ReadLogin(r)
             \/ LookGuest(r) \/ LookLogout(r)
             \/ Resolve(r) \/ ReadOne(r) \/ LockAccount(r) \/ ReadAll(r)
      PROVE  IndInv'
  BY <1>1, BeginKeeps, CommitKeeps, AnswerKeeps, RollBackKeeps, LookRegisterKeeps,
     InsertAccountKeeps, LookLoginKeeps, LockLoginKeeps, ReadLoginKeeps, LookGuestKeeps,
     LookLogoutKeeps, ResolveKeeps, ReadOneKeeps, LockAccountKeeps, ReadAllKeeps
<1>2. ASSUME NEW i \in 1 .. Len(sessions), Expire(i) PROVE IndInv'
  BY <1>2, ExpireKeeps
<1>3. CASE UNCHANGED vars
  <2>1. UNCHANGED <<account, lock, sessions, cookie, request>>
    BY <1>3 DEF vars
  <2>2. sessions' \in Seq(SessionRow) /\ LiveOfAccount' = LiveOfAccount
    BY <2>1 DEF IndInv, TypeOK, LiveOfAccount, Live
  <2> QED
    BY <2>1, <2>2, OutsideMove
<1> QED
  BY <1>1, <1>2, <1>3, DisableKeeps DEF Next

(* The inductive invariant: what a transaction that holds the account's    *)
(* row may rely on until it commits.                                       *)
THEOREM IndInvHolds == Spec => []IndInv
BY InitOK, NextKeeps, PTL DEF Spec

(* Rows, cookies and requests keep their types, and at most one request    *)
(* holds the row of the account.                                           *)
THEOREM TypeCorrect == Spec => []TypeOK
<1>1. IndInv => TypeOK
  BY DEF IndInv
<1> QED
  BY <1>1, IndInvHolds, PTL

(* _issue_authenticated: whatever logins, registrations and password       *)
(* changes run at a time, the account never has more live sessions than    *)
(* the cap.                                                                *)
THEOREM CapRespected == Spec => []ActiveCap
<1>1. IndInv => ActiveCap
  BY DEF IndInv
<1> QED
  BY <1>1, IndInvHolds, PTL

(* docs/authentication-security.md "revokes all active sessions": no live  *)
(* session rests on a password that has been changed since.                *)
THEOREM PasswordsMatch == Spec => []SessionsMatchPassword
<1>1. IndInv => SessionsMatchPassword
  BY DEF IndInv
<1> QED
  BY <1>1, IndInvHolds, PTL

(* revoke_all, change_password: their commit ends every session of the     *)
(* account there is by then.                                               *)
THEOREM AllEnded == Spec => EndsAll
<1> DEFINE Ends(r) ==
      (At(r, "commit") /\ Op(r) \in {"logout all", "password"} /\ At(r, "answer")')
         => \A i \in LiveOfAccount : ~sessions'[i].alive
<1>1. ASSUME IndInv, Next, NEW r \in Requests, At(r, "commit"),
             Op(r) \in {"logout all", "password"}, At(r, "answer")'
      PROVE  \A i \in LiveOfAccount : ~sessions'[i].alive
  <2>1. request \in [Requests -> Records]
    BY <1>1 DEF IndInv, TypeOK, Records
  <2>2. Commit(r)
    <3>1. ASSUME NEW q \in Requests, q # r, NEW x, request' = [request EXCEPT ![q] = x]
          PROVE  request'[r] = request[r]
      BY <2>1, <3>1
    <3>2. ASSUME request'[r] = request[r] PROVE FALSE
      BY <1>1, <3>2 DEF At
    <3>3. ASSUME NEW q \in Requests, q # r,
                 \/ Begin(q) \/ Commit(q) \/ Answer(q) \/ RollBack(q)
                 \/ LookRegister(q) \/ InsertAccount(q)
                 \/ LookLogin(q) \/ LockLogin(q) \/ ReadLogin(q)
                 \/ LookGuest(q) \/ LookLogout(q)
                 \/ Resolve(q) \/ ReadOne(q) \/ LockAccount(q) \/ ReadAll(q)
          PROVE  request'[r] = request[r]
      BY <2>1, <3>3 DEF Begin, Commit, Answer, RollBack, LookRegister, InsertAccount,
            LookLogin, LockLogin, ReadLogin, LookGuest, LookLogout, Resolve, ReadOne,
            LockAccount, ReadAll, Step, End, Fail, Revoking
    <3>4. \/ Commit(r) \/ RollBack(r) \/ request' = request
          \/ \E q \in Requests : q # r /\ request'[r] = request[r]
      BY <1>1, <3>3 DEF Next, Disable, Expire, At, Begin, Answer, LookRegister, InsertAccount,
            LookLogin, LockLogin, ReadLogin, LookGuest, LookLogout, Resolve, ReadOne,
            LockAccount, ReadAll
    <3>5. ~RollBack(r)
      <4>1. ASSUME RollBack(r) PROVE FALSE
        <5>1. request'[r] = Idle
          BY <2>1, <4>1 DEF RollBack, Fail, End
        <5>2. Idle.at = "idle"
          BY DEF Idle
        <5> QED
          BY <1>1, <5>1, <5>2 DEF At
      <4> QED
        BY <4>1
    <3> QED
      BY <3>2, <3>4, <3>5
  <2>3. \A i \in request[r].revoke \cap LiveOfAccount : ~sessions'[i].alive
    BY <1>1, <2>2, CommitLive
  <2>4. LiveOfAccount \subseteq request[r].revoke
    BY <1>1, <2>2, CommitKnows DEF Knows, Op
  <2> QED
    BY <2>3, <2>4
<1>2. ASSUME NEW r \in Requests, UNCHANGED vars PROVE Ends(r)
  BY <1>2 DEF vars, At
<1>3. IndInv /\ [Next]_vars => [\A r \in Requests : Ends(r)]_vars
  BY <1>1, <1>2
<1> QED
  BY <1>3, IndInvHolds, PTL DEF Spec, EndsAll

=============================================================================
