------------------------ MODULE IngestionJobsProofs ------------------------
(***************************************************************************)
(* Proofs about IngestionJobs, for any number of jobs, workers, operators  *)
(* and planners, any delays and any number of attempts.                    *)
(*                                                                         *)
(* The inductive invariant adds to the type invariant what the calls in    *)
(* flight know: their `now' is in the past, the copy they hold was a valid *)
(* row, and a worker in the middle of an owned call that still owns the    *)
(* row holds an exact copy of it (only the worker itself, which is busy,   *)
(* could have changed a row it owns).                                      *)
(***************************************************************************)
EXTENDS IngestionJobs, TLAPS

(* A call in flight read the clock, and copied a row the model accepted. *)
CallOK(c) ==
    /\ call[c].at # "idle" => call[c].now \in 0..clock
    /\ call[c].at # "idle" /\ call[c].op # "claim_next" => call[c].job \in Jobs
    /\ call[c].at = "write" /\ call[c].op # "enqueue" =>
          /\ RowOK(call[c].copy)
          /\ Accepts(call[c].op, call[c].copy, c, call[c].now)

(* What an owner's copy is worth. *)
CopyCurrent(c) ==
    /\ call[c].at = "write"
    /\ call[c].op \in Owned
    /\ row[call[c].job].owner = c
    => row[call[c].job] = call[c].copy

IndInv == /\ TypeOK
          /\ PendingClaimable
          /\ \A c \in Callers : CallOK(c)
          /\ \A c \in Workers : CopyCurrent(c)

---------------------------------------------------------------------------

LEMMA BackoffPositive ==
    ASSUME NEW a PROVE Backoff(a) \in 1..MaxDelay
BY DelaysPositive DEF Backoff

LEMMA IdleTyped == Idle \in Call /\ NoRow \in Row /\ RowOK(NoRow)
BY CallersApart, AttemptsPositive
   DEF Idle, Call, Op, Owned, NoRow, Row, RowOK, Status, Terminal, Time, NoTime

(* A claim turns a claimable row into a valid running one. *)
LEMMA ClaimedRow ==
    ASSUME NEW r \in Row, NEW w \in Workers, NEW now \in Nat,
           RowOK(r), r.status = "pending", r.attempts < MaxAttempts
    PROVE  /\ Claimed(r, w, now) \in Row
           /\ RowOK(Claimed(r, w, now))
           /\ Claimed(r, w, now).status = "running"
           /\ Claimed(r, w, now).owner = w
<1> DEFINE u == Claimed(r, w, now)
<1> USE CallersApart, AttemptsPositive, DelaysPositive
<1>a. PICK a, s, l : /\ a = r.attempts + 1 /\ a \in Nat
                     /\ s = (IF r.attempts = 0 THEN now ELSE r.since) /\ s \in Time
                     /\ l = now + LeaseDuration /\ l \in Time
  BY DEF Row, Time
<1>0. u = [r EXCEPT !.status = "running", !.attempts = a, !.owner = w,
                    !.lease = l, !.next = NoTime, !.since = s]
  BY <1>a, Zenon DEF Claimed
<1>b. "running" \in Status /\ NoTime \in Time
  BY DEF Status, Time, NoTime
<1>1. u \in Row
  BY <1>0, <1>a, <1>b DEF Row
<1>2. /\ u.status = "running" /\ u.owner = w /\ u.next = NoTime
      /\ u.lease = now + LeaseDuration /\ u.attempts = r.attempts + 1
  BY DEF Claimed, Row
<1>3. r.attempts \in Nat /\ NoTime = -1 /\ w # NoWorker
  BY DEF Row, NoTime
<1> HIDE DEF u
<1>4. RowOK(u)
  BY <1>2, <1>3 DEF RowOK
<1> QED
  BY <1>1, <1>2, <1>4 DEF u

(* A row put back to the queue for the instant n. *)
LEMMA RependedRow ==
    ASSUME NEW r \in Row, NEW n \in Nat, RowOK(r), r.status = "running",
           r.attempts < MaxAttempts
    PROVE  LET u == [Unleased(r, "pending") EXCEPT !.next = n] IN
           /\ u \in Row
           /\ RowOK(u)
           /\ u.status = "pending" /\ u.attempts < MaxAttempts
           /\ u.owner = NoWorker
<1> DEFINE u == [Unleased(r, "pending") EXCEPT !.next = n]
<1> USE CallersApart, AttemptsPositive
<1>a. "pending" \in Status /\ NoTime \in Time /\ n \in Time
  BY DEF Status, Time, NoTime
<1>0. Unleased(r, "pending") \in Row
  BY <1>a DEF Unleased, Row
<1>1. u \in Row
  BY <1>0, <1>a DEF Row
<1>2. /\ u.status = "pending" /\ u.owner = NoWorker /\ u.next = n
      /\ u.lease = NoTime /\ u.attempts = r.attempts
  BY DEF Unleased, Row
<1>3. r.attempts \in Nat /\ r.attempts >= 1 /\ NoTime = -1
  BY DEF Row, RowOK, NoTime
<1> HIDE DEF u
<1>4. RowOK(u)
  BY <1>2, <1>3 DEF RowOK
<1> QED
  BY <1>1, <1>2, <1>4 DEF u

(* What a call stores, computed from a row that the model accepted. *)
LEMMA UpdatedRow ==
    ASSUME NEW r \in Row, NEW op \in Owned \cup {"cancel", "reclaim_expired"},
           NEW c \in Callers, NEW now \in Nat, RowOK(r), Accepts(op, r, c, now)
    PROVE  LET u == Updated(op, r, now) IN
           /\ u \in Row
           /\ RowOK(u)
           /\ u.status = "pending" => u.attempts < MaxAttempts
           /\ op # "heartbeat" => u.owner = NoWorker
           /\ op = "heartbeat" => u.owner = r.owner
           /\ EventKind(op, r) \in Kind
<1> USE CallersApart, AttemptsPositive, DelaysPositive DEF Row, Status, Terminal, Time, NoTime, Owned
<1>1. CASE op = "heartbeat"
  BY <1>1 DEF Updated, Accepts, HoldsLease, RowOK, EventKind, Kind
<1>2. CASE op = "succeed"
  BY <1>2 DEF Updated, Accepts, HoldsLease, RowOK, Unleased, EventKind, Kind
<1>3. CASE op = "cancel"
  BY <1>3 DEF Updated, Accepts, RowOK, Unleased, EventKind, Kind
<1>4. CASE op = "fail_or_retry"
  <2> DEFINE n == now + Backoff(r.attempts)
  <2>1. n \in Nat \ {0}
    BY BackoffPositive
  <2>2. /\ r.status = "running" /\ r.attempts \in Nat \ {0}
        /\ r.attempts <= MaxAttempts
    BY <1>4 DEF Accepts, HoldsLease, RowOK
  <2>3. CASE r.attempts >= MaxAttempts
    BY <1>4, <2>2, <2>3 DEF Updated, RowOK, Unleased, EventKind, Kind
  <2>4. CASE ~(r.attempts >= MaxAttempts)
    <3>1. Updated(op, r, now) = [Unleased(r, "pending") EXCEPT !.next = n]
      BY <1>4, <2>4 DEF Updated
    <3> HIDE DEF n
    <3>2. EventKind(op, r) \in Kind
      BY <1>4, <2>4 DEF EventKind, Kind
    <3> QED
      BY <1>4, <2>1, <2>2, <2>4, <3>1, <3>2, RependedRow
  <2> QED
    BY <2>3, <2>4
<1>5. CASE op = "reclaim_expired"
  <2>2. /\ r.status = "running" /\ r.attempts \in Nat \ {0}
        /\ r.attempts <= MaxAttempts
    BY <1>5 DEF Accepts, RowOK
  <2>3. CASE r.attempts >= MaxAttempts
    BY <1>5, <2>2, <2>3 DEF Updated, RowOK, Unleased, EventKind, Kind
  <2>4. CASE ~(r.attempts >= MaxAttempts)
    <3>1. Updated(op, r, now) = [Unleased(r, "pending") EXCEPT !.next = now + BaseDelay]
      BY <1>5, <2>4 DEF Updated
    <3>2. EventKind(op, r) \in Kind
      BY <1>5, <2>4 DEF EventKind, Kind
    <3>3. now + BaseDelay \in Nat
      OBVIOUS
    <3> QED
      BY <1>5, <2>2, <2>4, <3>1, <3>2, <3>3, RependedRow
  <2> QED
    BY <2>3, <2>4
<1> QED
  BY <1>1, <1>2, <1>3, <1>4, <1>5 DEF Owned

---------------------------------------------------------------------------
(* The steps.  Whatever a call stores, it returns to its caller in the     *)
(* same step, and the row it stores belongs to that caller or to nobody.   *)

LEMMA CallsTyped ==
    ASSUME IndInv, NEW c \in Callers
    PROVE  /\ call[c] \in Call
           /\ call[c].at \in {"idle", "begun", "write"}
           /\ call[c].op \in Op
           /\ call[c].now \in Int
           /\ call[c].copy \in Row
BY DEF IndInv, TypeOK, Call, Time

LEMMA ReturnKeepsInv ==
    ASSUME IndInv, NEW c \in Callers, Return(c), UNCHANGED <<row, log, clock, beats>>
    PROVE  IndInv'
<1>1. /\ call' \in [Callers -> Call]
      /\ \A d \in Callers : call'[d] = IF d = c THEN Idle ELSE call[d]
  BY IdleTyped DEF IndInv, TypeOK, Return
<1>2. Idle.at = "idle"
  BY DEF Idle
<1>3. TypeOK' /\ PendingClaimable'
  BY <1>1 DEF IndInv, TypeOK, PendingClaimable
<1>4. ASSUME NEW d \in Callers PROVE CallOK(d)'
  BY <1>1, <1>2 DEF IndInv, CallOK
<1>5. ASSUME NEW d \in Workers PROVE CopyCurrent(d)'
  BY <1>1, <1>2 DEF IndInv, CopyCurrent, Callers
<1> QED
  BY <1>3, <1>4, <1>5 DEF IndInv

LEMMA StoreKeepsInv ==
    ASSUME IndInv, NEW c \in Callers, NEW j \in Jobs, NEW u \in Row, NEW k \in Kind,
           RowOK(u), u.status = "pending" => u.attempts < MaxAttempts,
           u.owner \in {NoWorker, c},
           Store(j, u, k), Return(c), clock' = clock, beats' \in 0..MaxBeats
    PROVE  IndInv'
<1>1. /\ call' \in [Callers -> Call]
      /\ \A d \in Callers : call'[d] = IF d = c THEN Idle ELSE call[d]
  BY IdleTyped DEF IndInv, TypeOK, Return
<1>2. Idle.at = "idle"
  BY DEF Idle
<1>3. /\ row' \in [Jobs -> Row]
      /\ \A i \in Jobs : row'[i] = IF i = j THEN u ELSE row[i]
  BY DEF IndInv, TypeOK, Store
<1>4. log' \in [Jobs -> Seq(Event)]
  <2>1. [kind |-> k, attempt |-> u.attempts] \in Event
    BY DEF Event, Row
  <2> QED
    BY <2>1 DEF IndInv, TypeOK, Store
<1>5. TypeOK'
  BY <1>1, <1>3, <1>4 DEF IndInv, TypeOK
<1>6. PendingClaimable'
  BY <1>3 DEF IndInv, PendingClaimable
<1>7. ASSUME NEW d \in Callers PROVE CallOK(d)'
  BY <1>1, <1>2 DEF IndInv, CallOK
<1>8. ASSUME NEW d \in Workers PROVE CopyCurrent(d)'
  <2>1. d \in Callers /\ d # NoWorker
    BY CallersApart DEF Callers
  <2>2. CASE d = c
    BY <1>1, <1>2, <2>1, <2>2 DEF CopyCurrent
  <2>3. CASE d # c
    <3>1. call'[d] = call[d]
      BY <1>1, <2>1, <2>3
    <3>2. SUFFICES ASSUME call[d].at = "write", call[d].op \in Owned,
                          row'[call[d].job].owner = d
                   PROVE  row'[call[d].job] = call[d].copy
      BY <3>1 DEF CopyCurrent
    <3>3. call[d].job \in Jobs
      BY <2>1, <3>2 DEF IndInv, CallOK, Owned
    <3>4. call[d].job # j
      BY <1>3, <2>1, <2>3, <3>2, <3>3
    <3> QED
      BY <1>3, <3>2, <3>3, <3>4 DEF IndInv, CopyCurrent
  <2> QED
    BY <2>2, <2>3
<1> QED
  BY <1>5, <1>6, <1>7, <1>8 DEF IndInv

LEMMA BeginKeepsInv ==
    ASSUME IndInv, NEW c \in Callers, NEW op \in Op, NEW j \in Jobs \cup {0},
           op # "claim_next" => j \in Jobs, Begin(c, op, j)
    PROVE  IndInv'
<1> DEFINE k == [Idle EXCEPT !.at = "begun", !.op = op, !.job = j, !.now = clock]
<1>0. clock \in Time
  BY TimeBounds DEF IndInv, TypeOK, Time
<1>1. /\ k.at = "begun" /\ k.op = op /\ k.job = j /\ k.now = clock
      /\ k \in Call
  BY <1>0, IdleTyped DEF Call
<1> HIDE DEF k
<1>2. /\ call' \in [Callers -> Call]
      /\ \A d \in Callers : call'[d] = IF d = c THEN k ELSE call[d]
      /\ UNCHANGED <<row, log, clock, beats>>
  BY <1>1 DEF IndInv, TypeOK, Begin, k
<1>3. TypeOK' /\ PendingClaimable'
  BY <1>2 DEF IndInv, TypeOK, PendingClaimable
<1>4. ASSUME NEW d \in Callers PROVE CallOK(d)'
  <2>1. CASE d = c
    <3>1. clock \in 0..clock
      BY TimeBounds DEF IndInv, TypeOK
    <3> QED
      BY <1>1, <1>2, <2>1, <3>1 DEF CallOK
  <2>2. CASE d # c
    BY <1>2, <2>2 DEF IndInv, CallOK
  <2> QED
    BY <2>1, <2>2
<1>5. ASSUME NEW d \in Workers PROVE CopyCurrent(d)'
  BY <1>1, <1>2 DEF IndInv, CopyCurrent, Callers
<1> QED
  BY <1>3, <1>4, <1>5 DEF IndInv

LEMMA ReadKeepsInv ==
    ASSUME IndInv, NEW c \in Workers \cup Operators, Read(c)
    PROVE  IndInv'
<1> DEFINE r == row[call[c].job]
<1>1. c \in Callers /\ call[c] \in Call
  BY CallsTyped DEF Callers
<1>2. call[c].job \in Jobs /\ r \in Row /\ RowOK(r)
  BY <1>1 DEF Read, Owned, IndInv, CallOK, TypeOK
<1>3. CASE Return(c)
  BY <1>1, <1>3, ReturnKeepsInv DEF Read
<1>4. CASE /\ Accepts(call[c].op, r, c, call[c].now)
           /\ call' = [call EXCEPT ![c].at = "write", ![c].copy = r]
  <2> DEFINE k == [call[c] EXCEPT !.at = "write", !.copy = r]
  <2>1. /\ k.at = "write" /\ k.op = call[c].op /\ k.job = call[c].job
        /\ k.now = call[c].now /\ k.copy = r /\ k \in Call
    BY <1>1, <1>2 DEF Call
  <2>2. /\ call' = [call EXCEPT ![c] = k]
        /\ UNCHANGED <<row, log, clock, beats>>
        /\ call[c].at = "begun"
    BY <1>1, <1>4 DEF Read, IndInv, TypeOK
  <2> HIDE DEF k, r
  <2>3. /\ call' \in [Callers -> Call]
        /\ \A d \in Callers : call'[d] = IF d = c THEN k ELSE call[d]
    BY <1>1, <2>1, <2>2 DEF IndInv, TypeOK
  <2>4. TypeOK' /\ PendingClaimable'
    BY <2>2, <2>3 DEF IndInv, TypeOK, PendingClaimable
  <2>5. ASSUME NEW d \in Callers PROVE CallOK(d)'
    <3>1. CASE d = c
      <4>1. call'[d] = k /\ clock' = clock /\ CallOK(c)
        BY <1>1, <2>2, <2>3, <3>1 DEF IndInv
      <4>2. k.now \in 0..clock /\ k.job \in Jobs
        BY <1>2, <2>1, <2>2, <4>1 DEF CallOK
      <4> QED
        BY <1>2, <1>4, <2>1, <3>1, <4>1, <4>2 DEF CallOK
    <3>2. CASE d # c
      BY <2>2, <2>3, <3>2 DEF IndInv, CallOK
    <3> QED
      BY <3>1, <3>2
  <2>6. ASSUME NEW d \in Workers PROVE CopyCurrent(d)'
    <3>1. d \in Callers
      BY DEF Callers
    <3>2. CASE d = c
      BY <2>1, <2>2, <2>3, <3>1, <3>2 DEF CopyCurrent, r
    <3>3. CASE d # c
      BY <2>2, <2>3, <3>1, <3>3 DEF IndInv, CopyCurrent
    <3> QED
      BY <3>2, <3>3
  <2> QED
    BY <2>4, <2>5, <2>6 DEF IndInv
<1> QED
  BY <1>3, <1>4 DEF Read

LEMMA WriteKeepsInv ==
    ASSUME IndInv, NEW c \in Workers \cup Operators, Write(c)
    PROVE  IndInv'
<1> DEFINE k == call[c]
           u == Updated(k.op, k.copy, k.now)
           e == EventKind(k.op, k.copy)
<1>1. c \in Callers /\ k \in Call /\ k.copy \in Row /\ k.op \in Op
  BY CallsTyped DEF Callers
<1>2. /\ k.at = "write" /\ k.op # "enqueue" /\ RowOK(k.copy)
      /\ Accepts(k.op, k.copy, c, k.now) /\ k.now \in Nat
  BY <1>1, TimeBounds DEF Write, IndInv, CallOK, TypeOK
<1>3. k.op \in Owned \cup {"cancel", "reclaim_expired"}
  BY <1>1, <1>2 DEF Accepts, Op, Owned
<1>4. k.job \in Jobs
  BY <1>1, <1>2, <1>3 DEF IndInv, CallOK, Owned
<1>5. Return(c) /\ clock' = clock
  BY DEF Write
<1>6. CASE UNCHANGED <<row, log, beats>>
  BY <1>1, <1>5, <1>6, ReturnKeepsInv
<1>7. CASE /\ k.op = "heartbeat" => beats < MaxBeats
           /\ Store(k.job, u, e)
           /\ beats' = IF k.op = "heartbeat" THEN beats + 1 ELSE beats
  <2>1. /\ u \in Row /\ RowOK(u) /\ e \in Kind
        /\ u.status = "pending" => u.attempts < MaxAttempts
        /\ k.op # "heartbeat" => u.owner = NoWorker
        /\ k.op = "heartbeat" => u.owner = k.copy.owner
    BY <1>1, <1>2, <1>3, UpdatedRow
  <2>2. k.op = "heartbeat" => k.copy.owner = c
    BY <1>2 DEF Accepts, HoldsLease
  <2>3. beats' \in 0..MaxBeats
    BY <1>7, TimeBounds DEF IndInv, TypeOK
  <2> HIDE DEF u, e, k
  <2> QED
    BY <1>1, <1>4, <1>5, <1>7, <2>1, <2>2, <2>3, StoreKeepsInv
<1> QED
  BY <1>6, <1>7 DEF Write

LEMMA ClaimKeepsInv ==
    ASSUME IndInv, NEW w \in Workers, Claim(w)
    PROVE  IndInv'
<1> DEFINE now == call[w].now
<1>1. w \in Callers /\ call[w].at = "begun"
  BY DEF Callers, Claim
<1>2. now \in Nat
  BY <1>1, TimeBounds DEF IndInv, CallOK, TypeOK
<1>3. Return(w) /\ clock' = clock /\ beats' = beats
  BY DEF Claim
<1>4. CASE UNCHANGED <<row, log>>
  BY <1>1, <1>3, <1>4, ReturnKeepsInv
<1>5. CASE \E j \in Jobs : /\ Due(j, now)
                           /\ row[j].attempts < MaxAttempts
                           /\ Store(j, Claimed(row[j], w, now), "claimed")
  <2>1. PICK j \in Jobs : /\ Due(j, now)
                          /\ row[j].attempts < MaxAttempts
                          /\ Store(j, Claimed(row[j], w, now), "claimed")
    BY <1>5
  <2> DEFINE u == Claimed(row[j], w, now)
  <2>2. row[j] \in Row /\ RowOK(row[j]) /\ row[j].status = "pending"
    BY <2>1 DEF IndInv, TypeOK, Due
  <2>3. u \in Row /\ RowOK(u) /\ u.status = "running" /\ u.owner = w
    BY <1>2, <2>1, <2>2, ClaimedRow
  <2>4. "claimed" \in Kind /\ beats' \in 0..MaxBeats
    BY <1>3 DEF Kind, IndInv, TypeOK
  <2> HIDE DEF u
  <2> QED
    BY <1>1, <1>3, <2>1, <2>3, <2>4, StoreKeepsInv DEF u
<1> QED
  BY <1>4, <1>5 DEF Claim

LEMMA LookKeepsInv ==
    ASSUME IndInv, NEW c \in Planners, Look(c)
    PROVE  IndInv'
<1>1. c \in Callers /\ c \notin Workers /\ call[c] \in Call
  BY CallsTyped, CallersApart DEF Callers
<1>2. CASE Return(c)
  BY <1>1, <1>2, ReturnKeepsInv DEF Look
<1>3. CASE call' = [call EXCEPT ![c].at = "write"]
  <2> DEFINE k == [call[c] EXCEPT !.at = "write"]
  <2>1. /\ k.at = "write" /\ k.op = "enqueue" /\ k.job = call[c].job
        /\ k.now = call[c].now /\ k \in Call
    BY <1>1 DEF Call, Look
  <2>2. /\ call' = [call EXCEPT ![c] = k]
        /\ UNCHANGED <<row, log, clock, beats>>
        /\ call[c].at = "begun" /\ call[c].op = "enqueue"
    BY <1>1, <1>3 DEF Look, IndInv, TypeOK
  <2> HIDE DEF k
  <2>3. /\ call' \in [Callers -> Call]
        /\ \A d \in Callers : call'[d] = IF d = c THEN k ELSE call[d]
    BY <1>1, <2>1, <2>2 DEF IndInv, TypeOK
  <2>4. TypeOK' /\ PendingClaimable'
    BY <2>2, <2>3 DEF IndInv, TypeOK, PendingClaimable
  <2>5. ASSUME NEW d \in Callers PROVE CallOK(d)'
    <3>1. CASE d = c
      BY <1>1, <2>1, <2>2, <2>3, <3>1 DEF IndInv, CallOK
    <3>2. CASE d # c
      BY <2>2, <2>3, <3>2 DEF IndInv, CallOK
    <3> QED
      BY <3>1, <3>2
  <2>6. ASSUME NEW d \in Workers PROVE CopyCurrent(d)'
    BY <1>1, <2>2, <2>3 DEF IndInv, CopyCurrent, Callers
  <2> QED
    BY <2>4, <2>5, <2>6 DEF IndInv
<1> QED
  BY <1>2, <1>3 DEF Look

LEMMA AddKeepsInv ==
    ASSUME IndInv, NEW c \in Planners, Add(c)
    PROVE  IndInv'
<1> DEFINE j == call[c].job
           now == call[c].now
           u(s) == [NoRow EXCEPT !.status = "pending", !.sched = s, !.since = now]
<1>1. /\ c \in Callers /\ call[c].at = "write" /\ call[c].op = "enqueue"
      /\ Return(c) /\ clock' = clock /\ beats' = beats
  BY DEF Callers, Add
<1>2. j \in Jobs /\ now \in Int
  BY <1>1, CallsTyped DEF IndInv, CallOK
<1>3. beats' \in 0..MaxBeats /\ "enqueued" \in Kind
  BY <1>1 DEF IndInv, TypeOK, Kind
<1>4. CASE \E s \in {now, now + 1} : Store(j, u(s), "enqueued")
  <2>1. PICK s \in {now, now + 1} : Store(j, u(s), "enqueued")
    BY <1>4
  <2>0. s \in Time /\ now \in Time /\ "pending" \in Status
    BY <1>2 DEF Status, Time
  <2>a. /\ u(s) \in Row /\ u(s).status = "pending"
        /\ u(s).attempts = NoRow.attempts /\ u(s).owner = NoRow.owner
        /\ u(s).lease = NoRow.lease /\ u(s).next = NoRow.next
    BY <2>0, IdleTyped DEF Row
  <2>2. /\ u(s) \in Row /\ u(s).status = "pending" /\ u(s).attempts = 0
        /\ u(s).owner = NoWorker /\ u(s).lease = NoTime /\ u(s).next = NoTime
    BY <2>a DEF NoRow
  <2> HIDE DEF u, j, now
  <2>3. RowOK(u(s)) /\ 0 < MaxAttempts
    BY <2>2, AttemptsPositive DEF RowOK
  <2> QED
    BY <1>1, <1>2, <1>3, <2>1, <2>2, <2>3, StoreKeepsInv
<1>5. CASE /\ log' = [log EXCEPT ![j] = Append(@, [kind |-> "enqueued", attempt |-> 0])]
           /\ UNCHANGED row
  <2>1. [kind |-> "enqueued", attempt |-> 0] \in Event
    BY DEF Event, Kind
  <2>2. log' \in [Jobs -> Seq(Event)]
    BY <1>2, <1>5, <2>1 DEF IndInv, TypeOK
  <2>3. /\ call' \in [Callers -> Call]
        /\ \A d \in Callers : call'[d] = IF d = c THEN Idle ELSE call[d]
    BY <1>1, IdleTyped DEF IndInv, TypeOK, Return
  <2>4. Idle.at = "idle"
    BY DEF Idle
  <2>5. TypeOK' /\ PendingClaimable'
    BY <1>1, <1>5, <2>2, <2>3 DEF IndInv, TypeOK, PendingClaimable
  <2>6. ASSUME NEW d \in Callers PROVE CallOK(d)'
    BY <1>1, <2>3, <2>4 DEF IndInv, CallOK
  <2>7. ASSUME NEW d \in Workers PROVE CopyCurrent(d)'
    BY <1>5, <2>3, <2>4 DEF IndInv, CopyCurrent, Callers
  <2> QED
    BY <2>5, <2>6, <2>7 DEF IndInv
<1> QED
  BY <1>4, <1>5 DEF Add

LEMMA TickKeepsInv ==
    ASSUME IndInv, Tick PROVE IndInv'
<1>1. clock \in 0..MaxTime /\ clock' = clock + 1 /\ clock' \in 0..MaxTime
  BY TimeBounds DEF IndInv, TypeOK, Tick
<1>2. TypeOK' /\ PendingClaimable'
  BY <1>1 DEF IndInv, TypeOK, PendingClaimable, Tick
<1>3. ASSUME NEW d \in Callers PROVE CallOK(d)'
  <2>1. call[d].now \in 0..clock => call[d].now \in 0..(clock')
    BY <1>1
  <2> QED
    BY <2>1 DEF IndInv, CallOK, Tick
<1>4. ASSUME NEW d \in Workers PROVE CopyCurrent(d)'
  BY DEF IndInv, CopyCurrent, Tick
<1> QED
  BY <1>2, <1>3, <1>4 DEF IndInv

---------------------------------------------------------------------------
(* The theorems.                                                           *)

LEMMA InitInv == Init => IndInv
<1> SUFFICES ASSUME Init PROVE IndInv
  OBVIOUS
<1>1. Idle.at = "idle" /\ NoRow.status = "absent"
  BY DEF Idle, NoRow
<1>2. <<>> \in Seq(Event)
  OBVIOUS
<1>3. TypeOK
  BY <1>2, IdleTyped, TimeBounds DEF Init, TypeOK
<1>4. PendingClaimable
  BY <1>1 DEF Init, PendingClaimable
<1>5. ASSUME NEW c \in Callers PROVE CallOK(c)
  BY <1>1 DEF Init, CallOK
<1>6. ASSUME NEW c \in Workers PROVE CopyCurrent(c)
  BY <1>1 DEF Init, CopyCurrent, Callers
<1> QED
  BY <1>3, <1>4, <1>5, <1>6 DEF IndInv

LEMMA NextKeepsInv == IndInv /\ [Next]_vars => IndInv'
<1> SUFFICES ASSUME IndInv, [Next]_vars PROVE IndInv'
  OBVIOUS
<1>1. ASSUME NEW w \in Workers, WorkerStep(w) PROVE IndInv'
  <2>1. w \in Callers /\ "claim_next" \in Op /\ Owned \subseteq Op
    BY DEF Callers, Op, Owned
  <2>2. CASE Begin(w, "claim_next", 0)
    BY <2>1, <2>2, BeginKeepsInv
  <2>3. CASE \E op \in Owned, j \in Jobs : Begin(w, op, j)
    BY <2>1, <2>3, BeginKeepsInv
  <2>4. CASE Claim(w)
    BY <2>4, ClaimKeepsInv
  <2> QED
    BY <1>1, <2>2, <2>3, <2>4 DEF WorkerStep
<1>2. ASSUME NEW o \in Operators, OperatorStep(o) PROVE IndInv'
  <2>1. o \in Callers /\ {"cancel", "reclaim_expired"} \subseteq Op
    BY DEF Callers, Op
  <2> QED
    BY <1>2, <2>1, BeginKeepsInv DEF OperatorStep
<1>3. ASSUME NEW c \in Planners, PlannerStep(c) PROVE IndInv'
  <2>1. c \in Callers /\ "enqueue" \in Op
    BY DEF Callers, Op
  <2>2. CASE \E j \in Jobs : Begin(c, "enqueue", j)
    BY <2>1, <2>2, BeginKeepsInv
  <2> QED
    BY <1>3, <2>2, LookKeepsInv, AddKeepsInv DEF PlannerStep
<1>4. ASSUME NEW c \in Workers \cup Operators, Read(c) \/ Write(c) PROVE IndInv'
  BY <1>4, ReadKeepsInv, WriteKeepsInv
<1>5. ASSUME NEW c \in Callers, Abandon(c) PROVE IndInv'
  BY <1>5, ReturnKeepsInv DEF Abandon
<1>6. CASE Tick
  BY <1>6, TickKeepsInv
<1>7. CASE UNCHANGED vars
  <2>1. UNCHANGED <<row, log, clock, call, beats>>
    BY <1>7 DEF vars
  <2> QED
    BY <2>1 DEF IndInv, TypeOK, PendingClaimable, CallOK, CopyCurrent
<1> QED
  BY <1>1, <1>2, <1>3, <1>4, <1>5, <1>6, <1>7 DEF Next

(* The inductive invariant holds throughout. *)
THEOREM IndInvHolds == Spec => []IndInv
BY InitInv, NextKeepsInv, PTL DEF Spec

(* Every stored row is one the IngestionJob model accepts back, for every  *)
(* interleaving of calls and every configuration of delays.                *)
THEOREM TypeCorrect == Spec => []TypeOK
<1>1. IndInv => TypeOK
  BY DEF IndInv
<1> QED
  BY <1>1, IndInvHolds, PTL

(* No row can block claim_next: attempts are checked against max_attempts  *)
(* before a job goes back to pending, on both ways back.                   *)
THEOREM QueueNeverBlocked == Spec => []PendingClaimable
<1>1. IndInv => PendingClaimable
  BY DEF IndInv
<1> QED
  BY <1>1, IndInvHolds, PTL

(* save_owned never overwrites a row that changed after the call read it,  *)
(* whatever workers, operators and heartbeats do in between.               *)
THEOREM OwnerFenced == Spec => []OwnedWritesFenced
<1>1. IndInv => OwnedWritesFenced
  <2> SUFFICES ASSUME IndInv, NEW c \in Workers, Overwrites(c, Owned)
               PROVE  row[call[c].job] = call[c].copy
    BY DEF OwnedWritesFenced
  <2>1. Matches(c, row[call[c].job]) /\ call[c].op \in Owned
    BY DEF Overwrites
  <2>2. HoldsLease(row[call[c].job], c, call[c].now)
    BY <2>1 DEF Matches, Owned
  <2> QED
    BY <2>2 DEF IndInv, CopyCurrent, Overwrites, HoldsLease
<1> QED
  BY <1>1, IndInvHolds, PTL

(* The only three ways a row changes: a call whose WHERE clause matched, a *)
(* claim of a due row, or the insertion of a row that was not there.       *)
LEMMA RowChanges ==
    ASSUME IndInv, [Next]_vars, NEW j \in Jobs, row'[j] # row[j]
    PROVE  \/ \E c \in Workers \cup Operators :
                /\ call[c].at = "write" /\ call[c].op # "enqueue" /\ call[c].job = j
                /\ Matches(c, row[j]) /\ Return(c)
           \/ row[j].status = "pending"
           \/ row[j].status = "absent"
<1>0. row \in [Jobs -> Row]
  BY DEF IndInv, TypeOK
<1>1. ASSUME NEW w \in Workers, WorkerStep(w) PROVE row[j].status = "pending"
  <2>1. Claim(w)
    BY <1>1 DEF WorkerStep, Begin
  <2>2. PICK i \in Jobs : /\ Due(i, call[w].now)
                          /\ Store(i, Claimed(row[i], w, call[w].now), "claimed")
    BY <2>1 DEF Claim
  <2>3. i = j
    BY <1>0, <2>2 DEF Store
  <2> QED
    BY <2>2, <2>3 DEF Due
<1>2. ASSUME NEW o \in Operators, OperatorStep(o) PROVE FALSE
  BY <1>2 DEF OperatorStep, Begin
<1>3. ASSUME NEW c \in Planners, PlannerStep(c) PROVE row[j].status = "absent"
  <2>1. Add(c)
    BY <1>3 DEF PlannerStep, Look, Begin
  <2>2. /\ row[call[c].job].status = "absent"
        /\ \E u : row' = [row EXCEPT ![call[c].job] = u]
    BY <2>1 DEF Add, Store
  <2> QED
    BY <1>0, <2>2
<1>4. ASSUME NEW c \in Workers \cup Operators, Read(c) \/ Write(c)
      PROVE  /\ call[c].at = "write" /\ call[c].op # "enqueue" /\ call[c].job = j
             /\ Matches(c, row[j]) /\ Return(c)
  <2>1. Write(c)
    BY <1>4 DEF Read
  <2>2. /\ call[c].at = "write" /\ call[c].op # "enqueue" /\ Return(c)
        /\ Matches(c, row[call[c].job])
        /\ \E u : row' = [row EXCEPT ![call[c].job] = u]
    BY <2>1 DEF Write, Store
  <2>3. call[c].job = j
    BY <1>0, <2>2
  <2> QED
    BY <2>2, <2>3
<1>5. ASSUME NEW c \in Callers, Abandon(c) PROVE FALSE
  BY <1>5 DEF Abandon
<1>6. CASE Tick
  BY <1>6 DEF Tick
<1>7. CASE UNCHANGED vars
  BY <1>7 DEF vars
<1> QED
  BY <1>1, <1>2, <1>3, <1>4, <1>5, <1>6, <1>7 DEF Next

(* A WHERE clause names an unfinished job; a worker's names its own. *)
LEMMA MatchedRow ==
    ASSUME IndInv, NEW c \in Workers \cup Operators, NEW j \in Jobs,
           call[c].at = "write", call[c].op # "enqueue", call[c].job = j,
           Matches(c, row[j])
    PROVE  /\ row[j].status \notin Terminal
           /\ row[j].status = "running" =>
                 row[j].owner = c \/ row[j].lease <= clock
<1>1. /\ c \in Callers /\ call[c].op \in Op /\ call[c].now \in 0..clock
      /\ Accepts(call[c].op, call[c].copy, c, call[c].now)
  BY CallsTyped DEF Callers, IndInv, CallOK
<1>2. row[j].lease \in Int /\ clock \in Int
  BY TimeBounds DEF IndInv, TypeOK, Row, Time
<1>3. CASE call[c].op \in Owned
  <2>1. HoldsLease(row[j], c, call[c].now)
    BY <1>3 DEF Matches, Owned
  <2> QED
    BY <2>1 DEF HoldsLease, Terminal
<1>4. CASE call[c].op = "reclaim_expired"
  <2>1. row[j].status = "running" /\ row[j].lease <= call[c].now
    BY <1>4 DEF Matches, Owned
  <2> QED
    BY <1>1, <1>2, <2>1 DEF Terminal
<1>5. CASE call[c].op = "cancel"
  <2>1. row[j].status = "pending"
    BY <1>5 DEF Matches, Owned
  <2> QED
    BY <2>1 DEF Terminal
<1> QED
  BY <1>1, <1>3, <1>4, <1>5 DEF Accepts, Op, Owned

(* A job ends once.  No late heartbeat, answer, reclaim, cancellation or   *)
(* planner changes a finished row.                                         *)
THEOREM EndedForGood == Spec => EndsOnce
<1>1. IndInv /\ [Next]_vars =>
         [\A j \in Jobs : row[j].status \in Terminal => row'[j] = row[j]]_vars
  <2> SUFFICES ASSUME IndInv, [Next]_vars, NEW j \in Jobs, row[j].status \in Terminal,
                      row'[j] # row[j]
               PROVE  FALSE
    OBVIOUS
  <2> QED
    BY RowChanges, MatchedRow DEF Terminal
<1> QED
  BY <1>1, IndInvHolds, PTL DEF Spec, EndsOnce

(* A worker loses its job only by its own call, or once the time every     *)
(* caller reads has reached the end of its lease.                          *)
THEOREM LeasesRespected == Spec => LeaseRespected
<1>1. IndInv /\ [Next]_vars => [\A j \in Jobs : KeepsLease(j)]_vars
  <2> SUFFICES ASSUME IndInv, [Next]_vars, NEW j \in Jobs,
                      row[j].status = "running", row'[j].owner # row[j].owner
               PROVE  \/ call[row[j].owner].at = "write" /\ call'[row[j].owner] = Idle
                      \/ row[j].lease <= clock
    BY DEF KeepsLease
  <2>1. row'[j] # row[j] /\ row[j].status = "running"
    OBVIOUS
  <2>2. PICK c \in Workers \cup Operators :
                /\ call[c].at = "write" /\ call[c].op # "enqueue" /\ call[c].job = j
                /\ Matches(c, row[j]) /\ Return(c)
    BY <2>1, RowChanges
  <2>3. row[j].owner = c \/ row[j].lease <= clock
    BY <2>1, <2>2, MatchedRow
  <2>4. c \in Callers /\ call \in [Callers -> Call]
    BY DEF Callers, IndInv, TypeOK
  <2>5. call'[c] = Idle
    BY <2>2, <2>4 DEF Return
  <2> QED
    BY <2>2, <2>3, <2>5
<1> QED
  BY <1>1, IndInvHolds, PTL DEF Spec, LeaseRespected

---------------------------------------------------------------------------
(* The log.  It tells the row as long as no two planners race: the planner *)
(* that loses appends its event to whatever the row has become.            *)

OnePlanner == \A c, d \in Planners : c = d

(* A planner that is about to insert found no row, and there is none yet.  *)
PlannerFirst(c) ==
    /\ call[c].at # "idle" => call[c].op = "enqueue"
    /\ call[c].at = "write" => row[call[c].job].status = "absent"

LogTrue ==
    /\ LogTellsRow
    /\ EnqueuedOnce
    /\ \A c \in Planners : PlannerFirst(c)

LEMMA UpdatedTells ==
    ASSUME NEW r \in Row, NEW op \in Owned \cup {"cancel", "reclaim_expired"},
           NEW c \in Callers, NEW now \in Nat, Accepts(op, r, c, now)
    PROVE  LET u == Updated(op, r, now)
               k == EventKind(op, r)
           IN  /\ u.status \in StatusAfter([kind |-> k, attempt |-> u.attempts])
               /\ u.status # "absent" /\ k # "enqueued"
<1> USE DEF Row, Status, Terminal, Time, NoTime, Owned, StatusAfter
<1>0. r.attempts \in Nat /\ MaxAttempts \in Nat
  BY AttemptsPositive
<1>1. CASE op = "heartbeat"
  BY <1>1 DEF Updated, Accepts, HoldsLease, EventKind
<1>2. CASE op = "succeed"
  BY <1>2 DEF Updated, Unleased, EventKind
<1>3. CASE op = "cancel"
  BY <1>3 DEF Updated, Unleased, EventKind
<1>4. CASE op = "fail_or_retry"
  <2>1. PICK n \in Int : n = now + Backoff(r.attempts)
    BY BackoffPositive, DelaysPositive
  <2>2. CASE r.attempts >= MaxAttempts
    BY <1>4, <2>2 DEF Updated, Unleased, EventKind
  <2>3. CASE ~(r.attempts >= MaxAttempts)
    <3>1. /\ Updated(op, r, now) = [Unleased(r, "pending") EXCEPT !.next = n]
          /\ EventKind(op, r) = "retried"
      BY <1>4, <2>1, <2>3 DEF Updated, EventKind
    <3> QED
      BY <2>1, <3>1 DEF Unleased
  <2> QED
    BY <2>2, <2>3
<1>5. CASE op = "reclaim_expired"
  <2>1. CASE r.attempts >= MaxAttempts
    BY <1>0, <1>5, <2>1 DEF Updated, Unleased, EventKind
  <2>2. CASE ~(r.attempts >= MaxAttempts)
    BY <1>0, <1>5, <2>2 DEF Updated, Unleased, EventKind
  <2> QED
    BY <2>1, <2>2
<1> QED
  BY <1>1, <1>2, <1>3, <1>4, <1>5 DEF Owned

LEMMA LogKept ==
    ASSUME IndInv, LogTrue, row' = row, log' = log, NEW c \in Callers, NEW k,
           call' = [call EXCEPT ![c] = k],
           c \in Planners => /\ k.at # "idle" => k.op = "enqueue"
                             /\ k.at = "write" => row[k.job].status = "absent"
    PROVE  LogTrue'
<1>1. \A d \in Callers : call'[d] = IF d = c THEN k ELSE call[d]
  BY DEF IndInv, TypeOK
<1>2. ASSUME NEW d \in Planners PROVE PlannerFirst(d)'
  <2>1. d \in Callers
    BY DEF Callers
  <2> QED
    BY <1>1, <2>1 DEF LogTrue, PlannerFirst
<1>3. LogTellsRow' /\ EnqueuedOnce'
  BY DEF LogTrue, LogTellsRow, EnqueuedOnce
<1> QED
  BY <1>2, <1>3 DEF LogTrue

LEMMA LogStored ==
    ASSUME IndInv, LogTrue, OnePlanner,
           NEW c \in Callers, NEW j \in Jobs, NEW u \in Row, NEW k \in Kind,
           Store(j, u, k), Return(c), u.status # "absent",
           u.status \in StatusAfter([kind |-> k, attempt |-> u.attempts]),
           k = "enqueued" <=> row[j].status = "absent",
           row[j].status = "absent" => c \in Planners
    PROVE  LogTrue'
<1>1. PICK e \in Event : e = [kind |-> k, attempt |-> u.attempts]
  BY DEF Event, Row
<1>2. e.kind = k /\ e.attempt = u.attempts /\ u.status \in StatusAfter(e)
  BY <1>1
<1>3. /\ \A i \in Jobs : row'[i] = IF i = j THEN u ELSE row[i]
      /\ \A i \in Jobs : log'[i] = IF i = j THEN Append(log[j], e) ELSE log[i]
  BY <1>1 DEF IndInv, TypeOK, Store
<1>4. PICK old \in Seq(Event), n \in Nat : old = log[j] /\ n = Len(old)
  BY DEF IndInv, TypeOK
<1>5. PICK new \in Seq(Event) : new = log'[j] /\ new = Append(old, e)
  <2>1. Append(old, e) \in Seq(Event)
    BY <1>4
  <2>2. log'[j] = Append(old, e)
    BY <1>3, <1>4
  <2> QED
    BY <2>1, <2>2
<1>6. /\ Len(new) = n + 1 /\ new[n + 1] = e /\ new # << >>
      /\ \A i \in 1 .. n : new[i] = old[i]
  BY <1>4, <1>5
<1>7. n = 0 <=> row[j].status = "absent"
  <2>1. old = << >> <=> n = 0
    BY <1>4
  <2> QED
    BY <1>4, <2>1 DEF LogTrue, LogTellsRow
<1>8. LogTellsRow'
  <2>1. ASSUME NEW i \in Jobs, i # j
        PROVE  /\ log'[i] = << >> <=> row'[i].status = "absent"
               /\ log'[i] # << >> =>
                     LET last == log'[i][Len(log'[i])]
                     IN  row'[i].status \in StatusAfter(last) /\ row'[i].attempts = last.attempt
    BY <1>3, <2>1 DEF LogTrue, LogTellsRow
  <2>2. row'[j] = u
    BY <1>3
  <2>3. /\ log'[j] # << >> /\ row'[j].status # "absent"
        /\ LET last == log'[j][Len(log'[j])]
           IN  row'[j].status \in StatusAfter(last) /\ row'[j].attempts = last.attempt
    BY <1>2, <1>5, <1>6, <2>2
  <2> QED
    BY <2>1, <2>3 DEF LogTellsRow, StatusAfter
<1>9. EnqueuedOnce'
  <2>1. \A i \in DOMAIN new : new[i].kind = "enqueued" <=> i = 1
    <3>1. \A i \in 1 .. n : old[i].kind = "enqueued" <=> i = 1
      BY <1>4 DEF LogTrue, EnqueuedOnce
    <3>2. k = "enqueued" <=> n + 1 = 1
      BY <1>4, <1>7
    <3> QED
      BY <1>2, <1>4, <1>6, <3>1, <3>2
  <2>2. \A i \in Jobs : log'[i] = IF i = j THEN new ELSE log[i]
    BY <1>3, <1>5
  <2> QED
    BY <2>1, <2>2 DEF LogTrue, EnqueuedOnce
<1>10. ASSUME NEW d \in Planners PROVE PlannerFirst(d)'
  <2>1. d \in Callers /\ Idle.at = "idle"
    BY DEF Callers, Idle
  <2>2. call'[d] = IF d = c THEN Idle ELSE call[d]
    BY <2>1 DEF IndInv, TypeOK, Return
  <2>3. CASE d = c
    BY <2>1, <2>2, <2>3 DEF PlannerFirst
  <2>4. CASE d # c
    <3>1. call'[d] = call[d] /\ PlannerFirst(d)
      BY <2>2, <2>4 DEF LogTrue
    <3>2. SUFFICES ASSUME call[d].at = "write" PROVE row'[call[d].job].status = "absent"
      BY <3>1 DEF PlannerFirst
    <3>3. call[d].op = "enqueue" /\ row[call[d].job].status = "absent"
      BY <3>1, <3>2 DEF PlannerFirst
    <3>4. call[d].job \in Jobs
      BY <2>1, <3>2, <3>3 DEF IndInv, CallOK
    <3>5. call[d].job # j
      BY <2>4, <3>3 DEF OnePlanner
    <3> QED
      BY <1>3, <3>3, <3>4, <3>5
  <2> QED
    BY <2>3, <2>4
<1> QED
  BY <1>8, <1>9, <1>10 DEF LogTrue

LEMMA WriteKeepsLog ==
    ASSUME IndInv, LogTrue, OnePlanner, NEW c \in Workers \cup Operators, Write(c)
    PROVE  LogTrue'
<1> DEFINE k == call[c]
           u == Updated(k.op, k.copy, k.now)
           e == EventKind(k.op, k.copy)
<1>1. c \in Callers /\ c \notin Planners /\ k \in Call /\ k.copy \in Row
  BY CallsTyped, CallersApart DEF Callers
<1>2. /\ k.at = "write" /\ k.op # "enqueue" /\ RowOK(k.copy)
      /\ Accepts(k.op, k.copy, c, k.now) /\ k.now \in Nat
  BY <1>1, TimeBounds DEF Write, IndInv, CallOK, TypeOK
<1>3. k.op \in Owned \cup {"cancel", "reclaim_expired"} /\ Return(c)
  BY <1>1, <1>2 DEF Accepts, Call, Op, Owned, Write
<1>4. k.job \in Jobs
  BY <1>1, <1>2, <1>3 DEF IndInv, CallOK, Owned
<1>5. CASE UNCHANGED <<row, log, beats>>
  BY <1>1, <1>3, <1>5, LogKept DEF Return
<1>6. CASE Matches(c, row[k.job]) /\ Store(k.job, u, e)
  <2>1. row[k.job].status # "absent"
    BY <1>3, <1>6 DEF Matches, HoldsLease, Owned
  <2>2. /\ u \in Row /\ e \in Kind
        /\ u.status \in StatusAfter([kind |-> e, attempt |-> u.attempts])
        /\ u.status # "absent" /\ e # "enqueued"
    BY <1>1, <1>2, <1>3, UpdatedRow, UpdatedTells
  <2> HIDE DEF u, e, k
  <2> QED
    BY <1>1, <1>3, <1>4, <1>6, <2>1, <2>2, LogStored
<1> QED
  BY <1>5, <1>6 DEF Write

LEMMA ClaimKeepsLog ==
    ASSUME IndInv, LogTrue, OnePlanner, NEW w \in Workers, Claim(w)
    PROVE  LogTrue'
<1> DEFINE now == call[w].now
<1>1. w \in Callers /\ w \notin Planners /\ Return(w)
  BY CallersApart DEF Callers, Claim
<1>2. now \in Nat
  BY <1>1, TimeBounds DEF IndInv, CallOK, TypeOK, Claim
<1>3. CASE UNCHANGED <<row, log>>
  BY <1>1, <1>3, LogKept DEF Return
<1>4. ASSUME NEW j \in Jobs, Due(j, now), row[j].attempts < MaxAttempts,
             Store(j, Claimed(row[j], w, now), "claimed")
      PROVE  LogTrue'
  <2> DEFINE u == Claimed(row[j], w, now)
  <2>1. row[j] \in Row /\ RowOK(row[j]) /\ row[j].status = "pending"
    BY <1>4 DEF IndInv, TypeOK, Due
  <2>2. u \in Row /\ u.status = "running"
    BY <1>2, <1>4, <2>1, ClaimedRow
  <2> HIDE DEF u
  <2>3. /\ u.status \in StatusAfter([kind |-> "claimed", attempt |-> u.attempts])
        /\ "claimed" \in Kind
    BY <2>2 DEF StatusAfter, Kind
  <2> QED
    BY <1>1, <1>4, <2>1, <2>2, <2>3, LogStored DEF u
<1> QED
  BY <1>3, <1>4 DEF Claim

LEMMA AddKeepsLog ==
    ASSUME IndInv, LogTrue, OnePlanner, NEW c \in Planners, Add(c)
    PROVE  LogTrue'
<1> DEFINE j == call[c].job
           now == call[c].now
           u(s) == [NoRow EXCEPT !.status = "pending", !.sched = s, !.since = now]
<1>1. /\ c \in Callers /\ call[c].at = "write" /\ call[c].op = "enqueue"
      /\ Return(c)
  BY DEF Callers, Add
<1>2. j \in Jobs /\ now \in Time /\ row[j].status = "absent"
  BY <1>1, CallsTyped DEF IndInv, CallOK, LogTrue, PlannerFirst, Time
<1>3. PICK s \in {now, now + 1} : Store(j, u(s), "enqueued")
  BY <1>2 DEF Add
<1>4. s \in Time /\ "pending" \in Status /\ "enqueued" \in Kind
  BY <1>2 DEF Status, Time, Kind
<1>5. u(s) \in Row /\ u(s).status = "pending"
  BY <1>2, <1>4, IdleTyped DEF Row
<1> HIDE DEF u, j, now
<1>6. u(s).status \in StatusAfter([kind |-> "enqueued", attempt |-> u(s).attempts])
  BY <1>5 DEF StatusAfter
<1> QED
  BY <1>1, <1>2, <1>3, <1>4, <1>5, <1>6, LogStored

(* A planner's own calls, up to the insertion. *)
LEMMA PlanningKeepsLog ==
    ASSUME IndInv, LogTrue, NEW c \in Planners,
           Look(c) \/ \E j \in Jobs : Begin(c, "enqueue", j)
    PROVE  LogTrue'
<1>1. c \in Callers /\ call[c] \in Call /\ UNCHANGED <<row, log>>
  BY CallsTyped DEF Callers, Look, Begin
<1>2. CASE \E j \in Jobs : Begin(c, "enqueue", j)
  <2>1. PICK j \in Jobs : Begin(c, "enqueue", j)
    BY <1>2
  <2> DEFINE k == [Idle EXCEPT !.at = "begun", !.op = "enqueue", !.job = j, !.now = clock]
  <2>2. k.at = "begun" /\ k.op = "enqueue" /\ call' = [call EXCEPT ![c] = k]
    BY <2>1 DEF Begin, Idle
  <2> HIDE DEF k
  <2> QED
    BY <1>1, <2>2, LogKept
<1>3. CASE Look(c) /\ Return(c)
  <2>1. Idle.at = "idle"
    BY DEF Idle
  <2> QED
    BY <1>1, <1>3, <2>1, LogKept DEF Return
<1>4. CASE /\ Look(c) /\ row[call[c].job].status = "absent"
           /\ call' = [call EXCEPT ![c].at = "write"]
  <2> DEFINE k == [call[c] EXCEPT !.at = "write"]
  <2>1. /\ k.op = "enqueue" /\ row[k.job].status = "absent"
        /\ call' = [call EXCEPT ![c] = k]
    BY <1>1, <1>4 DEF Look, Call
  <2> HIDE DEF k
  <2> QED
    BY <1>1, <2>1, LogKept
<1> QED
  BY <1>2, <1>3, <1>4 DEF Look

LEMMA NextKeepsLog == IndInv /\ LogTrue /\ OnePlanner /\ [Next]_vars => LogTrue'
<1> SUFFICES ASSUME IndInv, LogTrue, OnePlanner, [Next]_vars PROVE LogTrue'
  OBVIOUS
<1>0. Idle.at = "idle"
  BY DEF Idle
<1>1. ASSUME NEW c \in Workers \cup Operators, NEW op \in Op, NEW j \in Jobs \cup {0},
             Begin(c, op, j)
      PROVE  LogTrue'
  <2>1. c \in Callers /\ c \notin Planners
    BY CallersApart DEF Callers
  <2> QED
    BY <1>1, <2>1, LogKept DEF Begin
<1>2. ASSUME NEW w \in Workers, WorkerStep(w) PROVE LogTrue'
  <2>1. "claim_next" \in Op /\ Owned \subseteq Op
    BY DEF Op, Owned
  <2> QED
    BY <1>1, <1>2, <2>1, ClaimKeepsLog DEF WorkerStep
<1>3. ASSUME NEW o \in Operators, OperatorStep(o) PROVE LogTrue'
  <2>1. {"cancel", "reclaim_expired"} \subseteq Op
    BY DEF Op
  <2> QED
    BY <1>1, <1>3, <2>1 DEF OperatorStep
<1>4. ASSUME NEW c \in Planners, PlannerStep(c) PROVE LogTrue'
  BY <1>4, PlanningKeepsLog, AddKeepsLog DEF PlannerStep
<1>5. ASSUME NEW c \in Workers \cup Operators, Read(c) PROVE LogTrue'
  <2>1. c \in Callers /\ c \notin Planners /\ UNCHANGED <<row, log>>
    BY <1>5, CallersApart DEF Callers, Read
  <2>2. PICK k : call' = [call EXCEPT ![c] = k]
    <3>1. \/ Return(c)
          \/ call' = [call EXCEPT ![c] = [@ EXCEPT !.at = "write",
                                                   !.copy = row[call[c].job]]]
      BY <1>5 DEF Read
    <3> QED
      BY <3>1 DEF Return
  <2> QED
    BY <2>1, <2>2, LogKept
<1>6. ASSUME NEW c \in Callers, Abandon(c) PROVE LogTrue'
  BY <1>0, <1>6, LogKept DEF Abandon, Return
<1>7. CASE Tick \/ UNCHANGED vars
  BY <1>7 DEF Tick, vars, LogTrue, LogTellsRow, EnqueuedOnce, PlannerFirst
<1> QED
  BY <1>2, <1>3, <1>4, <1>5, <1>6, <1>7, WriteKeepsLog DEF Next

LEMMA InitLog == Init => LogTrue
<1>1. Idle.at = "idle" /\ NoRow.status = "absent"
  BY DEF Idle, NoRow
<1> QED
  BY <1>1 DEF Init, LogTrue, LogTellsRow, EnqueuedOnce, PlannerFirst, Callers

(* With one planner, the log tells the row of every job: whatever calls    *)
(* interleave, the last event names the status and the attempt it holds.   *)
THEOREM LogTold == ASSUME OnePlanner PROVE Spec => []LogTellsRow
<1>1. LogTrue => LogTellsRow
  BY DEF LogTrue
<1>2. LogTrue /\ IndInv /\ [Next]_vars => LogTrue'
  BY NextKeepsLog
<1> QED
  BY <1>1, <1>2, InitLog, IndInvHolds, PTL DEF Spec

(* With one planner, a job is enqueued once: it takes two to race.         *)
THEOREM AloneEnqueuesOnce == ASSUME OnePlanner PROVE Spec => []EnqueuedOnce
<1>1. LogTrue => EnqueuedOnce
  BY DEF LogTrue
<1>2. LogTrue /\ IndInv /\ [Next]_vars => LogTrue'
  BY NextKeepsLog
<1> QED
  BY <1>1, <1>2, InitLog, IndInvHolds, PTL DEF Spec


=============================================================================
